----------------------------- MODULE MCFsyncShm -----------------------------
(* Model-checking instances of FsyncShm. *)
EXTENDS FsyncShm, TLC

CONSTANTS p1, p2, t1, t2, t3, o1, o2, o3, o4

MCOwner == t1 :> p1 @@ t2 :> p1 @@ t3 :> p2

MCPrograms ==
    {\* one thread that fills the map
     [threads |-> {t1}, budget |-> 7, closes_in_use |-> FALSE, requests |-> {"create", "close"}],
     \* two processes share objects
     [threads |-> {t1, t3}, budget |-> 4, closes_in_use |-> FALSE,
      requests |-> {"call", "create", "close", "duplicate"}],
     \* processes that share objects are killed
     [threads |-> {t1, t3}, budget |-> 3, closes_in_use |-> FALSE,
      requests |-> {"call", "create", "open", "kill"}],
     \* two threads of a process that is killed
     [threads |-> {t1, t2}, budget |-> 3, closes_in_use |-> FALSE,
      requests |-> {"call", "create", "close", "kill"}],
     \* handles are closed while they are in use
     [threads |-> {t1, t2}, budget |-> 3, closes_in_use |-> TRUE, requests |-> {"call", "create", "close"}]}

\* a handle is moved to another process
MCMove ==
    {[threads |-> {t1}, budget |-> 4, closes_in_use |-> FALSE,
      requests |-> {"create", "move"}]}
=============================================================================
