---------------------------- MODULE MCFsyncWait ----------------------------
(* Model-checking instances of FsyncWait: one object of every type. *)
EXTENDS FsyncWait, TLC

CONSTANTS t1, t2, t3, sem, mutex, auto, manual

\* Two threads that wait for every type of object, for any and for all, and
\* three of which one can take the semaphore from another's wait for all.
MCPrograms ==
    {[threads |-> {t1, t2}, any |-> {<<mutex>>, <<sem, manual>>},
      all |-> {<<mutex, sem>>, <<manual, auto, mutex>>}, alertable |-> TRUE, signals |-> 2, depth |-> 2],
     [threads |-> {t1, t2, t3}, any |-> {<<sem>>}, all |-> {<<mutex, sem>>},
      alertable |-> FALSE, signals |-> 1, depth |-> 1]}
=============================================================================
