--------------------------- MODULE MCCritSection ---------------------------
(* Model-checking instances of CritSection. *)
EXTENDS CritSection, TLC

\* With debug info and one spin, and a semaphore that cannot always be created.
MCSections ==
    {[HasDebugInfo |-> TRUE, SpinCount |-> 1, CreateFails |-> FALSE],
     [HasDebugInfo |-> FALSE, SpinCount |-> 0, CreateFails |-> TRUE]}
=============================================================================
