------------------------------- MODULE RWLock -------------------------------
(***************************************************************************)
(* What a slim reader/writer lock promises: at every moment it is held by  *)
(* nobody, by one thread exclusively, or by any number of threads shared.  *)
(***************************************************************************)
CONSTANT Threads

VARIABLE hold   \* hold[t]: how the hold that t acquired is held, or "none"

LInit == hold = [t \in Threads |-> "none"]

AcquireExclusive(t) ==
    /\ \A u \in Threads : hold[u] = "none"
    /\ hold' = [hold EXCEPT ![t] = "exclusive"]

AcquireShared(t) ==
    /\ hold[t] = "none"
    /\ \A u \in Threads : hold[u] # "exclusive"
    /\ hold' = [hold EXCEPT ![t] = "shared"]

ReleaseHold(t) ==
    /\ hold[t] # "none"
    /\ hold' = [hold EXCEPT ![t] = "none"]

LNext ==
    \E t \in Threads : AcquireExclusive(t) \/ AcquireShared(t) \/ ReleaseHold(t)

LSpec == LInit /\ [][LNext]_hold
=============================================================================
