------------------------------ MODULE AddrWait ------------------------------
(***************************************************************************)
(* The state of RtlWaitOnAddress / RtlWakeAddressSingle /                  *)
(* RtlWakeAddressAll (dlls/ntdll/sync.c) as the locks built on top of them *)
(* see it, and the steps it can take: the comparison of the word and the   *)
(* registration of the waiter are one step with respect to every waker, a  *)
(* single wake-up releases one registered waiter of that address, a        *)
(* wake-all releases every waiter registered at that moment in one step,   *)
(* and a waiter returns only after it was released or after it withdrew.   *)
(* AddrWaitSpec makes a specification of them.                             *)
(***************************************************************************)
CONSTANTS
    Threads,   \* the threads of the process
    Addrs,     \* the addresses waited on
    NoAddr     \* not an address

ASSUME AddrWaitAssumption == NoAddr \notin Addrs

VARIABLES
    waiting,   \* waiting[t]: the address t is registered on, or NoAddr
    released   \* the threads that were woken up and have not returned yet

avars == <<waiting, released>>

AInit ==
    /\ waiting = [t \in Threads |-> NoAddr]
    /\ released = {}

Waiters(a) == {t \in Threads : waiting[t] = a}

\* The comparison succeeded: t is registered on a.
Register(t, a) ==
    /\ waiting[t] = NoAddr
    /\ t \notin released
    /\ waiting' = [waiting EXCEPT ![t] = a]
    /\ UNCHANGED released

\* RtlWakeAddressSingle releases one waiter of a, RtlWakeAddressAll all.
Release(a) ==
    \E t \in Waiters(a) :
        /\ waiting' = [waiting EXCEPT ![t] = NoAddr]
        /\ released' = released \cup {t}

ReleaseAll(a) ==
    /\ waiting' = [t \in Threads |-> IF waiting[t] = a THEN NoAddr ELSE waiting[t]]
    /\ released' = released \cup Waiters(a)

\* A released waiter returns to its caller.
Return(t) ==
    /\ t \in released
    /\ released' = released \ {t}
    /\ UNCHANGED waiting

\* A waiter withdraws its registration: its timeout expired, or it found an
\* alert that a wake-up of one of its earlier calls left behind.
Withdraw(t) ==
    /\ waiting[t] # NoAddr
    /\ waiting' = [waiting EXCEPT ![t] = NoAddr]
    /\ UNCHANGED released
=============================================================================
