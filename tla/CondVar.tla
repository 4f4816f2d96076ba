------------------------------ MODULE CondVar ------------------------------
(***************************************************************************)
(* Condition variables of dlls/ntdll/sync.c, over the promises of AddrWait *)
(* and of a reader/writer lock (RWLock; a critical section is one used in  *)
(* exclusive mode only).                                                   *)
(*                                                                         *)
(* The program around them is the textbook one: consumers wait, under the  *)
(* lock, until there is an item, and producers add an item under the lock  *)
(* and call a wake function after they have released it.  Threads with     *)
(* shared access wait for an item and look at it.                          *)
(***************************************************************************)
EXTENDS AddrWait, Naturals, FiniteSets

CONSTANTS
    Modes,       \* lock modes used with the condition variable
    WakeKinds,   \* subset of {"single", "all"}: wake functions used
    Modulus,     \* the counter in variable->Ptr wraps at 2^32
    MaxItems     \* bound on the items produced (model only)

ASSUME CondVarAssumption ==
    /\ Addrs = {"variable"}
    /\ IsFiniteSet(Threads)
    /\ Modes \subseteq {"shared", "exclusive"}
    /\ WakeKinds \subseteq {"single", "all"}
    /\ Modulus \in Nat /\ MaxItems \in Nat
    /\ MaxItems < Modulus

VARIABLES
    hold,       \* the state of the lock, as in RWLock
    Ptr,        \* variable->Ptr, an int
    value,      \* value[t]: Ptr as RtlSleepConditionVariable* has read it
    mode,       \* mode[t]: how t holds, or asked for, the lock
    items,      \* what the program waits for
    produced,   \* items produced so far
    owed,       \* threads that called Sleep before some RtlWakeAllConditionVariable
    pc

RW == INSTANCE RWLock

vars == <<avars, hold, Ptr, value, mode, items, produced, owed, pc>>
progVars == <<mode, items, produced>>

Goto(t, from, to) ==
    /\ pc[t] = from
    /\ pc' = [pc EXCEPT ![t] = to]

\* RtlInitializeConditionVariable
Init ==
    /\ AInit
    /\ RW!LInit
    /\ Ptr = 0
    /\ value = [t \in Threads |-> 0]
    /\ mode = [t \in Threads |-> "none"]
    /\ items = 0 /\ produced = 0
    /\ owed = {}
    /\ pc = [t \in Threads |-> "idle"]

Lock(t, m) ==
    \/ m = "exclusive" /\ RW!AcquireExclusive(t)
    \/ m = "shared" /\ RW!AcquireShared(t)

-----------------------------------------------------------------------------
(* The program *)

\* A thread enters to wait for an item, or to add one.
EnterMonitor(t, m) ==
    /\ \/ Goto(t, "idle", "locked")
       \/ Goto(t, "idle", "producing") /\ m = "exclusive" /\ produced < MaxItems
    /\ Lock(t, m)
    /\ mode' = [mode EXCEPT ![t] = m]
    /\ UNCHANGED <<avars, Ptr, value, items, produced, owed>>

\* The item is there: take it, or look at it, and leave.
Consume(t) ==
    /\ Goto(t, "locked", "idle")
    /\ items > 0
    /\ items' = IF mode[t] = "exclusive" THEN items - 1 ELSE items
    /\ RW!ReleaseHold(t)
    /\ mode' = [mode EXCEPT ![t] = "none"]
    /\ UNCHANGED <<avars, Ptr, value, produced, owed>>

\* Add an item, leave, and call a wake function: one sleeper is enough unless
\* there are threads with shared access, which leave the item where it is.
Produce(t, kind) ==
    /\ kind = "single" => \A u \in Threads : mode[u] # "shared"
    /\ Goto(t, "producing", IF kind = "all" THEN "wake_all" ELSE "wake_single")
    /\ produced' = produced + 1
    /\ items' = items + 1
    /\ RW!ReleaseHold(t)
    /\ mode' = [mode EXCEPT ![t] = "none"]
    /\ UNCHANGED <<avars, Ptr, value, owed>>

-----------------------------------------------------------------------------
(* RtlSleepConditionVariableCS, RtlSleepConditionVariableSRW *)

\* int value = *(int *)&variable->Ptr
SleepConditionVariable(t) ==
    /\ Goto(t, "locked", "c_unlock")
    /\ items = 0
    /\ value' = [value EXCEPT ![t] = Ptr]
    /\ UNCHANGED <<avars, hold, Ptr, progVars, owed>>

SleepUnlock(t) ==
    /\ Goto(t, "c_unlock", "c_wait")
    /\ RW!ReleaseHold(t)
    /\ UNCHANGED <<avars, Ptr, value, progVars, owed>>

\* Variant: the value is read after the lock was released.
SleepWaitReadsLate(t) ==
    /\ Goto(t, "c_wait", "c_sleep") /\ Register(t, "variable")
    /\ value' = [value EXCEPT ![t] = 0]
    /\ UNCHANGED <<hold, Ptr, progVars, owed>>

\* RtlWaitOnAddress( &variable->Ptr, &value ): equal, or changed meanwhile.
SleepWait(t) ==
    /\ \/ Goto(t, "c_wait", "c_sleep") /\ Ptr = value[t] /\ Register(t, "variable")
       \/ Goto(t, "c_wait", "c_relock") /\ Ptr # value[t] /\ UNCHANGED avars
    /\ value' = [value EXCEPT ![t] = 0]
    /\ owed' = IF Ptr = value[t] THEN owed ELSE owed \ {t}
    /\ UNCHANGED <<hold, Ptr, progVars>>

SleepWoken(t) ==
    /\ Goto(t, "c_sleep", "c_relock")
    /\ Return(t)
    /\ owed' = owed \ {t}
    /\ UNCHANGED <<hold, Ptr, value, progVars>>

SleepTimeout(t) ==
    /\ Goto(t, "c_sleep", "c_relock")
    /\ Withdraw(t)
    /\ owed' = owed \ {t}
    /\ UNCHANGED <<hold, Ptr, value, progVars>>

\* "Afterwards it enters the SRWLock again with the same access rights".
SleepRelock(t) ==
    /\ Goto(t, "c_relock", "locked")
    /\ Lock(t, mode[t])
    /\ UNCHANGED <<avars, Ptr, value, progVars, owed>>

-----------------------------------------------------------------------------
(* RtlWakeConditionVariable, RtlWakeAllConditionVariable *)

\* Variant: does not count.
IncrementNot == UNCHANGED Ptr

\* InterlockedIncrement wraps around.
Increment == Ptr' = IF Ptr = Modulus - 1 THEN 0 ELSE Ptr + 1

RtlWakeConditionVariable(t) ==
    /\ Goto(t, "wake_single", "single")
    /\ Increment
    /\ UNCHANGED <<avars, hold, value, progVars, owed>>

WakeSingle(t) ==
    /\ Goto(t, "single", "idle")
    /\ \/ Release("variable")
       \/ Waiters("variable") = {} /\ UNCHANGED avars
    /\ UNCHANGED <<hold, Ptr, value, progVars, owed>>

RtlWakeAllConditionVariable(t) ==
    /\ Goto(t, "wake_all", "all")
    /\ Increment
    /\ owed' = {u \in Threads : pc[u] \in {"c_unlock", "c_wait", "c_sleep"}}
    /\ UNCHANGED <<avars, hold, value, progVars>>

\* Variant: wakes one waiter.
WakeAllWakesOne(t) ==
    /\ Goto(t, "all", "idle")
    /\ \/ Release("variable")
       \/ Waiters("variable") = {} /\ UNCHANGED avars
    /\ UNCHANGED <<hold, Ptr, value, progVars, owed>>

WakeAll(t) ==
    /\ Goto(t, "all", "idle")
    /\ ReleaseAll("variable")
    /\ UNCHANGED <<hold, Ptr, value, progVars, owed>>

-----------------------------------------------------------------------------
\* The code a thread runs until it is out of the monitor again.
Step(t) ==
    \/ Consume(t) \/ SleepConditionVariable(t)
    \/ SleepUnlock(t) \/ SleepWait(t) \/ SleepWoken(t) \/ SleepRelock(t)
    \/ RtlWakeConditionVariable(t) \/ WakeSingle(t)
    \/ RtlWakeAllConditionVariable(t) \/ WakeAll(t)

Next ==
    \E t \in Threads :
        \/ \E m \in Modes : EnterMonitor(t, m)
        \/ \E k \in WakeKinds : Produce(t, k)
        \/ Step(t)
        \/ SleepTimeout(t)

Spec == Init /\ [][Next]_vars

\* The kernel runs every thread, and the lock is given to a thread that wants
\* it again and again.  Nothing makes a thread enter the monitor.
FairSpec ==
    /\ Spec
    /\ \A t \in Threads :
        /\ WF_vars(Step(t)) /\ WF_vars(\E k \in WakeKinds : Produce(t, k))
        /\ SF_vars(SleepRelock(t))

-----------------------------------------------------------------------------
(* Properties *)

Access == {"none", "shared", "exclusive"}
Places == {"idle", "locked", "producing", "c_unlock", "c_wait", "c_sleep", "c_relock",
           "wake_single", "single", "wake_all", "all"}

\* Types: the counter behind the condition variable, the lock and the items.
TypeOK ==
    /\ waiting \in [Threads -> Addrs \cup {NoAddr}] /\ released \subseteq Threads
    /\ hold \in [Threads -> Access]
    /\ Ptr \in 0..(Modulus - 1) /\ value \in [Threads -> 0..(Modulus - 1)]
    /\ mode \in [Threads -> Access]
    /\ items \in 0..MaxItems /\ produced \in 0..MaxItems
    /\ owed \subseteq Threads
    /\ pc \in [Threads -> Places]

\* "Atomically releases the critical section and suspends the thread": no
\* signal is lost.  While there is an item and a thread sleeps, a wake call
\* is on its way or some thread is awake that will look at the items.
NoLostSignal ==
    items > 0 /\ Waiters("variable") # {} =>
        \E t \in Threads :
            \/ pc[t] \in {"wake_single", "single", "wake_all", "all", "c_relock", "locked"}
            \/ t \in released

\* RtlWakeAllConditionVariable wakes everybody who had called Sleep before:
\* once it has returned, none of them is asleep.
WakeAllReachesAll ==
    \A t \in owed : waiting[t] = "variable" => \E u \in Threads : pc[u] = "all"

-----------------------------------------------------------------------------
(* The inductive invariant *)

\* A thread's lock, access rights and registration fit its place in the code.
LocalState ==
    /\ \A t, u \in Threads : hold[t] = "exclusive" /\ t # u => hold[u] = "none"
    /\ \A t \in Threads :
        /\ pc[t] \in {"locked", "producing", "c_unlock"} <=> hold[t] # "none"
        /\ hold[t] # "none" => hold[t] = mode[t]
        /\ pc[t] \in {"c_wait", "c_sleep", "c_relock"} => mode[t] # "none"
        /\ pc[t] = "producing" => mode[t] = "exclusive" /\ produced < MaxItems
        /\ waiting[t] # NoAddr \/ t \in released => pc[t] = "c_sleep"
        /\ t \in released => waiting[t] = NoAddr

\* Threads that have produced and not yet incremented the counter.
Calling == {t \in Threads : pc[t] \in {"wake_single", "wake_all"}}

\* Every item is followed by one increment, so that the counter cannot wrap.
CounterExact == items <= produced /\ Ptr + Cardinality(Calling) = produced

\* Threads that have called Sleep and are not registered yet.
GoingToSleep == {t \in Threads : pc[t] \in {"c_unlock", "c_wait"}}

\* What a thread knows that finds the counter unchanged: the items there are
\* have come since it looked, and their producers have still to call.
UnchangedMeansPending ==
    \A t \in GoingToSleep :
        /\ value[t] <= Ptr
        /\ value[t] = Ptr => items <= Cardinality(Calling)
        /\ value[t] = Ptr /\ items > 0 /\ mode[t] = "shared" =>
                \E u \in Threads : pc[u] = "wake_all"

\* Threads with a single wake-up to give, and threads that are awake and will
\* take an item.
Takers ==
    {t \in Threads :
        \/ pc[t] \in {"wake_single", "single"}
        \/ mode[t] = "exclusive" /\ (pc[t] \in {"c_relock", "locked"} \/ t \in released)}

WakeAllPending == \E t \in Threads : pc[t] \in {"wake_all", "all"}

\* While threads sleep, everybody will be woken, or there is somebody for
\* every item; a single wake-up may not go to a thread with shared access.
ItemsHaveTakers ==
    /\ Waiters("variable") # {} => WakeAllPending \/ items <= Cardinality(Takers)
    /\ \A t \in Waiters("variable") : mode[t] = "shared" /\ items > 0 => WakeAllPending

\* The threads RtlWakeAllConditionVariable has to reach: those that are not
\* registered yet will find that the counter has changed.
OwedWillWake ==
    \A t \in owed :
        /\ t \in GoingToSleep \/ pc[t] = "c_sleep"
        /\ t \in GoingToSleep => value[t] < Ptr

IInv ==
    /\ TypeOK
    /\ LocalState
    /\ CounterExact
    /\ UnchangedMeansPending
    /\ ItemsHaveTakers
    /\ OwedWillWake
    /\ WakeAllReachesAll

-----------------------------------------------------------------------------
\* With no more items to come, no thread sleeps for ever beside an item, unless
\* shared access to the lock is taken again and again: RWLock promises nothing
\* to a thread that then asks for exclusive access.
ItemsAreTaken ==
    \/ []<>(\E t \in Threads : hold[t] = "shared")
    \/ <>[](items = 0 \/ Waiters("variable") = {})
=============================================================================
