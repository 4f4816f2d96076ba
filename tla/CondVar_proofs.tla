--------------------------- MODULE CondVar_proofs ---------------------------
(***************************************************************************)
(* Machine-checked proofs about CondVar, for any finite set of threads and *)
(* any number of items below the modulus of the counter.                   *)
(***************************************************************************)
EXTENDS CondVar, FiniteSetTheorems, TLAPS

USE AddrWaitAssumption, CondVarAssumption

-----------------------------------------------------------------------------
(* Steps *)

\* A step of the system is a step of one thread.
ThreadStep(t) ==
    \/ \E m \in Modes : EnterMonitor(t, m)
    \/ \E k \in WakeKinds : Produce(t, k)
    \/ Step(t)
    \/ SleepTimeout(t)

\* The counter is below the number of items to come while a wake call is due,
\* so that InterlockedIncrement does not wrap around.
LEMMA NoWrap ==
    ASSUME IInv, NEW t \in Calling, Increment
    PROVE  Ptr' = Ptr + 1 /\ Ptr + 1 <= produced
<1>1. Cardinality(Calling) \in Nat \ {0}
    BY FS_Subset, FS_RemoveElement, FS_CardinalityType, FS_EmptySet DEF Calling
<1>2. Ptr \in Nat /\ produced \in Nat /\ produced <= MaxItems
    BY DEF IInv, TypeOK
<1>3. Ptr + 1 <= produced
    BY <1>1, <1>2 DEF IInv, CounterExact
<1> QED  BY <1>2, <1>3 DEF Increment

\* No wake call: the counter stands, and so do the threads that have to call.
LEMMA ProducersWait ==
    ASSUME IInv, NEW t \in Threads, pc[t] = "producing"
    PROVE  /\ \A u \in Threads : u # t => hold[u] = "none"
           /\ hold[t] = "exclusive"
           /\ \A u \in Threads : u # t => pc[u] \notin {"locked", "producing", "c_unlock"}
BY DEF IInv, LocalState, TypeOK, Access

-----------------------------------------------------------------------------
(* Type correctness and the local state of the threads *)

LEMMA TypeStep ==
    ASSUME IInv, NEW t \in Threads, ThreadStep(t)
    PROVE  TypeOK'
<1> USE DEF IInv, TypeOK, Access, Places, Goto, avars, progVars
<1>1. ASSUME NEW m \in Modes, EnterMonitor(t, m) PROVE TypeOK'
    BY <1>1 DEF EnterMonitor, Lock, RW!AcquireExclusive, RW!AcquireShared
<1>2. ASSUME NEW k \in WakeKinds, Produce(t, k) PROVE TypeOK'
    <2>1. produced' \in 0..MaxItems /\ items' \in 0..MaxItems
        BY <1>2 DEF Produce, LocalState, CounterExact
    <2> QED  BY <1>2, <2>1 DEF Produce, RW!ReleaseHold
<1>3. CASE Consume(t)
    BY <1>3 DEF Consume, RW!ReleaseHold
<1>4. CASE SleepConditionVariable(t) \/ SleepUnlock(t)
    BY <1>4 DEF SleepConditionVariable, SleepUnlock, RW!ReleaseHold
<1>5. CASE SleepWait(t)
    BY <1>5 DEF SleepWait, Register
<1>6. CASE SleepWoken(t) \/ SleepTimeout(t)
    BY <1>6 DEF SleepWoken, SleepTimeout, Return, Withdraw
<1>7. CASE SleepRelock(t)
    BY <1>7 DEF SleepRelock, Lock, RW!AcquireExclusive, RW!AcquireShared
<1>8. CASE RtlWakeConditionVariable(t) \/ RtlWakeAllConditionVariable(t)
    <2>1. t \in Calling /\ Increment
        BY <1>8 DEF RtlWakeConditionVariable, RtlWakeAllConditionVariable, Calling
    <2>2. Ptr' \in 0..(Modulus - 1)
        BY <2>1, NoWrap
    <2> QED  BY <1>8, <2>2 DEF RtlWakeConditionVariable, RtlWakeAllConditionVariable
<1>9. CASE WakeSingle(t) \/ WakeAll(t)
    BY <1>9 DEF WakeSingle, WakeAll, Release, ReleaseAll, Waiters
<1> QED
    BY <1>1, <1>2, <1>3, <1>4, <1>5, <1>6, <1>7, <1>8, <1>9 DEF ThreadStep, Step

\* The lock excludes, and a thread holds it where the code says so.
LEMMA LocalStep ==
    ASSUME IInv, NEW t \in Threads, ThreadStep(t)
    PROVE  LocalState'
<1> USE DEF IInv, TypeOK, Access, Places, Goto, avars, progVars, LocalState
<1>1. ASSUME NEW m \in Modes, EnterMonitor(t, m) PROVE LocalState'
    BY <1>1 DEF EnterMonitor, Lock, RW!AcquireExclusive, RW!AcquireShared
<1>2. ASSUME NEW k \in WakeKinds, Produce(t, k) PROVE LocalState'
    BY <1>2, ProducersWait DEF Produce, RW!ReleaseHold
<1>3. CASE Consume(t)
    BY <1>3 DEF Consume, RW!ReleaseHold
<1>4. CASE SleepConditionVariable(t) \/ SleepUnlock(t)
    BY <1>4 DEF SleepConditionVariable, SleepUnlock, RW!ReleaseHold
<1>5. CASE SleepWait(t)
    BY <1>5 DEF SleepWait, Register
<1>6. CASE SleepWoken(t) \/ SleepTimeout(t)
    BY <1>6 DEF SleepWoken, SleepTimeout, Return, Withdraw
<1>7. CASE SleepRelock(t)
    BY <1>7 DEF SleepRelock, Lock, RW!AcquireExclusive, RW!AcquireShared
<1>8. CASE RtlWakeConditionVariable(t) \/ RtlWakeAllConditionVariable(t)
    BY <1>8 DEF RtlWakeConditionVariable, RtlWakeAllConditionVariable
<1>9. CASE WakeSingle(t)
    BY <1>9 DEF WakeSingle, Release, Waiters
<1>10. CASE WakeAll(t)
    BY <1>10 DEF WakeAll, ReleaseAll, Waiters
<1> QED
    BY <1>1, <1>2, <1>3, <1>4, <1>5, <1>6, <1>7, <1>8, <1>9, <1>10 DEF ThreadStep, Step

-----------------------------------------------------------------------------
(* The counter *)

\* Every item is followed by one increment.
LEMMA CounterStep ==
    ASSUME IInv, NEW t \in Threads, ThreadStep(t)
    PROVE  CounterExact'
<1> USE DEF Goto, avars, progVars
<1>0. /\ Ptr \in Nat /\ items \in Nat /\ produced \in Nat /\ Calling \in SUBSET Threads
      /\ items <= produced /\ Ptr + Cardinality(Calling) = produced
      /\ pc \in [Threads -> Places]
    BY DEF IInv, TypeOK, CounterExact, Calling
<1>1. ASSUME NEW k \in WakeKinds, Produce(t, k) PROVE CounterExact'
    <2>1. Calling' = Calling \cup {t} /\ t \notin Calling
        BY <1>0, <1>1 DEF Produce, Calling
    <2>2. Cardinality(Calling') = Cardinality(Calling) + 1 /\ Cardinality(Calling) \in Nat
        BY <1>0, <2>1, FS_Subset, FS_AddElement, FS_CardinalityType
    <2>3. produced' = produced + 1 /\ items' = items + 1 /\ Ptr' = Ptr
        BY <1>1 DEF Produce
    <2> QED  BY <1>0, <2>2, <2>3 DEF CounterExact
<1>2. CASE RtlWakeConditionVariable(t) \/ RtlWakeAllConditionVariable(t)
    <2>1. Calling' = Calling \ {t} /\ t \in Calling
        BY <1>0, <1>2 DEF RtlWakeConditionVariable, RtlWakeAllConditionVariable, Calling
    <2>2. Cardinality(Calling') = Cardinality(Calling) - 1 /\ Cardinality(Calling) \in Nat
        BY <1>0, <2>1, FS_Subset, FS_RemoveElement, FS_CardinalityType, FS_EmptySet
    <2>3. Ptr' = Ptr + 1
        BY <1>2, <2>1, NoWrap DEF RtlWakeConditionVariable, RtlWakeAllConditionVariable
    <2> QED
        BY <1>0, <1>2, <2>2, <2>3
        DEF RtlWakeConditionVariable, RtlWakeAllConditionVariable, CounterExact
<1>3. ASSUME UNCHANGED <<Ptr, produced>>, items' \in Nat, items' <= items, Calling' = Calling
      PROVE  CounterExact'
    BY <1>0, <1>3 DEF CounterExact
<1>4. ASSUME NEW m \in Modes, EnterMonitor(t, m) PROVE CounterExact'
    BY <1>0, <1>3, <1>4 DEF EnterMonitor, Calling
<1>5. CASE Consume(t)
    BY <1>0, <1>3, <1>5 DEF Consume, Calling
<1>6. CASE SleepConditionVariable(t) \/ SleepUnlock(t) \/ SleepWait(t)
    BY <1>0, <1>3, <1>6 DEF SleepConditionVariable, SleepUnlock, SleepWait, Calling
<1>7. CASE SleepWoken(t) \/ SleepTimeout(t) \/ SleepRelock(t)
    BY <1>0, <1>3, <1>7 DEF SleepWoken, SleepTimeout, SleepRelock, Calling
<1>8. CASE WakeSingle(t) \/ WakeAll(t)
    BY <1>0, <1>3, <1>8 DEF WakeSingle, WakeAll, Calling
<1> QED
    BY <1>1, <1>2, <1>4, <1>5, <1>6, <1>7, <1>8 DEF ThreadStep, Step

\* A thread that finds the counter unchanged is followed by a wake call for
\* every item.
LEMMA PendingStep ==
    ASSUME IInv, NEW t \in Threads, ThreadStep(t)
    PROVE  UnchangedMeansPending'
<1> USE DEF Goto, avars, progVars
<1>0. /\ Ptr \in Nat /\ items \in Nat /\ Calling \in SUBSET Threads
      /\ pc \in [Threads -> Places] /\ value \in [Threads -> Nat]
      /\ mode \in [Threads -> Access]
      /\ Cardinality(Calling) \in Nat
    BY FS_Subset, FS_CardinalityType, FS_EmptySet DEF IInv, TypeOK, Calling
<1>1. ASSUME NEW k \in WakeKinds, Produce(t, k) PROVE UnchangedMeansPending'
    <2>1. Calling' = Calling \cup {t} /\ t \notin Calling
        BY <1>0, <1>1 DEF Produce, Calling
    <2>2. Cardinality(Calling') = Cardinality(Calling) + 1
        BY <1>0, <2>1, FS_Subset, FS_AddElement, FS_CardinalityType
    <2>3. GoingToSleep' = GoingToSleep /\ t \notin GoingToSleep
        BY <1>0, <1>1 DEF Produce, GoingToSleep
    <2>4. ASSUME NEW u \in GoingToSleep, mode'[u] = "shared" PROVE pc'[t] = "wake_all"
        BY <1>0, <1>1, <2>3, <2>4 DEF Produce, GoingToSleep
    <2> QED
        BY <1>0, <1>1, <2>2, <2>3, <2>4 DEF IInv, UnchangedMeansPending, Produce
<1>2. CASE RtlWakeConditionVariable(t) \/ RtlWakeAllConditionVariable(t)
    <2>1. t \in Calling /\ Increment
        BY <1>2 DEF RtlWakeConditionVariable, RtlWakeAllConditionVariable, Calling
    <2>2. Ptr' = Ptr + 1
        BY <2>1, NoWrap
    <2>3. GoingToSleep' = GoingToSleep /\ value' = value
        BY <1>0, <1>2 DEF RtlWakeConditionVariable, RtlWakeAllConditionVariable, GoingToSleep
    <2>4. \A u \in GoingToSleep : value[u] \in Nat /\ value[u] <= Ptr
        BY <1>0 DEF IInv, UnchangedMeansPending, GoingToSleep
    <2> QED  BY <1>0, <2>2, <2>3, <2>4 DEF UnchangedMeansPending
<1>3. CASE SleepConditionVariable(t)
    <2>1. Calling' = Calling /\ GoingToSleep' = GoingToSleep \cup {t} /\ items' = 0
          /\ \A u \in GoingToSleep : u # t
        BY <1>0, <1>3 DEF SleepConditionVariable, Calling, GoingToSleep
    <2>2. Ptr' = Ptr /\ value'[t] = Ptr /\ \A u \in GoingToSleep : value'[u] = value[u]
        BY <1>0, <1>3, <2>1 DEF SleepConditionVariable, GoingToSleep
    <2> QED  BY <1>0, <2>1, <2>2 DEF IInv, UnchangedMeansPending
<1>4. ASSUME UNCHANGED Ptr, items' \in Nat, items' <= items, Calling' = Calling,
             GoingToSleep' \subseteq GoingToSleep,
             \A u \in GoingToSleep' : value'[u] = value[u] /\ mode'[u] = mode[u],
             \A u \in Threads : pc[u] = "wake_all" => pc'[u] = "wake_all"
      PROVE  UnchangedMeansPending'
    BY <1>0, <1>4 DEF IInv, UnchangedMeansPending
<1>5. ASSUME NEW m \in Modes, EnterMonitor(t, m) PROVE UnchangedMeansPending'
    BY <1>0, <1>4, <1>5 DEF EnterMonitor, Calling, GoingToSleep
<1>6. CASE Consume(t)
    BY <1>0, <1>4, <1>6 DEF Consume, Calling, GoingToSleep
<1>7. CASE SleepUnlock(t)
    BY <1>0, <1>4, <1>7 DEF SleepUnlock, Calling, GoingToSleep
<1>8. CASE SleepWait(t)
    BY <1>0, <1>4, <1>8 DEF SleepWait, Calling, GoingToSleep
<1>9. CASE SleepWoken(t) \/ SleepTimeout(t) \/ SleepRelock(t)
    BY <1>0, <1>4, <1>9 DEF SleepWoken, SleepTimeout, SleepRelock, Calling, GoingToSleep
<1>10. CASE WakeSingle(t) \/ WakeAll(t)
    BY <1>0, <1>4, <1>10 DEF WakeSingle, WakeAll, Calling, GoingToSleep
<1> QED
    BY <1>1, <1>2, <1>3, <1>5, <1>6, <1>7, <1>8, <1>9, <1>10 DEF ThreadStep, Step

-----------------------------------------------------------------------------
(* Sleepers *)

\* A single wake-up goes to a thread that will take an item, or everybody is
\* about to be woken.
LEMMA TakersStep ==
    ASSUME IInv, NEW t \in Threads, ThreadStep(t)
    PROVE  ItemsHaveTakers'
<1> USE DEF Goto, avars, progVars
<1>0. /\ items \in Nat /\ released \subseteq Threads
      /\ pc \in [Threads -> Places] /\ mode \in [Threads -> Access]
      /\ waiting \in [Threads -> {"variable", NoAddr}] /\ NoAddr # "variable"
      /\ Takers \in SUBSET Threads /\ Cardinality(Takers) \in Nat
      /\ \A u \in Threads : u \in released => waiting[u] = NoAddr /\ pc[u] = "c_sleep"
      /\ \A u \in Threads : waiting[u] = "variable" => pc[u] = "c_sleep"
      /\ Waiters("variable") \in SUBSET Threads
    BY FS_Subset, FS_CardinalityType, FS_EmptySet DEF IInv, TypeOK, Takers, LocalState, Waiters
\* The general case: no new sleeper, and the takers keep up with the items.
<1>1. ASSUME Waiters("variable")' \subseteq Waiters("variable"),
             items' \in Nat, items' <= items,
             Takers \subseteq Takers', Takers' \subseteq Threads,
             \A u \in Threads : pc[u] \in {"wake_all", "all"} => pc'[u] \in {"wake_all", "all"},
             \A u \in Waiters("variable") : mode'[u] = mode[u]
      PROVE  ItemsHaveTakers'
    <2>1. Cardinality(Takers) <= Cardinality(Takers') /\ Cardinality(Takers') \in Nat
        BY <1>1, FS_Subset, FS_CardinalityType
    <2>2. WakeAllPending => WakeAllPending'
        BY <1>1 DEF WakeAllPending
    <2>3. /\ Waiters("variable") # {} => WakeAllPending \/ items <= Cardinality(Takers)
          /\ \A u \in Waiters("variable") : mode[u] = "shared" /\ items > 0 => WakeAllPending
        BY DEF IInv, ItemsHaveTakers
    <2> QED  BY <1>0, <1>1, <2>1, <2>2, <2>3 DEF ItemsHaveTakers
<1>2. ASSUME NEW m \in Modes, EnterMonitor(t, m) PROVE ItemsHaveTakers'
    BY <1>0, <1>1, <1>2 DEF EnterMonitor, Takers, Waiters
<1>3. ASSUME NEW k \in WakeKinds, Produce(t, k) PROVE ItemsHaveTakers'
    <2>1. CASE k = "all"
        <3>1. WakeAllPending'
            BY <1>0, <1>3, <2>1 DEF Produce, WakeAllPending
        <3> QED  BY <3>1 DEF ItemsHaveTakers
    <2>2. CASE k = "single"
        <3>1. Takers' = Takers \cup {t} /\ t \notin Takers
            BY <1>0, <1>3, <2>2 DEF Produce, Takers
        <3>2. Cardinality(Takers') = Cardinality(Takers) + 1
            BY <1>0, <3>1, FS_Subset, FS_AddElement, FS_CardinalityType
        <3>3. items' = items + 1 /\ Waiters("variable")' = Waiters("variable")
            BY <1>3 DEF Produce, Waiters
        <3>4. WakeAllPending => WakeAllPending'
            BY <1>0, <1>3 DEF Produce, WakeAllPending
        <3>5. \A u \in Threads : mode'[u] # "shared"
            BY <1>0, <1>3, <2>2 DEF Produce
        <3> QED
            BY <1>0, <3>2, <3>3, <3>4, <3>5 DEF IInv, ItemsHaveTakers
    <2> QED  BY <2>1, <2>2
<1>4. CASE Consume(t)
    <2>1. /\ Waiters("variable")' = Waiters("variable")
          /\ \A u \in Waiters("variable") : mode'[u] = mode[u]
          /\ WakeAllPending => WakeAllPending'
        BY <1>0, <1>4 DEF Consume, Waiters, WakeAllPending
    <2>2. CASE mode[t] = "exclusive"
        <3>1. Takers' = Takers \ {t} /\ t \in Takers
            BY <1>0, <1>4, <2>2 DEF Consume, Takers
        <3>2. Cardinality(Takers') = Cardinality(Takers) - 1
            BY <1>0, <3>1, FS_Subset, FS_RemoveElement, FS_CardinalityType, FS_EmptySet
        <3>3. items' = items - 1
            BY <1>4, <2>2 DEF Consume
        <3> QED  BY <1>0, <2>1, <3>2, <3>3 DEF IInv, ItemsHaveTakers
    <2>3. CASE mode[t] # "exclusive"
        BY <1>0, <1>1, <1>4, <2>3 DEF Consume, Takers, Waiters
    <2> QED  BY <2>2, <2>3
<1>5. CASE SleepConditionVariable(t)
    <2>1. items' = 0 /\ Takers' \in SUBSET Threads
        BY <1>5 DEF SleepConditionVariable, Takers
    <2>2. Cardinality(Takers') \in Nat
        BY <2>1, FS_Subset, FS_CardinalityType, FS_EmptySet
    <2> QED  BY <2>1, <2>2 DEF ItemsHaveTakers
<1>6. CASE SleepUnlock(t)
    BY <1>0, <1>1, <1>6 DEF SleepUnlock, Takers, Waiters
<1>7. CASE SleepWait(t)
    <2>1. CASE Ptr # value[t]
        BY <1>0, <1>1, <1>7, <2>1 DEF SleepWait, Takers, Waiters
    <2>2. CASE Ptr = value[t]
        <3>1. /\ t \in GoingToSleep /\ Calling' = Calling /\ items' = items /\ mode' = mode
              /\ Waiters("variable")' = Waiters("variable") \cup {t}
              /\ Takers' = Takers
              /\ WakeAllPending => WakeAllPending'
            BY <1>0, <1>7, <2>2
            DEF SleepWait, Register, GoingToSleep, Calling, Waiters, Takers, WakeAllPending
        <3>2. /\ items <= Cardinality(Calling)
              /\ items > 0 /\ mode[t] = "shared" => WakeAllPending
            BY <2>2, <3>1 DEF IInv, UnchangedMeansPending, WakeAllPending
        <3>3. WakeAllPending \/ Calling \in SUBSET Takers
            BY DEF Calling, Takers, WakeAllPending
        <3>4. WakeAllPending \/ items <= Cardinality(Takers)
            <4>1. CASE Calling \in SUBSET Takers
                <5>1. Cardinality(Calling) <= Cardinality(Takers) /\ Cardinality(Calling) \in Nat
                    BY <1>0, <4>1, FS_Subset, FS_CardinalityType
                <5> QED  BY <1>0, <3>2, <5>1
            <4> QED  BY <3>3, <4>1
        <3> QED  BY <3>1, <3>2, <3>4 DEF IInv, ItemsHaveTakers
    <2> QED  BY <2>1, <2>2
<1>8. CASE SleepWoken(t)
    BY <1>0, <1>1, <1>8 DEF SleepWoken, Return, Takers, Waiters
<1>9. CASE SleepTimeout(t)
    BY <1>0, <1>1, <1>9 DEF SleepTimeout, Withdraw, Takers, Waiters
<1>10. CASE SleepRelock(t)
    BY <1>0, <1>1, <1>10 DEF SleepRelock, Takers, Waiters
<1>11. CASE RtlWakeConditionVariable(t) \/ RtlWakeAllConditionVariable(t)
    BY <1>0, <1>1, <1>11 DEF RtlWakeConditionVariable, RtlWakeAllConditionVariable, Takers, Waiters
<1>12. CASE WakeSingle(t)
    <2>1. CASE Waiters("variable") = {}
        BY <1>0, <1>12, <2>1 DEF WakeSingle, Release, Waiters, ItemsHaveTakers
    <2>2. ASSUME NEW w \in Waiters("variable"),
                 waiting' = [waiting EXCEPT ![w] = NoAddr], released' = released \cup {w}
          PROVE  ItemsHaveTakers'
        <3>1. /\ Waiters("variable")' = Waiters("variable") \ {w}
              /\ items' = items /\ mode' = mode
              /\ WakeAllPending => WakeAllPending'
            BY <1>0, <1>12, <2>2 DEF WakeSingle, Waiters, WakeAllPending
        <3>2. CASE mode[w] = "exclusive"
            <4>1. Takers' = (Takers \cup {w}) \ {t} /\ t \in Takers /\ w \notin Takers /\ w \in Threads
                BY <1>0, <1>12, <2>2, <3>2 DEF WakeSingle, Takers, Waiters
            <4>2. Cardinality(Takers \cup {w}) = Cardinality(Takers) + 1
                BY <1>0, <4>1, FS_Subset, FS_AddElement, FS_CardinalityType
            <4>3. Cardinality(Takers') = Cardinality(Takers \cup {w}) - 1
                BY <1>0, <4>1, FS_Subset, FS_RemoveElement, FS_CardinalityType, FS_EmptySet, Takers \cup {w} \in SUBSET Threads
            <4> QED  BY <1>0, <3>1, <4>2, <4>3 DEF IInv, ItemsHaveTakers
        <3>3. CASE mode[w] # "exclusive"
            <4>1. mode[w] = "shared"
                BY <1>0, <2>2, <3>3 DEF IInv, LocalState, Waiters, Access
            <4>2. items > 0 => WakeAllPending
                BY <2>2, <4>1 DEF IInv, ItemsHaveTakers
            <4>3. Cardinality(Takers') \in Nat
                BY FS_Subset, FS_CardinalityType, FS_EmptySet, Takers' \subseteq Threads DEF Takers
            <4> QED  BY <1>0, <3>1, <4>2, <4>3 DEF ItemsHaveTakers
        <3> QED  BY <3>2, <3>3
    <2> QED  BY <1>12, <2>1, <2>2 DEF WakeSingle, Release
<1>13. CASE WakeAll(t)
    <2>1. Waiters("variable")' = {}
        BY <1>0, <1>13 DEF WakeAll, ReleaseAll, Waiters
    <2> QED  BY <2>1 DEF ItemsHaveTakers
<1> QED
    BY <1>2, <1>3, <1>4, <1>5, <1>6, <1>7, <1>8, <1>9, <1>10, <1>11, <1>12, <1>13
    DEF ThreadStep, Step

\* RtlWakeAllConditionVariable reaches the threads that are registered, and
\* those that are not yet find another value in the counter.
LEMMA OwedStep ==
    ASSUME IInv, NEW t \in Threads, ThreadStep(t)
    PROVE  OwedWillWake' /\ WakeAllReachesAll'
<1> USE DEF Goto, avars, progVars, GoingToSleep, OwedWillWake, WakeAllReachesAll
<1>0. /\ Ptr \in Nat /\ value \in [Threads -> Nat] /\ owed \subseteq Threads
      /\ pc \in [Threads -> Places]
      /\ waiting \in [Threads -> {"variable", NoAddr}] /\ NoAddr # "variable"
      /\ \A u \in Threads : waiting[u] = "variable" => pc[u] = "c_sleep"
      /\ \A u \in GoingToSleep : value[u] <= Ptr
      /\ OwedWillWake /\ WakeAllReachesAll
    BY DEF IInv, TypeOK, LocalState, UnchangedMeansPending
<1>1. ASSUME NEW m \in Modes, EnterMonitor(t, m) PROVE OwedWillWake' /\ WakeAllReachesAll'
    BY <1>0, <1>1 DEF EnterMonitor
<1>2. ASSUME NEW k \in WakeKinds, Produce(t, k) PROVE OwedWillWake' /\ WakeAllReachesAll'
    BY <1>0, <1>2 DEF Produce
<1>3. CASE Consume(t) \/ SleepRelock(t)
    BY <1>0, <1>3 DEF Consume, SleepRelock
<1>4. CASE SleepConditionVariable(t)
    BY <1>0, <1>4 DEF SleepConditionVariable
<1>5. CASE SleepUnlock(t)
    BY <1>0, <1>5 DEF SleepUnlock
<1>6. CASE SleepWait(t)
    BY <1>0, <1>6 DEF SleepWait, Register
<1>7. CASE SleepWoken(t) \/ SleepTimeout(t)
    BY <1>0, <1>7 DEF SleepWoken, SleepTimeout, Return, Withdraw
<1>8. CASE RtlWakeConditionVariable(t)
    <2>1. Ptr' = Ptr + 1
        BY <1>8, NoWrap DEF RtlWakeConditionVariable, Calling
    <2> QED  BY <1>0, <1>8, <2>1 DEF RtlWakeConditionVariable
<1>9. CASE RtlWakeAllConditionVariable(t)
    <2>1. Ptr' = Ptr + 1
        BY <1>9, NoWrap DEF RtlWakeAllConditionVariable, Calling
    <2>2. pc'[t] = "all" /\ \A u \in Threads : u # t => pc'[u] = pc[u]
        BY <1>0, <1>9 DEF RtlWakeAllConditionVariable
    <2> QED  BY <1>0, <1>9, <2>1, <2>2 DEF RtlWakeAllConditionVariable
<1>10. CASE WakeSingle(t)
    BY <1>0, <1>10 DEF WakeSingle, Release, Waiters
<1>11. CASE WakeAll(t)
    BY <1>0, <1>11 DEF WakeAll, ReleaseAll, Waiters
<1> QED
    BY <1>1, <1>2, <1>3, <1>4, <1>5, <1>6, <1>7, <1>8, <1>9, <1>10, <1>11 DEF ThreadStep, Step

-----------------------------------------------------------------------------
(* The inductive invariant *)

LEMMA InvInit == Init => IInv
<1> SUFFICES ASSUME Init PROVE IInv
    OBVIOUS
<1> USE DEF Init, AInit, RW!LInit
<1>1. TypeOK /\ LocalState
    BY DEF TypeOK, LocalState, Access, Places
<1>2. CounterExact
    <2>1. Calling = {}
        BY DEF Calling
    <2> QED  BY <2>1, FS_EmptySet DEF CounterExact
<1>3. Waiters("variable") = {} /\ GoingToSleep = {} /\ owed = {}
    BY DEF Waiters, GoingToSleep
<1> QED
    BY <1>1, <1>2, <1>3
    DEF IInv, UnchangedMeansPending, ItemsHaveTakers, OwedWillWake, WakeAllReachesAll

LEMMA InvStep == IInv /\ [Next]_vars => IInv'
<1> SUFFICES ASSUME IInv, [Next]_vars PROVE IInv'
    OBVIOUS
<1>1. CASE UNCHANGED vars
    BY <1>1
    DEF vars, avars, IInv, TypeOK, LocalState, CounterExact, UnchangedMeansPending, ItemsHaveTakers,
        OwedWillWake, WakeAllReachesAll, Waiters, GoingToSleep, Calling, Takers, WakeAllPending
<1>2. ASSUME NEW t \in Threads, ThreadStep(t) PROVE IInv'
    BY <1>2, TypeStep, LocalStep, CounterStep, PendingStep, TakersStep, OwedStep DEF IInv
<1> QED  BY <1>1, <1>2 DEF Next, ThreadStep

THEOREM Invariant == Spec => []IInv
BY InvInit, InvStep, PTL DEF Spec

-----------------------------------------------------------------------------
(* The properties *)

\* The counter in variable->Ptr, the lock and the program's state keep their
\* types; in particular InterlockedIncrement stays below the modulus.
THEOREM TypeCorrect == Spec => []TypeOK
BY Invariant, PTL DEF IInv

\* RtlSleepConditionVariableCS and -SRW lose no signal, although the lock is
\* released before the thread is registered: while there is an item and a
\* thread sleeps, somebody is awake, or about to wake somebody, for it.
THEOREM SignalsReachSleepers == Spec => []NoLostSignal
<1>1. IInv => NoLostSignal
    <2> SUFFICES ASSUME IInv, items > 0, Waiters("variable") # {}
                 PROVE  \E t \in Threads :
                            \/ pc[t] \in {"wake_single", "single", "wake_all", "all",
                                         "c_relock", "locked"}
                            \/ t \in released
        BY DEF NoLostSignal
    <2>1. CASE WakeAllPending
        BY <2>1 DEF WakeAllPending
    <2>2. CASE items <= Cardinality(Takers)
        <3>1. Cardinality(Takers) # 0 /\ Takers \in SUBSET Threads
            BY <2>2 DEF Takers, IInv, TypeOK
        <3>2. Takers # {}
            BY <3>1, FS_Subset, FS_CardinalityType, FS_EmptySet
        <3> QED  BY <3>2 DEF Takers
    <2> QED  BY <2>1, <2>2 DEF IInv, ItemsHaveTakers
<1> QED  BY <1>1, Invariant, PTL

\* RtlWakeAllConditionVariable leaves none of the threads asleep that had
\* called a sleep function before it.
THEOREM WakeAllIsComplete == Spec => []WakeAllReachesAll
BY Invariant, PTL DEF IInv
=============================================================================
