------------------------- MODULE CritSection_proofs -------------------------
(***************************************************************************)
(* Machine-checked proofs about CritSection, for any finite set of         *)
(* threads, any depth of recursion and any spin count.                     *)
(***************************************************************************)
EXTENDS CritSection, FiniteSetTheorems, TLAPS

USE AddrWaitAssumption, CritSectionAssumption

-----------------------------------------------------------------------------
(* Type correctness *)

\* What one thread does; RtlDeleteCriticalSection is the only other step.
ThreadStep(t) ==
    \/ RtlEnterCriticalSection(t) \/ RtlTryEnterCriticalSection(t)
    \/ RtlLeaveCriticalSection(t)
    \/ Step(t) \/ Disturb(t) \/ LdrShutdownProcess(t)

LEMMA TypeStep ==
    ASSUME TypeOK, UNCHANGED section, NEW t \in Threads, ThreadStep(t)
    PROVE  TypeOK'
<1> USE DEF TypeOK, Places, Goto, avars, critVars, semVars
<1>1. CASE RtlEnterCriticalSection(t)
    <2>1. SpinCount \in Nat
        BY DEF SpinCount
    <2> QED  BY <1>1, <2>1 DEF RtlEnterCriticalSection
<1>2. CASE RtlTryEnterCriticalSection(t) \/ SpinFirstTry(t)
    BY <1>2 DEF RtlTryEnterCriticalSection, SpinFirstTry, Acquire, Recurse, Own
<1>3. CASE Spin(t)
    BY <1>3 DEF Spin, Acquire, Own
<1>4. CASE Increment(t)
    BY <1>4 DEF Increment, Acquire, Recurse, Own
<1>5. CASE ShutdownNoWait(t) \/ Wait(t)
    BY <1>5 DEF ShutdownNoWait, Wait, Own
<1>6. CASE FlagTaken(t) \/ FlagClear(t)
    BY <1>6 DEF FlagTaken, FlagClear, Own
<1>7. CASE FlagWait(t) \/ FlagWoken(t) \/ FlagTimeout(t)
    BY <1>7 DEF FlagWait, FlagWoken, FlagTimeout, Register, Return, Withdraw
<1>8. CASE SemaphoreExists(t, "w_get", "w_sem") \/ SemaphoreExists(t, "u_get", "u_sem")
    BY <1>8 DEF SemaphoreExists
<1>9. CASE CreateSemaphore(t, "w_get", "w_install") \/ CreateSemaphore(t, "u_get", "u_install")
    BY <1>9 DEF CreateSemaphore
<1>10. CASE InstallSemaphore(t, "w_install", "w_sem") \/ InstallSemaphore(t, "u_install", "u_sem")
    BY <1>10 DEF InstallSemaphore
<1>11. CASE CreateSemaphoreFails(t, "w_get", "w_sem") \/ CreateSemaphoreFails(t, "u_get", "u_sem")
    BY <1>11 DEF CreateSemaphoreFails
<1>12. CASE SemaphoreTaken(t) \/ SemaphoreTimeout(t) \/ WaitNoSemaphore(t)
    BY <1>12 DEF SemaphoreTaken, SemaphoreTimeout, WaitNoSemaphore, Own
<1>13. CASE RtlLeaveCriticalSection(t) \/ Decrement(t)
    BY <1>13 DEF RtlLeaveCriticalSection, Decrement
<1>14. CASE SetFlag(t) \/ WakeFlag(t)
    BY <1>14 DEF SetFlag, WakeFlag, Release, Waiters
<1>15. CASE ReleaseSemaphore(t) \/ ReleaseRaises(t)
    BY <1>15 DEF ReleaseSemaphore, ReleaseRaises
<1>16. CASE LdrShutdownProcess(t)
    BY <1>16 DEF LdrShutdownProcess
<1> QED
    BY <1>1, <1>2, <1>3, <1>4, <1>5, <1>6, <1>7, <1>8, <1>9, <1>10, <1>11, <1>12, <1>13, <1>14,
       <1>15, <1>16 DEF ThreadStep, Step, Disturb

-----------------------------------------------------------------------------
(* The owner *)

\* The parts of the invariant that hold until the process shuts down.
Live ==
    /\ TypeOK /\ OwnerState /\ OneSemaphore /\ OneHolder /\ LockCountExact
    /\ ~process_detaching

\* A free section, or one that a token stands for, has no owner.
LEMMA NoOwner ==
    ASSUME Live, LockCount = -1 \/ flag = 1 \/ Signalled # {}
    PROVE  Holding = {} /\ OwningThread = NoThread /\ \A t \in Threads : depth[t] = 0
<1>1. Holding = {}
    BY DEF Live, TypeOK, OneHolder
<1>2. \A t \in Threads : ~(depth[t] > 0)
    BY <1>1 DEF Holding
<1> QED  BY <1>1, <1>2 DEF Live, TypeOK, OwnerState

\* A thread that holds the section is the only one, and there is no token.
LEMMA OnlyHolder ==
    ASSUME Live, NEW t \in Holding
    PROVE  LockCount >= 0 /\ flag = 0 /\ Signalled = {} /\ Holding = {t}
BY DEF Live, OneHolder

\* LockCount counts at least the entries of the owner.
LEMMA EntriesCounted ==
    ASSUME Live, NEW t \in Threads, depth[t] > 0
    PROVE  LockCount + 1 >= RecursionCount /\ LockCount \in Int /\ RecursionCount \in Int
<1>1. Cardinality(Entering) \in Nat /\ Cardinality(CountingDown) \in Nat
    BY FS_Subset, FS_CardinalityType, FS_EmptySet, Entering \in SUBSET Threads, CountingDown \in SUBSET Threads
    DEF Entering, CountingDown
<1>2. OwningThread = t
    BY DEF Live, OwnerState
<1> QED  BY <1>1, <1>2 DEF Live, TypeOK, LockCountExact

\* Only the owner changes its depth, and a thread becomes the owner when there
\* is none.
LEMMA OwnerStep ==
    ASSUME Live, NEW t \in Threads, ThreadStep(t), ~process_detaching'
    PROVE  OwnerState'
<1> USE DEF Goto, avars, critVars, semVars
<1>0. /\ DOMAIN pc = Threads /\ depth \in [Threads -> Nat] /\ RecursionCount \in Int
      /\ OwningThread \in Threads \cup {NoThread} /\ NoThread \notin Threads
      /\ OwnerState
    BY DEF Live, TypeOK
\* The general case: only a thread that is not the owner has moved.
<1>1. ASSUME UNCHANGED <<depth, OwningThread, RecursionCount>>,
             \A u \in Threads : pc'[u] = pc[u] \/ depth[u] = 0
                                \/ pc'[u] \in {"idle", "e_try", "e_spin", "e_inc"}
      PROVE  OwnerState'
    BY <1>0, <1>1 DEF OwnerState
<1>2. ASSUME Acquire(t), pc' = [pc EXCEPT ![t] = "idle"] PROVE OwnerState'
    <2>1. \A u \in Threads : depth[u] = 0
        BY <1>2, NoOwner DEF Acquire
    <2> QED  BY <1>0, <1>2, <2>1 DEF Acquire, Own, OwnerState
<1>3. ASSUME Recurse(t), pc' = [pc EXCEPT ![t] = "idle"] PROVE OwnerState'
    BY <1>0, <1>3 DEF Recurse, OwnerState
<1>4. ASSUME Own(t), pc' = [pc EXCEPT ![t] = "idle"], flag = 1 \/ Signalled # {} PROVE OwnerState'
    <2>1. \A u \in Threads : depth[u] = 0
        BY <1>4, NoOwner
    <2> QED  BY <1>0, <1>4, <2>1 DEF Own, OwnerState
<1>5. CASE RtlEnterCriticalSection(t)
    BY <1>0, <1>1, <1>5 DEF RtlEnterCriticalSection
<1>6. CASE RtlTryEnterCriticalSection(t)
    BY <1>2, <1>3, <1>6 DEF RtlTryEnterCriticalSection
<1>7. CASE SpinFirstTry(t)
    BY <1>0, <1>1, <1>2, <1>3, <1>7 DEF SpinFirstTry
<1>8. CASE Spin(t)
    BY <1>0, <1>1, <1>2, <1>8 DEF Spin
<1>9. CASE Increment(t)
    <2>1. CASE Goto(t, "e_inc", "idle") /\ (Acquire(t) \/ Recurse(t))
        BY <1>2, <1>3, <2>1
    <2>2. CASE Goto(t, "e_inc", "wait") /\ OwningThread # t /\ UNCHANGED <<RecursionCount, OwningThread, depth>>
        BY <1>0, <1>1, <2>2 DEF OwnerState
    <2> QED  BY <1>9, <2>1, <2>2 DEF Increment
<1>10. CASE FlagTaken(t)
    BY <1>4, <1>10 DEF FlagTaken
<1>11. CASE SemaphoreTaken(t)
    <2>1. sem[t] \in Signalled
        BY <1>11 DEF SemaphoreTaken, Live, TypeOK, Signalled
    <2> QED  BY <1>4, <1>11, <2>1 DEF SemaphoreTaken
<1>12. CASE RtlLeaveCriticalSection(t)
    BY <1>0, <1>12 DEF RtlLeaveCriticalSection, OwnerState
<1>13. CASE Wait(t) \/ FlagClear(t) \/ FlagWait(t) \/ FlagWoken(t) \/ FlagTimeout(t)
    BY <1>0, <1>1, <1>13 DEF Wait, FlagClear, FlagWait, FlagWoken, FlagTimeout, OwnerState
<1>14. CASE \/ SemaphoreExists(t, "w_get", "w_sem") \/ SemaphoreExists(t, "u_get", "u_sem")
            \/ CreateSemaphore(t, "w_get", "w_install") \/ CreateSemaphore(t, "u_get", "u_install")
    BY <1>0, <1>1, <1>14 DEF SemaphoreExists, CreateSemaphore, OwnerState
<1>15. CASE \/ InstallSemaphore(t, "w_install", "w_sem") \/ InstallSemaphore(t, "u_install", "u_sem")
            \/ CreateSemaphoreFails(t, "w_get", "w_sem") \/ CreateSemaphoreFails(t, "u_get", "u_sem")
    BY <1>0, <1>1, <1>15 DEF InstallSemaphore, CreateSemaphoreFails, OwnerState
<1>16. CASE SemaphoreTimeout(t) \/ WaitNoSemaphore(t)
    BY <1>0, <1>1, <1>16 DEF SemaphoreTimeout, WaitNoSemaphore, OwnerState
<1>17. CASE Decrement(t) \/ SetFlag(t) \/ WakeFlag(t)
    BY <1>0, <1>1, <1>17 DEF Decrement, SetFlag, WakeFlag, OwnerState
<1>18. CASE ReleaseSemaphore(t) \/ ReleaseRaises(t)
    BY <1>0, <1>1, <1>18 DEF ReleaseSemaphore, ReleaseRaises, OwnerState
<1>19. ~ShutdownNoWait(t) /\ ~LdrShutdownProcess(t)
    BY DEF ShutdownNoWait, LdrShutdownProcess, Live
<1> QED
    BY <1>5, <1>6, <1>7, <1>8, <1>9, <1>10, <1>11, <1>12, <1>13, <1>14, <1>15, <1>16, <1>17, <1>18, <1>19
    DEF ThreadStep, Step, Disturb

\* get_semaphore gives every thread the handle that was installed first.
LEMMA SemaphoreStep ==
    ASSUME Live, NEW t \in Threads, ThreadStep(t), ~process_detaching'
    PROVE  OneSemaphore'
<1> USE DEF Goto, avars, critVars, semVars, OneSemaphore, Signalled
<1>0. /\ DOMAIN pc = Threads /\ handle \in Threads \cup {NoSem} /\ NoSem \notin Threads
      /\ count \in [Threads -> {0, 1}] /\ sem \in [Threads -> Threads \cup {NoSem}]
      /\ OneSemaphore
    BY DEF Live, TypeOK
<1>1. ASSUME UNCHANGED semVars,
             \A u \in Threads : pc[u] \in {"w_sem", "u_sem"} => pc'[u] = pc[u] \/ sem[u] = NoSem
      PROVE  OneSemaphore'
    BY <1>0, <1>1
<1>2. CASE \/ SemaphoreExists(t, "w_get", "w_sem") \/ SemaphoreExists(t, "u_get", "u_sem")
    BY <1>0, <1>2 DEF SemaphoreExists
<1>3. CASE CreateSemaphore(t, "w_get", "w_install") \/ CreateSemaphore(t, "u_get", "u_install")
    BY <1>0, <1>3 DEF CreateSemaphore
<1>4. CASE InstallSemaphore(t, "w_install", "w_sem") \/ InstallSemaphore(t, "u_install", "u_sem")
    BY <1>0, <1>4 DEF InstallSemaphore
<1>5. CASE CreateSemaphoreFails(t, "w_get", "w_sem") \/ CreateSemaphoreFails(t, "u_get", "u_sem")
    BY <1>0, <1>5 DEF CreateSemaphoreFails
<1>6. CASE SemaphoreTaken(t) \/ SemaphoreTimeout(t) \/ ReleaseSemaphore(t)
    BY <1>0, <1>6 DEF SemaphoreTaken, SemaphoreTimeout, ReleaseSemaphore
<1>7. CASE WaitNoSemaphore(t)
    BY <1>0, <1>1, <1>7 DEF WaitNoSemaphore
<1>8. CASE ReleaseRaises(t)
    <2>1. sem[t] = NoSem \/ count[sem[t]] = 0
        <3>1. t \in Holding
            BY <1>8 DEF ReleaseRaises, Holding
        <3> QED  BY <1>0, <3>1, OnlyHolder
    <2> QED  BY <1>0, <1>1, <1>8, <2>1 DEF ReleaseRaises
<1>9. CASE RtlEnterCriticalSection(t) \/ RtlTryEnterCriticalSection(t) \/ RtlLeaveCriticalSection(t)
    BY <1>0, <1>1, <1>9 DEF RtlEnterCriticalSection, RtlTryEnterCriticalSection, RtlLeaveCriticalSection
<1>10. CASE SpinFirstTry(t) \/ Spin(t) \/ Increment(t) \/ Wait(t) \/ FlagClear(t)
    BY <1>0, <1>1, <1>10 DEF SpinFirstTry, Spin, Increment, Wait, FlagClear
<1>11. CASE FlagWait(t) \/ FlagWoken(t) \/ FlagTimeout(t) \/ WakeFlag(t) \/ Decrement(t)
    BY <1>0, <1>1, <1>11 DEF FlagWait, FlagWoken, FlagTimeout, WakeFlag, Decrement
<1>12. CASE FlagTaken(t) \/ SetFlag(t)
    BY <1>0, <1>12 DEF FlagTaken, SetFlag
<1>13. ~ShutdownNoWait(t) /\ ~LdrShutdownProcess(t)
    BY DEF ShutdownNoWait, LdrShutdownProcess, Live
<1> QED
    BY <1>2, <1>3, <1>4, <1>5, <1>6, <1>7, <1>8, <1>9, <1>10, <1>11, <1>12, <1>13
    DEF ThreadStep, Step, Disturb

-----------------------------------------------------------------------------
(* The hand-over *)

\* The section goes from thread to thread, or through one token, never to two.
LEMMA HolderStep ==
    ASSUME Live, NEW t \in Threads, ThreadStep(t), ~process_detaching'
    PROVE  OneHolder'
<1> USE DEF Goto, avars, critVars, semVars
<1>0. /\ DOMAIN pc = Threads /\ depth \in [Threads -> Nat] /\ LockCount \in Int
      /\ flag \in {0, 1} /\ count \in [Threads -> {0, 1}]
      /\ handle \in Threads \cup {NoSem} /\ NoSem \notin Threads
      /\ sem \in [Threads -> Threads \cup {NoSem}]
      /\ OneSemaphore /\ OneHolder
    BY DEF Live, TypeOK
\* The general case: no thread gets or gives up the section.
<1>1. ASSUME UNCHANGED <<LockCount, flag>>, Signalled' = Signalled, Holding' = Holding
      PROVE  OneHolder'
    BY <1>0, <1>1 DEF OneHolder
<1>2. ASSUME Acquire(t), pc[t] \in {"idle", "e_try", "e_spin", "e_inc"},
             pc' = [pc EXCEPT ![t] = "idle"], UNCHANGED semVars
      PROVE  OneHolder'
    <2>1. Holding = {} /\ flag = 0 /\ Signalled = {}
        BY <1>0, <1>2 DEF Acquire, OneHolder
    <2>2. Holding' = {t}
        BY <1>0, <1>2, <2>1 DEF Acquire, Own, Holding
    <2> QED  BY <1>2, <2>1, <2>2 DEF Acquire, OneHolder, Signalled
<1>3. ASSUME Recurse(t), pc[t] \in {"idle", "e_try", "e_spin", "e_inc"},
             pc' = [pc EXCEPT ![t] = "idle"], UNCHANGED semVars
      PROVE  OneHolder'
    <2>1. depth[t] > 0 /\ t \in Holding
        BY <1>3 DEF Recurse, Live, OwnerState, Holding
    <2>2. LockCount >= 0 /\ flag = 0 /\ Signalled = {} /\ Holding = {t}
        BY <2>1, OnlyHolder
    <2>3. Holding' = {t}
        BY <1>0, <1>3, <2>1, <2>2 DEF Recurse, Holding
    <2> QED  BY <1>0, <1>3, <2>2, <2>3 DEF Recurse, OneHolder, Signalled
<1>4. CASE RtlEnterCriticalSection(t)
    BY <1>0, <1>1, <1>4 DEF RtlEnterCriticalSection, Holding, Signalled
<1>5. CASE RtlTryEnterCriticalSection(t)
    BY <1>2, <1>3, <1>5 DEF RtlTryEnterCriticalSection
<1>6. CASE SpinFirstTry(t)
    <2>1. CASE Goto(t, "e_try", "idle") /\ (Acquire(t) \/ Recurse(t))
        BY <1>2, <1>3, <1>6, <2>1 DEF SpinFirstTry
    <2>2. CASE Goto(t, "e_try", "e_spin") /\ UNCHANGED <<critVars, depth>>
        BY <1>0, <1>1, <1>6, <2>2 DEF SpinFirstTry, Holding, Signalled
    <2> QED  BY <1>6, <2>1, <2>2 DEF SpinFirstTry
<1>7. CASE Spin(t)
    <2>1. CASE Goto(t, "e_spin", "idle") /\ Acquire(t)
        BY <1>2, <1>7, <2>1 DEF Spin
    <2>2. CASE (Goto(t, "e_spin", "e_spin") \/ Goto(t, "e_spin", "e_inc")) /\ UNCHANGED <<critVars, depth>>
        BY <1>0, <1>1, <1>7, <2>2 DEF Spin, Holding, Signalled
    <2> QED  BY <1>7, <2>1, <2>2 DEF Spin
<1>8. CASE Increment(t)
    <2>1. CASE Goto(t, "e_inc", "idle") /\ (Acquire(t) \/ Recurse(t))
        BY <1>2, <1>3, <1>8, <2>1 DEF Increment
    <2>2. CASE Goto(t, "e_inc", "wait") /\ LockCount # -1 /\ LockCount' = LockCount + 1 /\ UNCHANGED depth
        <3>1. Holding' = Holding /\ Signalled' = Signalled /\ flag' = flag
            BY <1>0, <1>8, <2>2 DEF Increment, Holding, Signalled
        <3> QED  BY <1>0, <2>2, <3>1 DEF OneHolder
    <2> QED  BY <1>8, <2>1, <2>2 DEF Increment
<1>9. CASE FlagTaken(t)
    <2>1. Holding = {} /\ Signalled = {} /\ LockCount >= 0
        BY <1>0, <1>9 DEF FlagTaken, OneHolder
    <2>2. Holding' = {t}
        BY <1>0, <1>9, <2>1 DEF FlagTaken, Own, Holding
    <2> QED  BY <1>9, <2>1, <2>2 DEF FlagTaken, OneHolder, Signalled
<1>10. CASE SemaphoreTaken(t)
    <2>1. sem[t] \in Signalled
        BY <1>0, <1>10 DEF SemaphoreTaken, Signalled
    <2>2. Holding = {} /\ flag = 0 /\ LockCount >= 0 /\ Signalled = {sem[t]}
        BY <1>0, <2>1 DEF OneHolder
    <2>3. Holding' = {t}
        BY <1>0, <1>10, <2>2 DEF SemaphoreTaken, Own, Holding
    <2>4. Signalled' = {}
        BY <1>0, <1>10, <2>2 DEF SemaphoreTaken, Signalled
    <2> QED  BY <1>10, <2>2, <2>3, <2>4 DEF SemaphoreTaken, OneHolder
<1>11. CASE RtlLeaveCriticalSection(t)
    <2>1. t \in Holding /\ RecursionCount = depth[t] /\ depth[t] > 0
        BY <1>11 DEF RtlLeaveCriticalSection, Holding, Live, OwnerState
    <2>2. LockCount >= 0 /\ flag = 0 /\ Signalled = {} /\ Holding = {t}
        BY <2>1, OnlyHolder
    <2>3. Holding' = {t}
        BY <1>0, <1>11, <2>1, <2>2 DEF RtlLeaveCriticalSection, Holding
    <2>4. LockCount' >= 0
        BY <1>11, <2>1, <2>2, EntriesCounted DEF RtlLeaveCriticalSection
    <2> QED  BY <1>11, <2>2, <2>3, <2>4 DEF RtlLeaveCriticalSection, OneHolder, Signalled
<1>12. CASE Decrement(t)
    <2>1. LockCount >= 0 /\ flag = 0 /\ Signalled = {} /\ Holding = {t}
        BY <1>12, OnlyHolder DEF Decrement, Holding
    <2>2. Signalled' = {} /\ flag' = 0 /\ LockCount' = LockCount - 1 /\ depth' = depth /\ depth[t] = 0
        BY <1>0, <1>12, <2>1 DEF Decrement, Signalled, Live, OwnerState
    <2>3. CASE LockCount' < 0
        <3>1. Holding' = {}
            BY <1>0, <1>12, <2>1, <2>2, <2>3 DEF Decrement, Holding
        <3> QED  BY <1>0, <2>1, <2>2, <2>3, <3>1 DEF OneHolder
    <2>4. CASE LockCount' >= 0
        <3>1. pc'[t] \in {"u_set", "u_get"}
            BY <1>0, <1>12, <2>2, <2>4 DEF Decrement
        <3>2. Holding' = {t}
            BY <1>0, <1>12, <2>1, <2>2, <3>1 DEF Decrement, Holding
        <3> QED  BY <2>2, <2>4, <3>2 DEF OneHolder
    <2> QED  BY <1>0, <2>2, <2>3, <2>4
<1>13. CASE SetFlag(t)
    <2>1. LockCount >= 0 /\ Signalled = {} /\ Holding = {t}
        BY <1>13, OnlyHolder DEF SetFlag, Holding
    <2>2. Holding' = {}
        BY <1>0, <1>13, <2>1 DEF SetFlag, Holding, Live, OwnerState
    <2> QED  BY <1>13, <2>1, <2>2 DEF SetFlag, OneHolder, Signalled
<1>14. CASE ReleaseSemaphore(t)
    <2>1. LockCount >= 0 /\ flag = 0 /\ Signalled = {} /\ Holding = {t}
        BY <1>14, OnlyHolder DEF ReleaseSemaphore, Holding
    <2>2. Holding' = {}
        BY <1>0, <1>14, <2>1 DEF ReleaseSemaphore, Holding, Live, OwnerState
    <2>3. Signalled' = {sem[t]} /\ sem[t] \in Threads
        BY <1>0, <1>14, <2>1 DEF ReleaseSemaphore, Signalled
    <2> QED  BY <1>14, <2>1, <2>2, <2>3 DEF ReleaseSemaphore, OneHolder
<1>15. CASE ReleaseRaises(t)
    <2>1. Signalled = {} /\ Holding = {t}
        BY <1>15, OnlyHolder DEF ReleaseRaises, Holding
    <2>2. sem[t] = NoSem
        BY <1>0, <1>15, <2>1 DEF ReleaseRaises, Signalled
    <2> QED  BY <1>0, <1>1, <1>15, <2>2 DEF ReleaseRaises, Holding, Signalled
<1>16. CASE CreateSemaphore(t, "w_get", "w_install") \/ CreateSemaphore(t, "u_get", "u_install")
    <2>1. Signalled = {}
        BY <1>0, <1>16 DEF CreateSemaphore, OneSemaphore, Signalled
    <2> QED  BY <1>0, <1>1, <1>16, <2>1 DEF CreateSemaphore, Holding, Signalled
<1>17. CASE Wait(t) \/ FlagClear(t) \/ FlagWait(t) \/ FlagWoken(t) \/ FlagTimeout(t)
    BY <1>0, <1>1, <1>17 DEF Wait, FlagClear, FlagWait, FlagWoken, FlagTimeout, Holding, Signalled
<1>18. CASE SemaphoreExists(t, "w_get", "w_sem") \/ SemaphoreExists(t, "u_get", "u_sem")
    BY <1>0, <1>1, <1>18 DEF SemaphoreExists, Holding, Signalled
<1>19. CASE InstallSemaphore(t, "w_install", "w_sem") \/ InstallSemaphore(t, "u_install", "u_sem")
    BY <1>0, <1>1, <1>19 DEF InstallSemaphore, Holding, Signalled
<1>20. CASE CreateSemaphoreFails(t, "w_get", "w_sem") \/ CreateSemaphoreFails(t, "u_get", "u_sem")
    BY <1>0, <1>1, <1>20 DEF CreateSemaphoreFails, Holding, Signalled
<1>21. CASE SemaphoreTimeout(t) \/ WaitNoSemaphore(t) \/ WakeFlag(t)
    BY <1>0, <1>1, <1>21 DEF SemaphoreTimeout, WaitNoSemaphore, WakeFlag, Holding, Signalled
<1>22. ~ShutdownNoWait(t) /\ ~LdrShutdownProcess(t)
    BY DEF ShutdownNoWait, LdrShutdownProcess, Live
<1> QED
    BY <1>4, <1>5, <1>6, <1>7, <1>8, <1>9, <1>10, <1>11, <1>12, <1>13, <1>14, <1>15, <1>16, <1>17, <1>18,
       <1>19, <1>20, <1>21, <1>22
    DEF ThreadStep, Step, Disturb

-----------------------------------------------------------------------------
(* LockCount *)

\* Every change of LockCount goes with a thread that comes, goes or recurses.
LEMMA CountStep ==
    ASSUME Live, NEW t \in Threads, ThreadStep(t), ~process_detaching'
    PROVE  LockCountExact'
<1> DEFINE Owned == IF OwningThread = NoThread THEN 0 ELSE RecursionCount
<1> USE DEF Goto, avars, critVars, semVars
<1>0. /\ DOMAIN pc = Threads /\ LockCount \in Int /\ RecursionCount \in Int
      /\ OwningThread \in Threads \cup {NoThread} /\ NoThread \notin Threads
      /\ Entering \in SUBSET Threads /\ CountingDown \in SUBSET Threads
      /\ LockCount + 1 = Cardinality(Entering) + Cardinality(CountingDown) + Owned
    BY DEF Live, TypeOK, Entering, CountingDown, LockCountExact
<1>1. Cardinality(Entering) \in Nat /\ Cardinality(CountingDown) \in Nat
    BY <1>0, FS_Subset, FS_CardinalityType, FS_EmptySet
\* The general case: the same threads wait.
<1>2. ASSUME Entering' = Entering, CountingDown' = CountingDown, LockCount' - LockCount = Owned' - Owned,
             LockCount' \in Int, Owned' \in Int
      PROVE  LockCountExact'
    BY <1>0, <1>1, <1>2 DEF LockCountExact
<1>3. ASSUME Acquire(t), pc[t] \in {"idle", "e_try", "e_spin", "e_inc"}, pc' = [pc EXCEPT ![t] = "idle"]
      PROVE  LockCountExact'
    <2>1. OwningThread = NoThread
        BY <1>3, NoOwner DEF Acquire
    <2>2. Entering' = Entering /\ CountingDown' = CountingDown
        BY <1>0, <1>3 DEF Entering, CountingDown
    <2>3. LockCount = -1 /\ LockCount' = 0 /\ OwningThread' = t /\ RecursionCount' = 1
        BY <1>3 DEF Acquire, Own
    <2> QED  BY <1>0, <1>2, <2>1, <2>2, <2>3
<1>4. ASSUME Recurse(t), pc[t] \in {"idle", "e_try", "e_spin", "e_inc"}, pc' = [pc EXCEPT ![t] = "idle"]
      PROVE  LockCountExact'
    <2>1. Entering' = Entering /\ CountingDown' = CountingDown
        BY <1>0, <1>4 DEF Entering, CountingDown
    <2>2. LockCount' = LockCount + 1 /\ RecursionCount' = RecursionCount + 1
          /\ OwningThread = t /\ OwningThread' = t
        BY <1>4 DEF Recurse
    <2> QED  BY <1>0, <1>2, <2>1, <2>2
<1>5. ASSUME Own(t), t \in Entering, pc' = [pc EXCEPT ![t] = "idle"], UNCHANGED LockCount,
             flag = 1 \/ Signalled # {}
      PROVE  LockCountExact'
    <2>1. OwningThread = NoThread
        BY <1>5, NoOwner
    <2>2. Entering' = Entering \ {t} /\ CountingDown' = CountingDown
        BY <1>0, <1>5 DEF Entering, CountingDown
    <2>3. Cardinality(Entering') = Cardinality(Entering) - 1
        BY <1>0, <1>5, <2>2, FS_Subset, FS_RemoveElement, FS_CardinalityType, FS_EmptySet
    <2>4. OwningThread' = t /\ RecursionCount' = 1
        BY <1>5 DEF Own
    <2> QED  BY <1>0, <1>1, <1>5, <2>1, <2>2, <2>3, <2>4 DEF LockCountExact
<1>6. CASE RtlEnterCriticalSection(t)
    BY <1>0, <1>2, <1>6 DEF RtlEnterCriticalSection, Entering, CountingDown
<1>7. CASE RtlTryEnterCriticalSection(t)
    BY <1>3, <1>4, <1>7 DEF RtlTryEnterCriticalSection
<1>8. CASE SpinFirstTry(t)
    <2>1. CASE Goto(t, "e_try", "idle") /\ (Acquire(t) \/ Recurse(t))
        BY <1>3, <1>4, <2>1
    <2>2. CASE Goto(t, "e_try", "e_spin") /\ UNCHANGED <<critVars, depth>>
        BY <1>0, <1>2, <2>2 DEF Entering, CountingDown
    <2> QED  BY <1>8, <2>1, <2>2 DEF SpinFirstTry
<1>9. CASE Spin(t)
    <2>1. CASE Goto(t, "e_spin", "idle") /\ Acquire(t)
        BY <1>3, <2>1
    <2>2. CASE (Goto(t, "e_spin", "e_spin") \/ Goto(t, "e_spin", "e_inc")) /\ UNCHANGED <<critVars, depth>>
        BY <1>0, <1>2, <2>2 DEF Entering, CountingDown
    <2> QED  BY <1>9, <2>1, <2>2 DEF Spin
<1>10. CASE Increment(t)
    <2>1. CASE Goto(t, "e_inc", "idle") /\ (Acquire(t) \/ Recurse(t))
        BY <1>3, <1>4, <2>1
    <2>2. CASE Goto(t, "e_inc", "wait") /\ LockCount' = LockCount + 1 /\ UNCHANGED <<RecursionCount, OwningThread>>
        <3>1. Entering' = Entering \cup {t} /\ t \notin Entering /\ CountingDown' = CountingDown
            BY <1>0, <2>2 DEF Entering, CountingDown
        <3>2. Cardinality(Entering') = Cardinality(Entering) + 1
            BY <1>0, <3>1, FS_Subset, FS_AddElement, FS_CardinalityType
        <3> QED  BY <1>0, <1>1, <2>2, <3>1, <3>2 DEF LockCountExact
    <2> QED  BY <1>10, <2>1, <2>2 DEF Increment
<1>11. CASE FlagTaken(t)
    BY <1>5, <1>11 DEF FlagTaken, Entering
<1>12. CASE SemaphoreTaken(t)
    <2>1. sem[t] \in Signalled
        BY <1>12 DEF SemaphoreTaken, Live, TypeOK, Signalled
    <2> QED  BY <1>5, <1>12, <2>1 DEF SemaphoreTaken, Entering
<1>13. CASE RtlLeaveCriticalSection(t)
    <2>1. OwningThread = t
        BY <1>13 DEF RtlLeaveCriticalSection, Live, OwnerState
    <2>2. CASE RecursionCount > 1
        <3>1. Entering' = Entering /\ CountingDown' = CountingDown
            BY <1>0, <1>13, <2>2 DEF RtlLeaveCriticalSection, Entering, CountingDown
        <3>2. LockCount' = LockCount - 1 /\ RecursionCount' = RecursionCount - 1 /\ OwningThread' = t
            BY <1>13, <2>1, <2>2 DEF RtlLeaveCriticalSection
        <3> QED  BY <1>0, <1>2, <2>1, <3>1, <3>2
    <2>3. CASE RecursionCount = 1
        <3>1. Entering' = Entering /\ CountingDown' = CountingDown \cup {t} /\ t \notin CountingDown
            BY <1>0, <1>13, <2>3 DEF RtlLeaveCriticalSection, Entering, CountingDown
        <3>2. Cardinality(CountingDown') = Cardinality(CountingDown) + 1
            BY <1>0, <3>1, FS_Subset, FS_AddElement, FS_CardinalityType
        <3>3. LockCount' = LockCount /\ OwningThread' = NoThread
            BY <1>13, <2>3 DEF RtlLeaveCriticalSection
        <3> QED  BY <1>0, <1>1, <2>1, <2>3, <3>1, <3>2, <3>3 DEF LockCountExact
    <2> QED  BY <1>13, <2>2, <2>3 DEF RtlLeaveCriticalSection
<1>14. CASE Decrement(t)
    <2>1. Entering' = Entering /\ CountingDown' = CountingDown \ {t} /\ t \in CountingDown
        BY <1>0, <1>14 DEF Decrement, Entering, CountingDown
    <2>2. Cardinality(CountingDown') = Cardinality(CountingDown) - 1
        BY <1>0, <2>1, FS_Subset, FS_RemoveElement, FS_CardinalityType, FS_EmptySet
    <2>3. LockCount' = LockCount - 1 /\ OwningThread' = OwningThread /\ RecursionCount' = RecursionCount
        BY <1>14 DEF Decrement
    <2>4. Owned' = Owned /\ Owned \in Int
        BY <1>0, <2>3
    <2> HIDE DEF Owned
    <2>5. Cardinality(Entering') = Cardinality(Entering)
        BY <2>1
    <2>6. LockCount' + 1 = Cardinality(Entering') + Cardinality(CountingDown') + Owned'
        <3>1. LockCount \in Int /\ Cardinality(Entering) \in Int /\ Cardinality(CountingDown) \in Int
            BY <1>0, <1>1
        <3>2. LockCount + 1 = Cardinality(Entering) + Cardinality(CountingDown) + Owned
            BY <1>0
        <3>3. LockCount' + 1 = Cardinality(Entering) + (Cardinality(CountingDown) - 1) + Owned
            BY <2>3, <2>4, <3>1, <3>2
        <3> QED  BY <2>2, <2>4, <2>5, <3>3
    <2> QED  BY <2>6 DEF LockCountExact, Owned
<1>15. CASE Wait(t) \/ FlagClear(t) \/ FlagWait(t) \/ FlagWoken(t) \/ FlagTimeout(t)
    BY <1>0, <1>2, <1>15 DEF Wait, FlagClear, FlagWait, FlagWoken, FlagTimeout, Entering, CountingDown
<1>16. CASE \/ SemaphoreExists(t, "w_get", "w_sem") \/ SemaphoreExists(t, "u_get", "u_sem")
            \/ CreateSemaphore(t, "w_get", "w_install") \/ CreateSemaphore(t, "u_get", "u_install")
    BY <1>0, <1>2, <1>16 DEF SemaphoreExists, CreateSemaphore, Entering, CountingDown
<1>17. CASE \/ InstallSemaphore(t, "w_install", "w_sem") \/ InstallSemaphore(t, "u_install", "u_sem")
            \/ CreateSemaphoreFails(t, "w_get", "w_sem") \/ CreateSemaphoreFails(t, "u_get", "u_sem")
    BY <1>0, <1>2, <1>17 DEF InstallSemaphore, CreateSemaphoreFails, Entering, CountingDown
<1>18. CASE SemaphoreTimeout(t) \/ WaitNoSemaphore(t) \/ SetFlag(t) \/ WakeFlag(t)
    BY <1>0, <1>2, <1>18 DEF SemaphoreTimeout, WaitNoSemaphore, SetFlag, WakeFlag, Entering, CountingDown
<1>19. CASE ReleaseSemaphore(t) \/ ReleaseRaises(t)
    BY <1>0, <1>2, <1>19 DEF ReleaseSemaphore, ReleaseRaises, Entering, CountingDown
<1>20. ~ShutdownNoWait(t) /\ ~LdrShutdownProcess(t)
    BY DEF ShutdownNoWait, LdrShutdownProcess, Live
<1> QED
    BY <1>6, <1>7, <1>8, <1>9, <1>10, <1>11, <1>12, <1>13, <1>14, <1>15, <1>16, <1>17, <1>18, <1>19, <1>20
    DEF ThreadStep, Step, Disturb

\* NtReleaseSemaphore is never called for a semaphore that is signalled.
LEMMA LimitStep ==
    ASSUME Live, NEW t \in Threads, ThreadStep(t), ~process_detaching',
           \A u \in Threads : pc[u] # "raised_limit"
    PROVE  \A u \in Threads : pc'[u] # "raised_limit"
<1> USE DEF Goto
<1>0. DOMAIN pc = Threads
    BY DEF Live, TypeOK
<1>1. CASE ReleaseRaises(t)
    <2>1. Signalled = {}
        BY <1>1, OnlyHolder DEF ReleaseRaises, Holding
    <2>2. sem[t] = NoSem
        BY <1>1, <2>1 DEF ReleaseRaises, Signalled, Live, TypeOK
    <2> QED  BY <1>0, <1>1, <2>2 DEF ReleaseRaises
<1>2. CASE RtlEnterCriticalSection(t) \/ RtlTryEnterCriticalSection(t) \/ RtlLeaveCriticalSection(t)
    BY <1>0, <1>2 DEF RtlEnterCriticalSection, RtlTryEnterCriticalSection, RtlLeaveCriticalSection
<1>3. CASE SpinFirstTry(t) \/ Spin(t) \/ Increment(t) \/ Wait(t) \/ FlagTaken(t) \/ FlagClear(t)
    BY <1>0, <1>3 DEF SpinFirstTry, Spin, Increment, Wait, FlagTaken, FlagClear
<1>4. CASE FlagWait(t) \/ FlagWoken(t) \/ FlagTimeout(t) \/ Decrement(t) \/ SetFlag(t) \/ WakeFlag(t)
    BY <1>0, <1>4 DEF FlagWait, FlagWoken, FlagTimeout, Decrement, SetFlag, WakeFlag
<1>5. CASE \/ SemaphoreExists(t, "w_get", "w_sem") \/ SemaphoreExists(t, "u_get", "u_sem")
           \/ CreateSemaphore(t, "w_get", "w_install") \/ CreateSemaphore(t, "u_get", "u_install")
    BY <1>0, <1>5 DEF SemaphoreExists, CreateSemaphore
<1>6. CASE \/ InstallSemaphore(t, "w_install", "w_sem") \/ InstallSemaphore(t, "u_install", "u_sem")
           \/ CreateSemaphoreFails(t, "w_get", "w_sem") \/ CreateSemaphoreFails(t, "u_get", "u_sem")
    BY <1>0, <1>6 DEF InstallSemaphore, CreateSemaphoreFails
<1>7. CASE SemaphoreTaken(t) \/ SemaphoreTimeout(t) \/ WaitNoSemaphore(t) \/ ReleaseSemaphore(t)
    BY <1>0, <1>7 DEF SemaphoreTaken, SemaphoreTimeout, WaitNoSemaphore, ReleaseSemaphore
<1>8. ~ShutdownNoWait(t) /\ ~LdrShutdownProcess(t)
    BY DEF ShutdownNoWait, LdrShutdownProcess, Live
<1> QED
    BY <1>1, <1>2, <1>3, <1>4, <1>5, <1>6, <1>7, <1>8 DEF ThreadStep, Step, Disturb

-----------------------------------------------------------------------------
(* The inductive invariant *)

\* A section nobody uses, as RtlInitializeCriticalSectionEx leaves it.
Free ==
    /\ LockCount = -1 /\ OwningThread = NoThread /\ flag = 0
    /\ \A t \in Threads : pc[t] = "idle" /\ depth[t] = 0 /\ sem[t] = NoSem /\ count[t] = 0

LEMMA FreeSection == TypeOK /\ Free => IInv
<1> SUFFICES ASSUME TypeOK, Free PROVE IInv
    OBVIOUS
<1> USE DEF Free
<1>1. Entering = {} /\ CountingDown = {} /\ Holding = {} /\ Signalled = {}
    BY DEF Entering, CountingDown, Holding, Signalled
<1>2. LockCountExact
    BY <1>1, FS_EmptySet DEF LockCountExact
<1> QED  BY <1>1, <1>2 DEF IInv, OwnerState, OneSemaphore, OneHolder, LimitKept

LEMMA InvInit == Init => IInv
<1> SUFFICES ASSUME Init PROVE IInv
    OBVIOUS
<1>1. TypeOK
    <2>1. "idle" \in Places
        BY DEF Places
    <2>2. LockCount \in Int /\ RecursionCount \in Int /\ flag \in {0, 1}
        BY DEF Init
    <2>3. count \in [Threads -> {0, 1}] /\ spin \in [Threads -> Nat] /\ depth \in [Threads -> Nat]
        BY DEF Init
    <2> QED  BY <2>1, <2>2, <2>3 DEF Init, AInit, TypeOK
<1> QED  BY <1>1, FreeSection DEF Init, Free

LEMMA DeleteStep ==
    ASSUME IInv, UNCHANGED section, RtlDeleteCriticalSection
    PROVE  IInv'
<1>1. TypeOK'
    BY DEF RtlDeleteCriticalSection, IInv, TypeOK, avars
<1>2. CASE process_detaching
    BY <1>1, <1>2 DEF RtlDeleteCriticalSection, IInv, LockCountExact, LimitKept
<1>3. CASE ~process_detaching
    <2>1. \A t \in Threads : sem[t] = NoSem
        BY <1>3 DEF RtlDeleteCriticalSection, IInv, OneSemaphore
    <2>2. Free'
        BY <2>1 DEF RtlDeleteCriticalSection, Free
    <2> QED  BY <1>1, <2>2, FreeSection, PTL
<1> QED  BY <1>2, <1>3

\* The shut-down of the process is not undone.
LEMMA DetachingStays ==
    ASSUME process_detaching, NEW t \in Threads, ThreadStep(t)
    PROVE  process_detaching'
BY DEF ThreadStep, Step, Disturb, RtlEnterCriticalSection, RtlTryEnterCriticalSection,
       RtlLeaveCriticalSection, SpinFirstTry, Spin, Increment, Wait, ShutdownNoWait, FlagTaken, FlagClear,
       FlagWait, FlagWoken, FlagTimeout, SemaphoreExists, CreateSemaphore, InstallSemaphore,
       CreateSemaphoreFails, SemaphoreTaken, SemaphoreTimeout, WaitNoSemaphore, Decrement, SetFlag,
       WakeFlag, ReleaseSemaphore, ReleaseRaises, LdrShutdownProcess

LEMMA InvStep == IInv /\ [Next]_vars => IInv'
<1> SUFFICES ASSUME IInv, [Next]_vars PROVE IInv'
    OBVIOUS
<1>1. CASE UNCHANGED vars
    BY <1>1
    DEF vars, avars, critVars, semVars, IInv, TypeOK, OwnerState, OneSemaphore, OneHolder, LockCountExact,
        LimitKept, Entering, CountingDown, Holding, Signalled
<1>2. ASSUME UNCHANGED section, NEW t \in Threads, ThreadStep(t) PROVE IInv'
    <2>1. TypeOK'
        BY <1>2, TypeStep DEF IInv
    <2>2. CASE process_detaching'
        BY <2>1, <2>2 DEF IInv, LockCountExact, LimitKept
    <2>3. CASE ~process_detaching'
        <3>1. Live /\ \A u \in Threads : pc[u] # "raised_limit"
            BY <1>2, <2>3, DetachingStays DEF IInv, Live, LimitKept
        <3>2. OwnerState' /\ OneSemaphore' /\ OneHolder' /\ LockCountExact'
            BY <1>2, <2>3, <3>1, OwnerStep, SemaphoreStep, HolderStep, CountStep
        <3>3. LimitKept'
            BY <1>2, <2>3, <3>1, LimitStep DEF LimitKept
        <3> QED  BY <2>1, <3>2, <3>3 DEF IInv
    <2> QED  BY <2>2, <2>3
<1> QED  BY <1>1, <1>2, DeleteStep DEF Next, ThreadStep

THEOREM Invariant == Spec => []IInv
BY InvInit, InvStep, PTL DEF Spec

-----------------------------------------------------------------------------
(* The properties *)

\* The fields of RTL_CRITICAL_SECTION keep their types, and the semaphores a
\* count of 0 or 1, shut-down included.
THEOREM TypeCorrect == Spec => []TypeOK
BY Invariant, PTL DEF IInv

\* RtlEnterCriticalSection lets one thread in at a time, and OwningThread and
\* RecursionCount say which one and how often it has entered.
THEOREM OneInside == Spec => []OneOwner
<1>1. IInv => OneOwner
    BY DEF IInv, OneOwner, OwnerState
<1> QED  BY <1>1, Invariant, PTL

\* The interlocked counter never drifts from the threads it counts.
THEOREM LockCountIsExact == Spec => []LockCountExact
BY Invariant, PTL DEF IInv

\* RtlpUnWaitCriticalSection never finds its semaphore signalled: leaving a
\* section does not raise STATUS_SEMAPHORE_LIMIT_EXCEEDED.
THEOREM SemaphoreLimitKept == Spec => []LimitKept
BY Invariant, PTL DEF IInv

\* RtlLeaveCriticalSection hands the section to a waiting thread once: while
\* threads wait there is exactly one owner, one thread that is leaving, or one
\* token, unless a leave has raised.
THEOREM HandOverIsExact == Spec => []HandOverNotLost
<1>1. IInv => HandOverNotLost
    <2> SUFFICES ASSUME IInv, ~process_detaching, ~CreationFailed, Entering # {}
                 PROVE  Cardinality({t \in Threads : depth[t] > 0}) + Cardinality(CountingDown)
                            + Cardinality(Leaving) + Tokens = 1
        BY DEF HandOverNotLost
    <2> DEFINE Inside == {t \in Threads : depth[t] > 0}
    <2>1. Live
        BY DEF IInv, Live
    <2>2. Holding = Inside \cup CountingDown \cup Leaving
        BY DEF Holding, CreationFailed, CountingDown, Leaving
    <2>3. /\ Inside \cap CountingDown = {} /\ Inside \cap Leaving = {}
          /\ CountingDown \cap Leaving = {}
        BY <2>1 DEF Live, OwnerState, CountingDown, Leaving
    <2>4. LockCount >= 0
        <3>1. Cardinality(Entering) \in Nat \ {0} /\ Cardinality(CountingDown) \in Nat
            BY FS_Subset, FS_CardinalityType, FS_EmptySet, Entering \in SUBSET Threads, CountingDown \in SUBSET Threads
            DEF Entering, CountingDown
        <3>2. CASE OwningThread = NoThread
            BY <2>1, <3>1, <3>2 DEF Live, TypeOK, LockCountExact
        <3>3. CASE OwningThread # NoThread
            <4>1. OwningThread \in Holding
                BY <2>1, <3>3 DEF Live, TypeOK, OwnerState, Holding
            <4> QED  BY <2>1, <4>1, OnlyHolder
        <3> QED  BY <3>2, <3>3
    <2>5. CASE \E t \in Threads : Holding = {t} /\ flag = 0 /\ Signalled = {}
        <3>1. PICK t \in Threads : Holding = {t} /\ flag = 0 /\ Signalled = {}
            BY <2>5
        <3>2. \/ Inside = {t} /\ CountingDown = {} /\ Leaving = {}
              \/ Inside = {} /\ CountingDown = {t} /\ Leaving = {}
              \/ Inside = {} /\ CountingDown = {} /\ Leaving = {t}
            BY <2>2, <2>3, <3>1
        <3>3. Cardinality({t}) = 1 /\ Cardinality({}) = 0
            BY FS_Singleton, FS_EmptySet
        <3> HIDE DEF Inside
        <3>4. \/ Cardinality(Inside) = 1 /\ Cardinality(CountingDown) = 0 /\ Cardinality(Leaving) = 0
              \/ Cardinality(Inside) = 0 /\ Cardinality(CountingDown) = 1 /\ Cardinality(Leaving) = 0
              \/ Cardinality(Inside) = 0 /\ Cardinality(CountingDown) = 0 /\ Cardinality(Leaving) = 1
            BY <3>2, <3>3, Zenon
        <3>5. Tokens = 0
            BY <3>1, <3>3 DEF Tokens
        <3> QED  BY <3>4, <3>5 DEF Inside
    <2>6. CASE Holding = {}
        <3>1. Inside = {} /\ CountingDown = {} /\ Leaving = {}
            BY <2>2, <2>6
        <3>2. Cardinality({}) = 0 /\ \A s : Cardinality({s}) = 1
            BY FS_EmptySet, FS_Singleton
        <3>3. \/ flag = 1 /\ Signalled = {}
              \/ flag = 0 /\ \E s \in Threads : Signalled = {s}
            <4>1. OneHolder /\ LockCount # -1
                BY <2>1, <2>4 DEF Live
            <4>2. ASSUME NEW t \in Threads PROVE Holding # {t}
                BY <2>6
            <4> QED  BY <4>1, <4>2 DEF OneHolder
        <3>4. \/ flag = 1 /\ Cardinality(Signalled) = 0
              \/ flag = 0 /\ Cardinality(Signalled) = 1
            BY <3>2, <3>3, Zenon
        <3>5. Tokens = 1
            BY <3>4 DEF Tokens
        <3> QED  BY <3>1, <3>2, <3>5
    <2> QED  BY <2>1, <2>4, <2>5, <2>6 DEF Live, TypeOK, OneHolder
<1> QED  BY <1>1, Invariant, PTL
=============================================================================
