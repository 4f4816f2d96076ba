--------------------------- MODULE SRWLock_proofs ---------------------------
(***************************************************************************)
(* Machine-checked proofs about SRWLock, for any finite set of threads     *)
(* that the 15 bit counter of exclusive waiters can count.                 *)
(***************************************************************************)
EXTENDS SRWLock, FiniteSetTheorems, TLAPS

-----------------------------------------------------------------------------
(* The fields of the lock word *)

\* Arithmetic on the fields stays within their range.
LEMMA WrapType ==
    ASSUME NEW max \in Nat, NEW x \in 0..max
    PROVE  Inc(x, max) \in 0..max /\ Dec(x, max) \in 0..max
BY DEF Inc, Dec

-----------------------------------------------------------------------------
(* Type correctness *)

LEMMA TypeInit == Init => TypeOK
BY SRWLockAssumption DEF Init, AInit, TypeOK, Words, NoWord, Locations

LEMMA TypeStep == TypeOK /\ [Next]_vars => TypeOK'
<1> SUFFICES ASSUME TypeOK, [Next]_vars PROVE TypeOK'
    OBVIOUS
<1> USE DEF TypeOK, Words, Locations, Goto, Word, NoWord, avars, lockVars
<1>0. Inc(waiters, MaxWaiters) \in 0..MaxWaiters /\ Dec(waiters, MaxWaiters) \in 0..MaxWaiters
      /\ Inc(owners, MaxOwners) \in 0..MaxOwners /\ Dec(owners, MaxOwners) \in 0..MaxOwners
    BY WrapType, SRWLockAssumption
<1>1. CASE UNCHANGED vars
    BY <1>1 DEF vars
<1>2. ASSUME NEW t \in Threads, Call(t) PROVE TypeOK'
    <2>1. CASE RtlAcquireSRWLockExclusive(t)
        BY <1>0, <2>1 DEF RtlAcquireSRWLockExclusive
    <2>2. CASE RtlAcquireSRWLockShared(t)
        BY <2>2 DEF RtlAcquireSRWLockShared
    <2>3. CASE RtlTryAcquireSRWLockExclusive(t)
        BY <2>3, SRWLockAssumption DEF RtlTryAcquireSRWLockExclusive
    <2>4. CASE RtlTryAcquireSRWLockShared(t)
        BY <1>0, <2>4 DEF RtlTryAcquireSRWLockShared
    <2> QED  BY <1>2, <2>1, <2>2, <2>3, <2>4 DEF Call
<1>3. ASSUME NEW t \in Threads, Unlock(t) PROVE TypeOK'
    BY <1>0, <1>3, SRWLockAssumption
    DEF Unlock, RtlReleaseSRWLockExclusive, RtlReleaseSRWLockShared
<1>4. ASSUME NEW t \in Threads, SpuriousWake(t) PROVE TypeOK'
    BY <1>4 DEF SpuriousWake, Retry, Withdraw
<1>5. ASSUME NEW t \in Threads, Step(t) PROVE TypeOK'
    <2>1. CASE GrabExclusive(t)
        BY <1>0, <2>1, SRWLockAssumption DEF GrabExclusive
    <2>2. CASE ExclusiveMustWait(t) \/ SharedMustWait(t)
        BY <2>2, SMTT(40) DEF ExclusiveMustWait, SharedMustWait
    <2>3. CASE WaitOwners(t)
        BY <2>3, SRWLockAssumption DEF WaitOwners, Register
    <2>9. CASE WaitWord(t)
        BY <2>9, SRWLockAssumption DEF WaitWord, Register
    <2>4. CASE OwnersChanged(t)
        BY <2>4, SRWLockAssumption DEF OwnersChanged
    <2>10. CASE WordChanged(t)
        BY <2>10, SRWLockAssumption DEF WordChanged
    <2>5. CASE GrabShared(t)
        BY <1>0, <2>5 DEF GrabShared
    <2>6. CASE Woken(t)
        BY <2>6 DEF Woken, Retry, Return
    <2>7. CASE WakeSingle(t)
        BY <2>7 DEF WakeSingle, Release, Waiters
    <2>8. CASE WakeAll(t)
        BY <2>8 DEF WakeAll, ReleaseAll, Waiters
    <2> QED  BY <1>5, <2>1, <2>2, <2>3, <2>4, <2>5, <2>6, <2>7, <2>8, <2>9, <2>10
             DEF Step
<1> QED  BY <1>1, <1>2, <1>3, <1>4, <1>5 DEF Next

\* RtlAcquire/TryAcquire/ReleaseSRWLock* keep every field within its width.
THEOREM TypeCorrect == Spec => []TypeOK
BY TypeInit, TypeStep, PTL DEF Spec

-----------------------------------------------------------------------------
(* The inductive invariant *)

LEMMA InvInit == Init => IInv
<1> SUFFICES ASSUME Init PROVE IInv
    OBVIOUS
<1> USE DEF Init, AInit
<1>1. TypeOK
    BY TypeInit
<1>2. MutualExclusion /\ LocalState
    BY AddrWaitAssumption, SRWLockAssumption
    DEF MutualExclusion, LocalState, WantsExclusive, WantsShared
<1>3. WordCountsThreads
    <2>1. Holders = {} /\ WantsExclusive = {}
        BY DEF Holders, WantsExclusive
    <2> QED  BY <2>1, FS_EmptySet DEF WordCountsThreads
<1>4. Waiters("word") = {} /\ Waiters("owners") = {}
    BY AddrWaitAssumption, SRWLockAssumption DEF Waiters
<1> QED  BY <1>1, <1>2, <1>3, <1>4 DEF IInv, SharedNotStranded, ExclusiveNotStranded

\* A thread joins those that are counted, and they are no more than all; ...
LEMMA OneMore ==
    ASSUME NEW S \in SUBSET Threads, NEW t \in Threads \ S
    PROVE  /\ Cardinality(S) \in Nat /\ Cardinality(Threads) \in Nat
           /\ Cardinality(S \cup {t}) = Cardinality(S) + 1
           /\ Cardinality(S) + 1 <= Cardinality(Threads)
<1>1. IsFiniteSet(S) /\ Cardinality(S) \in Nat /\ Cardinality(Threads) \in Nat
    BY SRWLockAssumption, FS_Subset, FS_CardinalityType
<1>2. Cardinality(S \cup {t}) = Cardinality(S) + 1
    BY <1>1, FS_AddElement
<1>3. Cardinality(S \cup {t}) <= Cardinality(Threads)
    BY SRWLockAssumption, FS_Subset, S \cup {t} \in SUBSET Threads
<1> QED  BY <1>1, <1>2, <1>3

\* ... or leaves them.
LEMMA OneLess ==
    ASSUME NEW S \in SUBSET Threads, NEW t \in S
    PROVE  Cardinality(S \ {t}) = Cardinality(S) - 1 /\ Cardinality(S) \in Nat \ {0}
<1>1. IsFiniteSet(S) /\ Cardinality(S) \in Nat /\ Cardinality(S) # 0
    BY SRWLockAssumption, FS_Subset, FS_CardinalityType, FS_EmptySet
<1> QED  BY <1>1, FS_RemoveElement

\* The lock word keeps counting the threads.
LEMMA CountsStep ==
    ASSUME IInv, NEW t \in Threads,
           Call(t) \/ Unlock(t) \/ Step(t) \/ SpuriousWake(t)
    PROVE  WordCountsThreads'
<1> USE DEF IInv, TypeOK, Goto, avars, lockVars, Locations
<1>1. CASE RtlAcquireSRWLockExclusive(t)
    <2>1. WantsExclusive' = WantsExclusive \cup {t} /\ t \notin WantsExclusive /\ Holders' = Holders
        BY <1>1 DEF RtlAcquireSRWLockExclusive, WantsExclusive, Holders
    <2>2. waiters' = Cardinality(WantsExclusive')
        <3>1. /\ Cardinality(WantsExclusive) \in Nat
              /\ Cardinality(WantsExclusive') = Cardinality(WantsExclusive) + 1
              /\ Cardinality(WantsExclusive) + 1 <= Cardinality(Threads)
              /\ Cardinality(Threads) \in Nat
            BY <2>1, SRWLockAssumption, OneMore, WantsExclusive \subseteq Threads DEF WantsExclusive
        <3> QED  BY <1>1, <3>1, SRWLockAssumption DEF RtlAcquireSRWLockExclusive, Inc, WordCountsThreads
    <2> QED  BY <1>1, <2>1, <2>2 DEF RtlAcquireSRWLockExclusive, WordCountsThreads
<1>2. CASE GrabExclusive(t)
    <2>1. WantsExclusive' = WantsExclusive \ {t} /\ t \in WantsExclusive
        BY <1>2 DEF GrabExclusive, WantsExclusive
    <2>2. waiters' = Cardinality(WantsExclusive')
        <3>1. /\ Cardinality(WantsExclusive) \in Nat \ {0}
              /\ Cardinality(WantsExclusive') = Cardinality(WantsExclusive) - 1
            BY <2>1, SRWLockAssumption, OneLess DEF WantsExclusive
        <3> QED  BY <1>2, <3>1 DEF GrabExclusive, Dec, WordCountsThreads
    <2>3. Holders = {}
        BY <1>2, SRWLockAssumption, FS_Subset, FS_CardinalityType, FS_EmptySet, Holders \subseteq Threads DEF GrabExclusive, WordCountsThreads, Holders
    <2>4. Holders' = {t}
        BY <1>2, <2>3 DEF GrabExclusive, Holders
    <2> QED  BY <1>2, <2>2, <2>4, FS_Singleton DEF GrabExclusive, WordCountsThreads
<1>3. CASE RtlTryAcquireSRWLockExclusive(t)
    <2>1. WantsExclusive' = WantsExclusive
        BY <1>3 DEF RtlTryAcquireSRWLockExclusive, WantsExclusive
    <2>2. Holders = {}
        BY <1>3, SRWLockAssumption, FS_Subset, FS_CardinalityType, FS_EmptySet, Holders \subseteq Threads
        DEF RtlTryAcquireSRWLockExclusive, WordCountsThreads, Holders
    <2>3. Holders' = {t}
        BY <1>3, <2>2 DEF RtlTryAcquireSRWLockExclusive, Holders
    <2> QED  BY <1>3, <2>1, <2>3, FS_Singleton DEF RtlTryAcquireSRWLockExclusive, WordCountsThreads
<1>4. CASE GrabShared(t) \/ RtlTryAcquireSRWLockShared(t)
    <2>1. WantsExclusive' = WantsExclusive
        BY <1>4 DEF GrabShared, RtlTryAcquireSRWLockShared, WantsExclusive
    <2>2. Holders' = Holders \cup {t} /\ t \notin Holders
        BY <1>4 DEF GrabShared, RtlTryAcquireSRWLockShared, LocalState, WantsShared, Holders
    <2>3. owners' = Cardinality(Holders')
        <3>1. /\ Cardinality(Holders) \in Nat
              /\ Cardinality(Holders') = Cardinality(Holders) + 1
              /\ Cardinality(Holders) + 1 <= Cardinality(Threads)
              /\ Cardinality(Threads) \in Nat
            BY <2>2, SRWLockAssumption, OneMore, Holders \subseteq Threads DEF Holders
        <3> QED
            BY <1>4, <3>1, SRWLockAssumption
            DEF GrabShared, RtlTryAcquireSRWLockShared, Inc, WordCountsThreads
    <2>4. \A u \in Threads : hold'[u] = "exclusive" <=> hold[u] = "exclusive"
        BY <1>4, <2>2 DEF GrabShared, RtlTryAcquireSRWLockShared, Holders
    <2> QED
        BY <1>4, <2>1, <2>3, <2>4 DEF GrabShared, RtlTryAcquireSRWLockShared, WordCountsThreads
<1>5. ASSUME NEW u \in Threads, RtlReleaseSRWLockExclusive(t, u) PROVE WordCountsThreads'
    <2>1. WantsExclusive' = WantsExclusive
        BY <1>5 DEF RtlReleaseSRWLockExclusive, WantsExclusive
    <2>2. Holders' = {} /\ \A w \in Threads : hold'[w] = "none"
        BY <1>5 DEF RtlReleaseSRWLockExclusive, MutualExclusion, Holders
    <2> QED  BY <1>5, <2>1, <2>2, FS_EmptySet DEF RtlReleaseSRWLockExclusive, WordCountsThreads
<1>6. ASSUME NEW u \in Threads, RtlReleaseSRWLockShared(t, u) PROVE WordCountsThreads'
    <2>1. WantsExclusive' = WantsExclusive
        BY <1>6 DEF RtlReleaseSRWLockShared, WantsExclusive
    <2>2. Holders' = Holders \ {u} /\ u \in Holders
        BY <1>6 DEF RtlReleaseSRWLockShared, Holders
    <2>3. owners' = Cardinality(Holders')
        <3>1. /\ Cardinality(Holders) \in Nat \ {0}
              /\ Cardinality(Holders') = Cardinality(Holders) - 1
            BY <2>2, SRWLockAssumption, OneLess DEF Holders
        <3> QED  BY <1>6, <3>1 DEF RtlReleaseSRWLockShared, Dec, WordCountsThreads
    <2>4. \A w \in Threads : hold'[w] = "exclusive" <=> hold[w] = "exclusive"
        BY <1>6 DEF RtlReleaseSRWLockShared
    <2> QED  BY <1>6, <2>1, <2>3, <2>4 DEF RtlReleaseSRWLockShared, WordCountsThreads
<1>7. ASSUME UNCHANGED <<lockVars, hold>>, WantsExclusive' = WantsExclusive PROVE WordCountsThreads'
    BY <1>7 DEF WordCountsThreads, Holders
<1>8. CASE RtlAcquireSRWLockShared(t)
    BY <1>7, <1>8 DEF RtlAcquireSRWLockShared, WantsExclusive
<1>9. CASE ExclusiveMustWait(t) \/ WaitOwners(t) \/ OwnersChanged(t)
    BY <1>7, <1>9 DEF ExclusiveMustWait, WaitOwners, OwnersChanged, WantsExclusive
<1>10. CASE SharedMustWait(t) \/ WaitWord(t) \/ WordChanged(t)
    BY <1>7, <1>10 DEF SharedMustWait, WaitWord, WordChanged, WantsExclusive
<1>11. CASE Woken(t) \/ SpuriousWake(t)
    BY <1>7, <1>11 DEF Woken, SpuriousWake, Retry, WantsExclusive
<1>12. CASE WakeSingle(t) \/ WakeAll(t)
    BY <1>7, <1>12 DEF WakeSingle, WakeAll, WantsExclusive
<1> QED
    BY <1>1, <1>2, <1>3, <1>4, <1>5, <1>6, <1>8, <1>9, <1>10, <1>11, <1>12 DEF Call, Unlock, Step

\* No step gives a thread a hold beside an exclusive one.
LEMMA ExclusionStep ==
    ASSUME IInv, NEW t \in Threads,
           Call(t) \/ Unlock(t) \/ Step(t) \/ SpuriousWake(t)
    PROVE  MutualExclusion'
<1> USE DEF IInv, TypeOK, Goto, MutualExclusion
<1>1. CASE GrabExclusive(t) \/ RtlTryAcquireSRWLockExclusive(t)
    <2>1. Holders = {}
        BY <1>1, SRWLockAssumption, FS_Subset, FS_CardinalityType, FS_EmptySet, Holders \subseteq Threads
        DEF GrabExclusive, RtlTryAcquireSRWLockExclusive, WordCountsThreads, Holders
    <2> QED  BY <1>1, <2>1 DEF GrabExclusive, RtlTryAcquireSRWLockExclusive, Holders
<1>2. CASE GrabShared(t) \/ RtlTryAcquireSRWLockShared(t)
    <2>1. \A u \in Threads : hold[u] # "exclusive"
        BY <1>2 DEF GrabShared, RtlTryAcquireSRWLockShared, Exclusive, Word, WordCountsThreads
    <2> QED  BY <1>2, <2>1 DEF GrabShared, RtlTryAcquireSRWLockShared
<1>3. CASE Unlock(t)
    BY <1>3 DEF Unlock, RtlReleaseSRWLockExclusive, RtlReleaseSRWLockShared
<1>4. CASE UNCHANGED hold
    BY <1>4
<1> QED
    BY <1>1, <1>2, <1>3, <1>4
    DEF Call, Step, SpuriousWake, RtlAcquireSRWLockExclusive, RtlAcquireSRWLockShared,
        ExclusiveMustWait, WaitOwners, OwnersChanged, SharedMustWait, WaitWord, WordChanged,
        Woken, WakeSingle, WakeAll

\* A thread's registration and the word it has read fit its place in the code.
LEMMA LocalStep ==
    ASSUME IInv, NEW t \in Threads,
           Call(t) \/ Unlock(t) \/ Step(t) \/ SpuriousWake(t)
    PROVE  LocalState'
<1> USE AddrWaitAssumption, SRWLockAssumption
    DEF IInv, TypeOK, Goto, avars, LocalState, WantsExclusive, WantsShared
<1>1. CASE RtlAcquireSRWLockExclusive(t) \/ RtlAcquireSRWLockShared(t)
    BY <1>1 DEF RtlAcquireSRWLockExclusive, RtlAcquireSRWLockShared
<1>2. CASE RtlTryAcquireSRWLockExclusive(t) \/ RtlTryAcquireSRWLockShared(t)
    BY <1>2 DEF RtlTryAcquireSRWLockExclusive, RtlTryAcquireSRWLockShared
<1>3. CASE GrabExclusive(t) \/ GrabShared(t)
    BY <1>3 DEF GrabExclusive, GrabShared
<1>4. CASE ExclusiveMustWait(t)
    BY <1>4 DEF ExclusiveMustWait, Word
<1>5. CASE SharedMustWait(t)
    BY <1>5 DEF SharedMustWait
<1>6. CASE WaitOwners(t) \/ WaitWord(t)
    BY <1>6 DEF WaitOwners, WaitWord, Register
<1>7. CASE OwnersChanged(t) \/ WordChanged(t)
    BY <1>7 DEF OwnersChanged, WordChanged
<1>8. CASE Woken(t)
    BY <1>8 DEF Woken, Retry, Return
<1>9. CASE SpuriousWake(t)
    BY <1>9 DEF SpuriousWake, Retry, Withdraw
<1>10. CASE WakeSingle(t)
    BY <1>10 DEF WakeSingle, Release, Waiters
<1>11. CASE WakeAll(t)
    BY <1>11 DEF WakeAll, ReleaseAll, Waiters
<1>12. CASE Unlock(t)
    BY <1>12 DEF Unlock, RtlReleaseSRWLockExclusive, RtlReleaseSRWLockShared
<1> QED
    BY <1>1, <1>2, <1>3, <1>4, <1>5, <1>6, <1>7, <1>8, <1>9, <1>10, <1>11, <1>12 DEF Call, Step

\* The shared waiters are woken when the last exclusive user has gone.
LEMMA SharedStep ==
    ASSUME IInv, NEW t \in Threads, WordCountsThreads',
           Call(t) \/ Unlock(t) \/ Step(t) \/ SpuriousWake(t)
    PROVE  SharedNotStranded'
<1> USE AddrWaitAssumption, SRWLockAssumption
    DEF IInv, TypeOK, Goto, avars, lockVars, SharedNotStranded, Waiters, Locations
<1>1. CASE RtlAcquireSRWLockExclusive(t)
    <2>1. t \in WantsExclusive' /\ WantsExclusive' \subseteq Threads
        BY <1>1 DEF RtlAcquireSRWLockExclusive, WantsExclusive
    <2> HIDE DEF TypeOK, SharedNotStranded
    <2>2. waiters' # 0
        BY <2>1, SRWLockAssumption, FS_Subset, FS_CardinalityType, FS_EmptySet DEF WordCountsThreads
    <2> QED  BY <2>2 DEF SharedNotStranded
<1>2. CASE RtlAcquireSRWLockShared(t) \/ RtlTryAcquireSRWLockShared(t) \/ GrabShared(t)
    BY <1>2 DEF RtlAcquireSRWLockShared, RtlTryAcquireSRWLockShared, GrabShared
<1>3. CASE RtlTryAcquireSRWLockExclusive(t) \/ GrabExclusive(t)
    BY <1>3 DEF RtlTryAcquireSRWLockExclusive, GrabExclusive
<1>4. CASE ExclusiveMustWait(t) \/ OwnersChanged(t) \/ SharedMustWait(t) \/ WordChanged(t)
    BY <1>4 DEF ExclusiveMustWait, OwnersChanged, SharedMustWait, WordChanged
<1>5. CASE WaitOwners(t)
    BY <1>5 DEF WaitOwners, Register
<1>6. CASE WaitWord(t)
    <2>1. held = 1 \/ waiters # 0
        BY <1>6 DEF WaitWord, LocalState, Exclusive, Word
    <2> QED  BY <1>6, <2>1 DEF WaitWord
<1>7. CASE Woken(t)
    BY <1>7 DEF Woken, Retry, Return
<1>8. CASE SpuriousWake(t)
    BY <1>8 DEF SpuriousWake, Retry, Withdraw
<1>9. CASE WakeSingle(t)
    BY <1>9 DEF WakeSingle, Release
<1>10. CASE WakeAll(t)
    BY <1>10 DEF WakeAll, ReleaseAll
<1>11. ASSUME NEW u \in Threads, RtlReleaseSRWLockExclusive(t, u) PROVE SharedNotStranded'
    BY <1>11 DEF RtlReleaseSRWLockExclusive
<1>12. ASSUME NEW u \in Threads, RtlReleaseSRWLockShared(t, u) PROVE SharedNotStranded'
    BY <1>12 DEF RtlReleaseSRWLockShared
<1> QED
    BY <1>1, <1>2, <1>3, <1>4, <1>5, <1>6, <1>7, <1>8, <1>9, <1>10, <1>11, <1>12 DEF Call, Unlock, Step

\* An exclusive waiter is woken, or somebody else is trying, when it is free.
LEMMA ExclusiveStep ==
    ASSUME IInv, NEW t \in Threads,
           Call(t) \/ Unlock(t) \/ Step(t) \/ SpuriousWake(t)
    PROVE  ExclusiveNotStranded'
<1> USE AddrWaitAssumption, SRWLockAssumption
    DEF IInv, TypeOK, Goto, avars, lockVars, ExclusiveNotStranded, Waiters, Locations
<1>1. CASE RtlAcquireSRWLockExclusive(t) \/ RtlAcquireSRWLockShared(t)
    BY <1>1 DEF RtlAcquireSRWLockExclusive, RtlAcquireSRWLockShared
<1>2. CASE RtlTryAcquireSRWLockExclusive(t) \/ GrabExclusive(t)
    BY <1>2 DEF RtlTryAcquireSRWLockExclusive, GrabExclusive
<1>3. CASE RtlTryAcquireSRWLockShared(t) \/ GrabShared(t)
    <2>1. Waiters("owners")' = Waiters("owners") /\ waiters = 0
        BY <1>3 DEF RtlTryAcquireSRWLockShared, GrabShared, Exclusive, Word
    <2>2. WantsExclusive = {}
        BY <2>1, SRWLockAssumption, FS_Subset, FS_CardinalityType, FS_EmptySet, WantsExclusive \subseteq Threads DEF WordCountsThreads, WantsExclusive
    <2>3. Waiters("owners") = {}
        BY <2>2 DEF WantsExclusive, LocalState
    <2> QED  BY <2>1, <2>3
<1>4. CASE ExclusiveMustWait(t) \/ OwnersChanged(t)
    BY <1>4 DEF ExclusiveMustWait, OwnersChanged
<1>5. CASE SharedMustWait(t) \/ WordChanged(t)
    BY <1>5 DEF SharedMustWait, WordChanged
<1>6. CASE WaitOwners(t)
    BY <1>6 DEF WaitOwners, LocalState
<1>7. CASE WaitWord(t)
    BY <1>7 DEF WaitWord, Register
<1>8. CASE Woken(t)
    BY <1>8 DEF Woken, Retry, Return
<1>9. CASE SpuriousWake(t)
    BY <1>9 DEF SpuriousWake, Retry, Withdraw
<1>10. CASE WakeSingle(t)
    BY <1>10 DEF WakeSingle, Release, LocalState
<1>11. CASE WakeAll(t)
    BY <1>11 DEF WakeAll, ReleaseAll
<1>12. ASSUME NEW u \in Threads, RtlReleaseSRWLockExclusive(t, u) PROVE ExclusiveNotStranded'
    <2>1. CASE waiters # 0
        BY <1>12, <2>1 DEF RtlReleaseSRWLockExclusive
    <2>2. CASE waiters = 0
        <3>1. WantsExclusive = {}
            BY <2>2, SRWLockAssumption, FS_Subset, FS_CardinalityType, FS_EmptySet, WantsExclusive \subseteq Threads DEF WordCountsThreads, WantsExclusive
        <3> QED  BY <1>12, <3>1 DEF RtlReleaseSRWLockExclusive, WantsExclusive, LocalState
    <2> QED  BY <2>1, <2>2
<1>13. ASSUME NEW u \in Threads, RtlReleaseSRWLockShared(t, u) PROVE ExclusiveNotStranded'
    BY <1>13 DEF RtlReleaseSRWLockShared
<1> QED
    BY <1>1, <1>2, <1>3, <1>4, <1>5, <1>6, <1>7, <1>8, <1>9, <1>10, <1>11, <1>12, <1>13
    DEF Call, Unlock, Step

LEMMA InvStep == IInv /\ [Next]_vars => IInv'
<1> SUFFICES ASSUME IInv, [Next]_vars PROVE IInv'
    OBVIOUS
<1>1. CASE UNCHANGED vars
    BY <1>1 DEF vars, IInv, TypeOK, MutualExclusion, WordCountsThreads, LocalState,
        SharedNotStranded, ExclusiveNotStranded, Waiters, Holders, WantsExclusive, WantsShared
<1>2. ASSUME NEW t \in Threads, Call(t) \/ Unlock(t) \/ Step(t) \/ SpuriousWake(t)
      PROVE  IInv'
    <2>1. TypeOK'
        BY TypeStep DEF IInv
    <2> QED
        BY <1>2, <2>1, CountsStep, ExclusionStep, LocalStep, SharedStep, ExclusiveStep DEF IInv
<1> QED  BY <1>1, <1>2 DEF Next

THEOREM Invariant == Spec => []IInv
BY InvInit, InvStep, PTL DEF Spec

-----------------------------------------------------------------------------
(* The properties *)

\* RtlAcquireSRWLock* never let a second thread in beside an exclusive owner.
THEOREM Exclusion == Spec => []MutualExclusion
BY Invariant, PTL DEF IInv

\* The counters of struct srw_lock never drift from the threads they count.
THEOREM WordIsExact == Spec => []WordCountsThreads
BY Invariant, PTL DEF IInv

\* The choice RtlReleaseSRWLock* makes of whom to wake loses no wake-up: while
\* nobody has or waits for exclusive access, no shared waiter is left asleep, ...
THEOREM SharedIsWoken == Spec => []SharedNotStranded
BY Invariant, PTL DEF IInv

\* ... and while nobody has the lock, no exclusive waiter is left asleep with
\* nobody else trying to get it.
THEOREM ExclusiveIsWoken == Spec => []ExclusiveNotStranded
BY Invariant, PTL DEF IInv

\* No thread gets shared access while another one waits for exclusive access.
THEOREM WritersGoFirst == Spec => WritersFirst
<1> DEFINE Good == \A t \in Threads :
        hold[t] # "shared" /\ hold'[t] = "shared" => WantsExclusive = {}
<1>1. IInv /\ [Next]_vars => [Good]_vars
    <2> SUFFICES ASSUME IInv, [Next]_vars, ~UNCHANGED vars,
                        NEW u \in Threads, hold[u] # "shared", hold'[u] = "shared"
                 PROVE  WantsExclusive = {}
        OBVIOUS
    <2>1. PICK t \in Threads : Call(t) \/ Unlock(t) \/ Step(t) \/ SpuriousWake(t)
        BY DEF Next
    <2>2. GrabShared(t) \/ RtlTryAcquireSRWLockShared(t)
        BY <2>1
        DEF IInv, TypeOK, avars, lockVars, Call, Unlock, Step, SpuriousWake, RtlAcquireSRWLockExclusive,
            RtlAcquireSRWLockShared, RtlTryAcquireSRWLockExclusive, RtlReleaseSRWLockExclusive,
            RtlReleaseSRWLockShared, GrabExclusive, ExclusiveMustWait, WaitOwners, OwnersChanged,
            SharedMustWait, WaitWord, WordChanged, Woken, WakeSingle, WakeAll
    <2>3. waiters = 0
        BY <2>2 DEF GrabShared, RtlTryAcquireSRWLockShared, Exclusive, Word
    <2> QED
        BY <2>3, SRWLockAssumption, FS_Subset, FS_CardinalityType, FS_EmptySet, WantsExclusive \subseteq Threads
        DEF IInv, WordCountsThreads, WantsExclusive
<1> QED  BY <1>1, Invariant, PTL DEF Spec, WritersFirst

-----------------------------------------------------------------------------
(* Refinement *)

\* struct srw_lock with its six functions implements a reader/writer lock.
THEOREM Refinement == Spec => ImplementsRWLock
<1>1. Init => RW!LInit
    BY DEF Init, RW!LInit
<1>2. IInv /\ [Next]_vars => [RW!LNext]_hold
    <2> SUFFICES ASSUME IInv, [Next]_vars, hold' # hold PROVE RW!LNext
        OBVIOUS
    <2>1. PICK t \in Threads : Call(t) \/ Unlock(t) \/ Step(t) \/ SpuriousWake(t)
        BY DEF Next, vars
    <2>2. CASE GrabExclusive(t) \/ RtlTryAcquireSRWLockExclusive(t)
        <3>1. Holders = {}
            BY <2>2, SRWLockAssumption, FS_Subset, FS_CardinalityType, FS_EmptySet, Holders \subseteq Threads
            DEF GrabExclusive, RtlTryAcquireSRWLockExclusive, IInv, WordCountsThreads, Holders
        <3>2. RW!AcquireExclusive(t)
            BY <2>2, <3>1 DEF GrabExclusive, RtlTryAcquireSRWLockExclusive, RW!AcquireExclusive, Holders
        <3> QED  BY <3>2 DEF RW!LNext
    <2>3. CASE GrabShared(t) \/ RtlTryAcquireSRWLockShared(t)
        <3>1. \A u \in Threads : hold[u] # "exclusive"
            BY <2>3 DEF GrabShared, RtlTryAcquireSRWLockShared, Exclusive, Word, IInv, TypeOK, WordCountsThreads
        <3>2. hold[t] = "none"
            BY <2>3 DEF GrabShared, RtlTryAcquireSRWLockShared, Goto, IInv, LocalState, WantsShared
        <3>3. RW!AcquireShared(t)
            BY <2>3, <3>1, <3>2 DEF GrabShared, RtlTryAcquireSRWLockShared, RW!AcquireShared
        <3> QED  BY <3>3 DEF RW!LNext
    <2>4. CASE Unlock(t)
        <3>1. PICK u \in Threads : RtlReleaseSRWLockExclusive(t, u) \/ RtlReleaseSRWLockShared(t, u)
            BY <2>4 DEF Unlock
        <3>2. RW!ReleaseHold(u)
            BY <3>1 DEF RtlReleaseSRWLockExclusive, RtlReleaseSRWLockShared, RW!ReleaseHold
        <3> QED  BY <3>2 DEF RW!LNext
    <2> QED
        BY <2>1, <2>2, <2>3, <2>4
        DEF Call, Step, SpuriousWake, RtlAcquireSRWLockExclusive, RtlAcquireSRWLockShared,
            ExclusiveMustWait, WaitOwners, OwnersChanged, SharedMustWait, WaitWord, WordChanged,
            Woken, WakeSingle, WakeAll
<1> QED  BY <1>1, <1>2, Invariant, PTL DEF Spec, ImplementsRWLock, RW!LSpec
=============================================================================
