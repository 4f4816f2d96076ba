------------------------------ MODULE SRWLock ------------------------------
(***************************************************************************)
(* The slim reader/writer lock of dlls/ntdll/sync.c over the wait-on-      *)
(* address promise of AddrWait.                                            *)
(*                                                                         *)
(* struct srw_lock packs two shorts.  exclusive_waiters holds "bit 0 - if  *)
(* the lock is held exclusive. bit 1.. - number of exclusive waiters"; the *)
(* model keeps the bit in `held' and the 15 bit counter in `waiters'.      *)
(* A loop around InterlockedCompareExchange is one step: it reads and      *)
(* writes the whole word at the iteration that succeeds.                   *)
(***************************************************************************)
EXTENDS AddrWait, Naturals, FiniteSets

CONSTANTS
    MaxWaiters,   \* largest value of the 15 bit counter: 2^15 - 1
    MaxOwners     \* largest value of the 16 bit field owners: 2^16 - 1

\* "limited to 2^15-1 waiting threads"
ASSUME SRWLockAssumption ==
    /\ Addrs = {"word", "owners"}
    /\ IsFiniteSet(Threads)
    /\ MaxWaiters \in Nat /\ MaxOwners \in Nat \ {0}
    /\ Cardinality(Threads) <= MaxWaiters
    /\ Cardinality(Threads) <= MaxOwners

VARIABLES
    held,      \* bit 0 of exclusive_waiters
    waiters,   \* bits 1.. of exclusive_waiters
    owners,    \* the field owners
    hold,      \* hold[t]: what the program knows: how t acquired the lock
    seen,      \* seen[t]: the word t read when it decided to wait, until it
               \* has been compared
    pc         \* where each thread is

lockVars == <<held, waiters, owners>>
vars == <<waiting, released, held, waiters, owners, hold, seen, pc>>

\* Arithmetic on unsigned fields wraps around.
Inc(x, max) == IF x = max THEN 0 ELSE x + 1
Dec(x, max) == IF x = 0 THEN max ELSE x - 1

Word == [held |-> held, waiters |-> waiters, owners |-> owners]
NoWord == [held |-> 0, waiters |-> 0, owners |-> 0]

\* exclusive_waiters != 0
Exclusive(w) == w.held # 0 \/ w.waiters # 0

Goto(t, from, to) ==
    /\ pc[t] = from
    /\ pc' = [pc EXCEPT ![t] = to]

\* RtlInitializeSRWLock
Init ==
    /\ AInit
    /\ held = 0 /\ waiters = 0 /\ owners = 0
    /\ hold = [t \in Threads |-> "none"]
    /\ seen = [t \in Threads |-> NoWord]
    /\ pc = [t \in Threads |-> "idle"]

-----------------------------------------------------------------------------
(* RtlAcquireSRWLockExclusive.  Nested calls are not allowed.               *)

\* InterlockedExchangeAdd16( &exclusive_waiters, 2 )
RtlAcquireSRWLockExclusive(t) ==
    /\ Goto(t, "idle", "x_try")
    /\ hold[t] = "none"
    /\ waiters' = Inc(waiters, MaxWaiters)
    /\ UNCHANGED <<avars, held, owners, hold, seen>>

\* "Not locked exclusive or shared. We can try to grab it."
GrabExclusive(t) ==
    /\ Goto(t, "x_try", "idle")
    /\ owners = 0
    /\ owners' = 1
    /\ waiters' = Dec(waiters, MaxWaiters)
    /\ held' = 1
    /\ hold' = [hold EXCEPT ![t] = "exclusive"]
    /\ UNCHANGED <<avars, seen>>

ExclusiveMustWait(t) ==
    /\ Goto(t, "x_try", "x_wait")
    /\ owners # 0
    /\ seen' = [seen EXCEPT ![t] = Word]
    /\ UNCHANGED <<avars, lockVars, hold>>

\* RtlWaitOnAddress( &u.s->owners, &new.s.owners ): the comparison ...
WaitOwners(t) ==
    /\ Goto(t, "x_wait", "x_sleep")
    /\ owners = seen[t].owners
    /\ Register(t, "owners")
    /\ seen' = [seen EXCEPT ![t] = NoWord]
    /\ UNCHANGED <<lockVars, hold>>

\* ... or the word has changed and it returns at once.
OwnersChanged(t) ==
    /\ Goto(t, "x_wait", "x_try")
    /\ owners # seen[t].owners
    /\ seen' = [seen EXCEPT ![t] = NoWord]
    /\ UNCHANGED <<avars, lockVars, hold>>

-----------------------------------------------------------------------------
(* RtlAcquireSRWLockShared *)

RtlAcquireSRWLockShared(t) ==
    /\ Goto(t, "idle", "s_try")
    /\ hold[t] = "none"
    /\ UNCHANGED <<avars, lockVars, hold, seen>>

\* Variant: only bit 0 is looked at, not the waiters.
GrabSharedIgnoresWaiters(t) ==
    /\ Goto(t, "s_try", "idle")
    /\ held = 0
    /\ owners' = Inc(owners, MaxOwners)
    /\ hold' = [hold EXCEPT ![t] = "shared"]
    /\ UNCHANGED <<avars, held, waiters, seen>>

\* "Not locked exclusive, and no exclusive waiters. We can try to grab it."
GrabShared(t) ==
    /\ Goto(t, "s_try", "idle")
    /\ ~Exclusive(Word)
    /\ owners' = Inc(owners, MaxOwners)
    /\ hold' = [hold EXCEPT ![t] = "shared"]
    /\ UNCHANGED <<avars, held, waiters, seen>>

SharedMustWait(t) ==
    /\ Goto(t, "s_try", "s_wait")
    /\ Exclusive(Word)
    /\ seen' = [seen EXCEPT ![t] = Word]
    /\ UNCHANGED <<avars, lockVars, hold>>

\* RtlWaitOnAddress( u.s, &new.s, sizeof(struct srw_lock) )
WaitWord(t) ==
    /\ Goto(t, "s_wait", "s_sleep")
    /\ Word = seen[t]
    /\ Register(t, "word")
    /\ seen' = [seen EXCEPT ![t] = NoWord]
    /\ UNCHANGED <<lockVars, hold>>

WordChanged(t) ==
    /\ Goto(t, "s_wait", "s_try")
    /\ Word # seen[t]
    /\ seen' = [seen EXCEPT ![t] = NoWord]
    /\ UNCHANGED <<avars, lockVars, hold>>

-----------------------------------------------------------------------------
(* RtlWaitOnAddress returns and the acquiring loop starts again. *)

Retry(t) == Goto(t, "x_sleep", "x_try") \/ Goto(t, "s_sleep", "s_try")

Woken(t) ==
    /\ Retry(t)
    /\ Return(t)
    /\ UNCHANGED <<lockVars, hold, seen>>

SpuriousWake(t) ==
    /\ Retry(t)
    /\ Withdraw(t)
    /\ UNCHANGED <<lockVars, hold, seen>>

-----------------------------------------------------------------------------
(* RtlTryAcquireSRWLock*: a call that fails changes nothing. *)

\* Variant: takes itself off the waiters as the blocking call does.
TryExclusiveCountsDown(t) ==
    /\ Goto(t, "idle", "idle")
    /\ hold[t] = "none"
    /\ owners = 0
    /\ owners' = 1
    /\ waiters' = Dec(waiters, MaxWaiters)
    /\ held' = 1
    /\ hold' = [hold EXCEPT ![t] = "exclusive"]
    /\ UNCHANGED <<avars, seen>>

\* Variant: looks at bit 0 instead of owners.
TryExclusiveIgnoresShared(t) ==
    /\ Goto(t, "idle", "idle")
    /\ hold[t] = "none"
    /\ held = 0
    /\ owners' = 1
    /\ held' = 1
    /\ hold' = [hold EXCEPT ![t] = "exclusive"]
    /\ UNCHANGED <<avars, waiters, seen>>

RtlTryAcquireSRWLockExclusive(t) ==
    /\ Goto(t, "idle", "idle")
    /\ hold[t] = "none"
    /\ owners = 0
    /\ owners' = 1
    /\ held' = 1
    /\ hold' = [hold EXCEPT ![t] = "exclusive"]
    /\ UNCHANGED <<avars, waiters, seen>>

RtlTryAcquireSRWLockShared(t) ==
    /\ Goto(t, "idle", "idle")
    /\ hold[t] = "none"
    /\ ~Exclusive(Word)
    /\ owners' = Inc(owners, MaxOwners)
    /\ hold' = [hold EXCEPT ![t] = "shared"]
    /\ UNCHANGED <<avars, held, waiters, seen>>

-----------------------------------------------------------------------------
(* RtlReleaseSRWLock*, "It doesn't make any difference which thread for
   example unlocks an SRWLock": t gives up the hold that u acquired.        *)

\* Variants: the release always wakes one exclusive, or all shared, waiters.
ReleaseExclusiveWakes(t, u, wake) ==
    /\ hold[u] = "exclusive"
    /\ hold' = [hold EXCEPT ![u] = "none"]
    /\ owners' = 0
    /\ held' = 0
    /\ Goto(t, "idle", wake)
    /\ UNCHANGED <<avars, waiters, seen>>
ReleaseExclusiveWakesSingle(t, u) == ReleaseExclusiveWakes(t, u, "wake_single")
ReleaseExclusiveWakesAll(t, u) == ReleaseExclusiveWakes(t, u, "wake_all")

RtlReleaseSRWLockExclusive(t, u) ==
    /\ hold[u] = "exclusive"
    /\ hold' = [hold EXCEPT ![u] = "none"]
    /\ owners' = 0
    /\ held' = 0
    /\ Goto(t, "idle", IF waiters # 0 THEN "wake_single" ELSE "wake_all")
    /\ UNCHANGED <<avars, waiters, seen>>

\* Variant: the last owner wakes nobody.
ReleaseSharedNoWake(t, u) ==
    /\ hold[u] = "shared"
    /\ hold' = [hold EXCEPT ![u] = "none"]
    /\ owners' = Dec(owners, MaxOwners)
    /\ Goto(t, "idle", "idle")
    /\ UNCHANGED <<avars, held, waiters, seen>>

RtlReleaseSRWLockShared(t, u) ==
    /\ hold[u] = "shared"
    /\ hold' = [hold EXCEPT ![u] = "none"]
    /\ owners' = Dec(owners, MaxOwners)
    /\ Goto(t, "idle", IF owners' = 0 THEN "wake_single" ELSE "idle")
    /\ UNCHANGED <<avars, held, waiters, seen>>

\* RtlWakeAddressSingle( &u.s->owners )
WakeSingle(t) ==
    /\ Goto(t, "wake_single", "idle")
    /\ \/ Release("owners")
       \/ Waiters("owners") = {} /\ UNCHANGED avars
    /\ UNCHANGED <<lockVars, hold, seen>>

\* RtlWakeAddressAll( u.s )
WakeAll(t) ==
    /\ Goto(t, "wake_all", "idle")
    /\ ReleaseAll("word")
    /\ UNCHANGED <<lockVars, hold, seen>>

-----------------------------------------------------------------------------
\* The code of ntdll that a thread runs once it has made a call.
Step(t) ==
    \/ GrabExclusive(t) \/ ExclusiveMustWait(t) \/ WaitOwners(t) \/ OwnersChanged(t)
    \/ GrabShared(t) \/ SharedMustWait(t) \/ WaitWord(t) \/ WordChanged(t)
    \/ Woken(t) \/ WakeSingle(t) \/ WakeAll(t)

Call(t) ==
    \/ RtlAcquireSRWLockExclusive(t) \/ RtlAcquireSRWLockShared(t)
    \/ RtlTryAcquireSRWLockExclusive(t) \/ RtlTryAcquireSRWLockShared(t)

Unlock(t) ==
    \E u \in Threads : RtlReleaseSRWLockExclusive(t, u) \/ RtlReleaseSRWLockShared(t, u)

Next == \E t \in Threads : Call(t) \/ Unlock(t) \/ Step(t) \/ SpuriousWake(t)

Spec == Init /\ [][Next]_vars

\* The kernel runs every thread, and a thread that holds the lock and is not
\* in a call of its own releases it in the end.
FairSpec ==
    /\ Spec
    /\ \A t \in Threads :
        /\ WF_vars(Step(t))
        /\ WF_vars(RtlReleaseSRWLockExclusive(t, t))
        /\ WF_vars(RtlReleaseSRWLockShared(t, t))

-----------------------------------------------------------------------------
(* Properties *)

WantsExclusive == {t \in Threads : pc[t] \in {"x_try", "x_wait", "x_sleep"}}
WantsShared == {t \in Threads : pc[t] \in {"s_try", "s_wait", "s_sleep"}}
Holders == {t \in Threads : hold[t] # "none"}
Words == [held : {0, 1}, waiters : 0..MaxWaiters, owners : 0..MaxOwners]
Locations ==
    {"idle", "x_try", "x_wait", "x_sleep", "s_try", "s_wait", "s_sleep", "wake_single", "wake_all"}

\* Types: the fields of struct srw_lock stay within their widths.
TypeOK ==
    /\ waiting \in [Threads -> Addrs \cup {NoAddr}]
    /\ released \subseteq Threads
    /\ held \in {0, 1}
    /\ waiters \in 0..MaxWaiters
    /\ owners \in 0..MaxOwners
    /\ hold \in [Threads -> {"none", "shared", "exclusive"}]
    /\ seen \in [Threads -> Words]
    /\ pc \in [Threads -> Locations]

\* Nobody holds the lock while a thread holds it exclusively.
MutualExclusion ==
    \A t, u \in Threads : t # u /\ hold[t] = "exclusive" => hold[u] = "none"

\* The word of the lock agrees with who holds it and with who waits for it.
WordCountsThreads ==
    /\ held = 1 <=> \E t \in Threads : hold[t] = "exclusive"
    /\ owners = Cardinality(Holders)
    /\ waiters = Cardinality(WantsExclusive)

\* A shared waiter sleeps only while the lock is held exclusively or wanted
\* exclusively, or while the RtlWakeAddressAll that will release it is due.
SharedNotStranded ==
    Waiters("word") # {} =>
        held = 1 \/ waiters # 0 \/ \E t \in Threads : pc[t] = "wake_all"

\* While an exclusive waiter sleeps and the lock is free, some thread is
\* about to wake a waiter, or about to try to get the lock.
ExclusiveNotStranded ==
    owners = 0 /\ Waiters("owners") # {} =>
        \E t \in Threads :
            \/ pc[t] \in {"wake_single", "x_try", "x_wait"}
            \/ pc[t] = "x_sleep" /\ t \in released

\* What a thread's place in the code says about its registration, the word it
\* has read and the lock.
LocalState ==
    \A t \in Threads :
        /\ waiting[t] = "owners" => pc[t] = "x_sleep"
        /\ waiting[t] = "word" => pc[t] = "s_sleep"
        /\ t \in released => waiting[t] = NoAddr /\ pc[t] \in {"x_sleep", "s_sleep"}
        /\ pc[t] = "x_wait" => seen[t].owners # 0
        /\ pc[t] = "s_wait" => Exclusive(seen[t])
        /\ t \in WantsExclusive \cup WantsShared => hold[t] = "none"

\* The inductive invariant.
IInv ==
    /\ TypeOK
    /\ MutualExclusion
    /\ WordCountsThreads
    /\ LocalState
    /\ SharedNotStranded
    /\ ExclusiveNotStranded

\* Writers first: a thread gets shared access only when no thread is waiting
\* for exclusive access.
WritersFirst ==
    [][\A t \in Threads :
        hold[t] # "shared" /\ hold'[t] = "shared" => WantsExclusive = {}]_vars

\* Somebody who asks for exclusive access makes some thread get it.
WriterProgress ==
    WantsExclusive # {} ~> \E t \in Threads : hold[t] = "exclusive"

\* A thread that asks for shared access gets it, unless writers keep coming.
ReaderProgress ==
    \A t \in Threads :
        t \in WantsShared ~> (hold[t] = "shared" \/ held = 1 \/ waiters # 0)

\* The lock is a reader/writer lock.
RW == INSTANCE RWLock
ImplementsRWLock == RW!LSpec
=============================================================================
