---------------------------- MODULE CritSection ----------------------------
(***************************************************************************)
(* RTL_CRITICAL_SECTION of dlls/ntdll/sync.c.  A section with debug info   *)
(* hands the lock over with a flag in LockSemaphore and a Win32 futex      *)
(* (AddrWait); one without it uses a kernel semaphore of maximum count 1,  *)
(* created by whoever needs it first.                                      *)
(*                                                                         *)
(* RecursionCount is touched by the owner only, and OwningThread is        *)
(* compared by a thread with itself only, so that the plain stores around  *)
(* an interlocked operation belong to its step.                            *)
(***************************************************************************)
EXTENDS AddrWait, Integers, FiniteSets

CONSTANTS
    NoThread,       \* OwningThread is 0
    NoSem,          \* no semaphore handle
    Sections,       \* the sections to check: records of HasDebugInfo, SpinCount and
                    \* CreateFails (TRUE if NtCreateSemaphore may fail)
    MaxDepth        \* bound on recursive entries (model only)

ASSUME CritSectionAssumption ==
    /\ Addrs = {"LockSemaphore"}
    /\ IsFiniteSet(Threads)
    /\ NoThread \notin Threads /\ NoSem \notin Threads
    /\ Sections \subseteq [HasDebugInfo : BOOLEAN, SpinCount : Nat, CreateFails : BOOLEAN]
    /\ MaxDepth \in Nat

VARIABLES
    section,    \* what the section was initialized with
    LockCount, RecursionCount, OwningThread,
    flag,       \* LockSemaphore used as the futex word
    handle,     \* LockSemaphore used as a handle; a semaphore is named after its creator
    count,      \* count[s]: the count of the semaphore s
    sem,        \* sem[t]: what get_semaphore has returned to t
    spin,       \* spin[t]: iterations left of the spinning loop
    depth,      \* depth[t]: the program's view: how often t has entered
    pc,
    process_detaching

critVars == <<LockCount, RecursionCount, OwningThread>>
semVars == <<flag, handle, count, sem>>
vars == <<section, avars, critVars, semVars, spin, depth, pc, process_detaching>>

HasDebugInfo == section.HasDebugInfo    \* crit_section_has_debuginfo
SpinCount == section.SpinCount          \* crit->SpinCount

Goto(t, from, to) ==
    /\ pc[t] = from
    /\ pc' = [pc EXCEPT ![t] = to]

\* RtlInitializeCriticalSectionEx
Init ==
    /\ AInit
    /\ section \in Sections
    /\ LockCount = -1 /\ RecursionCount = 0 /\ OwningThread = NoThread
    /\ flag = 0 /\ handle = NoSem
    /\ count = [t \in Threads |-> 0]
    /\ sem = [t \in Threads |-> NoSem]
    /\ spin = [t \in Threads |-> 0]
    /\ depth = [t \in Threads |-> 0]
    /\ pc = [t \in Threads |-> "idle"]
    /\ process_detaching = FALSE

-----------------------------------------------------------------------------
(* RtlEnterCriticalSection, RtlTryEnterCriticalSection *)

\* "done:" t is the owner, once.
Own(t) ==
    /\ OwningThread' = t
    /\ RecursionCount' = 1
    /\ depth' = [depth EXCEPT ![t] = @ + 1]

\* InterlockedCompareExchange( &crit->LockCount, 0, -1 ) == -1
Acquire(t) ==
    /\ LockCount = -1
    /\ LockCount' = 0
    /\ Own(t)

\* The owner enters again.
Recurse(t) ==
    /\ OwningThread = t
    /\ LockCount' = LockCount + 1
    /\ RecursionCount' = RecursionCount + 1
    /\ depth' = [depth EXCEPT ![t] = @ + 1]
    /\ UNCHANGED OwningThread

RtlEnterCriticalSection(t) ==
    /\ depth[t] < MaxDepth
    /\ Goto(t, "idle", IF SpinCount > 0 THEN "e_try" ELSE "e_inc")
    /\ spin' = [spin EXCEPT ![t] = SpinCount]
    /\ UNCHANGED <<avars, critVars, semVars, depth, process_detaching>>

\* A call that fails changes nothing.
RtlTryEnterCriticalSection(t) ==
    /\ Goto(t, "idle", "idle")
    /\ depth[t] < MaxDepth
    /\ Acquire(t) \/ (LockCount # -1 /\ Recurse(t))
    /\ UNCHANGED <<avars, semVars, spin, process_detaching>>

\* The RtlTryEnterCriticalSection before the spinning loop.
SpinFirstTry(t) ==
    /\ \/ Goto(t, "e_try", "idle") /\ (Acquire(t) \/ (LockCount # -1 /\ Recurse(t)))
       \/ /\ Goto(t, "e_try", "e_spin")
          /\ LockCount # -1 /\ OwningThread # t
          /\ UNCHANGED <<critVars, depth>>
    /\ UNCHANGED <<avars, semVars, spin, process_detaching>>

\* One iteration: give up with more than one waiter, grab it when it is free.
Spin(t) ==
    /\ \/ Goto(t, "e_spin", "idle") /\ spin[t] > 0 /\ Acquire(t) /\ UNCHANGED spin
       \/ /\ Goto(t, "e_spin", "e_spin")
          /\ spin[t] > 0 /\ LockCount = 0
          /\ spin' = [spin EXCEPT ![t] = @ - 1]
          /\ UNCHANGED <<critVars, depth>>
       \/ /\ Goto(t, "e_spin", "e_inc")
          /\ spin[t] = 0 \/ LockCount > 0
          /\ spin' = [spin EXCEPT ![t] = 0]
          /\ UNCHANGED <<critVars, depth>>
    /\ UNCHANGED <<avars, semVars, process_detaching>>

\* InterlockedIncrement( &crit->LockCount )
Increment(t) ==
    /\ \/ Goto(t, "e_inc", "idle") /\ (Acquire(t) \/ (LockCount # -1 /\ Recurse(t)))
       \/ /\ Goto(t, "e_inc", "wait")
          /\ LockCount # -1 /\ OwningThread # t
          /\ LockCount' = LockCount + 1
          /\ UNCHANGED <<RecursionCount, OwningThread, depth>>
    /\ UNCHANGED <<avars, semVars, spin, process_detaching>>

-----------------------------------------------------------------------------
(* RtlpWaitForCriticalSection *)

\* Variant: waits during shutdown too.
ShutdownWaits(t) ==
    /\ Goto(t, "wait", IF HasDebugInfo THEN "f_cas" ELSE "w_get")
    /\ process_detaching
    /\ UNCHANGED <<avars, critVars, semVars, spin, depth, process_detaching>>

\* "Don't allow blocking on a critical section during process termination"
ShutdownNoWait(t) ==
    /\ Goto(t, "wait", "idle")
    /\ process_detaching
    /\ Own(t)
    /\ UNCHANGED <<avars, LockCount, semVars, spin, process_detaching>>

Wait(t) ==
    /\ Goto(t, "wait", IF HasDebugInfo THEN "f_cas" ELSE "w_get")
    /\ ~process_detaching
    /\ UNCHANGED <<avars, critVars, semVars, spin, depth, process_detaching>>

\* Variant: the flag is tested but not taken.
FlagTakenStaysSet(t) ==
    /\ Goto(t, "f_cas", "idle")
    /\ flag = 1
    /\ Own(t)
    /\ UNCHANGED <<avars, LockCount, semVars, spin, process_detaching>>

\* wait_semaphore: InterlockedCompareExchange( lock, 0, 1 ) succeeds ...
FlagTaken(t) ==
    /\ Goto(t, "f_cas", "idle")
    /\ flag = 1
    /\ flag' = 0
    /\ Own(t)
    /\ UNCHANGED <<avars, LockCount, handle, count, sem, spin, process_detaching>>

\* ... or fails, and RtlWaitOnAddress compares the word with zero.
FlagClear(t) ==
    /\ Goto(t, "f_cas", "f_wait")
    /\ flag = 0
    /\ UNCHANGED <<avars, critVars, semVars, spin, depth, process_detaching>>

FlagWait(t) ==
    /\ \/ Goto(t, "f_wait", "f_sleep") /\ flag = 0 /\ Register(t, "LockSemaphore")
       \/ Goto(t, "f_wait", "f_cas") /\ flag # 0 /\ UNCHANGED avars
    /\ UNCHANGED <<critVars, semVars, spin, depth, process_detaching>>

FlagWoken(t) ==
    /\ Goto(t, "f_sleep", "f_cas")
    /\ Return(t)
    /\ UNCHANGED <<critVars, semVars, spin, depth, process_detaching>>

\* STATUS_TIMEOUT: "wait timed out ..., retrying".
FlagTimeout(t) ==
    /\ Goto(t, "f_sleep", "f_cas")
    /\ Withdraw(t)
    /\ UNCHANGED <<critVars, semVars, spin, depth, process_detaching>>

\* get_semaphore: the handle is there, ...
SemaphoreExists(t, from, to) ==
    /\ Goto(t, from, to)
    /\ handle # NoSem
    /\ sem' = [sem EXCEPT ![t] = handle]
    /\ UNCHANGED <<avars, critVars, flag, handle, count, spin, depth, process_detaching>>

\* ... or NtCreateSemaphore makes one, ...
CreateSemaphore(t, from, to) ==
    /\ Goto(t, from, to)
    /\ handle = NoSem
    /\ count' = [count EXCEPT ![t] = 0]
    /\ UNCHANGED <<avars, critVars, flag, handle, sem, spin, depth, process_detaching>>

\* Variant: a plain store.
InstallSemaphoreOverwrites(t, from, to) ==
    /\ Goto(t, from, to)
    /\ handle' = t
    /\ sem' = [sem EXCEPT ![t] = t]
    /\ UNCHANGED <<avars, critVars, flag, count, spin, depth, process_detaching>>

\* ... which is installed unless "somebody beat us to it", ...
InstallSemaphore(t, from, to) ==
    /\ Goto(t, from, to)
    /\ handle' = IF handle = NoSem THEN t ELSE handle
    /\ sem' = [sem EXCEPT ![t] = handle']
    /\ UNCHANGED <<avars, critVars, flag, count, spin, depth, process_detaching>>

\* ... or fails: 0 is returned.
CreateSemaphoreFails(t, from, to) ==
    /\ section.CreateFails
    /\ Goto(t, from, to)
    /\ handle = NoSem
    /\ sem' = [sem EXCEPT ![t] = NoSem]
    /\ UNCHANGED <<avars, critVars, flag, handle, count, spin, depth, process_detaching>>

\* NtWaitForSingleObject( sem ) succeeds.
SemaphoreTaken(t) ==
    /\ Goto(t, "w_sem", "idle")
    /\ sem[t] # NoSem /\ count[sem[t]] > 0
    /\ count' = [count EXCEPT ![sem[t]] = @ - 1]
    /\ sem' = [sem EXCEPT ![t] = NoSem]
    /\ Own(t)
    /\ UNCHANGED <<avars, LockCount, flag, handle, spin, process_detaching>>

\* It times out: retry.
SemaphoreTimeout(t) ==
    /\ Goto(t, "w_sem", "w_get")
    /\ sem[t] # NoSem
    /\ sem' = [sem EXCEPT ![t] = NoSem]
    /\ UNCHANGED <<avars, critVars, flag, handle, count, spin, depth, process_detaching>>

\* The wait on handle 0 fails at once, which RtlpWaitForCriticalSection takes
\* for a timeout.
WaitNoSemaphore(t) ==
    /\ Goto(t, "w_sem", "w_get")
    /\ sem[t] = NoSem
    /\ UNCHANGED <<avars, critVars, semVars, spin, depth, process_detaching>>

-----------------------------------------------------------------------------
(* RtlLeaveCriticalSection, RtlpUnWaitCriticalSection *)

\* Variant: an inner leave forgets LockCount.
LeaveKeepsLockCount(t) ==
    /\ depth[t] > 0
    /\ depth' = [depth EXCEPT ![t] = @ - 1]
    /\ RecursionCount' = RecursionCount - 1
    /\ Goto(t, "idle", IF RecursionCount > 1 THEN "idle" ELSE "l_dec")
    /\ OwningThread' = IF RecursionCount > 1 THEN t ELSE NoThread
    /\ UNCHANGED <<avars, LockCount, semVars, spin, process_detaching>>

\* --RecursionCount, and an inner leave decrements LockCount.
RtlLeaveCriticalSection(t) ==
    /\ depth[t] > 0
    /\ depth' = [depth EXCEPT ![t] = @ - 1]
    /\ RecursionCount' = RecursionCount - 1
    /\ \/ /\ RecursionCount > 1
          /\ Goto(t, "idle", "idle")
          /\ LockCount' = LockCount - 1
          /\ UNCHANGED OwningThread
       \/ /\ RecursionCount = 1
          /\ Goto(t, "idle", "l_dec")
          /\ OwningThread' = NoThread
          /\ UNCHANGED LockCount
    /\ UNCHANGED <<avars, semVars, spin, process_detaching>>

\* Variant: one waiter is overlooked.
DecrementOffByOne(t) ==
    /\ LockCount' = LockCount - 1
    /\ Goto(t, "l_dec", CASE LockCount' < 1 -> "idle"
                          [] LockCount' >= 1 /\ HasDebugInfo -> "u_set"
                          [] OTHER -> "u_get")
    /\ UNCHANGED <<avars, RecursionCount, OwningThread, semVars, spin, depth, process_detaching>>

\* InterlockedDecrement( &crit->LockCount ) >= 0: "someone is waiting".
Decrement(t) ==
    /\ LockCount' = LockCount - 1
    /\ Goto(t, "l_dec", CASE LockCount' < 0 -> "idle"
                          [] LockCount' >= 0 /\ HasDebugInfo -> "u_set"
                          [] OTHER -> "u_get")
    /\ UNCHANGED <<avars, RecursionCount, OwningThread, semVars, spin, depth, process_detaching>>

\* InterlockedExchange( lock, 1 )
SetFlag(t) ==
    /\ Goto(t, "u_set", "u_wake")
    /\ flag' = 1
    /\ UNCHANGED <<avars, critVars, handle, count, sem, spin, depth, process_detaching>>

\* RtlWakeAddressSingle( lock )
WakeFlag(t) ==
    /\ Goto(t, "u_wake", "idle")
    /\ \/ Release("LockSemaphore")
       \/ Waiters("LockSemaphore") = {} /\ UNCHANGED avars
    /\ UNCHANGED <<critVars, semVars, spin, depth, process_detaching>>

\* NtReleaseSemaphore( sem, 1 ); the maximum count is 1.
ReleaseSemaphore(t) ==
    /\ Goto(t, "u_sem", "idle")
    /\ sem[t] # NoSem /\ count[sem[t]] = 0
    /\ count' = [count EXCEPT ![sem[t]] = 1]
    /\ sem' = [sem EXCEPT ![t] = NoSem]
    /\ UNCHANGED <<avars, critVars, flag, handle, spin, depth, process_detaching>>

\* if (ret) RtlRaiseStatus( ret ): STATUS_INVALID_HANDLE without a semaphore,
\* STATUS_SEMAPHORE_LIMIT_EXCEEDED when it is already signalled.
ReleaseRaises(t) ==
    /\ \/ Goto(t, "u_sem", "raised_handle") /\ sem[t] = NoSem
       \/ Goto(t, "u_sem", "raised_limit") /\ sem[t] # NoSem /\ count[sem[t]] # 0
    /\ UNCHANGED <<avars, critVars, semVars, spin, depth, process_detaching>>

-----------------------------------------------------------------------------
\* RtlDeleteCriticalSection of an unused section, which is initialized again.
RtlDeleteCriticalSection ==
    /\ \A t \in Threads : pc[t] = "idle" /\ depth[t] = 0
    /\ LockCount' = -1 /\ RecursionCount' = 0 /\ OwningThread' = NoThread
    /\ flag' = 0 /\ handle' = NoSem
    /\ count' = [t \in Threads |-> 0]
    /\ UNCHANGED <<avars, sem, spin, depth, pc, process_detaching>>

\* RtlExitUserProcess: NtTerminateProcess( 0 ) kills the other threads
\* wherever they are, then LdrShutdownProcess sets process_detaching.
LdrShutdownProcess(t) ==
    /\ ~process_detaching
    /\ pc[t] = "idle"
    /\ process_detaching' = TRUE
    /\ pc' = [u \in Threads |-> IF u = t THEN "idle" ELSE "dead"]
    /\ waiting' = [u \in Threads |-> NoAddr]
    /\ released' = {}
    /\ UNCHANGED <<critVars, semVars, spin, depth>>

\* The code of ntdll that a thread runs once it has made a call.
Step(t) ==
    \/ SpinFirstTry(t) \/ Spin(t) \/ Increment(t)
    \/ Wait(t) \/ ShutdownNoWait(t)
    \/ FlagTaken(t) \/ FlagClear(t) \/ FlagWait(t) \/ FlagWoken(t)
    \/ SemaphoreExists(t, "w_get", "w_sem") \/ CreateSemaphore(t, "w_get", "w_install")
    \/ InstallSemaphore(t, "w_install", "w_sem") \/ SemaphoreTaken(t) \/ WaitNoSemaphore(t)
    \/ Decrement(t) \/ SetFlag(t) \/ WakeFlag(t)
    \/ SemaphoreExists(t, "u_get", "u_sem") \/ CreateSemaphore(t, "u_get", "u_install")
    \/ InstallSemaphore(t, "u_install", "u_sem") \/ ReleaseSemaphore(t) \/ ReleaseRaises(t)

\* What the environment does to a waiting thread.
Disturb(t) ==
    \/ FlagTimeout(t) \/ SemaphoreTimeout(t)
    \/ CreateSemaphoreFails(t, "w_get", "w_sem") \/ CreateSemaphoreFails(t, "u_get", "u_sem")

Next ==
    /\ UNCHANGED section
    /\ \/ RtlDeleteCriticalSection
       \/ \E t \in Threads :
            \/ RtlEnterCriticalSection(t) \/ RtlTryEnterCriticalSection(t)
            \/ RtlLeaveCriticalSection(t)
            \/ Step(t) \/ Disturb(t) \/ LdrShutdownProcess(t)

Spec == Init /\ [][Next]_vars

\* The kernel runs every thread; a thread in the section leaves it; a thread
\* that waits for the semaphore gets it if it is available again and again.
FairSpec ==
    /\ Spec
    /\ \A t \in Threads :
        /\ WF_vars(UNCHANGED section /\ Step(t))
        /\ WF_vars(UNCHANGED section /\ RtlLeaveCriticalSection(t))
        /\ SF_vars(UNCHANGED section /\ SemaphoreTaken(t))

-----------------------------------------------------------------------------
(* Properties *)

Places ==
    {"idle", "e_try", "e_spin", "e_inc", "wait", "f_cas", "f_wait", "f_sleep", "w_get", "w_install", "w_sem",
     "l_dec", "u_set", "u_wake", "u_get", "u_install", "u_sem", "raised_handle", "raised_limit", "dead"}

\* Types: the fields of RTL_CRITICAL_SECTION, and semaphores of maximum count 1.
TypeOK ==
    /\ section \in Sections
    /\ waiting \in [Threads -> Addrs \cup {NoAddr}] /\ released \subseteq Threads
    /\ LockCount \in Int /\ RecursionCount \in Int /\ OwningThread \in Threads \cup {NoThread}
    /\ flag \in {0, 1} /\ handle \in Threads \cup {NoSem}
    /\ count \in [Threads -> {0, 1}] /\ sem \in [Threads -> Threads \cup {NoSem}]
    /\ spin \in [Threads -> Nat] /\ depth \in [Threads -> Nat]
    /\ pc \in [Threads -> Places]
    /\ process_detaching \in BOOLEAN

Entering == {t \in Threads : pc[t] \in {"wait", "f_cas", "f_wait", "f_sleep", "w_get", "w_install", "w_sem"}}
CountingDown == {t \in Threads : pc[t] = "l_dec"}
Leaving == {t \in Threads : pc[t] \in {"u_set", "u_get", "u_install", "u_sem"}}

\* Until the process shuts down one thread at most is in the section, and the
\* fields say which one and how often it has entered.
OneOwner ==
    ~process_detaching =>
        /\ \A t, u \in Threads : depth[t] > 0 /\ depth[u] > 0 => t = u
        /\ \A t \in Threads : depth[t] > 0 => OwningThread = t /\ RecursionCount = depth[t]

\* The hand-over tokens: the flag and the semaphores' counts.
Signalled == {s \in Threads : count[s] = 1}
Tokens == flag + Cardinality(Signalled)

\* LockCount accounts for the entries of the owner, the threads that wait for
\* the section and the one that has left it without having counted down.
LockCountExact ==
    ~process_detaching =>
        LockCount + 1 = Cardinality(Entering) + Cardinality(CountingDown)
            + (IF OwningThread = NoThread THEN 0 ELSE RecursionCount)

\* A leave has raised because no semaphore could be created.
CreationFailed == \E t \in Threads : pc[t] = "raised_handle"

\* Unless that has happened, while threads wait exactly one of these holds the
\* section for them: its owner, a thread that is leaving, or a hand-over token.
HandOverNotLost ==
    ~process_detaching /\ ~CreationFailed /\ Entering # {} =>
        Cardinality({t \in Threads : depth[t] > 0})
            + Cardinality(CountingDown) + Cardinality(Leaving) + Tokens = 1

-----------------------------------------------------------------------------
(* The inductive invariant *)

\* OwningThread is the thread that is in the section, which is in no call that
\* waits or has left.
OwnerState ==
    \A t \in Threads :
        /\ depth[t] > 0 <=> OwningThread = t
        /\ depth[t] > 0 => RecursionCount = depth[t] /\ pc[t] \in {"idle", "e_try", "e_spin", "e_inc"}

\* There is one semaphore, the one whose handle was installed first, and only
\* a thread about to wait for it or to release it has the handle.
OneSemaphore ==
    /\ \A t \in Threads : sem[t] # NoSem => sem[t] = handle /\ pc[t] \in {"w_sem", "u_sem"}
    /\ Signalled \subseteq {handle}

\* The threads the section belongs to; a leave that has raised keeps it for ever.
Holding ==
    {t \in Threads : depth[t] > 0 \/ pc[t] \in {"l_dec", "u_set", "u_get", "u_install", "u_sem", "raised_handle"}}

\* The section is free, or it belongs to one thread or to one token.
OneHolder ==
    \/ LockCount = -1 /\ Holding = {} /\ flag = 0 /\ Signalled = {}
    \/ LockCount >= 0 /\ flag = 0 /\ Signalled = {} /\ \E t \in Threads : Holding = {t}
    \/ LockCount >= 0 /\ flag = 1 /\ Signalled = {} /\ Holding = {}
    \/ LockCount >= 0 /\ flag = 0 /\ Holding = {} /\ \E s \in Threads : Signalled = {s}

\* NtReleaseSemaphore does not exceed the maximum count of 1.
LimitKept == ~process_detaching => \A t \in Threads : pc[t] # "raised_limit"

IInv ==
    /\ TypeOK
    /\ ~process_detaching => OwnerState /\ OneSemaphore /\ OneHolder
    /\ LockCountExact
    /\ LimitKept

-----------------------------------------------------------------------------
\* A thread that wants the section makes some thread get it, unless the
\* semaphore cannot be created.
Progress ==
    Entering # {} ~> (process_detaching \/ CreationFailed \/ \E t \in Threads : depth[t] > 0)

\* The thread that shuts the process down is never blocked by a section that
\* a killed thread held.
ShutdownNotBlocked ==
    \A t \in Threads :
        process_detaching /\ t \in Entering ~> (depth[t] > 0)
=============================================================================
