----------------------------- MODULE FsyncWait -----------------------------
(***************************************************************************)
(* Waiting for and signalling the futex-based synchronization objects of   *)
(* dlls/ntdll/unix/fsync.c.  An object is two words of memory that all     *)
(* processes share; threads change them with atomic instructions and sleep *)
(* with futex_waitv.  The server does so too: fsync_abandon_mutexes when a *)
(* thread ends, and the APC futex of a thread (server/fsync.c).  Objects   *)
(* that the server signals (processes, queues) are events here.            *)
(*                                                                         *)
(* One step is one atomic access to shared memory or one system call.  A   *)
(* load followed by a loop of compare-exchanges is one step.  Timeouts may *)
(* expire in every wait; references to the shared memory are not modelled. *)
(***************************************************************************)
EXTENDS Integers, FiniteSets, SequencesExt

CONSTANTS
    Threads,
    Semaphores, Mutexes, AutoEvents, ManualEvents,
    NoThread,        \* tid 0: nobody owns the mutex
    Abandoned,       \* tid ~0: the owner has ended
    ApcFutex,        \* the address of the thread's own APC futex in a wait
    MaxCount,        \* the maximum count of every semaphore
    Programs,        \* the programs to check, see below
    Watched          \* the threads whose progress is checked

Tokens == Semaphores \cup AutoEvents
Events == AutoEvents \cup ManualEvents
Objects == Tokens \cup ManualEvents \cup Mutexes

ASSUME FsyncWaitAssumption ==
    /\ IsFiniteSet(Threads) /\ IsFiniteSet(Objects)
    /\ Semaphores \cap AutoEvents = {} /\ ManualEvents \cap Tokens = {}
    /\ Mutexes \cap (Tokens \cup ManualEvents) = {}
    /\ NoThread \notin Threads /\ Abandoned \notin Threads /\ NoThread # Abandoned
    /\ ApcFutex \notin Objects
    /\ Watched \subseteq Threads
    /\ MaxCount \in Nat \ {0}

NoDuplicates(list) == \A j, k \in DOMAIN list : list[j] = list[k] => j = k

\* A program: its threads, the handle lists of its waits for any and for all
\* objects, whether they are alertable, how often it signals and how often a
\* thread may own a mutex (the last two are bounds of the model).  A wait for all
\* names no object twice.
ASSUME ProgramsAssumption ==
    \A p \in Programs :
        /\ p.threads \subseteq Threads
        /\ p.any \subseteq Seq(Objects)
        /\ p.all \subseteq Seq(Objects) /\ \A list \in p.all : Len(list) > 1 /\ NoDuplicates(list)
        /\ p.alertable \in BOOLEAN /\ p.signals \in Nat /\ p.depth \in Nat

VARIABLES
    program,     \* the program that runs
    count,       \* semaphore->count, event->signaled
    tid,         \* mutex->tid
    recursion,   \* mutex->count
    apc,         \* apc[t]: the APC futex of t
    asleep,      \* asleep[t]: the addresses t sleeps on in the kernel
    pc,
    objs, all, alertable,   \* the arguments of the wait in progress
    i,           \* i[t]: the loop index of the wait in progress
    seen,        \* seen[t][m]: the tid that t has read last
    cur,         \* cur[t]: the object that t is signalling
    owned,       \* owned[t][m]: the program's view: how often t owns m
    credit,      \* credit[o]: the waits that signals have made possible
    unannounced, \* objects put back by a wait for all, not woken since
    spoiled,     \* mutexes whose words have gone wrong, see MutexKept
    signals      \* signalling calls so far

objectVars == <<count, tid, recursion>>
callVars == <<objs, all, alertable>>
ghostVars == <<owned, credit, unannounced, spoiled>>
vars == <<program, objectVars, apc, asleep, pc, callVars, i, seen, cur, ghostVars, signals>>

Goto(t, from, to) ==
    /\ pc[t] = from
    /\ pc' = [pc EXCEPT ![t] = to]

\* The server is one thread: it does nothing else while it abandons a mutex.
Ended == {"ended", "abandon_count", "abandon_wake"}
ServerIdle == \A u \in Threads : pc[u] \notin Ended \ {"ended"}

\* Objects are created unsignalled and unowned.
Init ==
    /\ count = [o \in Objects \ Mutexes |-> 0]
    /\ tid = [m \in Mutexes |-> NoThread]
    /\ recursion = [m \in Mutexes |-> 0]
    /\ apc = [t \in Threads |-> 0]
    /\ asleep = [t \in Threads |-> {}]
    /\ pc = [t \in Threads |-> "idle"]
    /\ objs = [t \in Threads |-> <<>>]
    /\ all = [t \in Threads |-> FALSE]
    /\ alertable = [t \in Threads |-> FALSE]
    /\ i = [t \in Threads |-> 1]
    /\ seen = [t \in Threads |-> [m \in Mutexes |-> NoThread]]
    /\ cur = [t \in Threads |-> ApcFutex]
    /\ owned = [t \in Threads |-> [m \in Mutexes |-> 0]]
    /\ credit = [o \in Tokens |-> 0]
    /\ unannounced = {}
    /\ spoiled = {}
    /\ signals = 0
    /\ program \in Programs

Obj(t) == objs[t][i[t]]
AtObject(t) == i[t] \in DOMAIN objs[t]
Word(o) == IF o \in Mutexes THEN tid[o] ELSE count[o]
Expected(t, o) == IF o \in Mutexes THEN seen[t][o] ELSE 0
ApcPending(t) == alertable[t] /\ apc[t] = 1

\* Variant: one sleeper at most is woken.
futex_wake_one(o) ==
    /\ \/ \A u \in Threads : o \notin asleep[u] /\ UNCHANGED asleep
       \/ \E u \in Threads : o \in asleep[u] /\ asleep' = [asleep EXCEPT ![u] = {}]
    /\ unannounced' = unannounced \ {o}

\* futex_wake( addr, INT_MAX )
futex_wake(o) ==
    /\ asleep' = [u \in Threads |-> IF o \in asleep[u] THEN {} ELSE asleep[u]]
    /\ unannounced' = unannounced \ {o}

-----------------------------------------------------------------------------
(* fsync_wait_objects *)

CallWait(t, list, waitAll, alert) ==
    /\ Goto(t, "idle", IF waitAll THEN "seq" ELSE "start")
    /\ \A m \in ToSet(list) \cap Mutexes :
        owned[t][m] < program.depth
    /\ objs' = [objs EXCEPT ![t] = list]
    /\ all' = [all EXCEPT ![t] = waitAll]
    /\ alertable' = [alertable EXCEPT ![t] = alert]
    /\ UNCHANGED <<objectVars, apc, asleep, i, seen, cur, ghostVars, signals>>

\* The call is over: what was local to it is gone.
Return(t) ==
    /\ objs' = [objs EXCEPT ![t] = <<>>]
    /\ all' = [all EXCEPT ![t] = FALSE]
    /\ alertable' = [alertable EXCEPT ![t] = FALSE]
    /\ i' = [i EXCEPT ![t] = 1]
    /\ seen' = [seen EXCEPT ![t] = [m \in Mutexes |-> NoThread]]

\* The loop goes on with the object at position n.
Continue(t, n) ==
    /\ i' = [i EXCEPT ![t] = n]
    /\ UNCHANGED callVars

\* t takes one from the count of a semaphore, or resets an auto-reset event.
Take(o) ==
    /\ count[o] > 0
    /\ count' = [count EXCEPT ![o] = @ - 1]
    /\ UNCHANGED <<tid, recursion>>

-----------------------------------------------------------------------------
(* Wait for any: "Try to grab anything." *)

\* "We must check this first!"
StartScan(t) ==
    /\ Goto(t, "start", IF ApcPending(t) THEN "apc" ELSE "scan")
    /\ Continue(t, 1)
    /\ UNCHANGED <<objectVars, apc, asleep, seen, cur, ghostVars, signals>>

TryToken(t) ==
    /\ AtObject(t) /\ Obj(t) \in Tokens
    /\ \/ /\ Goto(t, "scan", "idle")
          /\ Take(Obj(t))
          /\ credit' = [credit EXCEPT ![Obj(t)] = @ - 1]
          /\ Return(t)
       \/ /\ Goto(t, "scan", "scan")
          /\ count[Obj(t)] = 0
          /\ Continue(t, i[t] + 1)
          /\ UNCHANGED <<objectVars, seen, credit>>
    /\ UNCHANGED <<apc, asleep, cur, owned, unannounced, spoiled, signals>>

TryManualEvent(t) ==
    /\ AtObject(t) /\ Obj(t) \in ManualEvents
    /\ \/ Goto(t, "scan", "idle") /\ count[Obj(t)] = 1 /\ Return(t)
       \/ Goto(t, "scan", "scan") /\ count[Obj(t)] = 0 /\ Continue(t, i[t] + 1) /\ UNCHANGED seen
    /\ UNCHANGED <<objectVars, apc, asleep, cur, ghostVars, signals>>

\* t becomes the owner of m; the wait is over.
OwnMutex(t, m) ==
    /\ tid' = [tid EXCEPT ![m] = t]
    /\ recursion' = [recursion EXCEPT ![m] = IF tid[m] = t THEN @ + 1 ELSE 1]
    /\ owned' = [owned EXCEPT ![t][m] = @ + 1]
    /\ Return(t)
    /\ UNCHANGED count

\* The mutex is not to be had: its tid goes into the futex vector.
SkipMutex(t, m) ==
    /\ seen' = [seen EXCEPT ![t][m] = tid[m]]
    /\ Continue(t, i[t] + 1)
    /\ UNCHANGED <<objectVars, owned>>

\* mutex->tid is compared with the caller, then exchanged with 0.
TryMutex(t) ==
    /\ AtObject(t) /\ Obj(t) \in Mutexes
    /\ LET m == Obj(t) IN
       \/ Goto(t, "scan", "idle") /\ tid[m] \in {t, NoThread} /\ OwnMutex(t, m)
       \/ /\ Goto(t, "scan", "abandoned")
          /\ tid[m] = Abandoned
          /\ UNCHANGED <<objectVars, callVars, i, seen, owned>>
       \/ Goto(t, "scan", "scan") /\ tid[m] \in Threads \ {t} /\ SkipMutex(t, m)
    /\ UNCHANGED <<apc, asleep, cur, credit, unannounced, spoiled, signals>>

\* It was ~0: a second exchange, whose result goes into the futex vector.
TryAbandonedMutex(t) ==
    /\ pc[t] = "abandoned"
    /\ LET m == Obj(t) IN
       \/ Goto(t, "abandoned", "idle") /\ tid[m] = Abandoned /\ OwnMutex(t, m)
       \/ Goto(t, "abandoned", "scan") /\ tid[m] # Abandoned /\ SkipMutex(t, m)
    /\ UNCHANGED <<apc, asleep, cur, credit, unannounced, spoiled, signals>>

-----------------------------------------------------------------------------
(* futex_wait_multiple *)

\* Variant: the APC futex is left out of the vector.
AddressesNoApc(t) == IF all[t] THEN {Obj(t)} ELSE ToSet(objs[t])

\* The addresses t waits on: all its objects, or one of them at a time.
Addresses(t) ==
    (IF all[t] THEN {Obj(t)} ELSE ToSet(objs[t])) \cup (IF alertable[t] THEN {ApcFutex} ELSE {})
Unchanged(t, a) == IF a = ApcFutex THEN apc[t] = 0 ELSE Word(a) = Expected(t, a)

\* "Looks like everything is contended, so wait."
ScanEnds(t) ==
    /\ Goto(t, "scan", "wait")
    /\ ~AtObject(t)
    /\ UNCHANGED <<objectVars, apc, asleep, callVars, i, seen, cur, ghostVars, signals>>

\* The kernel compares every word before the thread sleeps.
FutexSleep(t) ==
    /\ Goto(t, "wait", "asleep")
    /\ \A a \in Addresses(t) : Unchanged(t, a)
    /\ asleep' = [asleep EXCEPT ![t] = Addresses(t)]
    /\ UNCHANGED <<objectVars, apc, callVars, i, seen, cur, ghostVars, signals>>

\* EAGAIN, or EINTR while asleep: try again.  do_single_wait looks at the APC
\* futex once more.
FutexAgain(t) ==
    /\ pc[t] \in {"wait", "asleep"}
    /\ pc[t] = "wait" => \E a \in Addresses(t) : ~Unchanged(t, a)
    /\ pc[t] = "asleep" => asleep[t] # {}
    /\ Goto(t, pc[t], CASE ~all[t] -> "start" [] ApcPending(t) -> "apc" [] OTHER -> "seq")
    /\ asleep' = [asleep EXCEPT ![t] = {}]
    /\ UNCHANGED <<objectVars, apc, callVars, i, seen, cur, ghostVars, signals>>

\* Woken: scan again, or go on with the next object without another look.
FutexWoken(t) ==
    /\ Goto(t, "asleep", CASE ~all[t] -> "start" [] ApcPending(t) -> "apc" [] OTHER -> "seq")
    /\ asleep[t] = {}
    /\ Continue(t, IF all[t] THEN i[t] + 1 ELSE i[t])
    /\ UNCHANGED <<objectVars, apc, asleep, seen, cur, ghostVars, signals>>

\* ETIMEDOUT, or a timeout of zero.
WaitTimeout(t) ==
    /\ pc[t] = "wait" \/ (pc[t] = "asleep" /\ asleep[t] # {})
    /\ Goto(t, pc[t], "idle")
    /\ asleep' = [asleep EXCEPT ![t] = {}]
    /\ Return(t)
    /\ UNCHANGED <<objectVars, apc, cur, ghostVars, signals>>

\* userapc: the server runs the APC and clears the futex.
UserApc(t) ==
    /\ Goto(t, "apc", "idle")
    /\ ServerIdle
    /\ apc' = [apc EXCEPT ![t] = 0]
    /\ Return(t)
    /\ UNCHANGED <<objectVars, asleep, cur, ghostVars, signals>>

-----------------------------------------------------------------------------
(* Wait for all *)

\* "First step: try to wait on each object in sequence."  An abandoned mutex
\* is waited for like one that somebody owns.
WaitInSequence(t) ==
    /\ AtObject(t)
    /\ LET o == Obj(t)
           ready == IF o \in Mutexes THEN tid[o] \in {t, NoThread} ELSE count[o] > 0
       IN  \/ Goto(t, "seq", "seq") /\ ready /\ Continue(t, i[t] + 1) /\ UNCHANGED seen
           \/ /\ Goto(t, "seq", IF ApcPending(t) THEN "apc" ELSE "wait")
              /\ ~ready
              /\ seen' = IF o \in Mutexes THEN [seen EXCEPT ![t][o] = tid[o]] ELSE seen
              /\ UNCHANGED <<callVars, i>>
    /\ UNCHANGED <<objectVars, apc, asleep, cur, ghostVars, signals>>

\* "Check to make sure they still are."
CheckAgain(t) ==
    /\ AtObject(t)
    /\ LET o == Obj(t)
           ready == IF o \in Mutexes THEN tid[o] \in {t, NoThread, Abandoned} ELSE count[o] > 0
       IN  \/ Goto(t, "check", "check") /\ ready /\ Continue(t, i[t] + 1)
           \/ Goto(t, "check", "seq") /\ ~ready /\ Continue(t, 1)
    /\ UNCHANGED <<objectVars, apc, asleep, seen, cur, ghostVars, signals>>

\* The loops of the two steps end.
NextLoop(t) ==
    /\ ~AtObject(t)
    /\ Goto(t, "seq", "check") \/ Goto(t, "check", "grab")
    /\ Continue(t, 1)
    /\ UNCHANGED <<objectVars, apc, asleep, seen, cur, ghostVars, signals>>

\* Variant: the object that could not be grabbed is put back too.
TooSlowOffByOne(t, from) ==
    /\ Goto(t, from, "undo")
    /\ Continue(t, i[t])
    /\ UNCHANGED objectVars

\* goto tooslow: the loop that puts back starts below the current object.
TooSlow(t, from) ==
    /\ Goto(t, from, "undo")
    /\ Continue(t, i[t] - 1)
    /\ UNCHANGED objectVars

\* "Yep, still signaled. Now quick, grab everything."
GrabToken(t) ==
    /\ AtObject(t) /\ Obj(t) \in Tokens
    /\ \/ Goto(t, "grab", "grab") /\ Take(Obj(t)) /\ Continue(t, i[t] + 1)
       \/ count[Obj(t)] = 0 /\ TooSlow(t, "grab")
    /\ UNCHANGED <<apc, asleep, seen, cur, ghostVars, signals>>

GrabManualEvent(t) ==
    /\ Goto(t, "grab", "grab")
    /\ AtObject(t) /\ Obj(t) \in ManualEvents
    /\ Continue(t, i[t] + 1)
    /\ UNCHANGED <<objectVars, apc, asleep, seen, cur, ghostVars, signals>>

\* int tid = __atomic_load_n( &mutex->tid )
GrabMutex(t) ==
    /\ AtObject(t) /\ Obj(t) \in Mutexes
    /\ LET m == Obj(t) IN
       /\ seen' = [seen EXCEPT ![t][m] = tid[m]]
       /\ \/ Goto(t, "grab", "grab") /\ tid[m] = t /\ Continue(t, i[t] + 1) /\ UNCHANGED objectVars
          \/ /\ Goto(t, "grab", "exchange")
             /\ tid[m] \in {NoThread, Abandoned}
             /\ UNCHANGED <<objectVars, callVars, i>>
          \/ tid[m] \in Threads \ {t} /\ TooSlow(t, "grab")
    /\ UNCHANGED <<apc, asleep, cur, ghostVars, signals>>

\* Variant: a plain store.
ExchangeMutexStores(t) ==
    /\ Goto(t, "exchange", "grab")
    /\ tid' = [tid EXCEPT ![Obj(t)] = t]
    /\ Continue(t, i[t] + 1)
    /\ UNCHANGED <<count, recursion, apc, asleep, seen, cur, ghostVars, signals>>

\* __sync_val_compare_and_swap( &mutex->tid, tid, CURRENT_TID )
ExchangeMutex(t) ==
    /\ pc[t] = "exchange"
    /\ LET m == Obj(t) IN
       \/ /\ Goto(t, "exchange", "grab")
          /\ tid[m] = seen[t][m]
          /\ tid' = [tid EXCEPT ![m] = t]
          /\ Continue(t, i[t] + 1)
          /\ UNCHANGED <<count, recursion>>
       \/ tid[m] # seen[t][m] /\ TooSlow(t, "exchange")
    /\ UNCHANGED <<apc, asleep, seen, cur, ghostVars, signals>>

\* The server has abandoned m, and has yet to clear its count.
Clearing(m) == \E u \in Threads : pc[u] = "abandon_count" /\ cur[u] = m

\* "Make sure to let ourselves know that we grabbed the mutexes."
AllGrabbed(t) ==
    /\ Goto(t, "grab", "idle")
    /\ ~AtObject(t)
    /\ LET mine == ToSet(objs[t]) IN
       /\ recursion' = [m \in Mutexes |-> recursion[m] + (IF m \in mine THEN 1 ELSE 0)]
       /\ owned' = [owned EXCEPT ![t] = [m \in Mutexes |-> @[m] + (IF m \in mine THEN 1 ELSE 0)]]
       /\ credit' = [o \in Tokens |-> credit[o] - (IF o \in mine THEN 1 ELSE 0)]
       /\ spoiled' = spoiled \cup {m \in Mutexes \cap mine : Clearing(m)}
    /\ Return(t)
    /\ UNCHANGED <<count, tid, apc, asleep, cur, unannounced, signals>>

\* tooslow: what was grabbed is put back, without a futex_wake.
PutBack(t) ==
    /\ Goto(t, "undo", "undo")
    /\ i[t] > 0
    /\ LET o == Obj(t) IN
       /\ tid' = IF o \in Mutexes THEN [tid EXCEPT ![o] = NoThread] ELSE tid
       /\ count' = CASE o \in Semaphores -> [count EXCEPT ![o] = @ + 1]
                     [] o \in AutoEvents -> [count EXCEPT ![o] = 1]
                     [] OTHER -> count
       /\ unannounced' = unannounced \cup ({o} \ ManualEvents)
       /\ spoiled' = spoiled \cup {m \in Mutexes \cap {o} : owned[t][m] > 0}
    /\ Continue(t, i[t] - 1)
    /\ UNCHANGED <<recursion, apc, asleep, seen, cur, owned, credit, signals>>

StartOver(t) ==
    /\ Goto(t, "undo", "seq")
    /\ i[t] = 0
    /\ Continue(t, 1)
    /\ UNCHANGED <<objectVars, apc, asleep, seen, cur, ghostVars, signals>>

-----------------------------------------------------------------------------
(* Signalling *)

\* A signalling call of t on o: at most program.signals of them.
Signal(t, o, to) ==
    /\ Goto(t, "idle", to)
    /\ signals < program.signals
    /\ signals' = signals + 1
    /\ cur' = [cur EXCEPT ![t] = IF to = "idle" THEN ApcFutex ELSE o]
    /\ UNCHANGED <<tid, recursion, apc, asleep, callVars, i, seen, owned, unannounced, spoiled>>

\* An auto-reset event that is set again makes no second wait possible.
AddCredit(o, n) == credit' = IF o \in Tokens THEN [credit EXCEPT ![o] = @ + n] ELSE credit

\* __atomic_exchange_n( &event->signaled, 1 ), and wake if it was 0.
fsync_set_event(t, e) ==
    /\ Signal(t, e, IF count[e] = 0 THEN "wake" ELSE "idle")
    /\ count' = [count EXCEPT ![e] = 1]
    /\ AddCredit(e, 1 - count[e])

fsync_reset_event(t, e) ==
    /\ Signal(t, e, "idle")
    /\ count' = [count EXCEPT ![e] = 0]
    /\ AddCredit(e, -count[e])

fsync_pulse_event(t, e) ==
    /\ Signal(t, e, IF count[e] = 0 THEN "pulse_wake" ELSE "pulse_clear")
    /\ count' = [count EXCEPT ![e] = 1]
    /\ AddCredit(e, 1 - count[e])

\* "Try to give other threads a chance to wake up", then signaled = 0.
PulseClear(t) ==
    /\ Goto(t, "pulse_clear", "idle")
    /\ count' = [count EXCEPT ![cur[t]] = 0]
    /\ AddCredit(cur[t], -count[cur[t]])
    /\ cur' = [cur EXCEPT ![t] = ApcFutex]
    /\ UNCHANGED <<tid, recursion, apc, asleep, callVars, i, seen, owned, unannounced, spoiled, signals>>

\* A release beyond the maximum is refused and changes nothing.
fsync_release_semaphore(t, s, n) ==
    /\ count[s] + n <= MaxCount
    /\ Signal(t, s, "wake")
    /\ count' = [count EXCEPT ![s] = @ + n]
    /\ AddCredit(s, n)

\* A thread that is not the owner is refused: STATUS_MUTANT_NOT_OWNED.  Programs
\* release a mutex no more often than they have waited for it (a bound, which
\* says something of a spoiled mutex only).
fsync_release_mutex(t, m) ==
    /\ Goto(t, "idle", IF recursion[m] = 1 THEN "wake" ELSE "idle")
    /\ tid[m] = t /\ owned[t][m] > 0
    /\ recursion' = [recursion EXCEPT ![m] = @ - 1]
    /\ tid' = [tid EXCEPT ![m] = IF recursion[m] = 1 THEN NoThread ELSE t]
    /\ cur' = [cur EXCEPT ![t] = IF recursion[m] = 1 THEN m ELSE ApcFutex]
    /\ owned' = [owned EXCEPT ![t][m] = @ - 1]
    /\ UNCHANGED <<count, apc, asleep, callVars, i, seen, credit, unannounced, spoiled, signals>>

\* The futex_wake of a signalling call, or of the server for a thread that ended.
Wake(t) ==
    /\ \/ Goto(t, "wake", "idle") \/ Goto(t, "pulse_wake", "pulse_clear")
       \/ Goto(t, "abandon_wake", "ended")
    /\ futex_wake(cur[t])
    /\ cur' = IF pc[t] = "pulse_wake" THEN cur ELSE [cur EXCEPT ![t] = ApcFutex]
    /\ UNCHANGED <<objectVars, apc, callVars, i, seen, owned, credit, spoiled, signals>>

-----------------------------------------------------------------------------
(* The server *)

\* A user APC is queued.  The server handles one request at a time and the
\* thread needs the server to run it, so that this is one step.
QueueApc(t) ==
    /\ program.alertable /\ ServerIdle
    /\ apc[t] = 0 /\ signals < program.signals
    /\ pc[t] \notin Ended
    /\ apc' = [apc EXCEPT ![t] = 1]
    /\ signals' = signals + 1
    /\ asleep' = [asleep EXCEPT ![t] = IF ApcFutex \in @ THEN {} ELSE @]
    /\ UNCHANGED <<objectVars, pc, callVars, i, seen, cur, ghostVars>>

\* A thread ends, owning whatever it owns.
ThreadEnds(t) ==
    /\ Goto(t, "idle", "ended")
    /\ UNCHANGED <<objectVars, apc, asleep, callVars, i, seen, cur, ghostVars, signals>>

\* fsync_abandon_mutexes: mutex->tid = ~0
AbandonMutex(t, m) ==
    /\ Goto(t, "ended", "abandon_count")
    /\ ServerIdle
    /\ tid[m] = t
    /\ tid' = [tid EXCEPT ![m] = Abandoned]
    /\ owned' = [owned EXCEPT ![t][m] = 0]
    /\ cur' = [cur EXCEPT ![t] = m]
    /\ UNCHANGED <<count, recursion, apc, asleep, callVars, i, seen, credit, unannounced, spoiled, signals>>

\* mutex->count = 0, a second store: the mutex may have a new owner already.
AbandonCount(t) ==
    /\ Goto(t, "abandon_count", "abandon_wake")
    /\ recursion' = [recursion EXCEPT ![cur[t]] = 0]
    /\ spoiled' = spoiled \cup {m \in Mutexes \cap {cur[t]} : \E u \in Threads : owned[u][m] > 0}
    /\ UNCHANGED <<count, tid, apc, asleep, callVars, i, seen, cur, owned, credit, unannounced, signals>>

-----------------------------------------------------------------------------
Step(t) ==
    \/ StartScan(t) \/ TryToken(t) \/ TryManualEvent(t) \/ TryMutex(t) \/ TryAbandonedMutex(t)
    \/ ScanEnds(t) \/ FutexSleep(t) \/ FutexWoken(t) \/ UserApc(t)
    \/ WaitInSequence(t) \/ CheckAgain(t) \/ NextLoop(t)
    \/ GrabToken(t) \/ GrabManualEvent(t) \/ GrabMutex(t) \/ ExchangeMutex(t) \/ AllGrabbed(t)
    \/ PutBack(t) \/ StartOver(t)
    \/ PulseClear(t) \/ Wake(t) \/ (\E m \in Mutexes : AbandonMutex(t, m)) \/ AbandonCount(t)
    \/ pc[t] = "wait" /\ FutexAgain(t)

Call(t) ==
    \/ \E list \in program.any : CallWait(t, list, FALSE, program.alertable)
    \/ \E list \in program.all : CallWait(t, list, TRUE, program.alertable)
    \/ \E e \in Events : fsync_set_event(t, e) \/ fsync_reset_event(t, e) \/ fsync_pulse_event(t, e)
    \/ \E s \in Semaphores, n \in 1..MaxCount : fsync_release_semaphore(t, s, n)
    \/ \E m \in Mutexes : fsync_release_mutex(t, m)
    \/ ThreadEnds(t)

ThreadStep(t) ==
    \/ Call(t) \/ Step(t) \/ WaitTimeout(t) \/ QueueApc(t)
    \/ pc[t] = "asleep" /\ FutexAgain(t)

Next ==
    /\ UNCHANGED program
    /\ \E t \in program.threads : ThreadStep(t)

Spec == Init /\ [][Next]_vars

\* The kernel runs every thread.
FairSpec == Spec /\ \A t \in Threads : WF_vars(UNCHANGED program /\ Step(t))

-----------------------------------------------------------------------------
(* Properties *)

\* A mutex that a program owns is its own until the program releases it: no
\* wait of this or of another thread, and no mutex that the server abandons,
\* changes tid or the recursion count.  The code has two exceptions.  A wait for
\* all of the owner itself that is too slow "puts back" the mutex although it
\* has not grabbed it.  And a thread that takes an abandoned mutex before the
\* server has stored 0 in its count goes on from the count of the dead owner,
\* or has its own count overwritten.  Such a mutex is spoiled from then on.
MutexKept ==
    \A t \in Threads, m \in Mutexes \ spoiled :
        owned[t][m] > 0 => tid[m] = t /\ recursion[m] = owned[t][m]

\* A wait for all of t has grabbed o and not yet put it back.
HasGrabbed(t, o) ==
    \/ pc[t] \in {"grab", "exchange"} /\ \E k \in DOMAIN objs[t] : k < i[t] /\ objs[t][k] = o
    \/ pc[t] = "undo" /\ \E k \in DOMAIN objs[t] : k <= i[t] /\ objs[t][k] = o
Grabbed(o) == {t \in Threads : HasGrabbed(t, o)}

\* Every wait that succeeds is paid for by a signal of its own, whatever waits
\* for all grab and put back meanwhile; for semaphores no signal is lost.
SignalsConserved ==
    /\ \A s \in Semaphores : count[s] + Cardinality(Grabbed(s)) = credit[s]
    /\ \A e \in AutoEvents : count[e] + Cardinality(Grabbed(e)) <= credit[e]

Signalled(o) == IF o \in Mutexes THEN tid[o] \notin Threads ELSE count[o] > 0

\* No lost wake-up: when an object that a thread sleeps on has become
\* signalled or a mutex has been abandoned, a futex_wake is on its way; the one
\* exception is an object that a wait for all has put back, which it does
\* without a futex_wake.
NoStrandedSleeper ==
    \A t \in Threads : \A o \in asleep[t] \cap Objects :
        Signalled(o) /\ Word(o) # Expected(t, o) =>
            \/ \E u \in Threads : cur[u] = o /\ pc[u] \in {"wake", "pulse_wake", "abandon_count", "abandon_wake"}
            \/ o \in unannounced

\* A wait for any returns once an APC is queued to an alertable thread, or a
\* manual-reset event in its list is set and not reset again.
MustReturn(t) ==
    /\ objs[t] # <<>> /\ ~all[t]
    /\ ApcPending(t) \/ \E e \in ToSet(objs[t]) \cap ManualEvents : count[e] = 1
SignalledReturns == \A t \in Watched : MustReturn(t) ~> ~MustReturn(t)
-----------------------------------------------------------------------------
(* The inductive invariant *)

Tids == Threads \cup {NoThread, Abandoned}
Places ==
    {"idle", "start", "scan", "abandoned", "wait", "asleep", "apc", "seq", "check", "grab",
     "exchange", "undo", "wake", "pulse_wake", "pulse_clear"} \cup Ended

TypeOK ==
    /\ program \in Programs /\ signals \in Nat
    /\ count \in [Objects \ Mutexes -> Nat]
    /\ tid \in [Mutexes -> Tids] /\ recursion \in [Mutexes -> Int]
    /\ apc \in [Threads -> {0, 1}]
    /\ asleep \in [Threads -> SUBSET (Objects \cup {ApcFutex})]
    /\ pc \in [Threads -> Places]
    /\ objs \in [Threads -> Seq(Objects)] /\ i \in [Threads -> Nat]
    /\ all \in [Threads -> BOOLEAN] /\ alertable \in [Threads -> BOOLEAN]
    /\ seen \in [Threads -> [Mutexes -> Tids]]
    /\ cur \in [Threads -> Objects \cup {ApcFutex}]
    /\ owned \in [Threads -> [Mutexes -> Int]] /\ credit \in [Tokens -> Int]
    /\ unannounced \subseteq Objects /\ spoiled \subseteq Mutexes

\* What the place of a thread says about its wait.
WaitState(t) ==
    /\ all[t] => NoDuplicates(objs[t])
    /\ pc[t] \in {"seq", "check", "grab", "exchange", "undo"} => all[t]
    /\ pc[t] \in {"start", "scan", "abandoned"} => ~all[t]
    /\ pc[t] = "wait" /\ all[t] => AtObject(t)
    /\ pc[t] \in {"exchange", "abandoned"} => AtObject(t) /\ Obj(t) \in Mutexes
    /\ pc[t] = "exchange" => seen[t][Obj(t)] \in {NoThread, Abandoned}
    /\ pc[t] = "grab" => i[t] > 0
    /\ pc[t] = "undo" => i[t] \in 0..Len(objs[t])
    /\ pc[t] \in {"pulse_wake", "pulse_clear"} => cur[t] \in Events
    /\ pc[t] = "abandon_count" => cur[t] \in Mutexes
    /\ asleep[t] # {} => pc[t] = "asleep"

\* The words of a mutex: a thread whose tid is in it owns the mutex as often as
\* it has counted, or has just grabbed it; what a thread has grabbed has its tid.
\* The count of nobody is 0, or the server is about to clear it.
MutexState(m) ==
    /\ tid[m] \notin Threads => recursion[m] = 0 \/ Clearing(m)
    /\ \A t \in Threads :
        /\ owned[t][m] >= 0 /\ (owned[t][m] > 0 => tid[m] = t)
        /\ tid[m] = t =>
            /\ recursion[m] = owned[t][m] \/ (owned[t][m] = 0 /\ Clearing(m))
            /\ owned[t][m] = 0 => HasGrabbed(t, m)
        /\ HasGrabbed(t, m) => tid[m] = t

IInv ==
    /\ TypeOK
    /\ \A t \in Threads : WaitState(t)
    /\ \A m \in Mutexes \ spoiled : MutexState(m)
    /\ SignalsConserved /\ NoStrandedSleeper
=============================================================================
