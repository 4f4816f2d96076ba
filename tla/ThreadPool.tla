----------------------------- MODULE ThreadPool -----------------------------
(***************************************************************************)
(* The thread pool of dlls/ntdll/threadpool.c: one pool with its workers,  *)
(* work items, simple callbacks and timers, the cleanup group that owns    *)
(* some of them, and the timer queue thread.                               *)
(*                                                                         *)
(* A critical section of the code is one step, unless another lock is      *)
(* taken inside it; then `lock' says who is in it.  The condition          *)
(* variables are those of CondVar: a sleeper is registered when it leaves  *)
(* the critical section, and each wake call finds every registered one.    *)
(*                                                                         *)
(* Assumed of the program around the pool: an object is used between its   *)
(* allocation and its release, and no thread releases it while another     *)
(* call of the program on it is under way; a callback may release its own  *)
(* object at any time, also while its group is released.                   *)
(***************************************************************************)
EXTENDS Integers, FiniteSets, SequencesExt

CONSTANTS
    Clients,          \* threads of the program
    Workers,          \* threads that can be workers of the pool
    TimerThread,      \* the timer queue thread
    None,             \* no thread, no object
    Works, Simples, Timers,   \* the objects, by type
    Grouped,          \* objects that join the cleanup group
    High,             \* objects of high priority; the others have normal priority
    MaxWorkers,       \* max_workers of a new pool (500 in the code)
    Limits,           \* values the program gives to TpSetPoolMax/MinThreads
    MaxPosts,         \* bound on the callbacks requested for an object (model only)
    Programs,         \* each is a set of functions that the clients may call
    CancelBesideWait  \* whether callbacks are cancelled while a thread waits for them

Objects == Works \cup Simples \cup Timers
Threads == Clients \cup Workers \cup {TimerThread}
Type(o) == IF o \in Works THEN "work" ELSE IF o \in Simples THEN "simple" ELSE "timer"
Locks == {"pool", "group", "timers"}

ASSUME ThreadPoolAssumption ==
    /\ None \notin Threads /\ TimerThread \notin Clients \cup Workers
    /\ Clients \cap Workers = {}
    /\ Works \cap Simples = {} /\ (Works \cup Simples) \cap Timers = {}
    /\ Grouped \subseteq Objects /\ High \subseteq Objects
    /\ MaxWorkers \in Nat \ {0} /\ MaxPosts \in Nat /\ Limits \subseteq Nat
    /\ CancelBesideWait \in BOOLEAN
    /\ IsFiniteSet(Workers)

VARIABLES
    pool,      \* struct threadpool without its lists
    queue,     \* queue[p]: the list pools[p]
    obj,       \* struct threadpool_object
    group,     \* struct threadpool_group without its list
    members,   \* its list
    timerq,    \* timerqueue: objcount, thread_running, pending_timers; timer_initialized
    lock,      \* who is inside a critical section at the end of a step
    pc, arg,   \* where a thread is, and the object it deals with
    gone,      \* gone[c]: the list `members' of TpReleaseCleanupGroupMembers
    inst,      \* inst[w]: struct threadpool_instance of the callback w runs
    handle,    \* what the program may do with an object
    posts,     \* callbacks requested for an object
    program    \* which of Programs runs

vars == <<pool, queue, obj, group, members, timerq, lock, pc, arg, gone, inst, handle, posts, program>>
poolVars == <<pool, queue>>
groupVars == <<group, members, gone>>
userVars == <<handle, posts>>

Unallocated == [ref |-> 0, shutdown |-> FALSE, pending |-> 0, running |-> 0, associated |-> 0,
             period |-> FALSE, state |-> "none"]

NoInstance == [associated |-> FALSE, long |-> FALSE]

\* A pool from TpAllocPool and a group from TpAllocCleanupGroup.
Init ==
    /\ pool = [ref |-> 1, objcount |-> 0, shutdown |-> FALSE, max |-> MaxWorkers, min |-> 0,
               workers |-> 0, busy |-> 0, state |-> "open"]
    /\ queue = [p \in {"high", "normal"} |-> <<>>]
    /\ obj = [o \in Objects |-> Unallocated]
    /\ group = [ref |-> 1, shutdown |-> FALSE]
    /\ members = <<>>
    /\ timerq = [objcount |-> 0, running |-> FALSE, pending |-> {}, initialized |-> {}]
    /\ lock = [l \in Locks |-> None]
    /\ pc = [t \in Threads |-> IF t \in Clients THEN "idle" ELSE "none"]
    /\ arg = [t \in Threads |-> None]
    /\ gone = [c \in Clients |-> <<>>]
    /\ inst = [w \in Workers |-> NoInstance]
    /\ handle = [o \in Objects |-> "none"]
    /\ posts = [o \in Objects |-> 0]
    /\ program \in Programs

Free(l) == lock[l] = None

\* list_remove of o's entry, if it is on the list.
Without(s, o) ==
    IF Contains(s, o) THEN RemoveAt(s, CHOOSE n \in DOMAIN s : s[n] = o) ELSE s

Goto(t, from, to) == pc[t] = from /\ pc' = [pc EXCEPT ![t] = to]
Deal(t, o) == arg' = [arg EXCEPT ![t] = IF pc'[t] \in {"idle", "none", "locked"} THEN None ELSE o]
Lower(n, m) == IF n < m THEN n ELSE m
Higher(n, m) == IF n < m THEN m ELSE n

\* object_is_finished
Finished(o, groupWait) ==
    /\ obj[o].pending = 0
    /\ IF groupWait THEN obj[o].running = 0 ELSE obj[o].associated = 0

-----------------------------------------------------------------------------
(* The pool *)

Idle == {w \in Workers : pc[w] = "none"}
Sleepers == {w \in Workers : pc[w] = "sleep"}

\* What tp_new_worker_thread may start: a thread, or none if that fails.
\* Threads that do not run are alike.
OneThread == {{}} \cup (IF Idle = {} THEN {} ELSE {{CHOOSE w \in Idle : TRUE}})

\* tp_new_worker_thread for each thread in ws.
Started(ws) ==
    [pool EXCEPT !.ref = @ + Cardinality(ws), !.workers = @ + Cardinality(ws)]

\* pc' when thread t goes on at `to', the threads in ws start and those in
\* `woken' return from RtlSleepConditionVariableCS.
Resume(t, to, ws, woken) ==
    pc' = [u \in Threads |-> IF u = t THEN to ELSE IF u \in ws THEN "start"
                               ELSE IF u \in woken THEN "wake" ELSE pc[u]]

\* RtlWakeAllConditionVariable of finished_event or group_finished_event, for
\* threads that leave `at' and check again.
Woken(o, at) == {c \in Clients : pc[c] = at /\ arg[c] = o}

Prio(o) == IF o \in High THEN "high" ELSE "normal"
Queued == queue["high"] \o queue["normal"]

\* threadpool_get_next_item
NextItem == Head(Queued)

\* Variant: does not count.
BusierNot(p) == p

\* tp_object_prio_queue
Busier(p) == [p EXCEPT !.busy = @ + 1]

\* tp_object_submit.  The thread may not be created.
Submit(t, o, to) ==
    /\ Free("pool")
    /\ obj' = [obj EXCEPT ![o].ref = @ + 1, ![o].pending = @ + 1]
    /\ queue' = IF obj[o].pending = 0 THEN [queue EXCEPT ![Prio(o)] = Append(@, o)] ELSE queue
    /\ posts' = [posts EXCEPT ![o] = @ + 1]
    /\ \E ws \in OneThread :
        /\ ws # {} => pool.busy >= pool.workers /\ pool.workers < pool.max
        /\ pool' = IF obj[o].pending = 0 THEN Busier(Started(ws)) ELSE Started(ws)
        /\ \/ ws # {} /\ Resume(t, to, ws, {})
           \/ ws = {} /\ Sleepers = {} /\ Resume(t, to, {}, {})
           \/ ws = {} /\ \E w \in Sleepers : Resume(t, to, {}, {w})

\* tp_threadpool_release
PoolRelease(p) == [p EXCEPT !.ref = @ - 1, !.state = IF p.ref = 1 THEN "freed" ELSE @]

\* TpSetPoolMaxThreads
TpSetPoolMaxThreads(c, maximum) ==
    /\ Goto(c, "idle", "idle") /\ ~pool.shutdown /\ Free("pool")
    /\ pool' = [pool EXCEPT !.max = Higher(maximum, 1), !.min = Lower(@, Higher(maximum, 1))]
    /\ UNCHANGED <<groupVars, userVars, queue, obj, timerq, lock, arg, inst>>

\* TpSetPoolMinThreads: every missing thread is started, or nothing is set.
TpSetPoolMinThreads(c, minimum) ==
    /\ pc[c] = "idle" /\ ~pool.shutdown /\ Free("pool")
    /\ \E ws \in SUBSET Idle :
        /\ pool.workers + Cardinality(ws) <= Higher(minimum, pool.workers)
        /\ pool' = IF pool.workers + Cardinality(ws) >= minimum
                   THEN [Started(ws) EXCEPT !.min = minimum, !.max = Higher(minimum, @)]
                   ELSE Started(ws)
        /\ Resume(c, "idle", ws, {})
    /\ UNCHANGED <<groupVars, userVars, queue, obj, timerq, lock, arg, inst>>

\* TpReleasePool: tp_threadpool_shutdown wakes without the lock.
TpReleasePool(c) ==
    /\ pc[c] = "idle" /\ ~pool.shutdown
    /\ \A o \in Objects : handle[o] \in {"none", "closed"}
    /\ pool' = PoolRelease([pool EXCEPT !.shutdown = TRUE])
    /\ Resume(c, "idle", {}, Sleepers)
    /\ UNCHANGED <<groupVars, userVars, queue, obj, timerq, lock, arg, inst>>

-----------------------------------------------------------------------------
(* Objects: allocation *)

\* TpAllocWork, TpAllocTimer, TpSimpleTryPost: tp_threadpool_lock.  A pool
\* without workers needs one.
Alloc(c, o) ==
    /\ pc[c] = "idle" /\ handle[o] = "none" /\ Type(o) \in program /\ ~pool.shutdown /\ Free("pool")
    /\ o \in Grouped => ~group.shutdown
    /\ \E ws \in OneThread :
        /\ ws = {} <=> pool.workers > 0
        /\ pool' = [Started(ws) EXCEPT !.ref = @ + 1, !.objcount = @ + 1]
        /\ Resume(c, IF o \in Timers THEN "a_timer" ELSE IF o \in Simples THEN "a_submit" ELSE "a_group",
                  ws, {})
    /\ Deal(c, o)
    /\ handle' = [handle EXCEPT ![o] = "alloc"]
    /\ obj' = [obj EXCEPT ![o].ref = 1, ![o].state = "alive"]
    /\ UNCHANGED <<groupVars, queue, timerq, lock, inst, posts>>

\* tp_timerqueue_lock
AllocTimer(c) ==
    /\ Goto(c, "a_timer", "a_group") /\ Free("timers")
    /\ timerq' = [timerq EXCEPT !.objcount = @ + 1, !.running = TRUE, !.initialized = @ \cup {arg[c]}]
    /\ UNCHANGED <<poolVars, groupVars, userVars, obj, lock, arg, inst>>

\* Its thread could not be created: tp_threadpool_unlock and no object.
AllocTimerFails(c) ==
    /\ Goto(c, "a_timer", "destroy2") /\ Free("timers") /\ ~timerq.running
    /\ obj' = [obj EXCEPT ![arg[c]].ref = 0]
    /\ handle' = [handle EXCEPT ![arg[c]] = "closed"]
    /\ UNCHANGED <<poolVars, groupVars, timerq, lock, arg, inst, posts>>

\* "For simple callbacks we have to run tp_object_submit before adding this
\* object to the cleanup group."
AllocSubmit(c) ==
    /\ pc[c] = "a_submit" /\ Submit(c, arg[c], "a_group")
    /\ UNCHANGED <<groupVars, timerq, lock, arg, inst, handle>>

AllocGroup(c) ==
    LET o == arg[c] IN
    /\ Goto(c, "a_group", IF o \in Simples THEN "unref" ELSE "idle")
    /\ IF o \in Grouped
       THEN /\ Free("group")
            /\ group' = [group EXCEPT !.ref = @ + 1]
            /\ members' = Append(members, o)
       ELSE UNCHANGED <<group, members>>
    /\ handle' = [handle EXCEPT ![o] = IF o \in Simples THEN @ ELSE "live"]
    /\ Deal(c, o)
    /\ UNCHANGED <<poolVars, obj, timerq, lock, gone, inst, posts>>

-----------------------------------------------------------------------------
(* Objects: release *)

\* tp_object_release, first part: InterlockedDecrement.  The owner of the
\* handle has it no more.
Unref(c) ==
    LET o == arg[c] IN
    /\ Goto(c, "unref", IF obj[o].ref = 1 THEN "destroy" ELSE "idle")
    /\ obj' = [obj EXCEPT ![o].ref = @ - 1, ![o].shutdown = @ \/ o \notin Simples]
    /\ handle' = [handle EXCEPT ![o] = "closed"]
    /\ Deal(c, o)
    /\ UNCHANGED <<poolVars, groupVars, timerq, lock, inst, posts>>

\* tp_object_release, the last reference: leave the group ...
Destroy(t) ==
    LET o == arg[t] IN
    /\ Goto(t, "destroy", "destroy2")
    /\ IF o \in Grouped
       THEN /\ Free("group")
            /\ members' = Without(members, o)
            /\ group' = [group EXCEPT !.ref = @ - 1]
       ELSE UNCHANGED <<group, members>>
    /\ UNCHANGED <<poolVars, userVars, obj, timerq, lock, arg, gone, inst>>

\* ... and the pool (tp_threadpool_unlock).
Destroy2(t) ==
    /\ Goto(t, "destroy2", IF t \in Workers THEN "locked"
                           ELSE IF gone[t] # <<>> THEN "m_wait" ELSE "idle")
    /\ lock["pool"] \in {t, None}
    /\ pool' = PoolRelease([pool EXCEPT !.objcount = @ - 1])
    /\ obj' = [obj EXCEPT ![arg[t]].state = "freed"]
    /\ Deal(t, None)
    /\ UNCHANGED <<groupVars, userVars, queue, timerq, lock, inst>>

\* Nobody else is in a call on o.
Undisturbed(o) == \A c \in Clients : pc[c] # "idle" => arg[c] # o

\* No thread of the program is releasing o, or in another call on it.
Using == {"w_check", "w_sleep", "s_submit"}
NotReleased(o) == \A c \in Clients : pc[c] = "unref" => arg[c] # o
NotUsed(o) == \A c \in Clients : pc[c] \in Using => arg[c] # o

\* Variant: the timer is taken off once more.
TimerqueueUnlockTwice(o) ==
    /\ Free("timers")
    /\ timerq' = [timerq EXCEPT !.objcount = @ - 1, !.pending = @ \ {o}, !.initialized = @ \ {o}]

\* tp_timerqueue_unlock
TimerqueueUnlock(o) ==
    /\ Free("timers")
    /\ timerq' = IF o \in timerq.initialized
                 THEN [timerq EXCEPT !.objcount = @ - 1, !.pending = @ \ {o}, !.initialized = @ \ {o}]
                 ELSE timerq

\* TpReleaseWork, TpReleaseTimer: tp_object_prepare_shutdown.
TpRelease(c, o) ==
    /\ Goto(c, "idle", "unref")
    /\ handle[o] = "live" /\ Undisturbed(o)
    /\ IF o \in Timers THEN TimerqueueUnlock(o) ELSE UNCHANGED timerq
    /\ Deal(c, o)
    /\ UNCHANGED <<poolVars, groupVars, userVars, obj, lock, inst>>

-----------------------------------------------------------------------------
(* Objects: callbacks are requested, cancelled and waited for *)

\* TpPostWork
TpPostWork(c, o) ==
    /\ pc[c] = "idle" /\ o \in Works /\ handle[o] = "live" /\ posts[o] < MaxPosts
    /\ NotReleased(o)
    /\ Submit(c, o, "idle")
    /\ UNCHANGED <<groupVars, timerq, lock, arg, inst, handle>>

\* TpSetTimer: a timeout of zero is submitted at once, after the lock.
TpSetTimer(c, o, later, now, period) ==
    /\ o \in Timers /\ handle[o] = "live" /\ posts[o] < MaxPosts /\ Undisturbed(o)
    /\ Goto(c, "idle", IF now THEN "s_submit" ELSE "idle")
    /\ Free("timers")
    /\ now => (later <=> period)
    /\ timerq' = [timerq EXCEPT !.pending = IF later THEN @ \cup {o} ELSE @ \ {o}]
    /\ obj' = [obj EXCEPT ![o].period = later /\ period]
    /\ Deal(c, o)
    /\ UNCHANGED <<poolVars, groupVars, userVars, lock, inst>>

SetTimerSubmit(c) ==
    /\ pc[c] = "s_submit" /\ Submit(c, arg[c], "idle")
    /\ Deal(c, None)
    /\ UNCHANGED <<groupVars, timerq, lock, inst, handle>>

\* tp_object_cancel.  The caller's reference keeps the object while those of
\* the cancelled callbacks are dropped, after the lock.
Cancel(o) ==
    /\ Free("pool")
    /\ obj' = [obj EXCEPT ![o].pending = 0, ![o].ref = @ - obj[o].pending]
    /\ queue' = [queue EXCEPT ![Prio(o)] = Without(@, o)]

\* TpWaitForWork, TpWaitForTimer.  The object is not being released.
TpWaitFor(c, o, cancel) ==
    /\ handle[o] = "live" /\ Goto(c, "idle", "w_check")
    /\ NotReleased(o)
    /\ Deal(c, o)
    /\ IF cancel
       THEN /\ CancelBesideWait \/ Woken(o, "w_sleep") = {}
            /\ Cancel(o)
       ELSE UNCHANGED <<queue, obj>>
    /\ UNCHANGED <<groupVars, userVars, pool, timerq, lock, inst>>

\* tp_object_wait
ObjectWait(c) ==
    /\ Free("pool")
    /\ \/ Goto(c, "w_check", "idle") /\ Finished(arg[c], FALSE)
       \/ Goto(c, "w_check", "w_sleep") /\ ~Finished(arg[c], FALSE)
    /\ Deal(c, arg[c])
    /\ UNCHANGED <<poolVars, groupVars, userVars, obj, timerq, lock, inst>>

-----------------------------------------------------------------------------
(* TpReleaseCleanupGroupMembers, TpReleaseCleanupGroup *)

TpReleaseCleanupGroupMembers(c) ==
    /\ \A o \in Grouped : handle[o] = "live" => Undisturbed(o)
    /\ Goto(c, "idle", "m_each")
    /\ ~group.shutdown /\ members # <<>>
    /\ Free("group") /\ lock' = [lock EXCEPT !["group"] = c]
    /\ handle' = [o \in Objects |-> IF o \in Grouped /\ handle[o] = "live" THEN "closing" ELSE handle[o]]
    /\ UNCHANGED <<poolVars, groupVars, obj, timerq, arg, inst, posts>>

\* Variant: a reference is taken even then.
DyingNot(o) == FALSE

\* "Object is basically already destroyed, but group reference was not deleted
\* yet": the increment finds 0.
Dying(o) == obj[o].ref = 0

\* "Unset group, increase references, and mark objects for shutdown"
MemberEach(c) ==
    /\ pc[c] = "m_each" /\ members # <<>>
    /\ LET o == Head(members) IN
        /\ members' = Tail(members)
        /\ IF Dying(o)
           THEN UNCHANGED <<obj, gone, pc, arg>>
           ELSE /\ obj' = [obj EXCEPT ![o].ref = @ + 1]
                /\ gone' = [gone EXCEPT ![c] = Append(@, o)]
                /\ pc' = [pc EXCEPT ![c] = IF o \in Timers THEN "m_timer" ELSE "m_each"]
                /\ Deal(c, o)
    /\ UNCHANGED <<poolVars, userVars, group, timerq, lock, inst>>

MemberTimer(c) ==
    /\ Goto(c, "m_timer", "m_each") /\ TimerqueueUnlock(arg[c])
    /\ UNCHANGED <<poolVars, groupVars, userVars, obj, lock, arg, inst>>

\* Leave the group's lock, with or without cancel_pending.
MembersMoved(c) ==
    /\ members = <<>>
    /\ \/ Goto(c, "m_each", "m_wait")
       \/ Goto(c, "m_each", "m_cancel") /\ gone[c] # <<>>
    /\ lock' = [lock EXCEPT !["group"] = None]
    /\ arg' = IF gone[c] = <<>> THEN arg ELSE [arg EXCEPT ![c] = Head(gone[c])]
    /\ UNCHANGED <<poolVars, groupVars, userVars, obj, timerq, inst>>

\* Cancel the pending callbacks of each object.
MemberCancel(c) ==
    LET i == CHOOSE n \in DOMAIN gone[c] : gone[c][n] = arg[c] IN
    /\ Goto(c, "m_cancel", IF i = Len(gone[c]) THEN "m_wait" ELSE "m_cancel")
    /\ Cancel(arg[c])
    /\ arg' = [arg EXCEPT ![c] = gone[c][(i % Len(gone[c])) + 1]]
    /\ UNCHANGED <<groupVars, userVars, pool, timerq, lock, inst>>

\* "Wait for remaining callbacks to finish"
MemberWait(c) ==
    /\ gone[c] # <<>>
    /\ arg' = [arg EXCEPT ![c] = Head(gone[c])]
    /\ Free("pool")
    /\ \/ Goto(c, "m_wait", "m_release") /\ Finished(Head(gone[c]), TRUE)
       \/ Goto(c, "m_wait", "m_sleep") /\ ~Finished(Head(gone[c]), TRUE)
    /\ UNCHANGED <<poolVars, groupVars, userVars, obj, timerq, lock, inst>>

\* Drop the group's reference, and the program's unless the object is shut
\* down already or is a simple callback.
MemberRelease(c) ==
    LET o == arg[c]
        drop == IF obj[o].shutdown \/ o \in Simples THEN 1 ELSE 2
    IN
    /\ Goto(c, "m_release", IF obj[o].ref = drop THEN "destroy" ELSE "m_wait")
    /\ obj' = [obj EXCEPT ![o].ref = @ - drop, ![o].shutdown = TRUE]
    /\ handle' = [handle EXCEPT ![o] = IF o \in Simples THEN @ ELSE "closed"]
    /\ gone' = [gone EXCEPT ![c] = Tail(@)]
    /\ Deal(c, o)
    /\ UNCHANGED <<poolVars, group, members, timerq, lock, inst, posts>>

MembersReleased(c) ==
    /\ gone[c] = <<>> /\ Goto(c, "m_wait", "idle")
    /\ Deal(c, None)
    /\ UNCHANGED <<poolVars, groupVars, userVars, obj, timerq, lock, inst>>

TpReleaseCleanupGroup(c) ==
    /\ Goto(c, "idle", "idle") /\ ~group.shutdown /\ members = <<>>
    /\ \A o \in Grouped : handle[o] \in {"none", "closed"}
    /\ \A d \in Clients : gone[d] = <<>>
    /\ group' = [ref |-> group.ref - 1, shutdown |-> TRUE]
    /\ UNCHANGED <<poolVars, userVars, obj, members, timerq, lock, arg, gone, inst>>

-----------------------------------------------------------------------------
(* threadpool_worker_proc, tp_object_execute *)

\* At the top of the loop, in pool->cs: RtlEnterCriticalSection at the start
\* and after a sleep, or still there after a callback.
AtTop(w) == (pc[w] \in {"start", "wake"} /\ Free("pool")) \/ pc[w] = "locked"

\* Take the next object, put it back if there is more to do, and call.
WorkerTake(w) ==
    /\ AtTop(w) /\ Queued # <<>>
    /\ pc' = [pc EXCEPT ![w] = "callback"]
    /\ LET o == NextItem
           more == obj[o].pending > 1
       IN
        /\ queue' = [queue EXCEPT ![Prio(o)] = IF more THEN Append(Tail(@), o) ELSE Tail(@)]
        /\ pool' = IF more THEN Busier(pool) ELSE pool
        /\ obj' = [obj EXCEPT ![o].pending = @ - 1, ![o].associated = @ + 1, ![o].running = @ + 1]
        /\ Deal(w, o)
    /\ inst' = [inst EXCEPT ![w] = [associated |-> TRUE, long |-> FALSE]]
    /\ lock' = [lock EXCEPT !["pool"] = None]
    /\ UNCHANGED <<groupVars, userVars, timerq>>

\* Variant: nobody who waits for the members of the group is woken.
GroupWokenNone(o) == {}

\* Who is woken at the end of the last callback, waiting for the group ...
GroupWoken(o) ==
    IF obj[o].pending = 0 /\ obj[o].running = 1 THEN Woken(o, "m_sleep") ELSE {}

\* ... or for the object, when the last callback is no longer associated.
ObjectWoken(o) ==
    IF obj[o].pending = 0 /\ obj[o].associated = 1 THEN Woken(o, "w_sleep") ELSE {}

\* TpCallbackMayRunLong
TpCallbackMayRunLong(w) ==
    /\ pc[w] = "callback" /\ ~inst[w].long /\ Free("pool")
    /\ inst' = [inst EXCEPT ![w].long = TRUE]
    /\ \E ws \in OneThread :
        /\ ws # {} => pool.busy >= pool.workers /\ pool.workers < pool.max
        /\ pool' = Started(ws)
        /\ Resume(w, "callback", ws, {})
    /\ UNCHANGED <<groupVars, userVars, queue, obj, timerq, lock, arg>>

\* TpDisassociateCallback
TpDisassociateCallback(w) ==
    LET o == arg[w] IN
    /\ pc[w] = "callback" /\ inst[w].associated /\ Free("pool")
    /\ inst' = [inst EXCEPT ![w].associated = FALSE]
    /\ obj' = [obj EXCEPT ![o].associated = @ - 1]
    /\ pc' = [c \in Threads |-> IF c \in ObjectWoken(o) THEN "w_check" ELSE pc[c]]
    /\ UNCHANGED <<poolVars, groupVars, userVars, timerq, lock, arg>>

\* The callback asks for another one of its own object.
CallbackPosts(w) ==
    /\ pc[w] = "callback" /\ arg[w] \in Works /\ handle[arg[w]] \in {"live", "closing"} /\ posts[arg[w]] < MaxPosts
    /\ Submit(w, arg[w], "callback")
    /\ UNCHANGED <<groupVars, timerq, lock, arg, inst, handle>>

\* The callback releases its own object: tp_object_prepare_shutdown, shutdown and
\* the program's reference, never the last one.  Nobody else reads shutdown
\* before the callback has returned, so that this is one step.
CallbackReleases(w) ==
    LET o == arg[w] IN
    /\ pc[w] = "callback" /\ o \notin Simples /\ handle[o] \in {"live", "closing"}
    /\ NotReleased(o) /\ NotUsed(o)
    /\ IF o \in Timers THEN TimerqueueUnlock(o) ELSE UNCHANGED timerq
    /\ obj' = [obj EXCEPT ![o].ref = @ - 1, ![o].shutdown = TRUE]
    /\ handle' = [handle EXCEPT ![o] = "closed"]
    /\ UNCHANGED <<poolVars, groupVars, lock, pc, arg, inst, posts>>

\* The callback returns: "Simple callbacks are automatically shutdown after
\* execution"; wake those who wait for the object; drop its reference.
CallbackReturns(w) ==
    LET o == arg[w] IN
    /\ pc[w] = "callback" /\ Free("pool")
    /\ obj' = [obj EXCEPT ![o].running = @ - 1,
                          ![o].associated = IF inst[w].associated THEN @ - 1 ELSE @,
                          ![o].shutdown = @ \/ o \in Simples, ![o].ref = @ - 1]
    /\ pool' = [pool EXCEPT !.busy = @ - 1]
    /\ pc' = [t \in Threads |->
                CASE t = w -> IF obj[o].ref = 1 THEN "destroy" ELSE "locked"
                  [] t \in GroupWoken(o) -> "m_wait"
                  [] inst[w].associated /\ t \in ObjectWoken(o) -> "w_check"
                  [] OTHER -> pc[t]]
    /\ lock' = [lock EXCEPT !["pool"] = w]
    /\ Deal(w, o)
    /\ inst' = [inst EXCEPT ![w] = NoInstance]
    /\ UNCHANGED <<groupVars, userVars, queue, timerq>>

\* Variant: shutdown is not looked at.
NoItemStays == "to_sleep"

NoItem == IF pool.shutdown THEN "leave" ELSE "to_sleep"

\* No item: leave if the pool is shut down, or else go to sleep.  The flag
\* shutdown is not guarded by the lock, so it may be set before the sleep.
WorkerNoItem(w) ==
    /\ AtTop(w) /\ Queued = <<>>
    /\ pc' = [pc EXCEPT ![w] = NoItem]
    /\ lock' = [lock EXCEPT !["pool"] = w]
    /\ UNCHANGED <<poolVars, groupVars, userVars, obj, timerq, arg, inst>>

WorkerSleep(w) ==
    /\ Goto(w, "to_sleep", "sleep")
    /\ lock' = [lock EXCEPT !["pool"] = None]
    /\ UNCHANGED <<poolVars, groupVars, userVars, obj, timerq, arg, inst>>

\* RtlSleepConditionVariableCS returns STATUS_TIMEOUT, without the lock yet.
WorkerTimeout(w) ==
    /\ Goto(w, "sleep", "timeout")
    /\ UNCHANGED <<poolVars, groupVars, userVars, obj, timerq, lock, arg, inst>>

\* Variant: the last worker leaves although there are objects.
MayTerminateLast == Queued = <<>> /\ pool.workers > pool.min

\* "the number of threads can be decreased without violating the min_workers
\* limit"; "objcount is used to detect if the last thread can be terminated".
MayTerminate ==
    /\ Queued = <<>>
    /\ \/ pool.workers > Higher(pool.min, 1)
       \/ pool.min = 0 /\ pool.objcount = 0

WorkerTimedOut(w) ==
    /\ pc[w] = "timeout" /\ Free("pool")
    /\ pc' = [pc EXCEPT ![w] = IF MayTerminate THEN "leave" ELSE "locked"]
    /\ lock' = [lock EXCEPT !["pool"] = w]
    /\ UNCHANGED <<poolVars, groupVars, userVars, obj, timerq, arg, inst>>

\* The thread is counted out, leaves the lock and drops its reference.
WorkerLeave(w) ==
    /\ Goto(w, "leave", "none")
    /\ pool' = PoolRelease([pool EXCEPT !.workers = @ - 1])
    /\ lock' = [lock EXCEPT !["pool"] = None]
    /\ UNCHANGED <<groupVars, userVars, queue, obj, timerq, arg, inst>>

-----------------------------------------------------------------------------
(* timerqueue_thread_proc *)

\* A pending timer has expired: the thread enters its lock and takes it off.
TimerExpires(o) ==
    /\ timerq.running /\ pc[TimerThread] = "none"
    /\ o \in timerq.pending /\ posts[o] < MaxPosts
    /\ Free("timers") /\ lock' = [lock EXCEPT !["timers"] = TimerThread]
    /\ timerq' = [timerq EXCEPT !.pending = @ \ {o}]
    /\ pc' = [pc EXCEPT ![TimerThread] = "t_submit"]
    /\ arg' = [arg EXCEPT ![TimerThread] = o]
    /\ UNCHANGED <<poolVars, groupVars, userVars, obj, inst>>

\* tp_object_submit inside timerqueue.cs; a periodic timer goes back.
TimerSubmit ==
    LET o == arg[TimerThread] IN
    /\ pc[TimerThread] = "t_submit" /\ Submit(TimerThread, o, "none")
    /\ Deal(TimerThread, None)
    /\ timerq' = [timerq EXCEPT !.pending = IF obj[o].period /\ ~obj[o].shutdown THEN @ \cup {o} ELSE @]
    /\ lock' = [lock EXCEPT !["timers"] = None]
    /\ UNCHANGED <<groupVars, inst, handle>>

\* No timer is left for some time.
TimerThreadEnds ==
    /\ timerq.running /\ timerq.objcount = 0 /\ pc[TimerThread] = "none" /\ Free("timers")
    /\ timerq' = [timerq EXCEPT !.running = FALSE]
    /\ UNCHANGED <<poolVars, groupVars, userVars, obj, lock, pc, arg, inst>>

-----------------------------------------------------------------------------
\* A call goes on.
InCall(c) ==
    \/ AllocTimer(c) \/ AllocTimerFails(c) \/ AllocSubmit(c) \/ AllocGroup(c)
    \/ Unref(c) \/ Destroy(c) \/ Destroy2(c)
    \/ SetTimerSubmit(c) \/ ObjectWait(c)
    \/ MemberEach(c) \/ MemberTimer(c) \/ MembersMoved(c) \/ MemberCancel(c)
    \/ MemberWait(c) \/ MemberRelease(c) \/ MembersReleased(c)

\* A thread of the program calls one of the functions the program uses.
Call(c) ==
    \/ /\ "limits" \in program
       /\ \E n \in Limits : TpSetPoolMaxThreads(c, n) \/ TpSetPoolMinThreads(c, n)
    \/ TpReleasePool(c)
    \/ "group" \in program /\ (TpReleaseCleanupGroupMembers(c) \/ TpReleaseCleanupGroup(c))
    \/ \E o \in Objects :
        \/ Alloc(c, o)
        \/ "release" \in program /\ TpRelease(c, o)
        \/ TpPostWork(c, o)
        \/ \E later, now, period \in BOOLEAN : TpSetTimer(c, o, later, now, period)
        \/ \E cancel \in BOOLEAN : "wait" \in program /\ TpWaitFor(c, o, cancel)

Work(w) ==
    \/ WorkerTake(w) \/ CallbackReturns(w)
    \/ Destroy(w) \/ Destroy2(w)
    \/ WorkerNoItem(w) \/ WorkerSleep(w) \/ WorkerTimeout(w) \/ WorkerTimedOut(w) \/ WorkerLeave(w)

InCallback(w) ==
    \/ TpCallbackMayRunLong(w) \/ TpDisassociateCallback(w) \/ CallbackPosts(w)
    \/ "release" \in program /\ CallbackReleases(w)

TimerStep == (\E o \in Timers : TimerExpires(o)) \/ TimerSubmit \/ TimerThreadEnds

Next ==
    /\ \/ \E c \in Clients : Call(c) \/ InCall(c)
       \/ \E w \in Workers : Work(w) \/ ("callback" \in program /\ InCallback(w))
       \/ TimerStep
    /\ UNCHANGED program

Spec == Init /\ [][Next]_vars

\* The kernel runs every thread, callbacks return, a sleep of five seconds
\* ends, and a lock that is free again and again is given to who wants it.
FairSpec ==
    /\ Spec
    /\ \A c \in Clients : SF_vars(InCall(c) /\ UNCHANGED program)
    /\ \A w \in Workers : SF_vars(Work(w) /\ UNCHANGED program)
    /\ SF_vars(TimerSubmit /\ UNCHANGED program)

-----------------------------------------------------------------------------
(* Properties *)

Priorities == {"high", "normal"}
InUse(o) == handle[o] \in {"alloc", "live", "closing"}
Running(o) == {w \in Workers : pc[w] = "callback" /\ arg[w] = o}
Releasing(o) == {c \in Clients : Contains(gone[c], o)}
Alive == {o \in Objects : obj[o].state = "alive"}

\* c has not got to tp_timerqueue_lock for o yet, or is past tp_timerqueue_unlock.
OffQueue(c, o) ==
    \/ pc[c] \in {"a_timer", "unref"} /\ arg[c] = o
    \/ Contains(gone[c], o) /\ ~(pc[c] = "m_timer" /\ arg[c] = o)

\* A timer in use that no thread has yet to put on the timer queue or has taken off.
TimerCounted(o) == InUse(o) /\ \A c \in Clients : ~OffQueue(c, o)

\* Reference counts are exact: an object has one reference for the program's
\* handle, one for each callback that is pending or runs, and one for each
\* thread that releases it with its group; the pool has one for each object,
\* each worker and the program, and the timer queue counts the timers in use,
\* each once however it is released.  What is freed is on no list any more.
RefsExact ==
    /\ \A o \in Objects :
        /\ obj[o].ref = (IF InUse(o) THEN 1 ELSE 0)
                         + obj[o].pending + Cardinality(Running(o)) + Cardinality(Releasing(o))
        /\ obj[o].running = Cardinality(Running(o))
        /\ obj[o].state = "freed" =>
            /\ obj[o].ref = 0
            /\ o \notin timerq.pending
            /\ ~Contains(members, o) /\ ~Contains(Queued, o)
            /\ pc[TimerThread] = "t_submit" => arg[TimerThread] # o
    /\ pool.workers = Cardinality(Workers \ Idle)
    /\ pool.objcount = Cardinality(Alive)
    /\ pool.ref = pool.workers + pool.objcount + (IF pool.shutdown THEN 0 ELSE 1)
    /\ timerq.objcount = Cardinality({o \in Timers : TimerCounted(o)})

\* "it is guaranteed that there is at least one worker thread to process
\* tasks": while an object is in use there is a worker, and a callback that
\* is pending has a worker that is awake and will look at the queue, whatever
\* the timeouts of idle workers and the limits of the pool.
ItemsAreSeen ==
    \A o \in Objects :
        /\ InUse(o) => pool.workers > 0
        /\ obj[o].pending > 0 => \E w \in Workers : pc[w] \notin {"none", "sleep", "leave"}

\* num_busy_workers, which decides whether a thread is started, counts at
\* least the objects that are queued and the callbacks that run: a new item
\* never waits beside a limit that is not reached, and the decrement after a
\* callback never meets 0.
BusyCounts ==
    pool.busy >= Len(Queued) + Cardinality({w \in Workers : pc[w] = "callback"})

\* In the end every callback that was requested has been called or cancelled
\* (the program asks for finitely many), and a pool that was released has been
\* freed by the last worker or the last object.
EverythingIsDone ==
    <>[](/\ \A o \in Objects : obj[o].pending = 0
         /\ pool.shutdown => pool.state = "freed")

\* Every call returns: those that wait for callbacks to finish too.
CallsReturn ==
    \A c \in Clients : []<>(pc[c] = "idle")

-----------------------------------------------------------------------------
(* The inductive invariant of the proofs *)

ClientPlaces ==
    {"idle", "a_timer", "a_submit", "a_group", "unref", "destroy", "destroy2", "s_submit",
     "w_check", "w_sleep", "m_each", "m_timer", "m_cancel", "m_wait", "m_sleep", "m_release"}
WorkerPlaces ==
    {"none", "start", "wake", "locked", "callback", "destroy", "destroy2", "to_sleep",
     "sleep", "timeout", "leave"}

PoolStruct ==
    [ref : Int, objcount : Int, shutdown : BOOLEAN, max : Nat, min : Nat, workers : Int,
     busy : Int, state : {"open", "freed"}]
ObjectStruct ==
    [ref : Int, shutdown : BOOLEAN, pending : Nat, running : Int, associated : Int,
     period : BOOLEAN, state : {"none", "alive", "freed"}]

\* Where a thread of each kind can be.
PlacesOK ==
    /\ pc \in [Threads -> ClientPlaces \cup WorkerPlaces \cup {"t_submit"}]
    /\ \A c \in Clients : pc[c] \in ClientPlaces
    /\ \A w \in Workers : pc[w] \in WorkerPlaces
    /\ pc[TimerThread] \in {"none", "t_submit"}
    /\ arg \in [Threads -> Objects \cup {None}]

TypeOK ==
    /\ PlacesOK
    /\ pool \in PoolStruct
    /\ queue \in [Priorities -> Seq(Objects)]
    /\ obj \in [Objects -> ObjectStruct]
    /\ group \in [ref : Int, shutdown : BOOLEAN]
    /\ members \in Seq(Objects)
    /\ timerq \in [objcount : Int, running : BOOLEAN, pending : SUBSET Timers, initialized : SUBSET Timers]
    /\ lock \in [Locks -> Threads \cup {None}]
    /\ gone \in [Clients -> Seq(Objects)]
    /\ inst \in [Workers -> [associated : BOOLEAN, long : BOOLEAN]]
    /\ handle \in [Objects -> {"none", "alloc", "live", "closing", "closed"}]
    /\ posts \in [Objects -> Nat]

\* Who is inside a critical section from one step to the next.
LocksHeld ==
    /\ \A w \in Workers :
        pc[w] \in {"locked", "to_sleep", "leave", "destroy", "destroy2"} => lock["pool"] = w
    /\ \A c \in Clients : pc[c] \in {"m_each", "m_timer"} => lock["group"] = c
    /\ pc[TimerThread] = "t_submit" => lock["timers"] = TimerThread

\* An object is on the list of its priority, once, while callbacks are pending.
QueuesExact ==
    /\ \A p \in Priorities : IsInjective(queue[p])
    /\ \A p \in Priorities, o \in Objects :
        Contains(queue[p], o) <=> p = Prio(o) /\ obj[o].pending > 0

\* The counters of an object.
Associates(o) == {w \in Running(o) : inst[w].associated}
CountsExact(o) ==
    /\ obj[o].ref = (IF InUse(o) THEN 1 ELSE 0)
                     + obj[o].pending + Cardinality(Running(o)) + Cardinality(Releasing(o))
    /\ obj[o].running = Cardinality(Running(o))
    /\ obj[o].associated = Cardinality(Associates(o))

\* What is not alive has no reference and is on no list.  The program's handle
\* goes when `shutdown' comes, and nobody else has it before it is returned.
FlagsExact(o) ==
    /\ handle[o] = "none" <=> obj[o].state = "none"
    /\ handle[o] = "none" => ~obj[o].shutdown
    /\ obj[o].state # "alive" => obj[o].ref = 0 /\ ~Contains(members, o)
    /\ o \notin Simples =>
        /\ obj[o].shutdown => handle[o] = "closed"
        /\ handle[o] = "closed" /\ obj[o].ref > 0 => obj[o].shutdown
        /\ handle[o] = "alloc" => obj[o].ref = 1

\* A simple callback, which has no handle, is shut down by its callback or by
\* the group.
SimpleExact(o) ==
    o \in Simples =>
        /\ handle[o] \in {"none", "alloc", "closed"}
        /\ obj[o].state = "alive" /\ ~obj[o].shutdown =>
            \/ \E c \in Clients : pc[c] = "a_submit" /\ arg[c] = o
            \/ obj[o].pending > 0 \/ Running(o) # {} \/ Releasing(o) # {}

ObjectExact(o) == CountsExact(o) /\ FlagsExact(o) /\ SimpleExact(o)

\* A member is on one list, once.  Those whom a thread releases, or will
\* release because it has the group's lock, cannot be released by the program.
MemberExact(o) ==
    /\ \A c, d \in Releasing(o) : c = d
    /\ Contains(members, o) => Releasing(o) = {}
    /\ Contains(members, o) \/ Releasing(o) # {} =>
        /\ o \in Grouped
        /\ o \notin Simples =>
            /\ handle[o] \in {"live", "closing", "closed"}
            /\ Releasing(o) # {} \/ ~Free("group") => handle[o] # "live"

GroupExact ==
    /\ IsInjective(members)
    /\ \A c \in Clients : IsInjective(gone[c])
    /\ \A o \in Objects : MemberExact(o)

Allocating == {"a_timer", "a_submit", "a_group"}
Destroying == {"destroy", "destroy2"}

\* What a thread may rely on while it deals with an object.
ClientExact(c) ==
    LET o == arg[c] IN
    /\ pc[c] \in Allocating =>
        /\ o \in Objects /\ handle[o] = "alloc"
        /\ ~Contains(members, o) /\ Releasing(o) = {}
        /\ \A d \in Clients \ {c} : pc[d] \in Allocating \cup {"unref"} => arg[d] # o
    /\ pc[c] = "a_timer" => o \in Timers
    /\ pc[c] = "a_submit" => o \in Simples /\ obj[o].ref = 1 /\ ~obj[o].shutdown
    /\ pc[c] = "unref" =>
        /\ o \in Objects /\ handle[o] = IF o \in Simples THEN "alloc" ELSE "live"
        /\ o \notin timerq.pending
        /\ pc[TimerThread] = "t_submit" => arg[TimerThread] # o
        /\ \A d \in Clients \ {c} : pc[d] \in Using \cup {"unref"} => arg[d] # o
    /\ pc[c] \in Using => o \in Objects /\ handle[o] = "live"
    /\ pc[c] = "s_submit" => o \in Timers
    /\ pc[c] \in {"m_timer", "m_cancel"} => Contains(gone[c], o)
    /\ pc[c] = "m_timer" => o \in Timers
    /\ pc[c] \in {"m_sleep", "m_release"} => gone[c] # <<>> /\ o = Head(gone[c])

DestroyerExact(t) ==
    pc[t] \in Destroying =>
        LET o == arg[t] IN
        /\ o \in Objects /\ obj[o].ref = 0 /\ obj[o].state = "alive"
        /\ pc[t] = "destroy" => obj[o].shutdown
        /\ pc[t] = "destroy2" => ~Contains(members, o)
        /\ \A u \in Threads \ {t} : pc[u] \in Destroying => arg[u] # o

\* The timer queue counts the timers that no release has taken off.
TimersCounted ==
    /\ IsFiniteSet(timerq.initialized) /\ timerq.objcount = Cardinality(timerq.initialized)
    /\ \A o \in Timers : o \in timerq.initialized <=> TimerCounted(o)

\* A timer that is set, or expires, has not been taken off by its release.
TimersExact ==
    /\ pc[TimerThread] = "t_submit" => arg[TimerThread] \in Timers
    /\ \A o \in Timers :
        o \in timerq.pending \/ (pc[TimerThread] = "t_submit" /\ arg[TimerThread] = o) =>
            /\ handle[o] \in {"live", "closing"}
            /\ \A c \in Releasing(o) : pc[c] = "m_timer" /\ arg[c] = o

\* The pool's counters.  It is freed with its last reference, and shut down
\* only when no object is in use.
PoolExact ==
    /\ pool.workers = Cardinality(Workers \ Idle)
    /\ IsFiniteSet(Alive) /\ pool.objcount = Cardinality(Alive)
    /\ pool.ref = pool.workers + pool.objcount + (IF pool.shutdown THEN 0 ELSE 1)
    /\ pool.state = "freed" <=> pool.ref = 0
    /\ pool.shutdown => \A o \in Objects : ~InUse(o)

\* A worker that is about to sleep or to leave has left no item behind, and is
\* not the last one that an object needs.
WorkerExact(w) ==
    /\ pc[w] = "callback" => arg[w] \in Objects
    /\ pc[w] \in {"to_sleep", "leave"} => Queued = <<>>
    /\ pc[w] = "leave" => pool.shutdown \/ pool.workers > 1 \/ pool.objcount = 0

IInv ==
    /\ TypeOK /\ LocksHeld /\ QueuesExact /\ GroupExact /\ TimersExact /\ TimersCounted /\ PoolExact
    /\ \A o \in Objects : ObjectExact(o)
    /\ \A c \in Clients : ClientExact(c)
    /\ \A t \in Threads : DestroyerExact(t)
    /\ \A w \in Workers : WorkerExact(w)
    /\ BusyCounts /\ ItemsAreSeen

\* No counter goes below zero.
NonNegative ==
    /\ \A o \in Objects : obj[o].ref \in Nat /\ obj[o].running \in Nat /\ obj[o].associated \in Nat
    /\ pool.ref \in Nat /\ pool.objcount \in Nat /\ pool.workers \in Nat /\ pool.busy \in Nat
    /\ timerq.objcount \in Nat

\* What the asserts of the code say: a callback is requested for an object and
\* of a pool that are not shut down (tp_object_submit).
SubmitAsserts ==
    [][\A o \in Objects :
        obj'[o].pending > obj[o].pending => ~obj[o].shutdown /\ ~pool.shutdown]_vars

\* Nobody changes an object or a pool that has been freed.
FreedIsLeftAlone ==
    [][/\ \A o \in Objects : obj[o].state = "freed" => obj'[o] = obj[o]
       /\ pool.state = "freed" => pool' = pool]_vars
=============================================================================
