-------------------------- MODULE ThreadPool_steps --------------------------
(***************************************************************************)
(* The vocabulary of the proofs about ThreadPool: its steps by what they   *)
(* do, and what a step of one thread leaves to the others.                 *)
(***************************************************************************)
EXTENDS ThreadPool

\* A step of t leaves the other threads where they are, starts idle workers or
\* wakes sleepers.
Others(t) ==
    \A u \in Threads \ {t} :
        /\ arg'[u] = arg[u]
        /\ \/ pc'[u] = pc[u]
           \/ u \in Workers /\ pc[u] = "none" /\ pc'[u] = "start"
           \/ u \in Workers /\ pc[u] = "sleep" /\ pc'[u] = "wake"
           \/ u \in Clients /\ pc[u] = "w_sleep" /\ pc'[u] = "w_check"
           \/ u \in Clients /\ pc[u] = "m_sleep" /\ pc'[u] = "m_wait"

\* t goes from one place to another and deals with a there.
Moved(t, from, to, a) ==
    /\ pc[t] = from /\ pc'[t] = to /\ arg'[t] = a
    /\ PlacesOK' /\ Others(t)

\* The places that a thread of t's kind can be at.
PlacesOf(t) ==
    IF t \in Clients THEN ClientPlaces ELSE IF t \in Workers THEN WorkerPlaces ELSE {"none", "t_submit"}

\* Steps that leave the counters and lists of every object alone.
QuietCall(c) ==
    \/ \E n \in Limits : TpSetPoolMaxThreads(c, n)
    \/ \E n \in Limits : TpSetPoolMinThreads(c, n)
    \/ TpReleasePool(c)
    \/ TpReleaseCleanupGroup(c)
    \/ \E o \in Objects : TpRelease(c, o)
    \/ \E o \in Objects, later, now, period \in BOOLEAN : TpSetTimer(c, o, later, now, period)
    \/ \E o \in Objects : TpWaitFor(c, o, FALSE)
    \/ AllocTimer(c)
    \/ ObjectWait(c)
    \/ MemberTimer(c)
    \/ MembersMoved(c)
    \/ MemberWait(c)
    \/ MembersReleased(c)
QuietWork(w) ==
    \/ WorkerNoItem(w) \/ WorkerSleep(w) \/ WorkerTimeout(w) \/ WorkerTimedOut(w) \/ WorkerLeave(w)
    \/ TpCallbackMayRunLong(w)
QuietTimer == (\E o \in Timers : TimerExpires(o)) \/ TimerThreadEnds
Quiet(t) ==
    \/ t \in Clients /\ QuietCall(t)
    \/ t \in Workers /\ QuietWork(t)
    \/ t = TimerThread /\ QuietTimer

\* t asks for a callback of o.
Submits(t, o) ==
    \/ t \in Clients /\ TpPostWork(t, o)
    \/ t \in Clients /\ AllocSubmit(t) /\ o = arg[t]
    \/ t \in Clients /\ SetTimerSubmit(t) /\ o = arg[t]
    \/ t \in Workers /\ CallbackPosts(t) /\ o = arg[t]
    \/ t = TimerThread /\ TimerSubmit /\ o = arg[t]

\* c cancels the callbacks of o.
Cancels(c, o) ==
    \/ TpWaitFor(c, o, TRUE) /\ o \in Objects
    \/ MemberCancel(c) /\ o = arg[c]

\* The object's counters and flags, and who runs its callbacks, stay.
SameObject(x) ==
    /\ obj'[x].ref = obj[x].ref /\ obj'[x].pending = obj[x].pending /\ obj'[x].running = obj[x].running
    /\ obj'[x].associated = obj[x].associated /\ obj'[x].state = obj[x].state /\ obj'[x].shutdown = obj[x].shutdown
SameRunners ==
    \A w \in Workers :
        /\ pc'[w] = "callback" <=> pc[w] = "callback"
        /\ pc[w] = "callback" => arg'[w] = arg[w] /\ inst'[w].associated = inst[w].associated
Kept ==
    /\ \A x \in Objects : SameObject(x)
    /\ queue' = queue /\ members' = members /\ handle' = handle /\ gone' = gone

\* Everything but one object and its handle.
Beside(o) ==
    /\ \A x \in Objects \ {o} : obj'[x] = obj[x] /\ handle'[x] = handle[x]
    /\ queue' = queue /\ obj' \in [Objects -> ObjectStruct]
    /\ handle' \in [Objects -> {"none", "alloc", "live", "closing", "closed"}]

\* How many references the group's release of an object drops.
Drop(o) == IF obj[o].shutdown \/ o \in Simples THEN 1 ELSE 2

\* The callbacks that the other workers run stay.
OtherRunners(w) ==
    \A u \in Workers \ {w} :
        /\ pc'[u] = "callback" <=> pc[u] = "callback"
        /\ pc[u] = "callback" => arg'[u] = arg[u] /\ inst'[u].associated = inst[u].associated

\* Where a thread has yet to put its timer on the timer queue, or has taken it off.
OffPlaces == {"a_timer", "unref", "m_timer"}

\* A timer that is set or expires.
Ticks(o) == o \in timerq.pending \/ (pc[TimerThread] = "t_submit" /\ arg[TimerThread] = o)

\* A handle changes by its allocation, by the thread that allocates or releases
\* the object, because the object is released with its group, or by its callback.
HandlesKept(t) ==
    \A o \in Objects :
        \/ handle'[o] = handle[o]
        \/ handle[o] = "none"
        \/ t \in Clients /\ pc[t] \in Allocating \cup {"unref"} /\ arg[t] = o
        \/ handle[o] = "live" /\ handle'[o] = "closing" /\ Undisturbed(o)
        \/ handle'[o] = "closed" /\ o \notin Simples /\ t \in Clients /\ pc[t] = "m_release" /\ Contains(gone[t], o)
        \/ /\ handle'[o] = "closed" /\ o \notin Simples /\ handle[o] \in {"live", "closing"}
           /\ NotReleased(o) /\ NotUsed(o) /\ ~Ticks(o)'

\* An object joins the group at the end of its allocation, and moves from the
\* group's list to that of the thread that releases its members.
ListsKept(t) ==
    /\ \A o \in Objects : Contains(members', o) => Contains(members, o) \/ (t \in Clients /\ pc[t] = "a_group" /\ arg[t] = o)
    /\ \A c \in Clients \ {t} : gone'[c] = gone[c]
    /\ \A o \in Objects : t \in Clients /\ Contains(gone'[t], o) => Contains(gone[t], o) \/ Contains(members, o)

\* t begins to deal with an object that nobody has, or nobody releases.
UsesKept(t) ==
    t \in Clients =>
        /\ pc'[t] \in Allocating =>
            (pc[t] \in Allocating /\ arg'[t] = arg[t]) \/ (arg'[t] \in Objects /\ handle[arg'[t]] = "none")
        /\ pc'[t] = "unref" =>
            (pc[t] = "a_group" /\ arg'[t] = arg[t]) \/ (handle[arg'[t]] = "live" /\ Undisturbed(arg'[t]))
        /\ pc'[t] \in Using =>
            (pc[t] \in Using /\ arg'[t] = arg[t]) \/ \A d \in Clients : pc[d] = "unref" => arg[d] # arg'[t]

\* A timer is set by its user, or set again by the timer queue thread.
TimersKept ==
    /\ \A o \in timerq'.pending :
        \/ o \in timerq.pending
        \/ handle[o] = "live" /\ Undisturbed(o)
        \/ pc[TimerThread] = "t_submit" /\ arg[TimerThread] = o
    /\ pc'[TimerThread] = "t_submit" =>
        (pc[TimerThread] = "t_submit" /\ arg'[TimerThread] = arg[TimerThread]) \/ arg'[TimerThread] \in timerq.pending

\* Nobody but its destroyer changes an object that has no reference, and nobody
\* but its allocator a simple callback that is being allocated.
ObjectsKept(t) ==
    \A o \in Objects :
        /\ obj[o].ref = 0 /\ obj[o].state = "alive" => SameObject(o) \/ (pc[t] = "destroy2" /\ arg[t] = o)
        /\ (\E c \in Clients \ {t} : pc[c] = "a_submit" /\ arg[c] = o) => SameObject(o)

Guarantee(t) == HandlesKept(t) /\ ListsKept(t) /\ UsesKept(t) /\ TimersKept /\ ObjectsKept(t)

Handles == {"none", "alloc", "live", "closing", "closed"}
Instances == [associated : BOOLEAN, long : BOOLEAN]

\* The types of the objects, the lists and the callbacks.
ListsTyped ==
    /\ obj' \in [Objects -> ObjectStruct] /\ queue' \in [Priorities -> Seq(Objects)] /\ members' \in Seq(Objects)
    /\ gone' \in [Clients -> Seq(Objects)] /\ handle' \in [Objects -> Handles] /\ inst' \in [Workers -> Instances]

TimerStruct == [objcount : Int, running : BOOLEAN, pending : SUBSET Timers, initialized : SUBSET Timers]
GroupStruct == [ref : Int, shutdown : BOOLEAN]

\* The types of the timer queue, the group and the requests.
RestTyped == timerq' \in TimerStruct /\ group' \in GroupStruct /\ posts' \in [Objects -> Nat]

\* What a step of t may do to the pool.
PoolOK(t) ==
    /\ pool' \in PoolStruct /\ PoolExact'
    /\ pool.shutdown => pool'.shutdown
    /\ pool'.workers < pool.workers => t \in Workers /\ pc[t] = "leave" /\ pool'.workers = pool.workers - 1
    /\ pool'.objcount > pool.objcount => Free("pool")
    /\ \A o \in Objects : InUse(o)' => InUse(o) \/ pool'.workers > 0
    /\ pool.state = "freed" => pool' = pool

\* No object is used that was not used before.
UsesEnd == \A o \in Objects : InUse(o)' => InUse(o)

\* t moves, and no worker starts, wakes or ends.
Alone(t) == \E to : pc' = [pc EXCEPT ![t] = to] /\ (t \in Workers => pc[t] # "none" /\ to # "none")

Asleep == {"none", "sleep", "leave"}

\* A step of t that asks for no callback: who holds the pool's lock finds the
\* queue as it was, and t does not turn away from items.
Calm(t) ==
    /\ Others(t) /\ PoolOK(t)
    /\ \A o \in Objects : obj'[o].pending > 0 => obj[o].pending > 0
    /\ queue' = queue \/ Free("pool") \/ (t \in Workers /\ pc[t] = "locked")
    /\ t \in Workers => WorkerExact(t)'
    /\ t \in Workers /\ Queued # <<>> => pc'[t] \notin Asleep \/ pc[t] \in Asleep

Calling == {w \in Workers : pc[w] = "callback"}

\* Who allocates a simple callback goes on.
SubmittersStay(x) == \A c \in Clients : pc[c] = "a_submit" /\ arg[c] = x => pc'[c] = "a_submit" /\ arg'[c] = x

SameUsers(x) == Running(x)' = Running(x) /\ Associates(x)' = Associates(x) /\ Releasing(x)' = Releasing(x)

\* The group's lock is not taken.
GroupNotLocked == ~Free("group")' => ~Free("group")

\* A step leaves an object alone, or the object is not freed and gets no
\* callback more unless it is open and its pool too.
Harmless(x) ==
    \/ obj'[x] = obj[x]
    \/ /\ obj[x].state # "freed"
       /\ obj'[x].pending > obj[x].pending => ~obj[x].shutdown /\ ~pool.shutdown
=============================================================================
