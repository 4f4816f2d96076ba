----------------------------- MODULE ServerWait -----------------------------
(***************************************************************************)
(* Waits that go through the wineserver: server/thread.c with the          *)
(* semaphores, mutexes and events of server/{semaphore,mutex,event}.c, and *)
(* the client's side of them, server_select and wait_select_reply of       *)
(* dlls/ntdll/unix/server.c.                                               *)
(*                                                                         *)
(* The server handles one request or timeout at a time.  What a handler    *)
(* does is a stack of tasks, run to its end before anything else; a task   *)
(* stands for a call in progress, wake_up calling wake_thread and so on.   *)
(* The clients run meanwhile, but they touch only their own pipes.         *)
(*                                                                         *)
(* A thread selects in its program's frame, "user", and on top of it in    *)
(* the frame of usr1_handler, which is entered when the server has sent    *)
(* SIGUSR1.  Every thread is a process of its own.  fsync and esync are    *)
(* off.  The clock and the timer of a wait are separate: current_time is   *)
(* read before the requests of a round of the main loop are handled, the   *)
(* timers run afterwards.                                                  *)
(***************************************************************************)
EXTENDS Integers, FiniteSets, SequencesExt

CONSTANTS
    Threads, Semaphores, Mutexes, AutoEvents, ManualEvents,
    None,           \* NULL: no object, no thread, no cookie
    MaxCount,       \* the maximum count of every semaphore
    MaxDepth,       \* bound on recursive ownership (model only)
    Programs,       \* the programs to check, see below
    Watched         \* the threads whose progress is checked

Counted == Semaphores \cup AutoEvents
Events == AutoEvents \cup ManualEvents
\* The thread_apc that a thread has queued last has the name of that thread.
Objects == Semaphores \cup Mutexes \cup Events \cup Threads
Frames == {"user", "handler"}

\* What a program selects on: objects, for any or all of them, an object to be
\* signalled first, and a deadline ("never", "later", or "past": a timeout of 0).
Requests ==
    [objs : Seq(Objects), all : BOOLEAN, signal : Objects \cup {None},
     alertable : BOOLEAN, when : {"never", "later", "past"}]

\* A program: its threads, what they select on, the other calls that are made,
\* and how many of those (a bound of the model).
ASSUME ServerWaitAssumption ==
    /\ None \notin Objects
    /\ MaxCount \in Nat \ {0} /\ MaxDepth \in Nat
    /\ Watched \subseteq Threads
    /\ \A p \in Programs :
        /\ p.threads \subseteq Threads /\ p.requests \subseteq Requests
        /\ p.budget \in Nat

VARIABLES
    program, budget,
    count,       \* semaphore.count, event.signaled, thread_apc.executed
    owner, recursion, abandoned,    \* of mutexes
    queue,       \* queue[o]: obj.wait_queue, the threads of its entries
    waits,       \* waits[t]: thread.wait, the innermost wait first
    suspend,     \* thread.suspend
    context,     \* thread.context: "none", "clean" or "changed" (regs[].flags)
    system_apc,  \* system_apc[t]: the threads that have queued an APC to t
    user_apc,    \* user_apc[t]: the number of user APCs queued to t
    tasks,       \* what the server is doing, the innermost call first
    pipe,        \* pipe[t]: the wake_up_replies in wait_fd
    stolen,      \* stolen[t]: replies read by the handler that are not its own
    signal,      \* signal[t]: SIGUSR1 is pending
    frame,       \* frame[t][f]: where server_select is in each frame
    req,         \* req[t]: the select_op of the user frame
    prev,        \* prev[t]: the system APC that t runs
    holds,       \* holds[t][m]: the program's view: how often t owns m
    credit,      \* credit[s]: releases of s less the waits that were told of one
    signalled,   \* threads whose call has signalled its object
    misspent     \* objects one of whose wake-ups went to a wait that did not take it

objectVars == <<count, owner, recursion, abandoned>>
apcVars == <<system_apc, user_apc>>
stopVars == <<suspend, context, signal>>
clientVars == <<stolen, frame, req, prev>>
ghostVars == <<holds, credit, signalled, misspent>>
vars == <<program, budget, objectVars, queue, waits, stopVars, apcVars, tasks, pipe,
          clientVars, ghostVars>>

NoRequest == [objs |-> <<>>, all |-> FALSE, signal |-> None, alertable |-> FALSE, when |-> "past"]
Alive(t) == frame[t]["user"] # "dead"

Init ==
    /\ program \in Programs
    /\ budget = program.budget
    /\ count = [o \in Objects \ Mutexes |-> 0]
    /\ owner = [m \in Mutexes |-> None]
    /\ recursion = [m \in Mutexes |-> 0]
    /\ abandoned = [m \in Mutexes |-> FALSE]
    /\ queue = [o \in Objects |-> <<>>]
    /\ waits = [t \in Threads |-> <<>>]
    /\ suspend = [t \in Threads |-> 0]
    /\ context = [t \in Threads |-> "none"]
    /\ signal = [t \in Threads |-> FALSE]
    /\ system_apc = [t \in Threads |-> <<>>]
    /\ user_apc = [t \in Threads |-> 0]
    /\ tasks = <<>>
    /\ pipe = [t \in Threads |-> <<>>]
    /\ stolen = [t \in Threads |-> <<>>]
    /\ frame = [t \in Threads |-> [f \in Frames |-> "idle"]]
    /\ req = [t \in Threads |-> NoRequest]
    /\ prev = [t \in Threads |-> None]
    /\ holds = [t \in Threads |-> [m \in Mutexes |-> 0]]
    /\ credit = [s \in Semaphores |-> 0]
    /\ signalled = {}
    /\ misspent = {}

-----------------------------------------------------------------------------
(* Waits in the server *)

\* The status a wait ends with, and the objects that the client learns it got.
Status(kind, got) == [kind |-> kind, got |-> got]
Pending == Status("PENDING", {})

\* ops->signaled
Signaled(t, o) ==
    IF o \in Mutexes THEN recursion[o] = 0 \/ owner[o] = t ELSE count[o] > 0

\* The objects that the innermost wait of t gets if it ends now, if any.
Obtainable(t) ==
    LET w == Head(waits[t])
        ready == {n \in DOMAIN w.objs : Signaled(t, w.objs[n])}
    IN  CASE ready = {} \/ (w.all /\ ready # DOMAIN w.objs) -> {}
          [] w.all /\ ready = DOMAIN w.objs -> ToSet(w.objs)
          [] OTHER -> {w.objs[CHOOSE n \in ready : \A k \in ready : n <= k]}

\* Without a wait there is nothing to end.  "Suspended threads may not acquire
\* locks, but they can run system APCs".
check_wait(t) ==
    LET w == Head(waits[t])
    IN  IF waits[t] = <<>> THEN Pending
        ELSE IF system_apc[t] # <<>> THEN Status("KERNEL_APC", {})
        ELSE IF suspend[t] > 0 THEN Pending
        ELSE IF Obtainable(t) # {} THEN Status("OBJECT", Obtainable(t))
        ELSE IF w.alertable /\ user_apc[t] > 0 THEN Status("USER_APC", {})
        ELSE IF w.when = "past" THEN Status("TIMEOUT", {})
        ELSE Pending

\* ops->satisfied
Satisfy(t, got) ==
    /\ count' = [o \in DOMAIN count |-> IF o \in got \cap Counted THEN count[o] - 1 ELSE count[o]]
    /\ recursion' = [m \in Mutexes |-> IF m \in got THEN recursion[m] + 1 ELSE recursion[m]]
    /\ owner' = [m \in Mutexes |-> IF m \in got THEN t ELSE owner[m]]
    /\ abandoned' = [m \in Mutexes |-> abandoned[m] /\ m \notin got]
    /\ misspent' = {o \in misspent : o \notin got \/ count'[o] > 0}

\* The innermost wait of t is over: its objects are told, its entries removed.
end_wait(t, status) ==
    /\ Satisfy(t, status.got)
    /\ queue' = [o \in Objects |->
                    IF o \in ToSet(Head(waits[t]).objs)
                    THEN SelectSeq(queue[o], LAMBDA u : u # t) ELSE queue[o]]
    /\ waits' = [waits EXCEPT ![t] = Tail(@)]

\* send_thread_wakeup: the handler's wait is over, and so is the suspension,
\* unless the context was changed: "signal a fake APC so that client calls
\* select to get a new context".
Ends(t, cookie, status) ==
    cookie = "handler" /\ status.kind \notin {"KERNEL_APC", "USER_APC"} /\ context[t] # "none"
send_thread_wakeup(t, cookie, status) ==
    /\ context' = [context EXCEPT ![t] =
                    IF Ends(t, cookie, status) /\ @ = "clean" THEN "none" ELSE @]
    /\ pipe' = [pipe EXCEPT ![t] = Append(@,
                    [cookie |-> cookie,
                     status |-> IF Ends(t, cookie, status) /\ context[t] = "changed"
                                THEN Status("KERNEL_APC", {}) ELSE status])]

Wakeup(t, cookie, status) ==
    IF cookie = None THEN UNCHANGED <<context, pipe>> ELSE send_thread_wakeup(t, cookie, status)

-----------------------------------------------------------------------------
(* Tasks *)

WakeUp(o, max) == [do |-> "wake_up", obj |-> o, max |-> max, pos |-> 1]
WakeThread(t) == [do |-> "wake_thread", thread |-> t, woken |-> 0]
Task(do, t, f) == [do |-> do, thread |-> t, frame |-> f]

\* The server is at the task do.
At(do) == tasks # <<>> /\ Head(tasks).do = do

\* Variant: wake_up goes on from the entry it was at.
ReturnedNext(callers, woken) ==
    IF callers = <<>> \/ Head(callers).do # "wake_up" THEN callers
    ELSE LET w == Head(callers)
         IN  IF woken > 0 /\ w.max = 1 THEN Tail(callers)
             ELSE <<[w EXCEPT !.pos = @ + 1, !.max = IF woken = 0 \/ @ = 0 THEN @ ELSE @ - 1]>>
                    \o Tail(callers)

\* wake_thread returns to wake_up, which goes on with the next entry, stops
\* after max successful wake-ups, or restarts "at the head of the list since a
\* wake up can change the object wait queue".
Returned(callers, woken) ==
    IF callers = <<>> \/ Head(callers).do # "wake_up" THEN callers
    ELSE LET w == Head(callers)
         IN  CASE woken = 0 -> <<[w EXCEPT !.pos = @ + 1]>> \o Tail(callers)
               [] woken > 0 /\ w.max = 1 -> Tail(callers)
               [] OTHER -> <<WakeUp(w.obj, IF w.max = 0 THEN 0 ELSE w.max - 1)>> \o Tail(callers)

wake_up ==
    /\ At("wake_up")
    /\ LET w == Head(tasks)
       IN  tasks' = IF w.pos > Len(queue[w.obj]) THEN Tail(tasks)
                    ELSE <<WakeThread(queue[w.obj][w.pos])>> \o tasks
    /\ UNCHANGED <<objectVars, queue, waits, stopVars, apcVars, pipe, clientVars, ghostVars>>

\* wake_thread: the innermost wait is over ...
wake_thread ==
    /\ At("wake_thread")
    /\ LET t == Head(tasks).thread
           status == check_wait(t)
       IN  /\ status # Pending
           /\ end_wait(t, status)
           /\ Wakeup(t, Head(waits[t]).cookie, status)
    /\ tasks' = <<[Head(tasks) EXCEPT !.woken = @ + 1]>> \o Tail(tasks)
    /\ UNCHANGED <<suspend, signal, apcVars, clientVars, holds, credit, signalled>>

\* ... or not, or there is none.
wake_thread_returns ==
    /\ At("wake_thread")
    /\ LET t == Head(tasks).thread
           callers == Tail(tasks)
       IN  /\ check_wait(t) = Pending
           /\ tasks' = Returned(callers, Head(tasks).woken)
           /\ misspent' = misspent \cup
                {o \in Counted :
                    /\ count[o] > 0 /\ Head(tasks).woken > 0
                    /\ callers # <<>> /\ Head(callers).do = "wake_up"
                    /\ Head(callers).obj = o /\ Head(callers).max = 1}
    /\ UNCHANGED <<objectVars, queue, waits, stopVars, apcVars, pipe, clientVars,
                   holds, credit, signalled>>
-----------------------------------------------------------------------------
(* Signalling: ops->signal and the requests that do the same *)

CanSignal(t, o, n) ==
    CASE o \in Semaphores -> count[o] + n <= MaxCount
      [] o \in Mutexes -> recursion[o] > 0 /\ owner[o] = t
      [] OTHER -> TRUE

\* Variant: a mutex is free after one release.
SignalFrees(o, n) ==
    /\ count' = CASE o \in Semaphores -> [count EXCEPT ![o] = @ + n]
                  [] o \in Events -> [count EXCEPT ![o] = 1]
                  [] OTHER -> count
    /\ recursion' = IF o \in Mutexes THEN [recursion EXCEPT ![o] = 0] ELSE recursion
    /\ owner' = IF o \in Mutexes THEN [owner EXCEPT ![o] = None] ELSE owner
    /\ UNCHANGED abandoned

Signal(o, n) ==
    /\ count' = CASE o \in Semaphores -> [count EXCEPT ![o] = @ + n]
                  [] o \in Events -> [count EXCEPT ![o] = 1]
                  [] OTHER -> count
    /\ recursion' = IF o \in Mutexes THEN [recursion EXCEPT ![o] = @ - 1] ELSE recursion
    /\ owner' = IF o \in Mutexes /\ recursion[o] = 1 THEN [owner EXCEPT ![o] = None] ELSE owner
    /\ UNCHANGED abandoned

\* "there cannot be any thread to wake up if the count is != 0"; a mutex is
\* free once its recursion count is 0.
SignalWakes(o, n) ==
    CASE o \in Semaphores -> IF count[o] = 0 THEN <<WakeUp(o, n)>> ELSE <<>>
      [] o \in Mutexes -> IF recursion[o] = 1 THEN <<WakeUp(o, 0)>> ELSE <<>>
      [] o \in AutoEvents -> <<WakeUp(o, 1)>>
      [] OTHER -> <<WakeUp(o, 0)>>

\* What the program makes of it.
Account(t, o, n) ==
    /\ credit' = IF o \in Semaphores THEN [credit EXCEPT ![o] = @ + n] ELSE credit
    /\ holds' = IF o \in Mutexes THEN [holds EXCEPT ![t][o] = @ - 1] ELSE holds

-----------------------------------------------------------------------------
(* The select request *)

\* The frame is not about to select again: it returns to its caller.
Return(t, f, status) ==
    /\ frame' = [frame EXCEPT ![t][f] = "idle"]
    /\ req' = IF f = "user" THEN [req EXCEPT ![t] = NoRequest] ELSE req
    /\ credit' = [s \in Semaphores |-> IF s \in status.got THEN credit[s] - 1 ELSE credit[s]]
    /\ holds' = [holds EXCEPT ![t] =
                    [m \in Mutexes |-> IF m \in status.got THEN @[m] + 1 ELSE @[m]]]
    /\ signalled' = IF f = "user" THEN signalled \ {t} ELSE signalled

\* select_on: wait_on, and the object is signalled.
select_on ==
    /\ At("select")
    /\ LET t == Head(tasks).thread
           r == IF Head(tasks).frame = "user" THEN req[t] ELSE NoRequest
           then == <<[Head(tasks) EXCEPT !.do = "check"]>> \o Tail(tasks)
       IN  /\ waits' = [waits EXCEPT ![t] =
                <<[objs |-> r.objs, all |-> r.all, alertable |-> r.alertable, when |-> r.when,
                   timer |-> FALSE, cookie |-> None]>> \o @]
           /\ queue' = [o \in Objects |->
                IF o \in ToSet(r.objs) THEN Append(queue[o], t) ELSE queue[o]]
           /\ \/ /\ r.signal = None
                 /\ tasks' = then
                 /\ UNCHANGED <<objectVars, holds, credit, signalled>>
              \/ /\ r.signal # None /\ CanSignal(t, r.signal, 1)
                 /\ Signal(r.signal, 1)
                 /\ tasks' = SignalWakes(r.signal, 1) \o then
                 /\ signalled' = signalled \cup {t}
                 /\ IF t \in signalled THEN UNCHANGED <<holds, credit>> ELSE Account(t, r.signal, 1)
              \/ /\ r.signal # None /\ ~CanSignal(t, r.signal, 1)
                 /\ tasks' = <<[Head(tasks) EXCEPT !.do = "refuse"]>> \o Tail(tasks)
                 /\ UNCHANGED <<objectVars, holds, credit, signalled>>
    /\ UNCHANGED <<stopVars, apcVars, pipe, clientVars, misspent>>

\* The object could not be signalled.
select_refused ==
    /\ At("refuse")
    /\ LET t == Head(tasks).thread
           status == Status("REFUSED", {})
       IN  end_wait(t, status) /\ Return(t, "user", status)
    /\ tasks' = Tail(tasks)
    /\ UNCHANGED <<stopVars, apcVars, pipe, stolen, prev>>

\* "check if we woke ourselves up": STATUS_SUCCESS is returned.
select_woken ==
    /\ At("check")
    /\ LET t == Head(tasks).thread
       IN  waits[t] = <<>> /\ Return(t, "user", Status("OBJECT", ToSet(req[t].objs)))
    /\ tasks' = Tail(tasks)
    /\ UNCHANGED <<objectVars, queue, waits, stopVars, apcVars, pipe, stolen, prev, misspent>>

\* "now we need to wait"
select_waits ==
    /\ At("check")
    /\ LET t == Head(tasks).thread
           f == Head(tasks).frame
       IN  /\ waits[t] # <<>> /\ check_wait(t) = Pending
           /\ waits' = [waits EXCEPT ![t][1].cookie = f,
                                     ![t][1].timer = waits[t][1].when # "never"]
           /\ frame' = [frame EXCEPT ![t][f] = "reading"]
    /\ tasks' = Tail(tasks)
    /\ UNCHANGED <<objectVars, queue, stopVars, apcVars, pipe, stolen, req, prev, ghostVars>>

\* "condition is already satisfied": a system APC goes to the client, which
\* runs it with signals blocked and then selects again, without its signal
\* ("don't signal multiple times") ...
select_apc ==
    /\ At("check")
    /\ LET t == Head(tasks).thread
           f == Head(tasks).frame
       IN  /\ check_wait(t).kind = "KERNEL_APC"
           /\ end_wait(t, check_wait(t))
           /\ system_apc' = [system_apc EXCEPT ![t] = Tail(@)]
           /\ prev' = [prev EXCEPT ![t] = Head(system_apc[t])]
           /\ frame' = [frame EXCEPT ![t][f] = "apc"]
           /\ req' = IF f = "user" THEN [req EXCEPT ![t].signal = None] ELSE req
    /\ tasks' = Tail(tasks)
    /\ UNCHANGED <<stopVars, user_apc, pipe, stolen, holds, credit, signalled>>

\* ... and everything else ends the call.
select_returns ==
    /\ At("check")
    /\ LET t == Head(tasks).thread
           f == Head(tasks).frame
           status == check_wait(t)
       IN  /\ status.kind \notin {"PENDING", "KERNEL_APC"}
           /\ end_wait(t, status)
           /\ Return(t, f, status)
           /\ user_apc' = [user_apc EXCEPT ![t] = IF status.kind = "USER_APC" THEN @ - 1 ELSE @]
           /\ context' = [context EXCEPT ![t] = IF f = "handler" THEN "none" ELSE @]
    /\ tasks' = Tail(tasks)
    /\ UNCHANGED <<suspend, signal, system_apc, pipe, stolen, prev>>

-----------------------------------------------------------------------------
(* The client: server_select, wait_select_reply, usr1_handler *)

Idle == tasks = <<>>

\* The thread runs the code of the frame f.
Runs(t, f) == f = "user" => frame[t]["handler"] = "idle"

\* The program waits; it does not own a mutex more than MaxDepth times.
server_select(t, r) ==
    /\ Idle /\ frame[t]["user"] = "idle" /\ Runs(t, "user")
    /\ \A m \in ToSet(r.objs) \cap Mutexes : holds[t][m] < MaxDepth
    /\ frame' = [frame EXCEPT ![t]["user"] = "server"]
    /\ req' = [req EXCEPT ![t] = r]
    /\ tasks' = <<Task("select", t, "user")>>
    /\ UNCHANGED <<objectVars, queue, waits, stopVars, apcVars, pipe, stolen, prev, ghostVars>>

\* A wake-up told the client to select again, to be given the APC.
SelectAgain(t, f) ==
    /\ Idle /\ frame[t][f] = "again" /\ Runs(t, f)
    /\ frame' = [frame EXCEPT ![t][f] = "server"]
    /\ tasks' = <<Task("select", t, f)>>
    /\ UNCHANGED <<objectVars, queue, waits, stopVars, apcVars, pipe, stolen, req, prev, ghostVars>>

\* invoke_system_apc has been run; the next request stores its result.
ApcDone(t, f) ==
    /\ Idle /\ frame[t][f] = "apc"
    /\ frame' = [frame EXCEPT ![t][f] = "server"]
    /\ count' = [count EXCEPT ![prev[t]] = 1]
    /\ prev' = [prev EXCEPT ![t] = None]
    /\ tasks' = <<WakeUp(prev[t], 0), Task("select", t, f)>>
    /\ UNCHANGED <<owner, recursion, abandoned, queue, waits, stopVars, apcVars, pipe, stolen,
                   req, ghostVars>>

\* usr1_handler: wait_suspend selects with the thread's context.  SIGUSR1 is
\* blocked in the handler, during requests and in system APCs.
usr1_handler(t) ==
    /\ Idle /\ signal[t]
    /\ frame[t]["handler"] = "idle" /\ frame[t]["user"] \in {"idle", "reading", "again"}
    /\ signal' = [signal EXCEPT ![t] = FALSE]
    /\ context' = [context EXCEPT ![t] = IF @ = "none" THEN "clean" ELSE @]
    /\ frame' = [frame EXCEPT ![t]["handler"] = "server"]
    /\ tasks' = <<Task("select", t, "handler")>>
    /\ UNCHANGED <<objectVars, queue, waits, suspend, apcVars, pipe, stolen, req, prev, ghostVars>>

\* Variant: the replies that were stolen are not put back.
ReadReplyKeeps(t, f) ==
    /\ frame[t][f] = "reading" /\ Runs(t, f)
    /\ pipe[t] # <<>> /\ Head(pipe[t]).cookie = f
    /\ pipe' = [pipe EXCEPT ![t] = Tail(@)]
    /\ stolen' = [stolen EXCEPT ![t] = <<>>]
    /\ LET status == Head(pipe[t]).status
       IN  \/ /\ status.kind \in {"KERNEL_APC", "USER_APC"}
              /\ frame' = [frame EXCEPT ![t][f] = "again"]
              /\ UNCHANGED <<req, holds, credit, signalled>>
           \/ /\ status.kind \notin {"KERNEL_APC", "USER_APC"}
              /\ Return(t, f, status)
    /\ UNCHANGED <<objectVars, queue, waits, stopVars, apcVars, tasks, prev, misspent>>

\* wait_select_reply reads its own reply, and puts back what it has stolen ...
ReadReply(t, f) ==
    /\ frame[t][f] = "reading" /\ Runs(t, f)
    /\ pipe[t] # <<>> /\ Head(pipe[t]).cookie = f
    /\ pipe' = [pipe EXCEPT ![t] = Tail(@) \o stolen[t]]
    /\ stolen' = [stolen EXCEPT ![t] = <<>>]
    /\ LET status == Head(pipe[t]).status
       IN  \/ /\ status.kind \in {"KERNEL_APC", "USER_APC"}
              /\ frame' = [frame EXCEPT ![t][f] = "again"]
              /\ UNCHANGED <<req, holds, credit, signalled>>
           \/ /\ status.kind \notin {"KERNEL_APC", "USER_APC"}
              /\ Return(t, f, status)
    /\ UNCHANGED <<objectVars, queue, waits, stopVars, apcVars, tasks, prev, misspent>>

\* ... or "we stole another reply, wait for the real one".
StealReply(t) ==
    /\ frame[t]["handler"] = "reading"
    /\ pipe[t] # <<>> /\ Head(pipe[t]).cookie # "handler"
    /\ stolen' = [stolen EXCEPT ![t] = Append(@, Head(pipe[t]))]
    /\ pipe' = [pipe EXCEPT ![t] = Tail(@)]
    /\ UNCHANGED <<objectVars, queue, waits, stopVars, apcVars, tasks, frame, req, prev, ghostVars>>
-----------------------------------------------------------------------------
(* The other requests *)

\* A call that the program makes at most budget times.
Request(name) ==
    /\ Idle
    /\ name \in program.ops /\ budget > 0
    /\ budget' = budget - 1

\* release_semaphore, set_event
SignalObject(o, n) ==
    /\ Request("signal") /\ CanSignal(None, o, n)
    /\ Signal(o, n)
    /\ tasks' = SignalWakes(o, n)
    /\ Account(None, o, n)
    /\ UNCHANGED <<queue, waits, stopVars, apcVars, pipe, clientVars, signalled, misspent>>

release_mutex(t, m) ==
    /\ Idle /\ frame[t]["user"] = "idle" /\ Runs(t, "user")
    /\ CanSignal(t, m, 1)
    /\ Signal(m, 1)
    /\ tasks' = SignalWakes(m, 1)
    /\ Account(t, m, 1)
    /\ UNCHANGED <<queue, waits, stopVars, apcVars, pipe, clientVars, signalled, misspent>>

pulse_event(e) ==
    /\ Request("pulse")
    /\ Signal(e, 1)
    /\ tasks' = SignalWakes(e, 1) \o <<Task("reset", e, None)>>
    /\ UNCHANGED <<queue, waits, stopVars, apcVars, pipe, clientVars, ghostVars>>

\* reset_event, and the end of pulse_event
reset_event(e) ==
    /\ count' = [count EXCEPT ![e] = 0]
    /\ misspent' = misspent \ {e}
    /\ UNCHANGED <<owner, recursion, abandoned, queue, waits, stopVars, apcVars, pipe, clientVars,
                   holds, credit, signalled>>
ResetEvent(e) == Request("reset") /\ reset_event(e) /\ UNCHANGED tasks
PulseEnds == At("reset") /\ reset_event(Head(tasks).thread) /\ tasks' = Tail(tasks)

\* queue_apc, for a user APC
queue_user_apc(t) ==
    /\ Request("user_apc") /\ Alive(t)
    /\ user_apc' = [user_apc EXCEPT ![t] = @ + 1]
    /\ tasks' = IF user_apc[t] = 0 THEN <<WakeThread(t)>> ELSE <<>>
    /\ UNCHANGED <<objectVars, queue, waits, stopVars, system_apc, pipe, clientVars, ghostVars>>

is_in_apc_wait(t) == suspend[t] > 0 \/ waits[t] # <<>>

\* s has the process of t run an APC, and waits until it has been executed
\* (server_queue_process_apc).  A retry after a cancelled APC finds no thread:
\* the process had only the one that died.
queue_system_apc(s, t) ==
    /\ Request("system_apc") /\ Alive(t) /\ s # t
    /\ frame[s]["user"] = "idle" /\ Runs(s, "user")
    /\ system_apc' = [system_apc EXCEPT ![t] = Append(@, s)]
    /\ signal' = [signal EXCEPT ![t] = @ \/ ~is_in_apc_wait(t)]
    /\ count' = [count EXCEPT ![s] = 0]
    /\ frame' = [frame EXCEPT ![s]["user"] = "again"]
    /\ req' = [req EXCEPT ![s] = [NoRequest EXCEPT !.objs = <<s>>, !.when = "never"]]
    /\ tasks' = IF system_apc[t] = <<>> THEN <<WakeThread(t)>> ELSE <<>>
    /\ UNCHANGED <<owner, recursion, abandoned, queue, waits, suspend, context, user_apc, pipe,
                   stolen, prev, ghostVars>>

\* Variant: a thread that waits gets no signal either.
stop_thread_running(t, ctx) ==
    /\ context' = [context EXCEPT ![t] = IF @ = "none" \/ ctx = "changed" THEN ctx ELSE @]
    /\ signal' = [signal EXCEPT ![t] = @ \/ (context[t] = "none" /\ waits[t] = <<>>)]

\* stop_thread: "already suspended, no need for a signal" if there is a context.
stop_thread(t, ctx) ==
    /\ context' = [context EXCEPT ![t] = IF @ = "none" \/ ctx = "changed" THEN ctx ELSE @]
    /\ signal' = [signal EXCEPT ![t] = @ \/ context[t] = "none"]

suspend_thread(t) ==
    /\ Request("suspend") /\ Alive(t)
    /\ suspend' = [suspend EXCEPT ![t] = @ + 1]
    /\ IF suspend[t] = 0 THEN stop_thread(t, "clean") ELSE UNCHANGED <<context, signal>>
    /\ UNCHANGED <<objectVars, queue, waits, apcVars, tasks, pipe, clientVars, ghostVars>>

resume_thread(t) ==
    /\ Idle /\ Alive(t) /\ suspend[t] > 0
    /\ suspend' = [suspend EXCEPT ![t] = @ - 1]
    /\ tasks' = IF suspend[t] = 1 THEN <<WakeThread(t)>> ELSE <<>>
    /\ UNCHANGED <<objectVars, queue, waits, context, signal, apcVars, pipe, clientVars, ghostVars>>

set_thread_context(t) ==
    /\ Request("set_context") /\ Alive(t)
    /\ stop_thread(t, "changed")
    /\ UNCHANGED <<objectVars, queue, waits, suspend, apcVars, tasks, pipe, clientVars, ghostVars>>

\* The answers that a thread has been sent and has not read.
Unread(t) == pipe[t] \o stolen[t]

\* kill_thread ends the waits and the client, ...
kill_thread(t) ==
    /\ Request("kill") /\ Alive(t)
    /\ waits' = [waits EXCEPT ![t] = <<>>]
    /\ queue' = [o \in Objects |-> SelectSeq(queue[o], LAMBDA u : u # t)]
    /\ frame' = [frame EXCEPT ![t] = [f \in Frames |-> "dead"]]
    /\ req' = [req EXCEPT ![t] = NoRequest]
    /\ pipe' = [pipe EXCEPT ![t] = <<>>] /\ stolen' = [stolen EXCEPT ![t] = <<>>]
    /\ suspend' = [suspend EXCEPT ![t] = 0] /\ signal' = [signal EXCEPT ![t] = FALSE]
    /\ context' = [context EXCEPT ![t] = "none"]
    /\ tasks' = <<Task("abandon", t, None)>>
    /\ holds' = [holds EXCEPT ![t] = [m \in Mutexes |-> 0]]
    /\ credit' = [s \in Semaphores |->
                    credit[s] - Len(SelectSeq(Unread(t), LAMBDA r : s \in r.status.got))]
    /\ signalled' = signalled \ {t}
    /\ UNCHANGED <<objectVars, apcVars, prev, misspent>>

\* ... abandon_mutexes releases what the thread owned, one after the other, ...
abandon_mutexes ==
    /\ At("abandon")
    /\ LET t == Head(tasks).thread
           owned == {m \in Mutexes : owner[m] = t}
       IN  \/ \E m \in owned :
                /\ recursion' = [recursion EXCEPT ![m] = 0]
                /\ owner' = [owner EXCEPT ![m] = None]
                /\ abandoned' = [abandoned EXCEPT ![m] = TRUE]
                /\ tasks' = <<WakeUp(m, 0)>> \o tasks
           \/ /\ owned = {}
              /\ tasks' = <<[Head(tasks) EXCEPT !.do = "clear"]>> \o Tail(tasks)
              /\ UNCHANGED <<owner, recursion, abandoned>>
    /\ UNCHANGED <<count, queue, waits, stopVars, apcVars, pipe, clientVars, ghostVars>>

\* ... and clear_apc_queue cancels the APCs that it has not run.
clear_apc_queue ==
    /\ At("clear")
    /\ LET t == Head(tasks).thread
           s == Head(system_apc[t])
       IN  \/ /\ system_apc[t] # <<>>
              /\ system_apc' = [system_apc EXCEPT ![t] = Tail(@)]
              /\ count' = [count EXCEPT ![s] = 1]
              /\ tasks' = <<WakeUp(s, 0)>> \o tasks
              /\ UNCHANGED user_apc
           \/ /\ system_apc[t] = <<>>
              /\ user_apc' = [user_apc EXCEPT ![t] = 0]
              /\ tasks' = Tail(tasks)
              /\ UNCHANGED <<count, system_apc>>
    /\ UNCHANGED <<owner, recursion, abandoned, queue, waits, stopVars, pipe, clientVars, ghostVars>>

\* The deadline of a wait passes.  The client has made it absolute, so that it
\* has passed for a later select of the call too.
TimePasses(t, k) ==
    /\ Idle /\ k \in DOMAIN waits[t] /\ waits[t][k].when = "later"
    /\ waits' = [waits EXCEPT ![t][k].when = "past"]
    /\ req' = [req EXCEPT ![t].when = "past"]
    /\ UNCHANGED <<objectVars, queue, stopVars, apcVars, tasks, pipe, stolen, frame, prev, ghostVars>>

\* thread_timeout: "not the top-level wait, ignore it"; "suspended, ignore it".
thread_timeout(t, k) ==
    /\ Idle /\ k \in DOMAIN waits[t] /\ waits[t][k].when = "past" /\ waits[t][k].timer
    /\ \/ /\ k = 1 /\ suspend[t] = 0
          /\ end_wait(t, Status("TIMEOUT", {}))
          /\ send_thread_wakeup(t, waits[t][k].cookie, Status("TIMEOUT", {}))
          /\ tasks' = <<WakeThread(t)>>
       \/ /\ k > 1 \/ suspend[t] > 0
          /\ waits' = [waits EXCEPT ![t][k].timer = FALSE]
          /\ UNCHANGED <<objectVars, queue, context, tasks, pipe, misspent>>
    /\ UNCHANGED <<suspend, signal, apcVars, clientVars, holds, credit, signalled>>

-----------------------------------------------------------------------------
Server ==
    \/ wake_up \/ wake_thread \/ wake_thread_returns
    \/ select_on \/ select_refused \/ select_woken \/ select_waits \/ select_apc \/ select_returns
    \/ PulseEnds \/ abandon_mutexes \/ clear_apc_queue

Client(t) ==
    \/ \E f \in Frames : SelectAgain(t, f) \/ ApcDone(t, f) \/ ReadReply(t, f)
    \/ usr1_handler(t) \/ StealReply(t)

Time(t) == \E k \in 1..2 : TimePasses(t, k) \/ thread_timeout(t, k)

Call ==
    \/ \E o \in Semaphores, n \in 1..MaxCount : SignalObject(o, n)
    \/ \E e \in Events : SignalObject(e, 1) \/ pulse_event(e) \/ ResetEvent(e)
    \/ \E t \in program.threads :
        \/ queue_user_apc(t) \/ suspend_thread(t) \/ set_thread_context(t) \/ kill_thread(t)
        \/ \E s \in program.threads : queue_system_apc(s, t)

Next ==
    /\ UNCHANGED program
    /\ \/ Call
       \/ /\ UNCHANGED budget
          /\ \/ Server
             \/ \E t \in program.threads :
                \/ Client(t) \/ Time(t) \/ resume_thread(t)
                \/ \E r \in program.requests : server_select(t, r)
                \/ \E m \in Mutexes : release_mutex(t, m)

Spec == Init /\ [][Next]_vars

\* The server handles what it is given, the kernel runs every client, and the
\* clock goes on.  A request or a timer waits while the server is busy; it is
\* handled in the end because the main loop serves all descriptors that poll
\* reports and then all timers that have expired, hence strong fairness.
\* Nobody is obliged to call anything, or to resume a thread.
FairSpec ==
    /\ Spec
    /\ WF_vars(Server /\ UNCHANGED <<program, budget>>)
    /\ \A t \in Threads : SF_vars((Client(t) \/ Time(t)) /\ UNCHANGED <<program, budget>>)

-----------------------------------------------------------------------------
(* Properties *)

\* The answers due to a frame: a wait of the server with its cookie, a reply
\* in the pipe, or one that the handler has stolen.
Due(t, f) ==
    Cardinality({k \in DOMAIN waits[t] : waits[t][k].cookie = f})
        + Len(SelectSeq(Unread(t), LAMBDA r : r.cookie = f))

\* Every frame that waits for a reply is due exactly one, and no other frame
\* is; the waits of a thread are nested like its frames.
OneReplyEach ==
    \A t \in Threads :
        /\ \A f \in Frames : Due(t, f) = IF frame[t][f] = "reading" THEN 1 ELSE 0
        /\ Len(waits[t]) = 2 => waits[t][2].cookie = "user"

\* The replies on their way that tell a thread it got o.
Promised(o) ==
    {<<t, k>> \in Threads \X (1..2) :
        k \in DOMAIN Unread(t) /\ o \in Unread(t)[k].status.got}

\* Nothing is lost or given twice: what has been released of a semaphore and
\* not been taken is in its count, and a mutex is owned by the thread that
\* knows it or is about to be told, as often as it knows.
NothingLost ==
    Idle =>
        /\ \A s \in Semaphores : count[s] + Cardinality(Promised(s)) = credit[s]
        /\ \A m \in Mutexes, t \in Threads :
            holds[t][m] + Cardinality({p \in Promised(m) : p[1] = t})
                = IF owner[m] = t THEN recursion[m] ELSE 0

\* When the server is idle no thread waits for what it could have: an APC, or
\* objects that are all signalled.  The one exception is a semaphore or an
\* auto-reset event whose wake-up was spent on a wait that had timed out.
NobodyOverlooked ==
    Idle => \A t \in Threads :
            \/ check_wait(t).kind \in {"PENDING", "TIMEOUT"}
            \/ check_wait(t).kind = "OBJECT" /\ check_wait(t).got \cap misspent # {}

\* t waits for the APC that it has queued, and is not suspended itself.  (If the
\* thread that runs the APC is killed meanwhile nobody tells t.)
AwaitsApc(t) ==
    /\ t \in ToSet(req[t].objs) /\ suspend[t] = 0
    /\ \A u \in Threads : prev[u] = t => Alive(u)

\* Four things never go on forever: a wait that has a deadline, whatever became
\* of its timer, unless the thread is suspended; an APC in a queue, suspended
\* or not; the wait for an APC to be executed; and a suspended thread's running.
MustEnd(t) ==
    /\ Alive(t)
    /\ \/ suspend[t] = 0 /\ \E k \in DOMAIN waits[t] : waits[t][k].when # "never"
       \/ system_apc[t] # <<>>
       \/ AwaitsApc(t)
       \/ suspend[t] > 0 /\ frame[t]["handler"] # "reading"
EverythingEnds == \A t \in Watched : MustEnd(t) ~> ~MustEnd(t)
=============================================================================
