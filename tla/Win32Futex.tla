----------------------------- MODULE Win32Futex -----------------------------
(***************************************************************************)
(* The "Win32 futexes" of dlls/ntdll/sync.c, RtlWaitOnAddress and          *)
(* RtlWakeAddress{Single,All}, over the per-thread alert flag of           *)
(* dlls/ntdll/unix/sync.c, NtAlertThreadByThreadId and                     *)
(* NtWaitForAlertByThreadId.  One hash bucket of futex_queues is modelled; *)
(* all the addresses of the model hash to it.                              *)
(*                                                                         *)
(* Grain of atomicity.  What a thread does between spin_lock and           *)
(* spin_unlock is invisible to the others except for entry->addr, which    *)
(* the waiter reads without the lock, so the waiter's two critical         *)
(* sections are one step each, and the wakers' is split at entry->addr.    *)
(***************************************************************************)
EXTENDS Integers, Sequences, SequencesExt

CONSTANTS
    Threads,      \* threads of the process
    Addrs,        \* addresses whose futex queue this is
    NoAddr,       \* the NULL that marks an entry as removed
    NoThread,     \* nobody holds the spin lock
    Values,       \* values of the words waited on
    Timeouts,     \* subset of BOOLEAN: may a caller give a timeout?
    WakeKinds,    \* sets of "single", "all": the wake calls a program may make
    TidsSize,     \* ARRAY_SIZE(tids) of RtlWakeAddressAll, 256 in the code
    MaxWakes      \* bound on the number of wake calls (model only)

ASSUME Win32FutexAssumption ==
    /\ NoAddr \notin Addrs
    /\ NoThread \notin Threads
    /\ Values # {}
    /\ Timeouts \subseteq BOOLEAN
    /\ WakeKinds \subseteq SUBSET {"single", "all"}
    /\ TidsSize \in Nat

VARIABLES
    kinds,    \* the wake calls this program makes
    mem,      \* mem[a]: the word at address a
    lock,     \* holder of futex_queue.lock, or NoThread
    queue,    \* futex_queue.queue: the threads whose futex_entry is linked
    entry,    \* entry[t]: the addr field of the futex_entry on t's stack
    cmp,      \* cmp[t]: the value RtlWaitOnAddress was given to compare
    timed,    \* timed[t]: the call was given a timeout
    alert,    \* alert[t]: tid_alert_entry.futex of t
    target,   \* target[t]: what the wake call in progress in t was given
    tids,     \* tids[t]: wake-ups buffered by the call in progress in t
    victim,   \* victim[t]: entry the wake call in t is unlinking
    pc,       \* where each thread is
    wakes     \* number of wake calls made (model bound)

vars == <<kinds, mem, lock, queue, entry, cmp, timed, alert, target, tids, victim, pc, wakes>>
waitVars == <<entry, cmp, timed>>
wakeVars == <<target, tids, victim, wakes>>

\* The frame of RtlWaitOnAddress, and the futex_entry in it, exist at these.
InWait == {"w_lock", "w_sleep", "w_check", "w_relock"}
NoCall == [kind |-> "none", addr |-> NoAddr]
AnyValue == CHOOSE v \in Values : TRUE

\* A linked entry whose stack frame is gone is a dangling pointer: what the
\* program does from then on is undefined, and the model stops.
Dangling == {t \in Threads : Contains(queue, t) /\ pc[t] \notin InWait}

\* list_remove: u's entry is unlinked, the others keep their order.
list_remove(u) == RemoveAt(queue, CHOOSE k \in DOMAIN queue : queue[k] = u)

Goto(t, from, to) ==
    /\ pc[t] = from
    /\ Dangling = {}
    /\ pc' = [pc EXCEPT ![t] = to]

Init ==
    /\ kinds \in WakeKinds
    /\ mem = [a \in Addrs |-> AnyValue]
    /\ lock = NoThread
    /\ queue = <<>>
    /\ entry = [t \in Threads |-> NoAddr]
    /\ cmp = [t \in Threads |-> AnyValue]
    /\ timed = [t \in Threads |-> FALSE]
    /\ alert = [t \in Threads |-> FALSE]
    /\ target = [t \in Threads |-> NoCall]
    /\ tids = [t \in Threads |-> <<>>]
    /\ victim = [t \in Threads |-> NoThread]
    /\ pc = [t \in Threads |-> "idle"]
    /\ wakes = 0

-----------------------------------------------------------------------------
(* RtlWaitOnAddress *)

\* t returns; its locals are dead and take their initial values again.
ReturnFrame(t) ==
    /\ entry' = [entry EXCEPT ![t] = NoAddr]
    /\ cmp' = [cmp EXCEPT ![t] = AnyValue]
    /\ timed' = [timed EXCEPT ![t] = FALSE]

\* The caller read the word, decided to wait, and calls with what it read.
RtlWaitOnAddress(t, a, timeout) ==
    /\ Goto(t, "idle", "w_lock")
    /\ entry' = [entry EXCEPT ![t] = a]
    /\ cmp' = [cmp EXCEPT ![t] = mem[a]]
    /\ timed' = [timed EXCEPT ![t] = timeout]
    /\ UNCHANGED <<mem, lock, queue, alert, wakeVars>>

\* The comparison inside of the spin lock fails: STATUS_SUCCESS at once.
CompareFails(t) ==
    /\ Goto(t, "w_lock", "idle")
    /\ lock = NoThread
    /\ mem[entry[t]] # cmp[t]
    /\ ReturnFrame(t)
    /\ UNCHANGED <<mem, lock, queue, alert, wakeVars>>

\* Variant: list_add_head.
EnqueueAtHead(t) ==
    /\ Goto(t, "w_lock", "w_sleep")
    /\ lock = NoThread
    /\ mem[entry[t]] = cmp[t]
    /\ queue' = <<t>> \o queue
    /\ UNCHANGED <<mem, lock, alert, waitVars, wakeVars>>

\* Variant: the comparison is done before the lock is taken.
EnqueueUncompared(t) ==
    /\ Goto(t, "w_lock", "w_sleep")
    /\ lock = NoThread
    /\ queue' = Append(queue, t)
    /\ UNCHANGED <<mem, lock, alert, waitVars, wakeVars>>

\* It succeeds: list_add_tail, spin_unlock.
Enqueue(t) ==
    /\ Goto(t, "w_lock", "w_sleep")
    /\ lock = NoThread
    /\ mem[entry[t]] = cmp[t]
    /\ queue' = Append(queue, t)
    /\ UNCHANGED <<mem, lock, alert, waitVars, wakeVars>>

\* NtWaitForAlertByThreadId: the InterlockedExchange finds the flag set.
ConsumeAlert(t) ==
    /\ Goto(t, "w_sleep", "w_check")
    /\ alert[t]
    /\ alert' = [alert EXCEPT ![t] = FALSE]
    /\ UNCHANGED <<mem, lock, queue, waitVars, wakeVars>>

\* futex_wait returns ETIMEDOUT; an alert sent since then stays pending.
AlertTimeout(t) ==
    /\ Goto(t, "w_sleep", "w_check")
    /\ timed[t]
    /\ UNCHANGED <<mem, lock, queue, alert, waitVars, wakeVars>>

\* "if (entry.addr)", read without the lock: somebody removed the entry ...
SeesRemoved(t) ==
    /\ Goto(t, "w_check", "idle")
    /\ entry[t] = NoAddr
    /\ ReturnFrame(t)
    /\ UNCHANGED <<mem, lock, queue, alert, wakeVars>>

\* ... or it is still there.
SeesQueued(t) ==
    /\ Goto(t, "w_check", "w_relock")
    /\ entry[t] # NoAddr
    /\ UNCHANGED <<mem, lock, queue, alert, waitVars, wakeVars>>

\* The second look, with the lock; list_remove if nobody else did it.
RemoveSelf(t) ==
    /\ Goto(t, "w_relock", "idle")
    /\ lock = NoThread
    /\ queue' = IF entry[t] = NoAddr THEN queue ELSE list_remove(t)
    /\ ReturnFrame(t)
    /\ UNCHANGED <<mem, lock, alert, wakeVars>>

-----------------------------------------------------------------------------
(* RtlWakeAddressSingle, RtlWakeAddressAll *)

\* The program stores a new value and calls one of the wake functions.
RtlWakeAddress(t, a, v, kind) ==
    /\ Goto(t, "idle", "k_lock")
    /\ wakes < MaxWakes
    /\ mem' = [mem EXCEPT ![a] = v]
    /\ target' = [target EXCEPT ![t] = [kind |-> kind, addr |-> a]]
    /\ wakes' = wakes + 1
    /\ UNCHANGED <<lock, queue, alert, tids, victim, waitVars>>

spin_lock(t) ==
    /\ Goto(t, "k_lock", "k_scan")
    /\ lock = NoThread
    /\ lock' = t
    /\ UNCHANGED <<mem, queue, alert, waitVars, wakeVars>>

\* The positions of the queued entries that wait on a; the oldest comes first.
Matching(a) == {k \in DOMAIN queue : entry[queue[k]] = a}

\* Variant: a single wake-up does not stop at the first match.
WantsMoreNoBreak(t) == Matching(target[t].addr) # {}

\* The wake call has more to do: any match for "all", the first for "single".
WantsMore(t) ==
    /\ Matching(target[t].addr) # {}
    /\ target[t].kind = "all" \/ tids[t] = <<>>

\* entry->addr == addr: mark the entry, entry->addr = NULL.
MarkRemoved(t) ==
    /\ Goto(t, "k_scan", "k_remove")
    /\ WantsMore(t)
    /\ \E k \in Matching(target[t].addr) :
        /\ \A j \in Matching(target[t].addr) : k <= j
        /\ victim' = [victim EXCEPT ![t] = queue[k]]
        /\ entry' = [entry EXCEPT ![queue[k]] = NoAddr]
    /\ UNCHANGED <<mem, lock, queue, alert, cmp, timed, target, tids, wakes>>

\* Variant: a wake-up that does not fit in the buffer is forgotten.
UnlinkDropsOverflow(t) ==
    /\ Goto(t, "k_remove", "k_scan")
    /\ queue' = list_remove(victim[t])
    /\ tids' = IF target[t].kind = "single" \/ Len(tids[t]) < TidsSize
               THEN [tids EXCEPT ![t] = Append(@, victim[t])] ELSE tids
    /\ victim' = [victim EXCEPT ![t] = NoThread]
    /\ UNCHANGED <<mem, lock, alert, target, wakes, waitVars>>

\* list_remove, and the wake-up is buffered, or sent if the buffer is full.
Unlink(t) ==
    LET u == victim[t]
        buffered == target[t].kind = "single" \/ Len(tids[t]) < TidsSize
    IN  /\ Goto(t, "k_remove", "k_scan")
        /\ queue' = list_remove(u)
        /\ tids' = IF buffered THEN [tids EXCEPT ![t] = Append(@, u)] ELSE tids
        /\ alert' = IF buffered THEN alert ELSE [alert EXCEPT ![u] = TRUE]
        /\ victim' = [victim EXCEPT ![t] = NoThread]
        /\ UNCHANGED <<mem, lock, target, wakes, waitVars>>

spin_unlock(t) ==
    /\ Goto(t, "k_scan", "k_alert")
    /\ ~WantsMore(t)
    /\ lock' = NoThread
    /\ UNCHANGED <<mem, queue, alert, waitVars, wakeVars>>

\* NtAlertThreadByThreadId for each buffered thread id, then return.
NtAlertThreadByThreadId(t) ==
    /\ Goto(t, "k_alert", "k_alert")
    /\ tids[t] # <<>>
    /\ alert' = [alert EXCEPT ![Head(tids[t])] = TRUE]
    /\ tids' = [tids EXCEPT ![t] = Tail(@)]
    /\ UNCHANGED <<mem, lock, queue, target, victim, wakes, waitVars>>

WakeReturn(t) ==
    /\ Goto(t, "k_alert", "idle")
    /\ tids[t] = <<>>
    /\ target' = [target EXCEPT ![t] = NoCall]
    /\ UNCHANGED <<mem, lock, queue, alert, tids, victim, wakes, waitVars>>

-----------------------------------------------------------------------------
\* Steps a running thread takes by itself.
Step(t) ==
    \/ CompareFails(t) \/ Enqueue(t) \/ ConsumeAlert(t)
    \/ SeesRemoved(t) \/ SeesQueued(t) \/ RemoveSelf(t)
    \/ spin_lock(t) \/ MarkRemoved(t) \/ Unlink(t) \/ spin_unlock(t)
    \/ NtAlertThreadByThreadId(t) \/ WakeReturn(t)

Next ==
    /\ UNCHANGED kinds
    /\ \E t \in Threads :
        \/ \E a \in Addrs, timeout \in Timeouts : RtlWaitOnAddress(t, a, timeout)
        \/ \E a \in Addrs, v \in Values, k \in kinds : RtlWakeAddress(t, a, v, k)
        \/ AlertTimeout(t)
        \/ Step(t)

Spec == Init /\ [][Next]_vars

-----------------------------------------------------------------------------
(* Properties *)

\* The futex entries linked in a queue live on the stack of a thread that is
\* still inside RtlWaitOnAddress: "We may have already been removed by a call
\* to RtlWakeAddressSingle() or RtlWakeAddressAll()" is what a NULL
\* entry.addr is taken to mean.
EntriesAreLive == Dangling = {}

\* No lost wake-up: a sleeping thread that a waker took out of the queue has
\* its alert set, or a wake call still has its thread id to alert.
NoStrandedWaiter ==
    \A u \in Threads :
        pc[u] = "w_sleep" =>
            \/ Contains(queue, u) /\ entry[u] # NoAddr
            \/ alert[u]
            \/ \E t \in Threads : victim[t] = u \/ Contains(tids[t], u)

\* A queued waiter whose word no longer has the value it was compared with is
\* the business of a wake call that has not finished its scan, in programs
\* that call RtlWakeAddressAll after every change.
NoMissedChange ==
    kinds = {"all"} => \A u \in Threads :
        Contains(queue, u) /\ entry[u] # NoAddr /\ mem[entry[u]] # cmp[u] =>
            \E t \in Threads :
                /\ pc[t] \in {"k_lock", "k_scan", "k_remove"}
                /\ target[t].addr = entry[u]

\* "They are also fair": waiters of one address are woken in the order in
\* which they were queued.  While both wait nobody overtakes an older waiter,
\* and no wake call removes a waiter before the ones ahead of it.
Ahead(w, u) ==
    /\ Contains(queue, w)
    /\ Contains(queue, u) => \E i, j \in 1..Len(queue) : i < j /\ queue[i] = w /\ queue[j] = u
OldestFirst ==
    [][\A u, w \in Threads :
        /\ u # w /\ Ahead(w, u)
        /\ entry[w] # NoAddr /\ entry'[w] = entry[w] /\ entry[u] = entry[w]
        /\ pc'[u] \in InWait
        => /\ entry'[u] = entry[u]
           /\ Contains(queue', w) => Ahead(w, u)']_vars

\* A waiter that a wake call has released and that has yet to return.
Released(t) == pc[t] \in InWait \ {"w_lock"} /\ entry[t] = NoAddr

\* A queued waiter that a wake-all holding the lock is going to find.
Doomed(t) ==
    /\ Contains(queue, t) /\ entry[t] # NoAddr
    /\ \E k \in Threads :
        /\ pc[k] \in {"k_scan", "k_remove"}
        /\ target[k] = [kind |-> "all", addr |-> entry[t]]

\* The implementation keeps the promise of AddrWaitSpec (so that "two
\* simultaneous calls must wake at least two waiters if they exist" among
\* other things).  A wake-all takes
\* effect when it gets the spin lock, a single wake-up when it marks an entry
\* or ends its scan without having found one.
WaitingOn == [t \in Threads |-> IF Contains(queue, t) /\ ~Doomed(t) THEN entry[t] ELSE NoAddr]
ReleasedWaiters == {t \in Threads : Released(t) \/ Doomed(t)}
PendingCalls ==
    [t \in Threads |->
        IF \/ pc[t] = "k_lock"
           \/ pc[t] = "k_scan" /\ target[t].kind = "single" /\ tids[t] = <<>>
        THEN target[t] ELSE NoCall]
AW == INSTANCE AddrWaitSpec WITH
    MayWithdraw <- TRUE \in Timeouts,
    waiting <- WaitingOn, released <- ReleasedWaiters, calls <- PendingCalls
ImplementsAddrWait == AW!SSpec

-----------------------------------------------------------------------------
(* The inductive invariant *)

InWake == {"k_lock", "k_scan", "k_remove", "k_alert"}
WakeCalls == [kind : {"single", "all"}, addr : Addrs]

\* Types: the fields of futex_queue and futex_entry, and the callers' locals.
TypeOK ==
    /\ kinds \in WakeKinds /\ mem \in [Addrs -> Values]
    /\ lock \in Threads \cup {NoThread} /\ queue \in Seq(Threads)
    /\ entry \in [Threads -> Addrs \cup {NoAddr}] /\ cmp \in [Threads -> Values]
    /\ timed \in [Threads -> Timeouts \cup {FALSE}] /\ alert \in [Threads -> BOOLEAN]
    /\ target \in [Threads -> WakeCalls \cup {NoCall}] /\ tids \in [Threads -> Seq(Threads)]
    /\ victim \in [Threads -> Threads \cup {NoThread}]
    /\ pc \in [Threads -> InWait \cup InWake \cup {"idle"}] /\ wakes \in Nat

\* The spin lock is held during a scan, and a wake call's locals are in use
\* while they should be.
CallState ==
    \A t \in Threads :
        /\ lock = t <=> pc[t] \in {"k_scan", "k_remove"}
        /\ pc[t] \in InWake => target[t] \in WakeCalls /\ target[t].kind \in kinds
        /\ pc[t] \in InWait \cup {"idle", "k_lock"} => tids[t] = <<>>
        /\ victim[t] # NoThread <=> pc[t] = "k_remove"

\* Each entry is linked once, from the end of the comparison to its removal,
\* and entry.addr is NULL from the moment a wake call has chosen it.
QueueState ==
    /\ \A j, k \in DOMAIN queue : queue[j] = queue[k] => j = k
    /\ \A u \in Threads :
        /\ pc[u] = "w_lock" => ~Contains(queue, u) /\ entry[u] # NoAddr
        /\ pc[u] \notin InWait => entry[u] = NoAddr
        /\ pc[u] \in InWait \ {"w_lock"} /\ entry[u] # NoAddr => Contains(queue, u)
        /\ Contains(queue, u) /\ entry[u] = NoAddr => \E t \in Threads : victim[t] = u
        /\ pc[u] = "k_remove" => Contains(queue, victim[u]) /\ entry[victim[u]] = NoAddr

\* A wake call has taken u's entry and u's alert is still to come or to be seen.
Coming(u) == \E t \in Threads : victim[t] = u \/ Contains(tids[t], u)
SleepersAlerted ==
    \A u \in Threads : pc[u] = "w_sleep" /\ entry[u] = NoAddr => alert[u] \/ Coming(u)

\* Without timeouts every alert belongs to the wait in progress: it is the
\* only one, and it is seen before the waiter looks at its entry.
AlertsAreFresh ==
    TRUE \notin Timeouts =>
        /\ \A u \in Threads :
            /\ alert[u] \/ Coming(u) => pc[u] = "w_sleep" /\ entry[u] = NoAddr
            /\ pc[u] \in {"w_check", "w_relock"} => entry[u] = NoAddr
            /\ ~(alert[u] /\ Coming(u))
        /\ \A s, t \in Threads :
            /\ ~Contains(tids[s], victim[t])
            /\ \A j \in DOMAIN tids[s], k \in DOMAIN tids[t] : tids[s][j] = tids[t][k] => s = t /\ j = k

IInv ==
    /\ TypeOK /\ CallState /\ QueueState
    /\ SleepersAlerted /\ AlertsAreFresh
    /\ NoMissedChange
=============================================================================
