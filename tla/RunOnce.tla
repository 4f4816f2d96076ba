------------------------------ MODULE RunOnce ------------------------------
(***************************************************************************)
(* One-time initialization, RtlRunOnce* of dlls/ntdll/sync.c.  Threads     *)
(* that find a synchronous initialization in progress push the address of  *)
(* a word on their own stack on a list that starts in once->Ptr, and sleep *)
(* on a keyed event with that address as the key; the thread that          *)
(* completes takes the list and releases them one by one.                  *)
(*                                                                         *)
(* A keyed event (server/event.c) is a rendezvous: a wait and a release of *)
(* the same key both block until they meet.  The word on the stack of t,   *)
(* and the key that is its address, are named t.                           *)
(***************************************************************************)
EXTENDS Naturals, FiniteSets

CONSTANTS
    Threads,
    NoThread,     \* the end of the list, a NULL context
    AsyncFlags,   \* subset of BOOLEAN: values of RTL_RUN_ONCE_ASYNC in calls
    MaxFails      \* bound on failed initializations (model only)

ASSUME RunOnceAssumption ==
    /\ NoThread \notin Threads
    /\ AsyncFlags \subseteq BOOLEAN
    /\ MaxFails \in Nat

VARIABLES
    Ptr,       \* once->Ptr: the two low bits and the rest of the pointer
    next,      \* next[t]: the word on the stack of t
    cur, nxt,  \* cur[t], nxt[t]: val and next of RtlRunOnceComplete in t
    async,     \* async[t]: the flag of the call in progress in t
    result,    \* result[t]: what the last RtlRunOnceBeginInitialize returned
    pc,
    fails      \* failed initializations so far

vars == <<Ptr, next, cur, nxt, async, result, pc, fails>>

Untouched == [low |-> 0, ptr |-> NoThread]

\* The context a thread completes with names that thread.
Result(status, context) == [status |-> status, context |-> context]

Goto(t, from, to) ==
    /\ pc[t] = from
    /\ pc' = [pc EXCEPT ![t] = to]

\* RtlRunOnceInitialize
Init ==
    /\ Ptr = Untouched
    /\ next = [t \in Threads |-> NoThread]
    /\ cur = [t \in Threads |-> NoThread]
    /\ nxt = [t \in Threads |-> NoThread]
    /\ async = [t \in Threads |-> FALSE]
    /\ result = [t \in Threads |-> Result("none", NoThread)]
    /\ pc = [t \in Threads |-> "idle"]
    /\ fails = 0

-----------------------------------------------------------------------------
(* RtlRunOnceBeginInitialize *)

Initializing(t) == pc[t] = "idle" /\ result[t].status = "pending"

RtlRunOnceBeginInitialize(t, flag) ==
    /\ ~Initializing(t)
    /\ Goto(t, "idle", "begin")
    /\ async' = [async EXCEPT ![t] = flag]
    /\ UNCHANGED <<Ptr, next, cur, nxt, result, fails>>

\* RTL_RUN_ONCE_CHECK_ONLY
CheckOnly(t) ==
    /\ Goto(t, "idle", "idle")
    /\ ~Initializing(t)
    /\ result' = [result EXCEPT ![t] =
        IF Ptr.low = 2 THEN Result("success", Ptr.ptr) ELSE Result("unsuccessful", NoThread)]
    /\ UNCHANGED <<Ptr, next, cur, nxt, async, fails>>

\* Variant: a plain store instead of a compare-exchange.
FirstTimeStores(t) ==
    /\ Goto(t, "begin", "idle")
    /\ Ptr.low \in {0, 1}
    /\ Ptr' = [low |-> IF async[t] THEN 3 ELSE 1, ptr |-> NoThread]
    /\ result' = [result EXCEPT ![t] = Result("pending", NoThread)]
    /\ UNCHANGED <<next, cur, nxt, async, fails>>

\* case 0: "first time"
FirstTime(t) ==
    /\ Goto(t, "begin", "idle")
    /\ Ptr.low = 0
    /\ Ptr' = [low |-> IF async[t] THEN 3 ELSE 1, ptr |-> NoThread]
    /\ result' = [result EXCEPT ![t] = Result("pending", NoThread)]
    /\ UNCHANGED <<next, cur, nxt, async, fails>>

\* case 1: "in progress, wait"; &next becomes the head of the list.
InProgress(t) ==
    /\ Goto(t, "begin", "queued")
    /\ Ptr.low = 1 /\ ~async[t]
    /\ next' = [next EXCEPT ![t] = Ptr.ptr]
    /\ Ptr' = [low |-> 1, ptr |-> t]
    /\ UNCHANGED <<cur, nxt, async, result, fails>>

\* NtWaitForKeyedEvent( 0, &next )
NtWaitForKeyedEvent(t) ==
    /\ Goto(t, "queued", "asleep")
    /\ UNCHANGED <<Ptr, next, cur, nxt, async, result, fails>>

\* case 2: "done", case 3: "in progress, async", and the invalid mixtures.
BeginReturns(t) ==
    /\ Goto(t, "begin", "idle")
    /\ Ptr.low \in {2, 3} \/ (Ptr.low = 1 /\ async[t])
    /\ result' = [result EXCEPT ![t] =
        CASE Ptr.low = 2 -> Result("success", Ptr.ptr)
          [] Ptr.low = 3 /\ async[t] -> Result("pending", NoThread)
          [] OTHER -> Result("invalid", NoThread)]
    /\ UNCHANGED <<Ptr, next, cur, nxt, async, fails>>

-----------------------------------------------------------------------------
(* RtlRunOnceComplete, called by a thread that was told STATUS_PENDING; it
   passes the flag it began with.                                           *)

CompleteReturns(t) ==
    result' = [result EXCEPT ![t] = Result("none", NoThread)]

\* Variant: nobody is released after a failure.
CompleteSyncForgets(t, failed) ==
    /\ Initializing(t)
    /\ Goto(t, "idle", "walk")
    /\ Ptr.low = 1
    /\ failed => fails < MaxFails
    /\ Ptr' = IF failed THEN Untouched ELSE [low |-> 2, ptr |-> t]
    /\ fails' = IF failed THEN fails + 1 ELSE fails
    /\ cur' = [cur EXCEPT ![t] = IF failed THEN NoThread ELSE Ptr.ptr]
    /\ CompleteReturns(t)
    /\ UNCHANGED <<next, nxt, async>>

\* case 1: the list is taken, the state becomes 2, or 0 if it has failed.
CompleteSync(t, failed) ==
    /\ Initializing(t)
    /\ Goto(t, "idle", "walk")
    /\ Ptr.low = 1
    /\ failed => ~async[t] /\ fails < MaxFails
    /\ Ptr' = IF failed THEN Untouched ELSE [low |-> 2, ptr |-> t]
    /\ fails' = IF failed THEN fails + 1 ELSE fails
    /\ cur' = [cur EXCEPT ![t] = Ptr.ptr]
    /\ CompleteReturns(t)
    /\ UNCHANGED <<next, nxt, async>>

\* Variant: the last one to complete sets the context.
CompleteAsyncLast(t) ==
    /\ Initializing(t)
    /\ Goto(t, "idle", "idle")
    /\ Ptr.low \in {2, 3} /\ async[t]
    /\ Ptr' = [low |-> 2, ptr |-> t]
    /\ CompleteReturns(t)
    /\ UNCHANGED <<next, cur, nxt, async, fails>>

\* case 3: the first one to complete sets the context.
CompleteAsync(t) ==
    /\ Initializing(t)
    /\ Goto(t, "idle", "idle")
    /\ Ptr.low = 3 /\ async[t]
    /\ Ptr' = [low |-> 2, ptr |-> t]
    /\ CompleteReturns(t)
    /\ UNCHANGED <<next, cur, nxt, async, fails>>

\* default: STATUS_UNSUCCESSFUL, somebody else has completed it.
CompleteTooLate(t) ==
    /\ Initializing(t)
    /\ Goto(t, "idle", "idle")
    /\ Ptr.low \in {0, 2}
    /\ CompleteReturns(t)
    /\ UNCHANGED <<Ptr, next, cur, nxt, async, fails>>

\* ULONG_PTR next = *(ULONG_PTR *)val
ReadNext(t) ==
    /\ Goto(t, "walk", "release")
    /\ cur[t] # NoThread
    /\ nxt' = [nxt EXCEPT ![t] = next[cur[t]]]
    /\ UNCHANGED <<Ptr, next, cur, async, result, fails>>

\* Variant: the next word is read after the release.
ReleaseThenRead(t) ==
    LET u == cur[t]
    IN  /\ pc[t] = "release" /\ pc[u] = "asleep"
        /\ pc' = [pc EXCEPT ![t] = "walk", ![u] = "begin"]
        /\ next' = [next EXCEPT ![u] = NoThread]
        /\ cur' = [cur EXCEPT ![t] = next'[u]]
        /\ nxt' = [nxt EXCEPT ![t] = NoThread]
        /\ UNCHANGED <<Ptr, async, result, fails>>

\* NtReleaseKeyedEvent( 0, val ) meets the wait; both threads go on.
NtReleaseKeyedEvent(t) ==
    LET u == cur[t]
    IN  /\ pc[t] = "release" /\ pc[u] = "asleep"
        /\ pc' = [pc EXCEPT ![t] = "walk", ![u] = "begin"]
        /\ next' = [next EXCEPT ![u] = NoThread]
        /\ cur' = [cur EXCEPT ![t] = nxt[t]]
        /\ nxt' = [nxt EXCEPT ![t] = NoThread]
        /\ UNCHANGED <<Ptr, async, result, fails>>

WalkEnds(t) ==
    /\ Goto(t, "walk", "idle")
    /\ cur[t] = NoThread
    /\ UNCHANGED <<Ptr, next, cur, nxt, async, result, fails>>

-----------------------------------------------------------------------------
Step(t) ==
    \/ FirstTime(t) \/ InProgress(t) \/ NtWaitForKeyedEvent(t) \/ BeginReturns(t)
    \/ ReadNext(t) \/ NtReleaseKeyedEvent(t) \/ WalkEnds(t)

Complete(t) ==
    \/ \E failed \in BOOLEAN : CompleteSync(t, failed)
    \/ CompleteAsync(t) \/ CompleteTooLate(t)

Next ==
    \E t \in Threads :
        \/ \E flag \in AsyncFlags : RtlRunOnceBeginInitialize(t, flag)
        \/ CheckOnly(t) \/ Step(t) \/ Complete(t)

Spec == Init /\ [][Next]_vars

\* The kernel runs every thread, and a thread that was told to initialize
\* completes in the end.
FairSpec == Spec /\ \A t \in Threads : WF_vars(Step(t)) /\ WF_vars(Complete(t))

-----------------------------------------------------------------------------
(* Properties *)

Words == Threads \cup {NoThread}

\* Types: the two low bits and the pointer of RTL_RUN_ONCE, and the words of
\* the threads' stacks.
TypeOK ==
    /\ Ptr \in [low : 0..3, ptr : Words]
    /\ next \in [Threads -> Words] /\ cur \in [Threads -> Words] /\ nxt \in [Threads -> Words]
    /\ async \in [Threads -> BOOLEAN]
    /\ result \in [Threads -> [status : {"none", "pending", "success", "unsuccessful", "invalid"},
                               context : Words]]
    /\ pc \in [Threads -> {"idle", "begin", "queued", "asleep", "walk", "release"}]
    /\ fails \in 0..MaxFails

\* The threads that were told STATUS_PENDING and run a synchronous initialization.
SyncInitializers == {t \in Threads : Initializing(t) /\ ~async[t]}

\* A synchronous initialization is run by one thread at a time, which is the
\* case exactly while the state is 1, and never again once it is done.
OneInitializer == Cardinality(SyncInitializers) = IF Ptr.low = 1 THEN 1 ELSE 0

\* Every thread that is told the initialization is done gets the context of
\* the one that completed it.
SameContext ==
    \A t \in Threads :
        result[t].status = "success" => Ptr.low = 2 /\ result[t].context = Ptr.ptr

Waiting == {t \in Threads : pc[t] \in {"queued", "asleep"}}

\* The list that starts at h when f[u] is the word on the stack of u: what is
\* in every set that has h and, with a word, the one it points to.
Closed(f, S) == \A u \in S : f[u] \in S \cup {NoThread}
ListOf(f, h) ==
    {u \in Threads : \A S \in SUBSET Threads :
        h \in S \cup {NoThread} /\ Closed(f, S) => u \in S}

List(h) == ListOf(next, h)

\* The lists a thread can be on: the one in Ptr, and the ones being walked.
Walks == {t \in Threads : pc[t] \in {"walk", "release"}}
Pending == IF Ptr.low = 1 THEN List(Ptr.ptr) ELSE {}

\* Every waiting thread is on exactly one list, and only stack words of
\* waiting threads are on a list: nobody is forgotten, and the completing
\* thread reads no word of a thread that has gone.
ListsAreExact ==
    /\ Pending \cup UNION {List(cur[t]) : t \in Walks} = Waiting
    /\ \A t \in Walks : List(cur[t]) \cap Pending = {}
    /\ \A t, u \in Walks : t # u => List(cur[t]) \cap List(cur[u]) = {}

-----------------------------------------------------------------------------
(* The inductive invariant *)

\* The state 1 belongs to one thread, and no asynchronous initialization has
\* been started before the state became 3.
StateBelongs ==
    /\ \A t \in Threads : result[t].status = "pending" => pc[t] = "idle"
    /\ Ptr.low \in {0, 1} => \A t \in Threads : Initializing(t) => ~async[t]
    /\ IF Ptr.low = 1 THEN \E t \in Threads : SyncInitializers = {t} ELSE SyncInitializers = {}

\* No list has a cycle, and the next word a completing thread has read is
\* still the one on the stack of the thread it is about to release.
ListsAreSound ==
    /\ \A t \in Waiting : t \notin List(next[t])
    /\ \A t \in Threads : pc[t] = "release" => cur[t] # NoThread /\ nxt[t] = next[cur[t]]

IInv ==
    /\ TypeOK
    /\ StateBelongs
    /\ SameContext
    /\ ListsAreExact
    /\ ListsAreSound

-----------------------------------------------------------------------------
\* A thread that waits for an initialization to end returns or takes it over.
WaitersGoOn == \A t \in Threads : t \in Waiting ~> pc[t] = "idle"
=============================================================================
