--------------------------- MODULE RunOnce_proofs ---------------------------
(***************************************************************************)
(* Machine-checked proofs about RunOnce, for any set of threads and any    *)
(* number of failed initializations.                                       *)
(***************************************************************************)
EXTENDS RunOnce, FiniteSetTheorems, TLAPS

USE RunOnceAssumption

-----------------------------------------------------------------------------
(* Lists *)

\* The end of a list is an empty list.
LEMMA ListEmpty ==
    ASSUME NEW f
    PROVE  ListOf(f, NoThread) = {}
BY {} \in SUBSET Threads DEF ListOf, Closed

\* A list is closed: it has the next word of each of its words.
LEMMA ListClosed ==
    ASSUME NEW f \in [Threads -> Words], NEW h \in Words
    PROVE  /\ ListOf(f, h) \in SUBSET Threads
           /\ h \in ListOf(f, h) \cup {NoThread}
           /\ Closed(f, ListOf(f, h))
<1>1. ListOf(f, h) \in SUBSET Threads /\ h \in ListOf(f, h) \cup {NoThread}
    BY DEF ListOf, Words
<1>2. ASSUME NEW u \in ListOf(f, h), f[u] # NoThread PROVE f[u] \in ListOf(f, h)
    <2>1. f[u] \in Threads
        BY <1>1, <1>2 DEF Words
    <2>2. ASSUME NEW S \in SUBSET Threads, h \in S \cup {NoThread}, Closed(f, S) PROVE f[u] \in S
        <3>1. u \in S
            BY <1>2, <2>2 DEF ListOf
        <3> QED  BY <1>2, <2>2, <3>1 DEF Closed
    <2> QED  BY <2>1, <2>2 DEF ListOf
<1> QED  BY <1>1, <1>2 DEF Closed

\* It is the smallest such set.
LEMMA ListLeast ==
    ASSUME NEW f, NEW h, NEW S \in SUBSET Threads, h \in S \cup {NoThread}, Closed(f, S)
    PROVE  ListOf(f, h) \subseteq S
BY DEF ListOf

\* A list is its first word and the rest.
LEMMA ListUnfold ==
    ASSUME NEW f \in [Threads -> Words], NEW h \in Threads
    PROVE  ListOf(f, h) = {h} \cup ListOf(f, f[h])
<1> DEFINE Rest == ListOf(f, f[h])
<1>1. f[h] \in Words /\ h \in Words
    BY DEF Words
<1>2. Rest \in SUBSET Threads /\ f[h] \in Rest \cup {NoThread} /\ Closed(f, Rest)
    BY <1>1, ListClosed
<1>3. ListOf(f, h) \subseteq {h} \cup Rest
    <2>1. Closed(f, {h} \cup Rest)
        BY <1>2 DEF Closed
    <2> QED  BY <1>2, <2>1, ListLeast
<1>4. h \in ListOf(f, h) /\ ListOf(f, h) \in SUBSET Threads /\ Closed(f, ListOf(f, h))
    BY <1>1, ListClosed
<1>5. Rest \subseteq ListOf(f, h)
    <2>1. f[h] \in ListOf(f, h) \cup {NoThread}
        BY <1>4 DEF Closed
    <2> QED  BY <1>4, <2>1, ListLeast
<1> QED  BY <1>3, <1>4, <1>5

\* A list does not change while none of its words does.
LEMMA ListFrame ==
    ASSUME NEW f \in [Threads -> Words], NEW g \in [Threads -> Words], NEW h \in Words,
           \A u \in ListOf(f, h) : g[u] = f[u]
    PROVE  ListOf(g, h) = ListOf(f, h)
<1> DEFINE L == ListOf(f, h)
           K == ListOf(g, h)
<1>1. L \in SUBSET Threads /\ h \in L \cup {NoThread} /\ Closed(f, L)
    BY ListClosed
<1>2. K \in SUBSET Threads /\ h \in K \cup {NoThread} /\ Closed(g, K)
    BY ListClosed
<1>3. K \subseteq L
    <2>1. Closed(g, L)
        BY <1>1 DEF Closed
    <2> QED  BY <1>1, <2>1, ListLeast
<1>4. L \subseteq K
    <2>1. Closed(f, K)
        BY <1>2, <1>3 DEF Closed
    <2> QED  BY <1>2, <2>1, ListLeast
<1> QED  BY <1>3, <1>4

-----------------------------------------------------------------------------
(* Type correctness *)

\* A step of the system is a step of one thread.
ThreadStep(t) ==
    \/ \E flag \in AsyncFlags : RtlRunOnceBeginInitialize(t, flag)
    \/ CheckOnly(t) \/ Step(t) \/ Complete(t)

LEMMA TypeStep ==
    ASSUME TypeOK, ListsAreSound, NEW t \in Threads, ThreadStep(t)
    PROVE  TypeOK'
<1> USE DEF TypeOK, Goto, Words, Result, Untouched
<1>1. ASSUME NEW flag \in AsyncFlags, RtlRunOnceBeginInitialize(t, flag) PROVE TypeOK'
    BY <1>1 DEF RtlRunOnceBeginInitialize
<1>2. CASE CheckOnly(t)
    BY <1>2 DEF CheckOnly
<1>3. CASE FirstTime(t) \/ InProgress(t)
    BY <1>3 DEF FirstTime, InProgress
<1>4. CASE NtWaitForKeyedEvent(t) \/ WalkEnds(t)
    BY <1>4 DEF NtWaitForKeyedEvent, WalkEnds
<1>5. CASE BeginReturns(t)
    BY <1>5 DEF BeginReturns
<1>6. CASE ReadNext(t)
    BY <1>6 DEF ReadNext
<1>7. CASE NtReleaseKeyedEvent(t)
    <2>1. cur[t] \in Threads
        BY <1>7 DEF NtReleaseKeyedEvent, ListsAreSound
    <2> QED  BY <1>7, <2>1 DEF NtReleaseKeyedEvent
<1>8. ASSUME NEW failed \in BOOLEAN, CompleteSync(t, failed) PROVE TypeOK'
    BY <1>8 DEF CompleteSync, CompleteReturns
<1>9. CASE CompleteAsync(t) \/ CompleteTooLate(t)
    BY <1>9 DEF CompleteAsync, CompleteTooLate, CompleteReturns
<1> QED
    BY <1>1, <1>2, <1>3, <1>4, <1>5, <1>6, <1>7, <1>8, <1>9 DEF ThreadStep, Step, Complete

-----------------------------------------------------------------------------
(* Who initializes *)

LEMMA StateStep ==
    ASSUME TypeOK, StateBelongs, ListsAreSound, NEW t \in Threads, ThreadStep(t)
    PROVE  StateBelongs'
<1> USE DEF Goto, Words, Result, Untouched, Initializing
<1>0. /\ Ptr.low \in 0..3
      /\ DOMAIN pc = Threads /\ DOMAIN result = Threads /\ async \in [Threads -> BOOLEAN]
      /\ \A u \in Threads : result[u].status = "pending" => pc[u] = "idle"
      /\ Ptr.low \in {0, 1} => \A u \in Threads : Initializing(u) => ~async[u]
      /\ Ptr.low = 1 => \E u \in Threads : SyncInitializers = {u}
      /\ Ptr.low # 1 => SyncInitializers = {}
    BY DEF TypeOK, StateBelongs
\* No thread is told anything new, and the state stays what it was.
<1>1. ASSUME Ptr' = Ptr, SyncInitializers' = SyncInitializers,
             \A u \in Threads : result'[u].status = "pending" => pc'[u] = "idle",
             \A u \in Threads : Initializing(u)' =>
                    async'[u] = async[u] /\ (Initializing(u) \/ Ptr.low \notin {0, 1})
      PROVE  StateBelongs'
    BY <1>0, <1>1 DEF StateBelongs
<1>2. ASSUME NEW flag \in AsyncFlags, RtlRunOnceBeginInitialize(t, flag) PROVE StateBelongs'
    <2>1. result[t].status # "pending"
        BY <1>2 DEF RtlRunOnceBeginInitialize
    <2>2. SyncInitializers' = SyncInitializers
        BY <1>0, <1>2, <2>1 DEF RtlRunOnceBeginInitialize, SyncInitializers
    <2> QED  BY <1>0, <1>1, <1>2, <2>1, <2>2 DEF RtlRunOnceBeginInitialize
<1>3. CASE CheckOnly(t)
    <2>1. ~Initializing(t) /\ result'[t].status # "pending"
          /\ \A u \in Threads : u # t => result'[u] = result[u]
        BY <1>0, <1>3 DEF CheckOnly
    <2>2. SyncInitializers' = SyncInitializers
        BY <1>0, <1>3, <2>1 DEF CheckOnly, SyncInitializers
    <2> QED  BY <1>0, <1>1, <1>3, <2>1, <2>2 DEF CheckOnly
<1>4. CASE FirstTime(t)
    <2>1. /\ result'[t].status = "pending" /\ pc'[t] = "idle" /\ async' = async
          /\ Ptr.low = 0 /\ Ptr'.low = IF async[t] THEN 3 ELSE 1
          /\ \A u \in Threads : u # t => result'[u] = result[u] /\ pc'[u] = pc[u]
          /\ pc[t] = "begin"
        BY <1>0, <1>4 DEF FirstTime
    <2>2. SyncInitializers = {}
        BY <1>0, <2>1
    <2>3. SyncInitializers' = IF async[t] THEN {} ELSE {t}
        BY <1>0, <2>1, <2>2 DEF SyncInitializers
    <2> QED  BY <1>0, <2>1, <2>3 DEF StateBelongs
<1>5. CASE InProgress(t)
    <2>1. SyncInitializers' = SyncInitializers /\ Ptr'.low = Ptr.low
        BY <1>0, <1>5 DEF InProgress, SyncInitializers
    <2> QED  BY <1>0, <1>5, <2>1 DEF InProgress, StateBelongs
<1>6. CASE NtWaitForKeyedEvent(t) \/ WalkEnds(t) \/ ReadNext(t)
    <2>1. result[t].status # "pending"
        BY <1>0, <1>6 DEF NtWaitForKeyedEvent, WalkEnds, ReadNext
    <2>2. SyncInitializers' = SyncInitializers
        BY <1>0, <1>6, <2>1 DEF NtWaitForKeyedEvent, WalkEnds, ReadNext, SyncInitializers
    <2> QED  BY <1>0, <1>1, <1>6, <2>1, <2>2 DEF NtWaitForKeyedEvent, WalkEnds, ReadNext
<1>7. CASE BeginReturns(t)
    <2>1. /\ \A u \in Threads : u # t => result'[u] = result[u] /\ pc'[u] = pc[u]
          /\ result'[t].status = "pending" => Ptr.low = 3 /\ async[t]
          /\ pc'[t] = "idle" /\ pc[t] = "begin" /\ Ptr' = Ptr /\ async' = async
        BY <1>0, <1>7 DEF BeginReturns
    <2>2. SyncInitializers' = SyncInitializers
        BY <1>0, <2>1 DEF SyncInitializers
    <2> QED  BY <1>0, <1>1, <2>1, <2>2
<1>8. CASE NtReleaseKeyedEvent(t)
    <2>1. cur[t] \in Threads /\ cur[t] # t
        BY <1>8 DEF NtReleaseKeyedEvent, ListsAreSound, TypeOK
    <2>2. result[t].status # "pending" /\ result[cur[t]].status # "pending"
        BY <1>0, <1>8, <2>1 DEF NtReleaseKeyedEvent
    <2>3. SyncInitializers' = SyncInitializers
        BY <1>0, <1>8, <2>1, <2>2 DEF NtReleaseKeyedEvent, SyncInitializers
    <2> QED  BY <1>0, <1>1, <1>8, <2>1, <2>2, <2>3 DEF NtReleaseKeyedEvent
<1>9. ASSUME NEW failed \in BOOLEAN, CompleteSync(t, failed) PROVE StateBelongs'
    <2>1. /\ Ptr.low = 1 /\ Ptr'.low \in {0, 2} /\ t \in SyncInitializers /\ async' = async
          /\ result'[t].status = "none" /\ pc'[t] = "walk"
          /\ \A u \in Threads : u # t => result'[u] = result[u] /\ pc'[u] = pc[u]
        BY <1>0, <1>9 DEF CompleteSync, CompleteReturns, SyncInitializers
    <2>2. SyncInitializers = {t}
        BY <1>0, <2>1
    <2>3. SyncInitializers' = {}
        BY <2>1, <2>2 DEF SyncInitializers
    <2>4. \A u \in Threads : ~Initializing(u)'
        BY <1>0, <2>1, <2>2, <2>3 DEF SyncInitializers
    <2> QED  BY <1>0, <2>1, <2>3, <2>4 DEF StateBelongs
<1>10. CASE CompleteAsync(t) \/ CompleteTooLate(t)
    <2>1. /\ Ptr.low \in {0, 2, 3} /\ Ptr'.low \in {0, 2, 3} /\ (Ptr'.low = 0 => Ptr.low = 0)
          /\ result'[t].status = "none" /\ async' = async
          /\ \A u \in Threads : pc'[u] = pc[u] /\ (u # t => result'[u] = result[u])
        BY <1>0, <1>10 DEF CompleteAsync, CompleteTooLate, CompleteReturns
    <2>2. SyncInitializers = {}
        BY <1>0, <2>1
    <2>3. SyncInitializers' = {}
        BY <2>1, <2>2 DEF SyncInitializers
    <2> QED  BY <1>0, <2>1, <2>3 DEF StateBelongs
<1> QED
    BY <1>2, <1>3, <1>4, <1>5, <1>6, <1>7, <1>8, <1>9, <1>10 DEF ThreadStep, Step, Complete

\* A published context is final.
LEMMA ContextStep ==
    ASSUME TypeOK, SameContext, NEW t \in Threads, ThreadStep(t)
    PROVE  SameContext'
<1> USE DEF Goto, Result, Untouched, SameContext
<1>0. DOMAIN result = Threads
    BY DEF TypeOK
<1>1. CASE CheckOnly(t) \/ BeginReturns(t)
    BY <1>0, <1>1 DEF CheckOnly, BeginReturns
<1>2. CASE FirstTime(t)
    BY <1>0, <1>2 DEF FirstTime
<1>3. CASE InProgress(t)
    BY <1>0, <1>3 DEF InProgress
<1>4. ASSUME NEW failed \in BOOLEAN, CompleteSync(t, failed) PROVE SameContext'
    BY <1>0, <1>4 DEF CompleteSync, CompleteReturns
<1>5. CASE CompleteAsync(t) \/ CompleteTooLate(t)
    BY <1>0, <1>5 DEF CompleteAsync, CompleteTooLate, CompleteReturns
<1>6. CASE UNCHANGED <<Ptr, result>>
    BY <1>6
<1> QED
    BY <1>1, <1>2, <1>3, <1>4, <1>5, <1>6
    DEF ThreadStep, Step, Complete, RtlRunOnceBeginInitialize, NtWaitForKeyedEvent, WalkEnds, ReadNext,
        NtReleaseKeyedEvent

-----------------------------------------------------------------------------
(* The lists of waiting threads *)

\* Pushing, taking and walking a list keep every waiting thread on exactly one
\* list.
LEMMA ListsStep ==
    ASSUME IInv, NEW t \in Threads, ThreadStep(t)
    PROVE  ListsAreExact' /\ ListsAreSound'
<1> USE DEF Goto, List
<1>0. /\ next \in [Threads -> Words] /\ next' \in [Threads -> Words]
      /\ cur \in [Threads -> Words] /\ cur' \in [Threads -> Words]
      /\ nxt \in [Threads -> Words]
      /\ Ptr.ptr \in Words /\ Ptr.low \in 0..3
      /\ DOMAIN pc = Threads
      /\ Walks \subseteq Threads /\ Waiting \subseteq Threads
    BY TypeStep DEF IInv, TypeOK, Walks, Waiting
\* What the lists are, and that they have only waiting threads.
<1>1. /\ Pending \cup UNION {List(cur[u]) : u \in Walks} = Waiting
      /\ \A u \in Walks : List(cur[u]) \cap Pending = {}
      /\ \A u, w \in Walks : u # w => List(cur[u]) \cap List(cur[w]) = {}
      /\ \A u \in Waiting : u \notin List(next[u])
      /\ \A u \in Threads : pc[u] = "release" => cur[u] # NoThread /\ nxt[u] = next[cur[u]]
    BY DEF IInv, ListsAreExact, ListsAreSound
<1>2. /\ Pending \subseteq Waiting
      /\ \A u \in Walks : List(cur[u]) \subseteq Waiting
      /\ \A u \in Waiting : List(next[u]) \subseteq Waiting
    <2>1. Pending \subseteq Waiting /\ \A u \in Walks : List(cur[u]) \subseteq Waiting
        BY <1>1
    <2>2. ASSUME NEW h \in Words, List(h) \subseteq Waiting, NEW u \in List(h)
          PROVE  List(next[u]) \subseteq Waiting
        <3>1. List(h) \in SUBSET Threads /\ Closed(next, List(h))
            BY <1>0, ListClosed
        <3>2. next[u] \in List(h) \cup {NoThread}
            BY <2>2, <3>1 DEF Closed
        <3> QED  BY <2>2, <3>1, <3>2, ListLeast
    <2>3. ASSUME NEW u \in Waiting PROVE List(next[u]) \subseteq Waiting
        <3>1. CASE u \in Pending
            BY <1>0, <2>1, <2>2, <3>1 DEF Pending
        <3>2. ASSUME NEW w \in Walks, u \in List(cur[w]) PROVE List(next[u]) \subseteq Waiting
            BY <1>0, <2>1, <2>2, <3>2
        <3> QED  BY <1>1, <2>3, <3>1, <3>2
    <2> QED  BY <2>1, <2>3
<1>3. ASSUME NEW h \in Words, \A u \in List(h) : next'[u] = next[u]
      PROVE  ListOf(next', h) = List(h)
    BY <1>0, <1>3, ListFrame, ZenonT(60)
\* The general case: the same lists of the same threads.
<1>4. ASSUME next' = next, Pending' = Pending, Waiting' = Waiting, Walks' = Walks,
             \A u \in Walks : cur'[u] = cur[u],
             \A u \in Threads : pc'[u] = "release" =>
                    cur'[u] # NoThread /\ nxt'[u] = next[cur'[u]]
      PROVE  ListsAreExact' /\ ListsAreSound'
    BY <1>1, <1>4 DEF ListsAreExact, ListsAreSound
<1>5. ASSUME NEW flag \in AsyncFlags, RtlRunOnceBeginInitialize(t, flag)
      PROVE  ListsAreExact' /\ ListsAreSound'
    BY <1>0, <1>1, <1>4, <1>5 DEF RtlRunOnceBeginInitialize, Pending, Waiting, Walks
<1>6. CASE CheckOnly(t) \/ BeginReturns(t) \/ NtWaitForKeyedEvent(t)
    BY <1>0, <1>1, <1>4, <1>6
    DEF CheckOnly, BeginReturns, NtWaitForKeyedEvent, Pending, Waiting, Walks
<1>7. CASE ReadNext(t)
    BY <1>0, <1>1, <1>4, <1>7 DEF ReadNext, Pending, Waiting, Walks
<1>8. CASE CompleteAsync(t) \/ CompleteTooLate(t)
    BY <1>0, <1>1, <1>4, <1>8
    DEF CompleteAsync, CompleteTooLate, CompleteReturns, Pending, Waiting, Walks
<1>9. CASE FirstTime(t)
    <2>1. Pending = {} /\ Pending' = {}
        BY <1>9, ListEmpty DEF FirstTime, Pending
    <2> QED  BY <1>0, <1>1, <1>4, <1>9, <2>1 DEF FirstTime, Waiting, Walks
<1>10. CASE WalkEnds(t)
    <2>1. Walks = Walks' \cup {t} /\ Pending' = Pending /\ Waiting' = Waiting /\ Walks' \subseteq Walks
        BY <1>0, <1>10 DEF WalkEnds, Walks, Waiting, Pending
    <2>2. List(cur[t]) = {}
        BY <1>10, ListEmpty DEF WalkEnds
    <2>3. next' = next /\ cur' = cur /\ nxt' = nxt
        BY <1>10 DEF WalkEnds
    <2>4. UNION {List(cur[u]) : u \in Walks} = UNION {List(cur[u]) : u \in Walks'}
        BY <2>1, <2>2
    <2>5. ListsAreExact'
        BY <1>1, <2>1, <2>3, <2>4 DEF ListsAreExact
    <2>6. ListsAreSound'
        BY <1>0, <1>1, <1>10, <2>1, <2>3 DEF ListsAreSound, WalkEnds
    <2> QED  BY <2>5, <2>6
<1>11. ASSUME NEW failed \in BOOLEAN, CompleteSync(t, failed)
       PROVE  ListsAreExact' /\ ListsAreSound'
    <2>1. /\ Walks' = Walks \cup {t} /\ t \notin Walks /\ Waiting' = Waiting
          /\ Pending' = {} /\ Pending = List(Ptr.ptr)
          /\ next' = next /\ nxt' = nxt /\ cur'[t] = Ptr.ptr
          /\ \A u \in Threads : u # t => cur'[u] = cur[u]
        BY <1>0, <1>11 DEF CompleteSync, Walks, Waiting, Pending, Untouched
    <2>2. UNION {List(cur'[u]) : u \in Walks'} = Pending \cup UNION {List(cur[u]) : u \in Walks}
        BY <1>0, <2>1
    <2>3. ListsAreExact'
        BY <1>0, <1>1, <2>1, <2>2 DEF ListsAreExact
    <2>4. ListsAreSound'
        BY <1>0, <1>1, <1>11, <2>1 DEF ListsAreSound, CompleteSync
    <2> QED  BY <2>3, <2>4
<1>12. CASE InProgress(t)
    <2>1. /\ Walks' = Walks /\ Waiting' = Waiting \cup {t} /\ t \notin Waiting /\ t \notin Walks
          /\ cur' = cur /\ nxt' = nxt /\ Pending = List(Ptr.ptr) /\ Pending' = ListOf(next', t)
          /\ next'[t] = Ptr.ptr /\ \A u \in Threads : u # t => next'[u] = next[u]
        BY <1>0, <1>12 DEF InProgress, Walks, Waiting, Pending
    <2>2. ListOf(next', Ptr.ptr) = List(Ptr.ptr) /\ t \notin List(Ptr.ptr)
        BY <1>0, <1>2, <1>3, <2>1
    <2>3. Pending' = {t} \cup Pending
        BY <1>0, <2>1, <2>2, ListUnfold
    <2>4. \A u \in Walks : ListOf(next', cur[u]) = List(cur[u]) /\ t \notin List(cur[u])
        BY <1>0, <1>2, <1>3, <2>1
    <2>5. \A u \in Waiting : ListOf(next', next[u]) = List(next[u])
        BY <1>0, <1>2, <1>3, <2>1
    <2>6. UNION {ListOf(next', cur[u]) : u \in Walks} = UNION {List(cur[u]) : u \in Walks}
        BY <2>4
    <2>7. ListsAreExact'
        BY <1>1, <2>1, <2>3, <2>4, <2>6 DEF ListsAreExact
    <2>8. \A u \in Waiting' : u \notin ListOf(next', next'[u])
        BY <1>0, <1>1, <2>1, <2>2, <2>5
    <2>9. ASSUME NEW u \in Threads, pc'[u] = "release" PROVE cur[u] # NoThread /\ nxt[u] = next'[cur[u]]
        <3>1. pc[u] = "release" /\ u \in Walks
            BY <1>0, <1>12, <2>9 DEF InProgress, Walks
        <3>2. cur[u] \in List(cur[u])
            BY <1>0, <1>1, <3>1, ListClosed
        <3> QED  BY <1>0, <1>1, <2>1, <2>4, <3>1, <3>2 DEF Words
    <2>10. ListsAreSound'
        BY <2>1, <2>8, <2>9 DEF ListsAreSound
    <2> QED  BY <2>7, <2>10
<1>13. CASE NtReleaseKeyedEvent(t)
    <2> DEFINE u == cur[t]
    <2>1. u \in Threads /\ u # t /\ t \in Walks /\ u \in Waiting /\ nxt[t] = next[u]
        BY <1>0, <1>1, <1>13 DEF NtReleaseKeyedEvent, Walks, Waiting, Words
    <2>2. /\ Walks' = Walks /\ Waiting' = Waiting \ {u} /\ Pending' = (IF Ptr.low = 1 THEN ListOf(next', Ptr.ptr) ELSE {})
          /\ next'[u] = NoThread /\ \A w \in Threads : w # u => next'[w] = next[w]
          /\ cur'[t] = next[u] /\ \A w \in Threads : w # t => cur'[w] = cur[w] /\ nxt'[w] = nxt[w]
          /\ pc'[t] = "walk" /\ pc'[u] = "begin"
          /\ \A w \in Threads : w \notin {t, u} => pc'[w] = pc[w]
        <3> HIDE DEF u
        <3> QED  BY <1>0, <1>13, <2>1 DEF NtReleaseKeyedEvent, Walks, Waiting, Pending, u
    <2>3. List(u) = {u} \cup List(next[u]) /\ u \notin List(next[u])
        BY <1>0, <1>1, <2>1, ListUnfold
    <2>4. ListOf(next', next[u]) = List(next[u])
        BY <1>0, <1>3, <2>1, <2>2, <2>3, ListClosed
    <2>5. Pending' = Pending /\ u \notin Pending
        <3>1. u \notin Pending
            BY <1>1, <2>1, <2>3
        <3>2. CASE Ptr.low = 1
            BY <1>0, <1>3, <2>2, <3>1, <3>2, ListClosed DEF Pending
        <3>3. CASE Ptr.low # 1
            BY <2>2, <3>3 DEF Pending
        <3> QED  BY <3>1, <3>2, <3>3
    <2>6. \A w \in Walks : w # t => u \notin List(cur[w]) /\ ListOf(next', cur[w]) = List(cur[w])
        <3>1. \A w \in Walks : w # t => u \notin List(cur[w])
            BY <1>1, <2>1, <2>3
        <3> QED  BY <1>0, <1>3, <2>2, <3>1, ListClosed
    <2>7. \A w \in Walks : ListOf(next', cur'[w]) = List(cur[w]) \ {u}
        BY <1>0, <2>1, <2>2, <2>3, <2>4, <2>6
    <2>8. UNION {ListOf(next', cur'[w]) : w \in Walks} = (UNION {List(cur[w]) : w \in Walks}) \ {u}
        BY <2>7
    <2>9. ListsAreExact'
        <3>1. Pending' \cup UNION {ListOf(next', cur'[w]) : w \in Walks'} = Waiting'
            BY <1>1, <2>2, <2>5, <2>8
        <3>2. \A w \in Walks' : ListOf(next', cur'[w]) \cap Pending' = {}
            BY <1>1, <2>2, <2>5, <2>7
        <3>3. \A v, w \in Walks' : v # w => ListOf(next', cur'[v]) \cap ListOf(next', cur'[w]) = {}
            BY <1>1, <2>2, <2>7
        <3> QED  BY <3>1, <3>2, <3>3 DEF ListsAreExact
    <2>10. ASSUME NEW w \in Waiting, w # u PROVE w \notin ListOf(next', next'[w])
        <3>1. next'[w] = next[w] /\ next[w] \in Words
            BY <1>0, <2>2, <2>10
        <3>2. ListOf(next', next[w]) \subseteq List(next[w])
            <4>1. List(next[w]) \in SUBSET Threads /\ next[w] \in List(next[w]) \cup {NoThread}
                  /\ Closed(next, List(next[w]))
                BY <1>0, <3>1, ListClosed
            <4>2. Closed(next', List(next[w]))
                BY <2>2, <4>1 DEF Closed
            <4> QED  BY <4>1, <4>2, ListLeast
        <3> QED  BY <1>1, <2>10, <3>1, <3>2
    <2>11. ASSUME NEW w \in Threads, pc'[w] = "release"
           PROVE  cur'[w] # NoThread /\ nxt'[w] = next'[cur'[w]]
        <3>1. w # t /\ w # u /\ pc[w] = "release" /\ w \in Walks
            BY <2>2, <2>11 DEF Walks
        <3>2. cur[w] \in List(cur[w]) /\ cur[w] \in Threads
            BY <1>0, <1>1, <3>1, ListClosed DEF Words
        <3>3. cur[w] # u
            BY <2>6, <3>1, <3>2
        <3> QED  BY <1>1, <2>2, <3>1, <3>2, <3>3
    <2>12. ListsAreSound'
        BY <2>2, <2>10, <2>11 DEF ListsAreSound
    <2> QED  BY <2>9, <2>12
<1> QED
    BY <1>5, <1>6, <1>7, <1>8, <1>9, <1>10, <1>11, <1>12, <1>13 DEF ThreadStep, Step, Complete

-----------------------------------------------------------------------------
(* The inductive invariant *)

LEMMA InvInit == Init => IInv
<1> SUFFICES ASSUME Init PROVE IInv
    OBVIOUS
<1> USE DEF Init, Untouched, Result
<1>1. TypeOK
    BY DEF TypeOK, Words
<1>2. StateBelongs /\ SameContext
    BY DEF StateBelongs, SameContext, SyncInitializers, Initializing
<1>3. Walks = {} /\ Waiting = {} /\ Pending = {}
    BY DEF Walks, Waiting, Pending
<1> QED  BY <1>1, <1>2, <1>3 DEF IInv, ListsAreExact, ListsAreSound

LEMMA InvStep == IInv /\ [Next]_vars => IInv'
<1> SUFFICES ASSUME IInv, [Next]_vars PROVE IInv'
    OBVIOUS
<1>1. CASE UNCHANGED vars
    BY <1>1
    DEF vars, IInv, TypeOK, StateBelongs, SyncInitializers, Initializing, SameContext, ListsAreExact,
        ListsAreSound, Walks, Waiting, Pending, List
<1>2. ASSUME NEW t \in Threads, ThreadStep(t) PROVE IInv'
    BY <1>2, TypeStep, StateStep, ContextStep, ListsStep DEF IInv
<1> QED  BY <1>1, <1>2 DEF Next, ThreadStep

THEOREM Invariant == Spec => []IInv
BY InvInit, InvStep, PTL DEF Spec

-----------------------------------------------------------------------------
(* The properties *)

\* RTL_RUN_ONCE, the words on the stacks and the results keep their types.
THEOREM TypeCorrect == Spec => []TypeOK
BY Invariant, PTL DEF IInv

\* RtlRunOnceBeginInitialize lets one thread at a time run a synchronous
\* initialization, exactly while the low bits of once->Ptr are 1.
THEOREM OneAtATime == Spec => []OneInitializer
<1>1. IInv => OneInitializer
    <2> SUFFICES ASSUME IInv PROVE OneInitializer
        OBVIOUS
    <2>1. CASE Ptr.low = 1
        <3>1. PICK t \in Threads : SyncInitializers = {t}
            BY <2>1 DEF IInv, StateBelongs
        <3> QED  BY <2>1, <3>1, FS_Singleton DEF OneInitializer
    <2>2. CASE Ptr.low # 1
        <3>1. SyncInitializers = {}
            BY <2>2 DEF IInv, StateBelongs
        <3> QED  BY <2>2, <3>1, FS_EmptySet DEF OneInitializer
    <2> QED  BY <2>1, <2>2
<1> QED  BY <1>1, Invariant, PTL

\* Every caller that is told the initialization is done gets the context that
\* RtlRunOnceComplete has published.
THEOREM OneContext == Spec => []SameContext
BY Invariant, PTL DEF IInv

\* The list of stack words that starts in once->Ptr, and the ones that
\* RtlRunOnceComplete walks, have every waiting thread exactly once, and no
\* word of a thread that has gone on.
THEOREM NobodyForgotten == Spec => []ListsAreExact
BY Invariant, PTL DEF IInv

\* Once RtlRunOnceComplete has published a context, no call changes it.
THEOREM PublishedIsFinal == Spec => [][Ptr.low = 2 => Ptr' = Ptr]_vars
<1>1. [Next]_vars => [Ptr.low = 2 => Ptr' = Ptr]_vars
    BY DEF Next, vars, Step, Complete, RtlRunOnceBeginInitialize, CheckOnly, FirstTime, InProgress,
           NtWaitForKeyedEvent, BeginReturns, ReadNext, NtReleaseKeyedEvent, WalkEnds, CompleteSync,
           CompleteAsync, CompleteTooLate
<1> QED  BY <1>1, PTL DEF Spec
=============================================================================
