------------------------- MODULE Win32Futex_proofs -------------------------
(***************************************************************************)
(* Proofs about Win32Futex, for any number of threads, addresses and       *)
(* values, any size of the buffer of RtlWakeAddressAll and any mixture of  *)
(* wake calls.                                                             *)
(***************************************************************************)
EXTENDS Win32Futex, SequenceTheorems, TLAPS

-----------------------------------------------------------------------------
(* The list operations *)

\* list_add_tail
LEMMA AppendContains ==
    ASSUME NEW S, NEW s \in Seq(S), NEW e \in S, NEW x
    PROVE  /\ Append(s, e) \in Seq(S)
           /\ Contains(Append(s, e), x) <=> Contains(s, x) \/ x = e
<1>1. Len(Append(s, e)) = Len(s) + 1 /\ Len(s) \in Nat
    OBVIOUS
<1>2. \A k \in 1..Len(s) : Append(s, e)[k] = s[k]
    OBVIOUS
<1>3. Append(s, e)[Len(s) + 1] = e
    OBVIOUS
<1>4. 1..Len(s) + 1 = 1..Len(s) \cup {Len(s) + 1}
    BY <1>1
<1> QED  BY <1>1, <1>2, <1>3, <1>4 DEF Contains

\* The loop over the buffered thread ids.
LEMMA TailContains ==
    ASSUME NEW S, NEW s \in Seq(S), s # <<>>, NEW x
    PROVE  /\ Tail(s) \in Seq(S) /\ Head(s) \in S /\ Contains(s, Head(s))
           /\ Contains(s, x) <=> Contains(Tail(s), x) \/ x = Head(s)
<1>1. Len(Tail(s)) = Len(s) - 1 /\ Len(s) \in Nat \ {0} /\ Head(s) = s[1]
    OBVIOUS
<1>2. \A k \in 1..(Len(s) - 1) : Tail(s)[k] = s[k + 1]
    OBVIOUS
<1>3. \A k \in 1..Len(s) : k = 1 \/ k - 1 \in 1..(Len(s) - 1)
    BY <1>1
<1>4. ASSUME Contains(s, x) PROVE Contains(Tail(s), x) \/ x = Head(s)
    <2>1. PICK k \in 1..Len(s) : s[k] = x
        BY <1>4 DEF Contains
    <2>2. CASE k # 1
        <3>1. k - 1 \in 1..(Len(s) - 1) /\ (k - 1) + 1 = k
            BY <1>1, <2>2
        <3>2. Tail(s)[k - 1] = x
            BY <1>2, <2>1, <3>1
        <3> QED  BY <1>1, <3>1, <3>2 DEF Contains
    <2> QED  BY <1>1, <2>1, <2>2
<1>5. ASSUME Contains(Tail(s), x) PROVE Contains(s, x)
    <2>1. PICK k \in 1..(Len(s) - 1) : Tail(s)[k] = x
        BY <1>1, <1>5 DEF Contains
    <2>2. s[k + 1] = x /\ k + 1 \in 1..Len(s)
        BY <1>1, <1>2, <2>1
    <2> QED  BY <2>2 DEF Contains
<1>6. Contains(s, Head(s))
    BY <1>1 DEF Contains
<1> QED  BY <1>1, <1>4, <1>5, <1>6

\* list_remove takes out one entry and keeps the order of the others.
LEMMA RemovalPositions ==
    ASSUME NEW S, NEW q \in Seq(S), NEW n \in DOMAIN q, NEW p, p = RemoveAt(q, n)
    PROVE  /\ p \in Seq(S) /\ Len(p) = Len(q) - 1 /\ DOMAIN p = 1..(Len(q) - 1)
           /\ \A k \in 1..(Len(q) - 1) : (k < n => p[k] = q[k]) /\ (~(k < n) => p[k] = q[k + 1])
<1>1. n \in 1..Len(q) /\ Len(q) \in Nat /\ DOMAIN q = 1..Len(q)
    OBVIOUS
<1> DEFINE a == SubSeq(q, 1, n - 1)  b == SubSeq(q, n + 1, Len(q))
<1>2. p = a \o b
    BY DEF RemoveAt
<1>3. a \in Seq(S) /\ Len(a) = n - 1 /\ \A k \in 1..(n - 1) : a[k] = q[k]
    BY <1>1
<1>4. b \in Seq(S) /\ Len(b) = Len(q) - n /\ \A k \in 1..(Len(q) - n) : b[k] = q[n + k]
    BY <1>1
<1> HIDE DEF a, b
<1>5. /\ a \o b \in Seq(S) /\ Len(a \o b) = Len(a) + Len(b)
      /\ \A k \in 1..(Len(a) + Len(b)) : (a \o b)[k] = IF k <= Len(a) THEN a[k] ELSE b[k - Len(a)]
    BY <1>3, <1>4, ConcatProperties, Zenon
<1>6. /\ p \in Seq(S) /\ Len(p) = Len(q) - 1
      /\ \A k \in 1..(Len(q) - 1) : p[k] = IF k <= n - 1 THEN a[k] ELSE b[k - (n - 1)]
    <2>1. Len(a) + Len(b) = Len(q) - 1
        BY <1>1, <1>3, <1>4
    <2> QED  BY <1>2, <1>3, <1>5, <2>1, Zenon
<1>7. DOMAIN p = 1..(Len(q) - 1)
    <2>1. p \in Seq(S) /\ Len(p) = Len(q) - 1
        BY <1>6
    <2>2. DOMAIN p = 1..Len(p)
        BY <2>1, LenProperties, Zenon
    <2> QED  BY <2>1, <2>2, Zenon
<1>8. ASSUME NEW k \in 1..(Len(q) - 1), k < n PROVE p[k] = q[k]
    <2>1. k <= n - 1 /\ k \in 1..(n - 1)
        BY <1>1, <1>8
    <2> QED  BY <1>3, <1>6, <2>1, Zenon
<1>9. ASSUME NEW k \in 1..(Len(q) - 1), ~(k < n) PROVE p[k] = q[k + 1]
    <2>1. k - (n - 1) \in 1..(Len(q) - n) /\ n + (k - (n - 1)) = k + 1 /\ ~(k <= n - 1)
        BY <1>1, <1>9
    <2>2. p[k] = b[k - (n - 1)]
        BY <1>6, <2>1, Zenon
    <2> QED  BY <1>4, <2>1, <2>2, Zenon
<1> QED  BY <1>6, <1>7, <1>8, <1>9

\* Each entry is linked once.
Distinct(q) == \A j, k \in DOMAIN q : q[j] = q[k] => j = k

\* What is left of a list after the removal.
LEMMA Removal ==
    ASSUME NEW S, NEW q \in Seq(S), Distinct(q), NEW n \in DOMAIN q, NEW p, p = RemoveAt(q, n)
    PROVE  /\ p \in Seq(S) /\ Distinct(p)
           /\ \A x : Contains(p, x) <=> Contains(q, x) /\ x # q[n]
<1>1. n \in 1..Len(q) /\ Len(q) \in Nat /\ DOMAIN q = 1..Len(q)
    OBVIOUS
<1>2. p \in Seq(S) /\ Len(p) = Len(q) - 1
    BY RemovalPositions
<1>3. DOMAIN p = 1..(Len(q) - 1)
    BY RemovalPositions
<1>4. ASSUME NEW k \in 1..(Len(q) - 1), k < n PROVE p[k] = q[k]
    BY <1>4, RemovalPositions
<1>5. ASSUME NEW k \in 1..(Len(q) - 1), ~(k < n) PROVE p[k] = q[k + 1]
    BY <1>5, RemovalPositions
<1>6. Distinct(p)
    <2> SUFFICES ASSUME NEW j \in DOMAIN p, NEW k \in DOMAIN p, p[j] = p[k] PROVE j = k
        BY DEF Distinct
    <2>1. \A m \in DOMAIN p : m \in DOMAIN q /\ m + 1 \in DOMAIN q /\ m \in 1..(Len(q) - 1)
        BY <1>1, <1>3
    <2>2. \A l, m \in DOMAIN q : q[l] = q[m] => l = m
        BY DEF Distinct
    <2>3. CASE j < n /\ k < n
        BY <1>4, <2>1, <2>2, <2>3
    <2>4. CASE j < n /\ ~(k < n)
        <3>1. q[j] = q[k + 1]
            BY <1>4, <1>5, <2>1, <2>4
        <3>2. j = k + 1
            BY <2>1, <2>2, <3>1
        <3> QED  BY <1>1, <2>1, <2>4, <3>2
    <2>5. CASE ~(j < n) /\ k < n
        <3>1. q[j + 1] = q[k]
            BY <1>4, <1>5, <2>1, <2>5
        <3>2. j + 1 = k
            BY <2>1, <2>2, <3>1
        <3> QED  BY <1>1, <2>1, <2>5, <3>2
    <2>6. CASE ~(j < n) /\ ~(k < n)
        <3>1. q[j + 1] = q[k + 1]
            BY <1>5, <2>1, <2>6
        <3>2. j + 1 = k + 1
            BY <2>1, <2>2, <3>1
        <3> QED  BY <2>1, <3>2
    <2> QED  BY <2>3, <2>4, <2>5, <2>6
<1>7. ASSUME NEW x PROVE Contains(p, x) <=> Contains(q, x) /\ x # q[n]
    <2>1. ASSUME Contains(p, x) PROVE Contains(q, x) /\ x # q[n]
        <3>1. PICK k \in 1..(Len(q) - 1) : p[k] = x
            BY <1>2, <2>1 DEF Contains
        <3>2. \E m \in 1..Len(q) : m # n /\ q[m] = x
            <4>1. k \in 1..Len(q) /\ k + 1 \in 1..Len(q)
                BY <1>1
            <4>2. CASE k < n
                BY <1>1, <1>4, <3>1, <4>1, <4>2
            <4>3. CASE ~(k < n)
                <5>1. k + 1 # n /\ q[k + 1] = x
                    BY <1>1, <1>5, <3>1, <4>3
                <5> QED  BY <4>1, <5>1
            <4> QED  BY <4>2, <4>3
        <3> QED  BY <1>1, <3>2 DEF Contains, Distinct
    <2>2. ASSUME Contains(q, x), x # q[n] PROVE Contains(p, x)
        <3>1. PICK k \in 1..Len(q) : q[k] = x
            BY <2>2 DEF Contains
        <3>2. k # n
            BY <2>2, <3>1
        <3>3. CASE k < n
            <4>1. k \in 1..(Len(q) - 1)
                BY <1>1, <3>3
            <4> QED  BY <1>2, <1>4, <3>1, <3>3, <4>1 DEF Contains
        <3>4. CASE k > n
            <4>1. k - 1 \in 1..(Len(q) - 1) /\ ~(k - 1 < n) /\ (k - 1) + 1 = k
                BY <1>1, <3>4
            <4>2. p[k - 1] = x
                BY <1>5, <3>1, <4>1
            <4> QED  BY <1>2, <4>1, <4>2 DEF Contains
        <3> QED  BY <1>1, <3>2, <3>3, <3>4
    <2> QED  BY <2>1, <2>2
<1> QED  BY <1>2, <1>6, <1>7

\* Two entries keep their order when a third one is unlinked.
LEMMA RemovalOrder ==
    ASSUME NEW S, NEW q \in Seq(S), Distinct(q), NEW n \in DOMAIN q, NEW p, p = RemoveAt(q, n),
           NEW i \in DOMAIN q, NEW j \in DOMAIN q, i < j, i # n, j # n
    PROVE  \E k, l \in 1..Len(p) : k < l /\ p[k] = q[i] /\ p[l] = q[j]
<1>1. Len(p) = Len(q) - 1
    BY RemovalPositions
<1>2. ASSUME NEW k \in 1..(Len(q) - 1), k < n PROVE p[k] = q[k]
    BY <1>2, RemovalPositions, ZenonT(60)
<1>3. ASSUME NEW k \in 1..(Len(q) - 1), ~(k < n) PROVE p[k] = q[k + 1]
    BY <1>3, RemovalPositions, ZenonT(60)
<1>4. DOMAIN q = 1..Len(q) /\ Len(q) \in Nat
    OBVIOUS
<1> DEFINE Moved(m) == IF m < n THEN m ELSE m - 1
<1>5. ASSUME NEW m \in DOMAIN q, m # n
      PROVE  Moved(m) \in 1..(Len(q) - 1) /\ p[Moved(m)] = q[m]
    <2>1. CASE m < n
        <3>1. m \in 1..(Len(q) - 1)
            BY <1>4, <2>1
        <3> QED  BY <1>2, <2>1, <3>1
    <2>2. CASE m > n
        <3>1. m - 1 \in 1..(Len(q) - 1) /\ ~(m - 1 < n) /\ (m - 1) + 1 = m /\ ~(m < n)
            BY <1>4, <2>2
        <3>2. p[m - 1] = q[m]
            BY <1>3, <3>1
        <3> QED  BY <3>1, <3>2
    <2> QED  BY <1>4, <1>5, <2>1, <2>2
<1>6. Moved(i) < Moved(j)
    BY <1>4
<1> HIDE DEF Moved
<1> QED  BY <1>1, <1>5, <1>6

-----------------------------------------------------------------------------
(* The invariant: initial states, and the queue after a step *)

USE Win32FutexAssumption

\* Everything that a thread, or a timeout on its behalf, can do.
ThreadStep(t) ==
    \/ \E a \in Addrs, timeout \in Timeouts : RtlWaitOnAddress(t, a, timeout)
    \/ \E a \in Addrs, v \in Values, k \in kinds : RtlWakeAddress(t, a, v, k)
    \/ AlertTimeout(t)
    \/ Step(t)

LEMMA NextIsThreadStep ==
    Next => UNCHANGED kinds /\ \E t \in Threads : ThreadStep(t)
BY DEF Next, ThreadStep

LEMMA EmptyContains == \A x : ~Contains(<<>>, x)
BY DEF Contains

LEMMA InitIInv == Init => IInv
<1> SUFFICES ASSUME Init PROVE IInv
    OBVIOUS
<1>1. AnyValue \in Values
    BY DEF AnyValue
<1>2. TypeOK
    BY <1>1 DEF Init, TypeOK, InWait, InWake, NoCall
<1>3. CallState
    BY DEF Init, CallState, InWait, InWake
<1>4. QueueState
    BY EmptyContains DEF Init, QueueState, InWait
<1>5. \A u \in Threads : ~alert[u] /\ ~Coming(u) /\ pc[u] = "idle" /\ entry[u] = NoAddr
    BY EmptyContains DEF Init, Coming
<1>6. AlertsAreFresh
    BY <1>5, EmptyContains DEF Init, AlertsAreFresh
<1> QED  BY <1>2, <1>3, <1>4, <1>5, <1>6, EmptyContains DEF Init, IInv, SleepersAlerted, NoMissedChange

\* Only three steps change the queue.
LEMMA QueueChange ==
    ASSUME TypeOK, CallState, QueueState, NEW t \in Threads, ThreadStep(t)
    PROVE  /\ queue' \in Seq(Threads) /\ Distinct(queue')
           /\ \/ Enqueue(t) /\ \A x : Contains(queue', x) <=> Contains(queue, x) \/ x = t
              \/ RemoveSelf(t) /\ entry[t] # NoAddr /\ \A x : Contains(queue', x) <=> Contains(queue, x) /\ x # t
              \/ Unlink(t) /\ \A x : Contains(queue', x) <=> Contains(queue, x) /\ x # victim[t]
              \/ ~Enqueue(t) /\ ~(RemoveSelf(t) /\ entry[t] # NoAddr) /\ ~Unlink(t) /\ queue' = queue
<1>1. queue \in Seq(Threads) /\ Distinct(queue)
    BY DEF TypeOK, QueueState, Distinct
<1>2. CASE Enqueue(t)
    <2>1. queue' = Append(queue, t) /\ ~Contains(queue, t)
        BY <1>2 DEF Enqueue, Goto, QueueState
    <2>2. queue' \in Seq(Threads) /\ \A x : Contains(queue', x) <=> Contains(queue, x) \/ x = t
        BY <1>1, <2>1, AppendContains
    <2>3. Distinct(queue')
        <3>1. Len(queue') = Len(queue) + 1 /\ Len(queue) \in Nat /\ queue'[Len(queue) + 1] = t
            BY <1>1, <2>1
        <3>2. DOMAIN queue = 1..Len(queue) /\ DOMAIN queue' = 1..(Len(queue) + 1)
            BY <1>1, <2>1
        <3>3. \A k \in 1..Len(queue) : queue'[k] = queue[k]
            BY <1>1, <2>1
        <3>4. \A k \in 1..Len(queue) : queue[k] # t
            BY <2>1 DEF Contains
        <3>5. \A k \in 1..(Len(queue) + 1) : k \in 1..Len(queue) \/ k = Len(queue) + 1
            BY <3>1
        <3>6. \A j, k \in 1..Len(queue) : queue[j] = queue[k] => j = k
            BY <1>1, <3>2 DEF Distinct
        <3> SUFFICES ASSUME NEW j \in 1..(Len(queue) + 1), NEW k \in 1..(Len(queue) + 1), queue'[j] = queue'[k]
                     PROVE  j = k
            BY <3>2 DEF Distinct
        <3> QED  BY <3>1, <3>3, <3>4, <3>5, <3>6, Zenon
    <2> QED  BY <1>2, <2>2, <2>3
<1>3. ASSUME NEW u, Contains(queue, u), queue' = list_remove(u)
      PROVE  /\ queue' \in Seq(Threads) /\ Distinct(queue')
             /\ \A x : Contains(queue', x) <=> Contains(queue, x) /\ x # u
    <2> DEFINE n == CHOOSE k \in DOMAIN queue : queue[k] = u
    <2>1. n \in DOMAIN queue /\ queue[n] = u
        BY <1>1, <1>3 DEF Contains
    <2>2. queue' = RemoveAt(queue, n)
        BY <1>3 DEF list_remove
    <2> HIDE DEF n
    <2> QED  BY <1>1, <2>1, <2>2, Removal
<1>4. CASE RemoveSelf(t) /\ entry[t] # NoAddr
    <2>1. Contains(queue, t)
        BY <1>4 DEF RemoveSelf, Goto, QueueState, InWait
    <2> QED  BY <1>3, <1>4, <2>1 DEF RemoveSelf
<1>5. CASE Unlink(t)
    <2>1. Contains(queue, victim[t])
        BY <1>5 DEF Unlink, Goto, QueueState
    <2> QED  BY <1>3, <1>5, <2>1 DEF Unlink
<1>6. CASE ~Enqueue(t) /\ ~(RemoveSelf(t) /\ entry[t] # NoAddr) /\ ~Unlink(t)
    <2>1. queue' = queue
        BY <1>6 DEF ThreadStep, Step, RtlWaitOnAddress, RtlWakeAddress, AlertTimeout, CompareFails, ConsumeAlert,
            SeesRemoved, SeesQueued, RemoveSelf, spin_lock, MarkRemoved, spin_unlock, NtAlertThreadByThreadId, WakeReturn
    <2> QED  BY <1>1, <1>6, <2>1
<1> QED  BY <1>2, <1>4, <1>5, <1>6

LEMMA TypeStep ==
    ASSUME TypeOK, CallState, QueueState, NEW t \in Threads, UNCHANGED kinds, ThreadStep(t)
    PROVE  TypeOK'
<1> USE DEF Goto, waitVars, wakeVars
<1>1. queue' \in Seq(Threads)
    BY QueueChange
<1>2. AnyValue \in Values
    BY DEF AnyValue
<1>3. ASSUME NEW p \in InWait \cup InWake \cup {"idle"}, pc' = [pc EXCEPT ![t] = p]
      PROVE  pc' \in [Threads -> InWait \cup InWake \cup {"idle"}]
    BY <1>3 DEF TypeOK
<1>4. ASSUME ReturnFrame(t)
      PROVE  /\ entry' \in [Threads -> Addrs \cup {NoAddr}] /\ cmp' \in [Threads -> Values]
             /\ timed' \in [Threads -> Timeouts \cup {FALSE}]
    BY <1>2, <1>4 DEF ReturnFrame, TypeOK
<1>5. CASE \E a \in Addrs, timeout \in Timeouts : RtlWaitOnAddress(t, a, timeout)
    <2>1. PICK a \in Addrs, timeout \in Timeouts : RtlWaitOnAddress(t, a, timeout)
        BY <1>5
    <2>2. entry' \in [Threads -> Addrs \cup {NoAddr}]
        BY <2>1 DEF RtlWaitOnAddress, TypeOK
    <2>3. mem[a] \in Values /\ cmp' = [cmp EXCEPT ![t] = mem[a]]
        BY <2>1 DEF RtlWaitOnAddress, TypeOK
    <2>4. cmp' \in [Threads -> Values]
        BY <2>3 DEF TypeOK
    <2>5. timed' \in [Threads -> Timeouts \cup {FALSE}]
        BY <2>1 DEF RtlWaitOnAddress, TypeOK
    <2> QED  BY <1>1, <1>3, <2>1, <2>2, <2>4, <2>5 DEF RtlWaitOnAddress, TypeOK, InWait
<1>6. CASE \E a \in Addrs, v \in Values, k \in kinds : RtlWakeAddress(t, a, v, k)
    <2>1. PICK a \in Addrs, v \in Values, k \in kinds : RtlWakeAddress(t, a, v, k)
        BY <1>6
    <2>2. [kind |-> k, addr |-> a] \in WakeCalls
        BY DEF TypeOK, WakeCalls
    <2>3. target' \in [Threads -> WakeCalls \cup {NoCall}]
        BY <2>1, <2>2 DEF RtlWakeAddress, TypeOK
    <2>4. mem' \in [Addrs -> Values] /\ wakes' \in Nat
        BY <2>1 DEF RtlWakeAddress, TypeOK
    <2> QED  BY <1>1, <1>3, <2>1, <2>3, <2>4 DEF RtlWakeAddress, TypeOK, InWake
<1>7. CASE AlertTimeout(t) \/ ConsumeAlert(t) \/ SeesQueued(t)
    <2>1. UNCHANGED <<kinds, mem, lock, queue, entry, cmp, timed, target, tids, victim, wakes>>
        BY <1>7 DEF AlertTimeout, ConsumeAlert, SeesQueued, waitVars, wakeVars
    <2>2. pc' \in [Threads -> InWait \cup InWake \cup {"idle"}]
        BY <1>1, <1>3, <1>7 DEF AlertTimeout, ConsumeAlert, SeesQueued, TypeOK, InWait
    <2>3. alert' \in [Threads -> BOOLEAN]
        BY <1>1, <1>7, ZenonT(60) DEF AlertTimeout, ConsumeAlert, SeesQueued, TypeOK
    <2> QED  BY <2>1, <2>2, <2>3 DEF TypeOK
<1>8. CASE CompareFails(t) \/ SeesRemoved(t) \/ RemoveSelf(t)
    <2>1. UNCHANGED <<kinds, mem, alert, target, tids, victim, wakes>> /\ ReturnFrame(t)
        BY <1>8 DEF CompareFails, SeesRemoved, RemoveSelf
    <2>2. pc' \in [Threads -> InWait \cup InWake \cup {"idle"}]
        BY <1>3, <1>8 DEF CompareFails, SeesRemoved, RemoveSelf
    <2>3. lock' \in Threads \cup {NoThread}
        BY <1>8 DEF CompareFails, SeesRemoved, RemoveSelf, TypeOK
    <2> QED  BY <1>1, <1>4, <2>1, <2>2, <2>3, ZenonT(60) DEF TypeOK
<1>9. CASE Enqueue(t)
    BY <1>1, <1>3, <1>9 DEF Enqueue, TypeOK, InWait
<1>10. CASE spin_lock(t) \/ spin_unlock(t)
    <2>1. UNCHANGED <<kinds, mem, alert, entry, cmp, timed, target, tids, victim, wakes>>
        BY <1>10 DEF spin_lock, spin_unlock
    <2>2. pc' \in [Threads -> InWait \cup InWake \cup {"idle"}]
        BY <1>3, <1>10 DEF spin_lock, spin_unlock, InWake
    <2>3. lock' \in Threads \cup {NoThread}
        BY <1>10 DEF spin_lock, spin_unlock, TypeOK
    <2> QED  BY <1>1, <2>1, <2>2, <2>3 DEF TypeOK
<1>11. CASE MarkRemoved(t)
    <2>1. PICK k \in DOMAIN queue : /\ victim' = [victim EXCEPT ![t] = queue[k]]
                                    /\ entry' = [entry EXCEPT ![queue[k]] = NoAddr]
        BY <1>11 DEF MarkRemoved, Matching
    <2>2. queue[k] \in Threads
        BY DEF TypeOK
    <2> QED  BY <1>1, <1>3, <1>11, <2>1, <2>2 DEF MarkRemoved, TypeOK, InWake
<1>12. CASE Unlink(t)
    <2>1. victim[t] \in Threads
        BY <1>12 DEF Unlink, TypeOK, CallState
    <2>2. Append(tids[t], victim[t]) \in Seq(Threads)
        BY <2>1 DEF TypeOK
    <2>3. tids' \in [Threads -> Seq(Threads)]
        BY <1>12, <2>2 DEF Unlink, TypeOK
    <2> QED  BY <1>1, <1>3, <1>12, <2>1, <2>3 DEF Unlink, TypeOK, InWake
<1>13. CASE NtAlertThreadByThreadId(t)
    <2>1. Tail(tids[t]) \in Seq(Threads) /\ Head(tids[t]) \in Threads
        BY <1>13 DEF NtAlertThreadByThreadId, TypeOK
    <2>2. tids' \in [Threads -> Seq(Threads)]
        BY <1>13, <2>1 DEF NtAlertThreadByThreadId, TypeOK
    <2> QED  BY <1>1, <1>3, <1>13, <2>1, <2>2 DEF NtAlertThreadByThreadId, TypeOK, InWake
<1>14. CASE WakeReturn(t)
    BY <1>1, <1>3, <1>14 DEF WakeReturn, TypeOK
<1> QED  BY <1>5, <1>6, <1>7, <1>8, <1>9, <1>10, <1>11, <1>12, <1>13, <1>14 DEF ThreadStep, Step

LEMMA CallStep ==
    ASSUME TypeOK, CallState, QueueState, NEW t \in Threads, UNCHANGED kinds, ThreadStep(t)
    PROVE  CallState'
<1> USE DEF Goto, waitVars, wakeVars
<1>0. /\ DOMAIN pc = Threads /\ DOMAIN target = Threads /\ DOMAIN tids = Threads /\ DOMAIN victim = Threads
      /\ NoThread \notin Threads
    BY DEF TypeOK
\* The general case: t neither starts nor ends a wake call.
<1>1. ASSUME UNCHANGED <<lock, target, tids, victim>>, NEW p \in InWait \cup {"idle"}, pc[t] \in InWait \cup {"idle"},
             pc' = [pc EXCEPT ![t] = p]
      PROVE  CallState'
    BY <1>0, <1>1 DEF CallState, InWait, InWake
<1>2. CASE \E a \in Addrs, timeout \in Timeouts : RtlWaitOnAddress(t, a, timeout)
    BY <1>1, <1>2 DEF RtlWaitOnAddress, InWait
<1>3. CASE \E a \in Addrs, v \in Values, k \in kinds : RtlWakeAddress(t, a, v, k)
    <2>1. PICK a \in Addrs, v \in Values, k \in kinds : RtlWakeAddress(t, a, v, k)
        BY <1>3
    <2>2. [kind |-> k, addr |-> a] \in WakeCalls
        BY DEF TypeOK, WakeCalls
    <2> QED  BY <1>0, <2>1, <2>2 DEF RtlWakeAddress, CallState, InWait, InWake
<1>4. CASE AlertTimeout(t) \/ ConsumeAlert(t) \/ SeesQueued(t) \/ Enqueue(t)
    BY <1>1, <1>4 DEF AlertTimeout, ConsumeAlert, SeesQueued, Enqueue, InWait
<1>5. CASE CompareFails(t) \/ SeesRemoved(t) \/ RemoveSelf(t)
    BY <1>1, <1>5 DEF CompareFails, SeesRemoved, RemoveSelf, InWait
<1>6. CASE spin_lock(t)
    BY <1>0, <1>6 DEF spin_lock, CallState, InWait, InWake
<1>7. CASE MarkRemoved(t)
    <2>1. PICK k \in DOMAIN queue : victim' = [victim EXCEPT ![t] = queue[k]]
        BY <1>7 DEF MarkRemoved, Matching
    <2>2. queue[k] \in Threads
        BY DEF TypeOK
    <2> QED  BY <1>0, <1>7, <2>1, <2>2 DEF MarkRemoved, CallState, InWait, InWake
<1>8. CASE Unlink(t)
    BY <1>0, <1>8 DEF Unlink, CallState, InWait, InWake
<1>9. CASE spin_unlock(t)
    BY <1>0, <1>9 DEF spin_unlock, CallState, InWait, InWake
<1>10. CASE NtAlertThreadByThreadId(t)
    BY <1>0, <1>10 DEF NtAlertThreadByThreadId, CallState, InWait, InWake
<1>11. CASE WakeReturn(t)
    BY <1>0, <1>11 DEF WakeReturn, CallState, InWait, InWake
<1> QED  BY <1>2, <1>3, <1>4, <1>5, <1>6, <1>7, <1>8, <1>9, <1>10, <1>11 DEF ThreadStep, Step

\* Where an entry is linked and what its addr field says.
LEMMA QueueStep ==
    ASSUME TypeOK, CallState, QueueState, NEW t \in Threads, UNCHANGED kinds, ThreadStep(t)
    PROVE  QueueState'
<1> USE DEF Goto, waitVars, wakeVars
<1>0. /\ DOMAIN pc = Threads /\ DOMAIN entry = Threads /\ DOMAIN victim = Threads
      /\ NoThread \notin Threads /\ NoAddr \notin Addrs
      /\ \A x : Contains(queue, x) => x \in Threads
    BY DEF TypeOK, Contains
<1>1. \A j, k \in DOMAIN queue' : queue'[j] = queue'[k] => j = k
    BY QueueChange DEF Distinct
<1> DEFINE Entry(u) ==
        /\ pc[u] = "w_lock" => ~Contains(queue, u) /\ entry[u] # NoAddr
        /\ pc[u] \notin InWait => entry[u] = NoAddr
        /\ pc[u] \in InWait \ {"w_lock"} /\ entry[u] # NoAddr => Contains(queue, u)
        /\ Contains(queue, u) /\ entry[u] = NoAddr => \E s \in Threads : victim[s] = u
        /\ pc[u] = "k_remove" => Contains(queue, victim[u]) /\ entry[victim[u]] = NoAddr
<1>2. \A u \in Threads : Entry(u)
    BY DEF QueueState
<1>3. SUFFICES ASSUME NEW u \in Threads PROVE Entry(u)'
    BY <1>1, <1>3 DEF QueueState
<1>4. Dangling = {} => \A x \in Threads : Contains(queue, x) => pc[x] \in InWait
    BY DEF Dangling
\* No wake call is between the two steps of a removal while the lock is free.
<1>6. lock = NoThread => \A s \in Threads : victim[s] = NoThread
    BY <1>0 DEF CallState
<1>7. CASE \E a \in Addrs, timeout \in Timeouts : RtlWaitOnAddress(t, a, timeout)
    BY <1>0, <1>2, <1>4, <1>7 DEF RtlWaitOnAddress, InWait
<1>8. CASE \E a \in Addrs, v \in Values, k \in kinds : RtlWakeAddress(t, a, v, k)
    BY <1>0, <1>2, <1>8 DEF RtlWakeAddress, InWait
<1>9. CASE AlertTimeout(t) \/ ConsumeAlert(t) \/ SeesQueued(t)
    BY <1>0, <1>2, <1>9 DEF AlertTimeout, ConsumeAlert, SeesQueued, InWait
<1>10. CASE CompareFails(t)
    BY <1>0, <1>2, <1>4, <1>10 DEF CompareFails, ReturnFrame, InWait
<1>11. CASE Enqueue(t)
    <2>1. \A x : Contains(queue', x) <=> Contains(queue, x) \/ x = t
        BY <1>11, QueueChange DEF Enqueue, RemoveSelf, Unlink
    <2> QED  BY <1>0, <1>2, <1>11, <2>1 DEF Enqueue, InWait
<1>12. CASE SeesRemoved(t)
    BY <1>0, <1>2, <1>12 DEF SeesRemoved, ReturnFrame, InWait
<1>13. CASE RemoveSelf(t)
    <2>1. CASE entry[t] = NoAddr
        BY <1>0, <1>2, <1>6, <1>13, <2>1 DEF RemoveSelf, ReturnFrame, InWait
    <2>2. CASE entry[t] # NoAddr
        <3>1. \A x : Contains(queue', x) <=> Contains(queue, x) /\ x # t
            BY <1>13, <2>2, QueueChange DEF Enqueue, RemoveSelf, Unlink
        <3> QED  BY <1>0, <1>2, <1>6, <1>13, <2>2, <3>1 DEF RemoveSelf, ReturnFrame, InWait
    <2> QED  BY <2>1, <2>2
<1>14. CASE spin_lock(t) \/ spin_unlock(t)
    BY <1>0, <1>2, <1>14 DEF spin_lock, spin_unlock, InWait
<1>15. CASE MarkRemoved(t)
    <2>1. PICK k \in DOMAIN queue : /\ victim' = [victim EXCEPT ![t] = queue[k]]
                                    /\ entry' = [entry EXCEPT ![queue[k]] = NoAddr]
        BY <1>15 DEF MarkRemoved, Matching
    <2>2. queue[k] \in Threads /\ Contains(queue, queue[k])
        BY DEF TypeOK, Contains
    <2>3. PICK w \in Threads : /\ Contains(queue, w) /\ victim' = [victim EXCEPT ![t] = w]
                               /\ entry' = [entry EXCEPT ![w] = NoAddr]
        BY <2>1, <2>2
    <2>4. victim[t] = NoThread
        BY <1>15 DEF MarkRemoved, CallState
    <2> QED  BY <1>0, <1>2, <1>4, <1>15, <2>3, <2>4 DEF MarkRemoved, InWait
<1>16. CASE Unlink(t)
    <2>1. \A x : Contains(queue', x) <=> Contains(queue, x) /\ x # victim[t]
        BY <1>16, QueueChange DEF Enqueue, RemoveSelf, Unlink
    <2>2. \A s \in Threads : victim[s] # NoThread => s = t
        BY <1>0, <1>16 DEF Unlink, CallState
    <2> QED  BY <1>0, <1>2, <1>4, <1>16, <2>1, <2>2 DEF Unlink, InWait
<1>17. CASE NtAlertThreadByThreadId(t) \/ WakeReturn(t)
    BY <1>0, <1>2, <1>17 DEF NtAlertThreadByThreadId, WakeReturn, InWait
<1> QED  BY <1>7, <1>8, <1>9, <1>10, <1>11, <1>12, <1>13, <1>14, <1>15, <1>16, <1>17 DEF ThreadStep, Step

-----------------------------------------------------------------------------
(* The invariant: alerts *)

\* What a step does to the wake-ups that are on their way.
LEMMA TidsChange ==
    ASSUME TypeOK, CallState, NEW t \in Threads, ThreadStep(t)
    PROVE  \/ /\ Unlink(t) /\ victim[t] \in Threads /\ victim' = [victim EXCEPT ![t] = NoThread]
              /\ \A s \in Threads \ {t} : tids'[s] = tids[s]
              /\ \/ alert' = alert /\ \A x : Contains(tids'[t], x) <=> Contains(tids[t], x) \/ x = victim[t]
                 \/ alert' = [alert EXCEPT ![victim[t]] = TRUE] /\ tids' = tids
           \/ /\ NtAlertThreadByThreadId(t) /\ victim' = victim /\ Head(tids[t]) \in Threads
              /\ alert' = [alert EXCEPT ![Head(tids[t])] = TRUE]
              /\ \A s \in Threads \ {t} : tids'[s] = tids[s]
              /\ \A x : Contains(tids[t], x) <=> Contains(tids'[t], x) \/ x = Head(tids[t])
           \/ ~Unlink(t) /\ ~NtAlertThreadByThreadId(t) /\ tids' = tids
<1> USE DEF Goto, waitVars, wakeVars
<1>1. CASE Unlink(t)
    <2>1. victim[t] \in Threads /\ tids[t] \in Seq(Threads) /\ DOMAIN tids = Threads
        BY <1>1 DEF Unlink, TypeOK, CallState
    <2>2. CASE tids' = [tids EXCEPT ![t] = Append(tids[t], victim[t])] /\ alert' = alert
        <3>1. \A x : Contains(tids'[t], x) <=> Contains(tids[t], x) \/ x = victim[t]
            BY <2>1, <2>2, AppendContains
        <3> QED  BY <1>1, <2>1, <2>2, <3>1 DEF Unlink
    <2>3. CASE tids' = tids /\ alert' = [alert EXCEPT ![victim[t]] = TRUE]
        BY <1>1, <2>1, <2>3 DEF Unlink
    <2> QED  BY <1>1, <2>2, <2>3 DEF Unlink
<1>2. CASE NtAlertThreadByThreadId(t)
    <2>1. tids[t] \in Seq(Threads) /\ DOMAIN tids = Threads /\ tids[t] # <<>>
        BY <1>2 DEF NtAlertThreadByThreadId, TypeOK
    <2>2. tids'[t] = Tail(tids[t])
        BY <1>2, <2>1 DEF NtAlertThreadByThreadId
    <2>3. Head(tids[t]) \in Threads /\ \A x : Contains(tids[t], x) <=> Contains(tids'[t], x) \/ x = Head(tids[t])
        BY <2>1, <2>2, TailContains
    <2> QED  BY <1>2, <2>1, <2>3 DEF NtAlertThreadByThreadId
<1>3. CASE ~Unlink(t) /\ ~NtAlertThreadByThreadId(t)
    BY <1>3 DEF ThreadStep, Step, RtlWaitOnAddress, RtlWakeAddress, AlertTimeout, CompareFails, Enqueue, ConsumeAlert,
        SeesRemoved, SeesQueued, RemoveSelf, spin_lock, MarkRemoved, spin_unlock, WakeReturn
<1> QED  BY <1>1, <1>2, <1>3

\* A waiter whose entry was taken has an alert, or one is coming.
LEMMA AlertedStep ==
    ASSUME TypeOK, CallState, QueueState, SleepersAlerted, NEW t \in Threads, UNCHANGED kinds, ThreadStep(t)
    PROVE  SleepersAlerted'
<1> USE DEF Goto, waitVars, wakeVars
<1>0. /\ DOMAIN pc = Threads /\ DOMAIN entry = Threads /\ DOMAIN victim = Threads /\ DOMAIN alert = Threads
      /\ NoThread \notin Threads
    BY DEF TypeOK
<1> SUFFICES ASSUME NEW u \in Threads, pc'[u] = "w_sleep", entry'[u] = NoAddr
             PROVE  alert'[u] \/ Coming(u)'
    BY DEF SleepersAlerted
<1>1. pc[u] = "w_sleep" /\ entry[u] = NoAddr => alert[u] \/ Coming(u)
    BY DEF SleepersAlerted
<1>2. ASSUME UNCHANGED <<alert, tids, victim>>, pc[u] = "w_sleep", entry[u] = NoAddr
      PROVE  alert'[u] \/ Coming(u)'
    BY <1>1, <1>2 DEF Coming
<1>3. CASE \E a \in Addrs, timeout \in Timeouts : RtlWaitOnAddress(t, a, timeout)
    BY <1>0, <1>2, <1>3 DEF RtlWaitOnAddress
<1>4. CASE \E a \in Addrs, v \in Values, k \in kinds : RtlWakeAddress(t, a, v, k)
    BY <1>0, <1>2, <1>4 DEF RtlWakeAddress
<1>5. CASE AlertTimeout(t) \/ SeesQueued(t)
    BY <1>0, <1>2, <1>5 DEF AlertTimeout, SeesQueued
<1>6. CASE ConsumeAlert(t)
    <2>1. u # t /\ alert'[u] = alert[u] /\ UNCHANGED <<tids, victim, entry>> /\ pc'[u] = pc[u]
        BY <1>0, <1>6 DEF ConsumeAlert
    <2> QED  BY <1>1, <2>1 DEF Coming
<1>7. CASE CompareFails(t) \/ SeesRemoved(t) \/ RemoveSelf(t)
    BY <1>0, <1>2, <1>7 DEF CompareFails, SeesRemoved, RemoveSelf, ReturnFrame
<1>8. CASE Enqueue(t)
    <2>1. u # t
        BY <1>8 DEF Enqueue, QueueState
    <2> QED  BY <1>0, <1>2, <1>8, <2>1 DEF Enqueue
<1>9. CASE spin_lock(t) \/ spin_unlock(t) \/ WakeReturn(t)
    BY <1>0, <1>2, <1>9 DEF spin_lock, spin_unlock, WakeReturn
<1>10. CASE MarkRemoved(t)
    <2>1. PICK k \in DOMAIN queue : /\ victim' = [victim EXCEPT ![t] = queue[k]]
                                    /\ entry' = [entry EXCEPT ![queue[k]] = NoAddr]
        BY <1>10 DEF MarkRemoved, Matching
    <2>2. queue[k] \in Threads /\ victim[t] = NoThread /\ UNCHANGED <<alert, tids>> /\ pc[u] = "w_sleep"
        BY <1>0, <1>10 DEF MarkRemoved, TypeOK, CallState
    <2>3. CASE u = queue[k]
        BY <1>0, <2>1, <2>2, <2>3 DEF Coming
    <2>4. CASE u # queue[k]
        <3>1. entry[u] = NoAddr
            BY <1>0, <2>1, <2>2, <2>4
        <3> QED  BY <1>0, <1>1, <2>1, <2>2, <3>1 DEF Coming
    <2> QED  BY <2>3, <2>4
<1>11. CASE Unlink(t)
    <2>1. pc[u] = "w_sleep" /\ entry[u] = NoAddr /\ ~NtAlertThreadByThreadId(t)
        BY <1>0, <1>11 DEF Unlink, NtAlertThreadByThreadId
    <2>2. CASE alert[u]
        BY <1>0, <1>11, <2>2 DEF Unlink
    <2>3. CASE u = victim[t]
        BY <1>0, <1>11, <2>1, <2>3, TidsChange DEF Coming
    <2>4. CASE \E s \in Threads : (victim[s] = u /\ s # t) \/ Contains(tids[s], u)
        <3>1. PICK s \in Threads : (victim[s] = u /\ s # t) \/ Contains(tids[s], u)
            BY <2>4
        <3>2. victim'[s] = u \/ Contains(tids'[s], u)
            BY <1>0, <1>11, <2>1, <3>1, TidsChange
        <3> QED  BY <3>2 DEF Coming
    <2> QED  BY <1>1, <2>1, <2>2, <2>3, <2>4 DEF Coming
<1>12. CASE NtAlertThreadByThreadId(t)
    <2>1. pc[u] = "w_sleep" /\ entry[u] = NoAddr /\ ~Unlink(t)
        BY <1>0, <1>12 DEF Unlink, NtAlertThreadByThreadId
    <2>2. CASE alert[u]
        BY <1>0, <1>12, <2>2 DEF NtAlertThreadByThreadId
    <2>3. CASE Coming(u)
        <3>1. PICK s \in Threads : victim[s] = u \/ Contains(tids[s], u)
            BY <2>3 DEF Coming
        <3>2. victim'[s] = u \/ Contains(tids'[s], u) \/ alert'[u]
            BY <1>0, <1>12, <2>1, <3>1, TidsChange
        <3> QED  BY <3>2 DEF Coming
    <2> QED  BY <1>1, <2>1, <2>2, <2>3
<1> QED  BY <1>3, <1>4, <1>5, <1>6, <1>7, <1>8, <1>9, <1>10, <1>11, <1>12 DEF ThreadStep, Step

\* In a program that calls RtlWakeAddressAll after every change, a change that
\* a queued waiter has not seen has a scan ahead of it.
LEMMA MissedStep ==
    ASSUME TypeOK, CallState, QueueState, NoMissedChange, NEW t \in Threads, UNCHANGED kinds, ThreadStep(t)
    PROVE  NoMissedChange'
<1> USE DEF Goto, waitVars, wakeVars
<1>0. /\ DOMAIN pc = Threads /\ DOMAIN entry = Threads /\ DOMAIN target = Threads /\ DOMAIN mem = Addrs
      /\ DOMAIN cmp = Threads /\ NoThread \notin Threads /\ NoAddr \notin Addrs
      /\ \A x : Contains(queue, x) => x \in Threads
      /\ \A x \in Threads : entry[x] # NoAddr => entry[x] \in Addrs
    BY DEF TypeOK, Contains
<1> DEFINE Scanning(s, a) == pc[s] \in {"k_lock", "k_scan", "k_remove"} /\ target[s].addr = a
           Missed(u) == Contains(queue, u) /\ entry[u] # NoAddr /\ mem[entry[u]] # cmp[u]
<1> SUFFICES ASSUME kinds = {"all"}, NEW u \in Threads, Missed(u)'
             PROVE  \E s \in Threads : Scanning(s, entry[u])'
    BY DEF NoMissedChange
<1>1. Missed(u) => \E s \in Threads : Scanning(s, entry[u])
    BY DEF NoMissedChange
<1>2. Dangling = {} /\ pc[t] \notin InWait => ~Contains(queue, t)
    BY DEF Dangling
<1>3. CASE \E a \in Addrs, timeout \in Timeouts : RtlWaitOnAddress(t, a, timeout)
    <2>1. u # t
        BY <1>2, <1>3 DEF RtlWaitOnAddress, InWait
    <2> QED  BY <1>0, <1>1, <1>3, <2>1 DEF RtlWaitOnAddress
<1>4. CASE \E a \in Addrs, v \in Values, k \in kinds : RtlWakeAddress(t, a, v, k)
    <2>1. PICK a \in Addrs, v \in Values, k \in kinds : RtlWakeAddress(t, a, v, k)
        BY <1>4
    <2>2. pc'[t] = "k_lock" /\ target'[t].addr = a /\ entry' = entry /\ pc[t] = "idle"
        BY <1>0, <2>1 DEF RtlWakeAddress
    <2>3. CASE entry[u] = a
        BY <2>2, <2>3
    <2>4. CASE entry[u] # a
        <3>1. Missed(u)
            BY <1>0, <2>1, <2>4 DEF RtlWakeAddress
        <3>2. PICK s \in Threads : Scanning(s, entry[u])
            BY <1>1, <3>1
        <3>3. s # t /\ pc'[s] = pc[s] /\ target'[s] = target[s]
            BY <1>0, <2>1, <2>2, <3>2 DEF RtlWakeAddress
        <3> QED  BY <2>2, <3>2, <3>3
    <2> QED  BY <2>3, <2>4
<1>5. CASE AlertTimeout(t) \/ ConsumeAlert(t) \/ SeesQueued(t)
    BY <1>0, <1>1, <1>5 DEF AlertTimeout, ConsumeAlert, SeesQueued
<1>6. CASE CompareFails(t) \/ SeesRemoved(t)
    BY <1>0, <1>1, <1>6 DEF CompareFails, SeesRemoved, ReturnFrame
<1>7. CASE RemoveSelf(t)
    <2>1. Contains(queue, u)
        BY <1>7, QueueChange DEF RemoveSelf, Enqueue, Unlink
    <2>2. u # t
        BY <1>0, <1>7 DEF RemoveSelf, ReturnFrame
    <2> QED  BY <1>0, <1>1, <1>7, <2>1, <2>2 DEF RemoveSelf, ReturnFrame
<1>8. CASE Enqueue(t)
    <2>1. Contains(queue, u) \/ u = t
        BY <1>8, QueueChange DEF RemoveSelf, Enqueue, Unlink
    <2>2. u # t
        BY <1>8 DEF Enqueue
    <2> QED  BY <1>0, <1>1, <1>8, <2>1, <2>2 DEF Enqueue
<1>9. CASE spin_lock(t)
    BY <1>0, <1>1, <1>9 DEF spin_lock
<1>10. CASE MarkRemoved(t)
    <2>1. PICK k \in DOMAIN queue : entry' = [entry EXCEPT ![queue[k]] = NoAddr]
        BY <1>10 DEF MarkRemoved, Matching
    <2>2. u # queue[k] /\ entry'[u] = entry[u]
        BY <1>0, <2>1 DEF TypeOK
    <2> QED  BY <1>0, <1>1, <1>10, <2>2 DEF MarkRemoved
<1>11. CASE Unlink(t)
    <2>1. Contains(queue, u)
        BY <1>11, QueueChange DEF RemoveSelf, Enqueue, Unlink
    <2> QED  BY <1>0, <1>1, <1>11, <2>1 DEF Unlink
<1>12. CASE spin_unlock(t)
    <2>1. target[t].kind = "all"
        BY <1>12 DEF spin_unlock, CallState, InWake
    <2>2. target[t].addr # entry[u]
        <3>1. PICK k \in DOMAIN queue : queue[k] = u
            BY <1>12 DEF spin_unlock, Contains, TypeOK
        <3>2. k \notin Matching(target[t].addr)
            BY <1>12, <2>1 DEF spin_unlock, WantsMore
        <3> QED  BY <3>1, <3>2 DEF Matching
    <2>3. PICK s \in Threads : Scanning(s, entry[u])
        BY <1>1, <1>12 DEF spin_unlock
    <2> QED  BY <1>0, <1>12, <2>2, <2>3 DEF spin_unlock
<1>13. CASE NtAlertThreadByThreadId(t) \/ WakeReturn(t)
    BY <1>0, <1>1, <1>13 DEF NtAlertThreadByThreadId, WakeReturn
<1> QED  BY <1>3, <1>4, <1>5, <1>6, <1>7, <1>8, <1>9, <1>10, <1>11, <1>12, <1>13 DEF ThreadStep, Step

\* No thread id is buffered twice.
Unrepeated(ids) ==
    \A r, s \in Threads : \A j \in DOMAIN ids[r], k \in DOMAIN ids[s] : ids[r][j] = ids[s][k] => r = s /\ j = k

LEMMA UnrepeatedAppend ==
    ASSUME NEW ids \in [Threads -> Seq(Threads)], NEW t \in Threads, NEW u \in Threads, Unrepeated(ids),
           \A s \in Threads : ~Contains(ids[s], u)
    PROVE  Unrepeated([ids EXCEPT ![t] = Append(@, u)])
<1> DEFINE new == [ids EXCEPT ![t] = Append(@, u)]
<1> SUFFICES ASSUME NEW r \in Threads, NEW s \in Threads, NEW j \in DOMAIN new[r], NEW k \in DOMAIN new[s],
                    new[r][j] = new[s][k]
             PROVE  r = s /\ j = k
    BY DEF Unrepeated
<1>1. \A x \in Threads : x # t => new[x] = ids[x]
    OBVIOUS
<1>2. new[t] = Append(ids[t], u)
    OBVIOUS
<1>3. \A x \in Threads : \A m \in DOMAIN ids[x] : ids[x][m] # u
    BY DEF Contains
<1>4. DOMAIN ids[t] = 1..Len(ids[t]) /\ Len(ids[t]) \in Nat
    OBVIOUS
<1>5. DOMAIN new[t] = 1..(Len(ids[t]) + 1) /\ new[t][Len(ids[t]) + 1] = u
    BY <1>2
<1>6. \A m \in 1..Len(ids[t]) : new[t][m] = ids[t][m]
    BY <1>2
<1> HIDE DEF new
<1>7. ASSUME NEW x \in Threads, NEW m \in DOMAIN new[x]
      PROVE  \/ m \in DOMAIN ids[x] /\ new[x][m] = ids[x][m] /\ new[x][m] # u
             \/ x = t /\ m = Len(ids[t]) + 1 /\ new[x][m] = u
    <2>1. CASE x # t
        BY <1>1, <1>3, <2>1
    <2>2. CASE x = t
        <3>1. m \in 1..Len(ids[t]) \/ m = Len(ids[t]) + 1
            BY <1>4, <1>5, <2>2
        <3> QED  BY <1>3, <1>4, <1>5, <1>6, <2>2, <3>1
    <2> QED  BY <2>1, <2>2
<1>8. CASE new[r][j] = u
    BY <1>7, <1>8
<1>9. CASE new[r][j] # u
    <2>1. j \in DOMAIN ids[r] /\ k \in DOMAIN ids[s] /\ ids[r][j] = ids[s][k]
        BY <1>7, <1>9
    <2> QED  BY <2>1 DEF Unrepeated
<1> QED  BY <1>8, <1>9

LEMMA UnrepeatedTail ==
    ASSUME NEW ids \in [Threads -> Seq(Threads)], NEW t \in Threads, Unrepeated(ids), ids[t] # <<>>
    PROVE  /\ Unrepeated([ids EXCEPT ![t] = Tail(@)])
           /\ \A s \in Threads : ~Contains([ids EXCEPT ![t] = Tail(@)][s], Head(ids[t]))
<1> DEFINE new == [ids EXCEPT ![t] = Tail(@)]
           At(x, m) == IF x = t THEN m + 1 ELSE m
<1>1. \A x \in Threads : x # t => new[x] = ids[x]
    OBVIOUS
<1>2. new[t] = Tail(ids[t]) /\ ids[t] \in Seq(Threads)
    OBVIOUS
<1>3. DOMAIN ids[t] = 1..Len(ids[t]) /\ Len(ids[t]) \in Nat \ {0} /\ Head(ids[t]) = ids[t][1]
    BY <1>2
<1>4. DOMAIN new[t] = 1..(Len(ids[t]) - 1) /\ \A m \in 1..(Len(ids[t]) - 1) : new[t][m] = ids[t][m + 1]
    BY <1>2
<1>5. \A x \in Threads : new[x] \in Seq(Threads)
    BY <1>2
<1> HIDE DEF new
<1>6. ASSUME NEW x \in Threads, NEW m \in DOMAIN new[x]
      PROVE  At(x, m) \in DOMAIN ids[x] /\ ids[x][At(x, m)] = new[x][m] /\ (x = t => At(x, m) # 1 /\ m \in Nat)
    <2>1. CASE x # t
        BY <1>1, <2>1
    <2>2. CASE x = t
        <3>1. m \in 1..(Len(ids[t]) - 1)
            BY <1>4, <2>2
        <3>2. m + 1 \in 1..Len(ids[t]) /\ m + 1 # 1 /\ m \in Nat
            BY <1>3, <3>1
        <3>3. new[t][m] = ids[t][m + 1]
            BY <1>4, <3>1, Zenon
        <3> QED  BY <1>3, <2>2, <3>2, <3>3
    <2> QED  BY <2>1, <2>2
<1> HIDE DEF At
<1>7. Unrepeated(new)
    <2> SUFFICES ASSUME NEW r \in Threads, NEW s \in Threads, NEW j \in DOMAIN new[r], NEW k \in DOMAIN new[s],
                        new[r][j] = new[s][k]
                 PROVE  r = s /\ j = k
        BY DEF Unrepeated
    <2>1. ids[r][At(r, j)] = ids[s][At(s, k)] /\ At(r, j) \in DOMAIN ids[r] /\ At(s, k) \in DOMAIN ids[s]
        BY <1>6
    <2>2. r = s /\ At(r, j) = At(s, k)
        BY <2>1 DEF Unrepeated
    <2>3. CASE r = t
        BY <1>6, <2>2, <2>3 DEF At
    <2>4. CASE r # t
        BY <2>2, <2>4 DEF At
    <2> QED  BY <2>3, <2>4
<1>8. ASSUME NEW s \in Threads, Contains(new[s], Head(ids[t])) PROVE FALSE
    <2>1. PICK k \in DOMAIN new[s] : new[s][k] = Head(ids[t])
        BY <1>5, <1>8 DEF Contains
    <2>2. ids[s][At(s, k)] = ids[t][1] /\ At(s, k) \in DOMAIN ids[s] /\ 1 \in DOMAIN ids[t]
        BY <1>3, <1>6, <2>1
    <2>3. s = t /\ At(s, k) = 1
        BY <2>2 DEF Unrepeated
    <2> QED  BY <1>6, <2>3
<1> QED  BY <1>7, <1>8 DEF new

\* Without timeouts no alert outlives the wait it was meant for.
LEMMA FreshStep ==
    ASSUME TypeOK, CallState, QueueState, AlertsAreFresh, NEW t \in Threads, UNCHANGED kinds, ThreadStep(t)
    PROVE  AlertsAreFresh'
<1> USE DEF Goto, waitVars, wakeVars
<1> SUFFICES ASSUME TRUE \notin Timeouts PROVE AlertsAreFresh'
    BY DEF AlertsAreFresh
<1>0. /\ DOMAIN pc = Threads /\ DOMAIN entry = Threads /\ DOMAIN victim = Threads /\ DOMAIN alert = Threads
      /\ NoThread \notin Threads /\ NoAddr \notin Addrs
      /\ tids \in [Threads -> Seq(Threads)] /\ tids' \in [Threads -> Seq(Threads)]
    BY TypeStep DEF TypeOK
<1> DEFINE Fresh(u) ==
        /\ alert[u] \/ Coming(u) => pc[u] = "w_sleep" /\ entry[u] = NoAddr
        /\ pc[u] \in {"w_check", "w_relock"} => entry[u] = NoAddr
        /\ ~(alert[u] /\ Coming(u))
<1>1. /\ \A u \in Threads : Fresh(u)
      /\ \A r, s \in Threads : ~Contains(tids[r], victim[s])
      /\ Unrepeated(tids)
    BY DEF AlertsAreFresh, Unrepeated
<1>2. SUFFICES /\ \A u \in Threads : Fresh(u)'
               /\ \A r, s \in Threads : ~Contains(tids'[r], victim'[s])
               /\ Unrepeated(tids')
    BY <1>2 DEF AlertsAreFresh, Unrepeated
<1>3. \A s \in Threads : ~Contains(tids'[s], NoThread)
    BY <1>0 DEF Contains
<1>4. ~AlertTimeout(t)
    BY DEF AlertTimeout, TypeOK
\* The general case: no wake-up starts, moves or ends.
<1>5. ASSUME UNCHANGED <<alert, tids, victim>>,
             \A u \in Threads : \/ pc'[u] = pc[u] /\ entry'[u] = entry[u]
                                \/ pc[u] # "w_sleep" /\ (pc'[u] \in {"w_check", "w_relock"} => entry'[u] = NoAddr)
      PROVE  /\ \A u \in Threads : Fresh(u)'
             /\ \A r, s \in Threads : ~Contains(tids'[r], victim'[s])
             /\ Unrepeated(tids')
    BY <1>1, <1>5 DEF Coming
<1>6. CASE \E a \in Addrs, timeout \in Timeouts : RtlWaitOnAddress(t, a, timeout)
    BY <1>0, <1>5, <1>6 DEF RtlWaitOnAddress
<1>7. CASE \E a \in Addrs, v \in Values, k \in kinds : RtlWakeAddress(t, a, v, k)
    BY <1>0, <1>5, <1>7 DEF RtlWakeAddress
<1>8. CASE ConsumeAlert(t)
    <2>1. UNCHANGED <<entry, tids, victim>> /\ alert[t] /\ ~alert'[t] /\ pc'[t] = "w_check"
        BY <1>0, <1>8 DEF ConsumeAlert
    <2>2. \A u \in Threads \ {t} : alert'[u] = alert[u] /\ pc'[u] = pc[u]
        BY <1>0, <1>8 DEF ConsumeAlert
    <2>3. \A u \in Threads : Coming(u)' = Coming(u)
        BY <2>1 DEF Coming
    <2>4. ~Coming(t) /\ entry[t] = NoAddr
        BY <1>1, <2>1
    <2> QED  BY <1>1, <2>1, <2>2, <2>3, <2>4
<1>9. CASE SeesQueued(t) \/ SeesRemoved(t)
    BY <1>0, <1>1, <1>5, <1>9 DEF SeesQueued, SeesRemoved, ReturnFrame
<1>10. CASE CompareFails(t) \/ RemoveSelf(t)
    BY <1>0, <1>5, <1>10 DEF CompareFails, RemoveSelf, ReturnFrame
<1>11. CASE Enqueue(t)
    BY <1>0, <1>5, <1>11 DEF Enqueue
<1>12. CASE spin_lock(t) \/ spin_unlock(t) \/ WakeReturn(t)
    BY <1>0, <1>5, <1>12 DEF spin_lock, spin_unlock, WakeReturn
<1>13. CASE MarkRemoved(t)
    <2>1. PICK k \in Matching(target[t].addr) : /\ victim' = [victim EXCEPT ![t] = queue[k]]
                                                /\ entry' = [entry EXCEPT ![queue[k]] = NoAddr]
        BY <1>13 DEF MarkRemoved
    <2>2. queue[k] \in Threads /\ Contains(queue, queue[k]) /\ entry[queue[k]] = target[t].addr
        BY DEF Matching, TypeOK, Contains
    <2>3. target[t].addr \in Addrs
        BY <1>13 DEF MarkRemoved, CallState, InWake, WakeCalls
    <2>4. PICK w \in Threads : /\ victim' = [victim EXCEPT ![t] = w] /\ entry' = [entry EXCEPT ![w] = NoAddr]
                               /\ Contains(queue, w) /\ entry[w] # NoAddr
        BY <1>0, <2>1, <2>2, <2>3
    <2>5. ~alert[w] /\ ~Coming(w) /\ pc[w] = "w_sleep"
        BY <1>1, <1>13, <2>4 DEF MarkRemoved, Dangling, QueueState, InWait
    <2>6. UNCHANGED <<alert, tids>> /\ victim[t] = NoThread /\ \A u \in Threads : u # t => pc'[u] = pc[u]
        BY <1>0, <1>13 DEF MarkRemoved, CallState
    <2>7. \A u \in Threads : Coming(u)' => Coming(u) \/ u = w
        BY <1>0, <2>4, <2>6 DEF Coming
    <2>8. pc[t] = "k_scan" /\ pc'[t] = "k_remove" /\ w # t
        BY <1>0, <1>13, <2>5 DEF MarkRemoved
    <2>9. \A u \in Threads : Fresh(u)'
        BY <1>0, <1>1, <2>4, <2>5, <2>6, <2>7, <2>8
    <2>10. \A r, s \in Threads : ~Contains(tids'[r], victim'[s])
        BY <1>0, <1>1, <2>4, <2>5, <2>6 DEF Coming
    <2> QED  BY <1>1, <2>6, <2>9, <2>10
<1>14. CASE Unlink(t)
    <2>1. ~NtAlertThreadByThreadId(t) /\ pc[t] = "k_remove" /\ pc' = [pc EXCEPT ![t] = "k_scan"] /\ entry' = entry
        BY <1>0, <1>14 DEF Unlink, NtAlertThreadByThreadId
    <2>2. victim[t] \in Threads /\ \A s \in Threads : victim'[s] = NoThread /\ (s # t => victim[s] = NoThread)
        BY <1>0, <1>14 DEF Unlink, CallState, TypeOK
    <2>3. \A r, s \in Threads : ~Contains(tids'[r], victim'[s])
        BY <1>3, <2>2
    <2>4. \A u \in Threads : Coming(u)' => Coming(u)
        BY <1>14, <2>1, <2>2, TidsChange DEF Coming
    <2>5. Coming(victim[t]) /\ \A s \in Threads : ~Contains(tids[s], victim[t])
        BY <1>1, <2>2 DEF Coming
    <2>6. CASE alert' = alert /\ tids' = [tids EXCEPT ![t] = Append(tids[t], victim[t])]
        <3>1. Unrepeated(tids')
            BY <1>0, <1>1, <2>2, <2>5, <2>6, UnrepeatedAppend
        <3> QED  BY <1>0, <1>1, <2>1, <2>3, <2>4, <2>6, <3>1
    <2>7. CASE tids' = tids /\ alert' = [alert EXCEPT ![victim[t]] = TRUE]
        <3>1. PICK w \in Threads : w = victim[t]
            BY <2>2
        <3>2. Coming(w) /\ ~Coming(w)'
            BY <1>0, <2>2, <2>5, <2>7, <3>1 DEF Coming
        <3>3. \A u \in Threads : Fresh(u)'
            BY <1>0, <1>1, <2>1, <2>4, <2>7, <3>1, <3>2
        <3> QED  BY <1>1, <2>3, <2>7, <3>3
    <2> QED  BY <1>14, <2>6, <2>7 DEF Unlink
<1>15. CASE NtAlertThreadByThreadId(t)
    <2>1. /\ UNCHANGED <<victim, entry>> /\ tids' = [tids EXCEPT ![t] = Tail(@)] /\ tids[t] # <<>>
          /\ alert' = [alert EXCEPT ![Head(tids[t])] = TRUE] /\ \A u \in Threads : pc'[u] = pc[u]
        BY <1>0, <1>15 DEF NtAlertThreadByThreadId
    <2>2. Unrepeated(tids') /\ \A s \in Threads : ~Contains(tids'[s], Head(tids[t]))
        BY <1>0, <1>1, <2>1, UnrepeatedTail
    <2>3. Head(tids[t]) \in Threads /\ Contains(tids[t], Head(tids[t]))
        BY <1>0, <2>1, TailContains
    <2>4. \A s \in Threads : \A x : Contains(tids'[s], x) => Contains(tids[s], x)
        BY <1>15, TidsChange DEF Unlink, NtAlertThreadByThreadId
    <2>5. \A u \in Threads : Coming(u)' => Coming(u)
        BY <2>1, <2>4 DEF Coming
    <2>6. PICK h \in Threads : h = Head(tids[t])
        BY <2>3
    <2>7. Coming(h) /\ ~Coming(h)'
        BY <1>1, <2>1, <2>2, <2>3, <2>6 DEF Coming
    <2>8. \A u \in Threads : Fresh(u)'
        BY <1>0, <1>1, <2>1, <2>5, <2>6, <2>7
    <2> QED  BY <1>1, <2>1, <2>2, <2>4, <2>8
<1> QED  BY <1>4, <1>6, <1>7, <1>8, <1>9, <1>10, <1>11, <1>12, <1>13, <1>14, <1>15 DEF ThreadStep, Step

-----------------------------------------------------------------------------
(* The invariant and the safety properties *)

LEMMA StutterIInv == IInv /\ UNCHANGED vars => IInv'
<1> SUFFICES ASSUME IInv, UNCHANGED vars PROVE IInv'
    OBVIOUS
<1>1. TypeOK' /\ CallState' /\ QueueState'
    BY DEF IInv, vars, TypeOK, CallState, QueueState
<1>2. SleepersAlerted' /\ AlertsAreFresh'
    <2>1. UNCHANGED <<pc, entry, alert, victim, tids>>
        BY DEF vars
    <2>2. \A u \in Threads : Coming(u)' = Coming(u)
        BY <2>1 DEF Coming
    <2>3. SleepersAlerted'
        BY <2>1, <2>2 DEF IInv, SleepersAlerted
    <2>4. AlertsAreFresh'
        BY <2>1, <2>2 DEF IInv, AlertsAreFresh
    <2> QED  BY <2>3, <2>4
<1>3. NoMissedChange'
    BY DEF IInv, vars, NoMissedChange
<1> QED  BY <1>1, <1>2, <1>3 DEF IInv

\* The inductive invariant holds of every behaviour.
THEOREM Invariant == Spec => []IInv
<1>1. IInv /\ [Next]_vars => IInv'
    <2> SUFFICES ASSUME IInv, [Next]_vars PROVE IInv'
        OBVIOUS
    <2>1. CASE UNCHANGED vars
        BY <2>1, StutterIInv
    <2>2. CASE Next
        <3>1. PICK t \in Threads : ThreadStep(t)
            BY <2>2, NextIsThreadStep
        <3>2. UNCHANGED kinds
            BY <2>2, NextIsThreadStep
        <3> QED  BY <3>1, <3>2, TypeStep, CallStep, QueueStep, AlertedStep, FreshStep, MissedStep DEF IInv
    <2> QED  BY <2>1, <2>2
<1> QED  BY <1>1, InitIInv, PTL DEF Spec

\* The fields of futex_queue and futex_entry keep their types.
THEOREM TypeCorrect == Spec => []TypeOK
BY Invariant, PTL DEF IInv

\* RtlWaitOnAddress never sleeps on when a wake call has taken its entry: the
\* alert is set, or a wake call is about to send it.
THEOREM WakersAlertWaiters == Spec => []NoStrandedWaiter
<1>1. IInv => NoStrandedWaiter
    <2> SUFFICES ASSUME IInv, NEW u \in Threads, pc[u] = "w_sleep"
                 PROVE  \/ Contains(queue, u) /\ entry[u] # NoAddr
                        \/ alert[u]
                        \/ \E t \in Threads : victim[t] = u \/ Contains(tids[t], u)
        BY DEF NoStrandedWaiter
    <2>1. CASE entry[u] = NoAddr
        BY <2>1 DEF IInv, SleepersAlerted, Coming
    <2>2. CASE entry[u] # NoAddr
        BY <2>2 DEF IInv, QueueState, InWait
    <2> QED  BY <2>1, <2>2
<1> QED  BY <1>1, Invariant, PTL

\* When every store is followed by RtlWakeAddressAll, no waiter stays queued on
\* a value that is gone without a wake call that is still to scan the queue.
THEOREM NoChangeIsMissed == Spec => []NoMissedChange
BY Invariant, PTL DEF IInv

\* The dangling list entry needs a timeout: in a program whose waits have none
\* the entries linked in futex_queue are on the stacks of waiting threads.
THEOREM LiveWithoutTimeouts ==
    ASSUME TRUE \notin Timeouts
    PROVE  Spec => []EntriesAreLive
<1>1. IInv => EntriesAreLive
    <2> SUFFICES ASSUME IInv, NEW u \in Threads, Contains(queue, u), pc[u] \notin InWait
                 PROVE  FALSE
        BY DEF EntriesAreLive, Dangling
    <2>1. entry[u] = NoAddr /\ \E t \in Threads : victim[t] = u
        BY DEF IInv, QueueState
    <2> QED  BY <2>1 DEF IInv, AlertsAreFresh, Coming, InWait
<1> QED  BY <1>1, Invariant, PTL

-----------------------------------------------------------------------------
(* Fairness *)

\* The wake functions serve the waiters of an address in the order in which
\* they were queued, and nothing changes that order.
THEOREM Fair == Spec => OldestFirst
<1> DEFINE Order(u, w) ==
        /\ u # w /\ Ahead(w, u)
        /\ entry[w] # NoAddr /\ entry'[w] = entry[w] /\ entry[u] = entry[w]
        /\ pc'[u] \in InWait
        => /\ entry'[u] = entry[u]
           /\ Contains(queue', w) => Ahead(w, u)'
<1>1. ASSUME IInv, Next, NEW u \in Threads, NEW w \in Threads, u # w, Ahead(w, u), entry[w] # NoAddr,
             entry'[w] = entry[w], entry[u] = entry[w], pc'[u] \in InWait
      PROVE  entry'[u] = entry[u] /\ (Contains(queue', w) => Ahead(w, u)')
    <2> USE DEF Goto, waitVars, wakeVars
    <2>0. PICK t \in Threads : ThreadStep(t)
        BY <1>1, NextIsThreadStep
    <2>1. TypeOK /\ CallState /\ QueueState /\ queue \in Seq(Threads) /\ Distinct(queue)
        BY <1>1 DEF IInv, TypeOK, QueueState, Distinct
    <2>2. DOMAIN pc = Threads /\ DOMAIN entry = Threads /\ pc[u] \in InWait
        BY <1>1, <2>1 DEF TypeOK, QueueState
    <2>3. Contains(queue, u) => \E i, j \in 1..Len(queue) : i < j /\ queue[i] = w /\ queue[j] = u
        BY <1>1 DEF Ahead
    <2>4. DOMAIN queue = 1..Len(queue) /\ Len(queue) \in Nat
        BY <2>1
    <2>5. entry'[u] = entry[u]
        <3>1. CASE MarkRemoved(t)
            <4>1. PICK k \in Matching(target[t].addr) :
                      /\ \A m \in Matching(target[t].addr) : k <= m
                      /\ entry' = [entry EXCEPT ![queue[k]] = NoAddr]
                BY <3>1 DEF MarkRemoved
            <4>2. ASSUME queue[k] = u PROVE FALSE
                <5>1. Contains(queue, u) /\ k \in 1..Len(queue) /\ entry[u] = target[t].addr
                    BY <2>4, <4>2 DEF Matching, Contains
                <5>2. PICK i \in 1..Len(queue), j \in 1..Len(queue) : i < j /\ queue[i] = w /\ queue[j] = u
                    BY <2>3, <5>1
                <5>3. j = k
                    BY <2>1, <2>4, <4>2, <5>1, <5>2 DEF Distinct
                <5>4. k <= i
                    BY <1>1, <2>4, <4>1, <5>1, <5>2 DEF Matching
                <5> QED  BY <5>1, <5>2, <5>3, <5>4
            <4> QED  BY <2>2, <4>1, <4>2
        <3>2. CASE CompareFails(t) \/ SeesRemoved(t) \/ RemoveSelf(t)
            <4>1. pc'[t] = "idle"
                BY <2>2, <3>2 DEF CompareFails, SeesRemoved, RemoveSelf
            <4>2. u # t
                BY <1>1, <4>1 DEF InWait
            <4> QED  BY <2>2, <3>2, <4>2 DEF CompareFails, SeesRemoved, RemoveSelf, ReturnFrame
        <3>3. CASE \E a \in Addrs, timeout \in Timeouts : RtlWaitOnAddress(t, a, timeout)
            BY <2>2, <3>3 DEF RtlWaitOnAddress, InWait
        <3> QED  BY <2>0, <3>1, <3>2, <3>3 DEF ThreadStep, Step, RtlWakeAddress, AlertTimeout, ConsumeAlert, Enqueue,
                SeesQueued, spin_lock, Unlink, spin_unlock, NtAlertThreadByThreadId, WakeReturn
    <2>6. ASSUME Contains(queue', w) PROVE Ahead(w, u)'
        <3> SUFFICES ASSUME Contains(queue', u)
                     PROVE  \E i, j \in 1..Len(queue') : i < j /\ queue'[i] = w /\ queue'[j] = u
            BY <2>6 DEF Ahead
        <3>1. CASE queue' = queue
            BY <2>3, <3>1
        <3>2. CASE Enqueue(t)
            <4>1. queue' = Append(queue, t) /\ Len(queue') = Len(queue) + 1
                BY <2>1, <3>2 DEF Enqueue
            <4>2. \A k \in 1..Len(queue) : queue'[k] = queue[k] /\ k \in 1..Len(queue')
                BY <2>1, <2>4, <4>1
            <4>3. queue'[Len(queue) + 1] = t
                BY <2>1, <4>1
            <4>4. CASE Contains(queue, u)
                BY <2>3, <4>2, <4>4
            <4>5. CASE ~Contains(queue, u)
                <5>1. u = t
                    BY <2>1, <4>1, <4>5, AppendContains
                <5>2. PICK i \in 1..Len(queue) : queue[i] = w
                    BY <1>1 DEF Ahead, Contains
                <5>3. i < Len(queue) + 1 /\ Len(queue) + 1 \in 1..Len(queue')
                    BY <2>4, <4>1
                <5> QED  BY <4>2, <4>3, <5>1, <5>2, <5>3
            <4> QED  BY <4>4, <4>5
        <3>3. ASSUME NEW n \in DOMAIN queue, queue' = RemoveAt(queue, n)
              PROVE  \E i, j \in 1..Len(queue') : i < j /\ queue'[i] = w /\ queue'[j] = u
            <4>1. \A x : Contains(queue', x) <=> Contains(queue, x) /\ x # queue[n]
                BY <2>1, <3>3, Removal
            <4>2. PICK i \in 1..Len(queue), j \in 1..Len(queue) : i < j /\ queue[i] = w /\ queue[j] = u
                BY <2>3, <4>1
            <4>3. i # n /\ j # n
                BY <2>6, <4>1, <4>2
            <4> QED  BY <2>1, <2>4, <3>3, <4>2, <4>3, RemovalOrder
        <3>4. ASSUME NEW x \in Threads, Contains(queue, x), queue' = list_remove(x)
              PROVE  \E n \in DOMAIN queue : queue' = RemoveAt(queue, n)
            BY <2>4, <3>4 DEF list_remove, Contains
        <3>5. CASE RemoveSelf(t) /\ entry[t] # NoAddr
            <4>1. Contains(queue, t)
                BY <2>1, <3>5 DEF RemoveSelf, QueueState, InWait
            <4> QED  BY <3>3, <3>4, <3>5, <4>1 DEF RemoveSelf
        <3>6. CASE Unlink(t)
            <4>1. Contains(queue, victim[t]) /\ victim[t] \in Threads
                BY <2>1, <3>6 DEF Unlink, QueueState, CallState, TypeOK
            <4> QED  BY <3>3, <3>4, <3>6, <4>1 DEF Unlink
        <3> QED  BY <2>0, <2>1, <3>1, <3>2, <3>5, <3>6, QueueChange
    <2> QED  BY <2>5, <2>6
<1>2. IInv /\ [Next]_vars => [\A u, w \in Threads : Order(u, w)]_vars
    BY <1>1
<1>3. OldestFirst <=> [][\A u, w \in Threads : Order(u, w)]_vars
    BY PTL DEF OldestFirst
<1> HIDE DEF Order
<1> QED  BY <1>2, <1>3, Invariant, PTL DEF Spec

-----------------------------------------------------------------------------
(* The refinement of AddrWaitSpec *)

\* The refinement mapping, thread by thread.
WaitAddr(u) == IF Contains(queue, u) /\ ~Doomed(u) THEN entry[u] ELSE NoAddr
Freed(u) == Released(u) \/ Doomed(u)
Pending(u) ==
    IF pc[u] = "k_lock" \/ (pc[u] = "k_scan" /\ target[u].kind = "single" /\ tids[u] = <<>>)
    THEN target[u] ELSE NoCall

LEMMA Mapping ==
    /\ WaitingOn = [u \in Threads |-> WaitAddr(u)]
    /\ ReleasedWaiters = {u \in Threads : Freed(u)}
    /\ PendingCalls = [u \in Threads |-> Pending(u)]
BY DEF WaitingOn, ReleasedWaiters, PendingCalls, WaitAddr, Freed, Pending

LEMMA MappingPrimed ==
    /\ WaitingOn' = [u \in Threads |-> WaitAddr(u)']
    /\ ReleasedWaiters' = {u \in Threads : Freed(u)'}
    /\ PendingCalls' = [u \in Threads |-> Pending(u)']
BY DEF WaitingOn, ReleasedWaiters, PendingCalls, WaitAddr, Freed, Pending

\* Only the thread that holds the spin lock dooms waiters.
LEMMA DoomedByHolder ==
    ASSUME CallState, NEW u \in Threads
    PROVE  Doomed(u) <=> /\ Contains(queue, u) /\ entry[u] # NoAddr
                         /\ lock \in Threads /\ target[lock] = [kind |-> "all", addr |-> entry[u]]
BY DEF CallState, Doomed

LEMMA AWInit == Init => AW!SInit
<1> SUFFICES ASSUME Init PROVE AW!SInit
    OBVIOUS
<1>1. \A u \in Threads : WaitAddr(u) = NoAddr /\ ~Freed(u) /\ Pending(u) = NoCall
    BY EmptyContains DEF Init, WaitAddr, Freed, Pending, Released, Doomed, InWait
<1> QED  BY <1>1, Mapping DEF AW!SInit, AW!AInit, AW!NoCall, NoCall

\* Every step is a step of AddrWaitSpec or changes nothing that it sees.
LEMMA Simulation ==
    ASSUME IInv, NEW t \in Threads, UNCHANGED kinds, ThreadStep(t)
    PROVE  AW!SNext \/ UNCHANGED <<WaitingOn, ReleasedWaiters, PendingCalls>>
<1> USE DEF Goto, waitVars, wakeVars
<1>0. /\ DOMAIN pc = Threads /\ DOMAIN entry = Threads /\ DOMAIN target = Threads /\ DOMAIN tids = Threads
      /\ NoThread \notin Threads /\ NoAddr \notin Addrs
      /\ \A x : Contains(queue, x) => x \in Threads
      /\ entry \in [Threads -> Addrs \cup {NoAddr}]
    BY DEF IInv, TypeOK, Contains
<1>1. TypeOK /\ CallState /\ QueueState /\ AlertsAreFresh
    BY DEF IInv
<1>2. CallState'
    BY <1>1, CallStep
<1>3. \A u \in Threads :
        Doomed(u) <=> /\ Contains(queue, u) /\ entry[u] # NoAddr
                      /\ lock \in Threads /\ target[lock] = [kind |-> "all", addr |-> entry[u]]
    BY <1>1, DoomedByHolder
<1>4. \A u \in Threads :
        Doomed(u)' <=> /\ Contains(queue', u) /\ entry'[u] # NoAddr
                       /\ lock' \in Threads /\ target'[lock'] = [kind |-> "all", addr |-> entry'[u]]
    BY <1>2 DEF CallState, Doomed
<1>5. Dangling = {} => \A x \in Threads : Contains(queue, x) => pc[x] \in InWait
    BY DEF Dangling
<1>6. ASSUME \A u \in Threads : WaitAddr(u)' = WaitAddr(u) /\ (Freed(u)' <=> Freed(u)) /\ Pending(u)' = Pending(u)
      PROVE  UNCHANGED <<WaitingOn, ReleasedWaiters, PendingCalls>>
    BY <1>6, Mapping, MappingPrimed
\* A step of a wait that leaves the queue and its entry alone.
<1>7. ASSUME UNCHANGED <<queue, lock, target, tids>>, NEW p \in InWait \cup {"idle"}, pc[t] \in InWait \cup {"idle"},
             pc' = [pc EXCEPT ![t] = p], \A u \in Threads : u # t \/ Contains(queue, u) => entry'[u] = entry[u],
             Released(t)' <=> Released(t)
      PROVE  UNCHANGED <<WaitingOn, ReleasedWaiters, PendingCalls>>
    <2>1. \A u \in Threads : Doomed(u)' <=> Doomed(u)
        BY <1>3, <1>4, <1>7
    <2>2. \A u \in Threads : WaitAddr(u)' = WaitAddr(u)
        BY <1>7, <2>1 DEF WaitAddr
    <2>3. \A u \in Threads : Freed(u)' <=> Freed(u)
        BY <1>0, <1>7, <2>1 DEF Freed, Released
    <2>4. \A u \in Threads : Pending(u)' = Pending(u)
        BY <1>0, <1>7 DEF Pending, InWait
    <2> QED  BY <1>6, <2>2, <2>3, <2>4
<1>8. CASE \E a \in Addrs, timeout \in Timeouts : RtlWaitOnAddress(t, a, timeout)
    <2>1. ~Contains(queue, t)
        BY <1>5, <1>8 DEF RtlWaitOnAddress, InWait
    <2>2. ~Released(t) /\ ~Released(t)'
        BY <1>0, <1>8 DEF RtlWaitOnAddress, Released, InWait
    <2> QED  BY <1>0, <1>7, <1>8, <2>1, <2>2 DEF RtlWaitOnAddress, InWait
<1>9. CASE AlertTimeout(t) \/ ConsumeAlert(t) \/ SeesQueued(t)
    <2>1. Released(t)' <=> Released(t)
        BY <1>0, <1>9 DEF AlertTimeout, ConsumeAlert, SeesQueued, Released, InWait
    <2> QED  BY <1>7, <1>9, <2>1 DEF AlertTimeout, ConsumeAlert, SeesQueued, InWait
<1>10. CASE CompareFails(t)
    <2>1. ~Contains(queue, t) /\ pc[t] = "w_lock"
        BY <1>1, <1>10 DEF CompareFails, QueueState
    <2>2. ~Released(t) /\ ~Released(t)'
        BY <1>0, <1>10 DEF CompareFails, Released, InWait
    <2> QED  BY <1>0, <1>7, <1>10, <2>1, <2>2 DEF CompareFails, ReturnFrame, InWait
\* Register
<1>11. CASE Enqueue(t)
    <2>1. \A x : Contains(queue', x) <=> Contains(queue, x) \/ x = t
        BY <1>1, <1>11, QueueChange DEF Enqueue, RemoveSelf, Unlink
    <2>2. ~Contains(queue, t) /\ entry[t] \in Addrs /\ lock = NoThread /\ UNCHANGED <<entry, lock, target, tids>>
        BY <1>0, <1>1, <1>11 DEF Enqueue, QueueState
    <2>3. \A u \in Threads : ~Doomed(u) /\ ~Doomed(u)'
        BY <1>0, <1>3, <1>4, <2>2
    <2>4. WaitAddr(t) = NoAddr /\ \A u \in Threads : WaitAddr(u)' = IF u = t THEN entry[t] ELSE WaitAddr(u)
        BY <2>1, <2>2, <2>3 DEF WaitAddr
    <2>5. ~Freed(t) /\ \A u \in Threads : Freed(u)' <=> Freed(u)
        BY <1>0, <1>1, <1>11, <2>2, <2>3 DEF Freed, Released, Enqueue, InWait
    <2>6. \A u \in Threads : Pending(u)' = Pending(u)
        BY <1>0, <1>11, <2>2 DEF Pending, Enqueue
    <2>7. AW!Register(t, entry[t]) /\ UNCHANGED PendingCalls
        BY <2>4, <2>5, <2>6, Mapping, MappingPrimed DEF AW!Register
    <2> QED  BY <2>2, <2>7 DEF AW!SNext
\* Return
<1>12. ASSUME UNCHANGED <<queue, lock, target, tids>>, pc' = [pc EXCEPT ![t] = "idle"], ReturnFrame(t),
              pc[t] \in {"w_check", "w_relock"}, entry[t] = NoAddr
       PROVE  AW!SNext
    <2>1. entry' = entry
        BY <1>0, <1>12 DEF ReturnFrame
    <2>2. \A u \in Threads : Doomed(u)' <=> Doomed(u)
        BY <1>3, <1>4, <1>12, <2>1
    <2>3. \A u \in Threads : WaitAddr(u)' = WaitAddr(u) /\ Pending(u)' = Pending(u)
        BY <1>0, <1>12, <2>1, <2>2 DEF WaitAddr, Pending
    <2>4. Freed(t) /\ \A u \in Threads : Freed(u)' <=> Freed(u) /\ u # t
        BY <1>0, <1>3, <1>12, <2>1, <2>2 DEF Freed, Released, InWait
    <2>5. AW!Return(t) /\ UNCHANGED PendingCalls
        BY <2>3, <2>4, Mapping, MappingPrimed DEF AW!Return
    <2> QED  BY <2>5 DEF AW!SNext
<1>13. CASE SeesRemoved(t)
    BY <1>12, <1>13 DEF SeesRemoved
<1>14. CASE RemoveSelf(t) /\ entry[t] = NoAddr
    BY <1>12, <1>14 DEF RemoveSelf
\* Withdraw
<1>15. CASE RemoveSelf(t) /\ entry[t] # NoAddr
    <2>1. \A x : Contains(queue', x) <=> Contains(queue, x) /\ x # t
        BY <1>1, <1>15, QueueChange DEF Enqueue, RemoveSelf, Unlink
    <2>2. /\ Contains(queue, t) /\ lock = NoThread /\ UNCHANGED <<lock, target, tids>>
          /\ \A u \in Threads : u # t => entry'[u] = entry[u]
        BY <1>0, <1>1, <1>15 DEF RemoveSelf, QueueState, InWait, ReturnFrame
    <2>3. \A u \in Threads : ~Doomed(u) /\ ~Doomed(u)'
        BY <1>0, <1>3, <1>4, <2>2
    <2>4. WaitAddr(t) = entry[t] /\ \A u \in Threads : WaitAddr(u)' = IF u = t THEN NoAddr ELSE WaitAddr(u)
        BY <2>1, <2>2, <2>3 DEF WaitAddr
    <2>5. \A u \in Threads : Freed(u)' <=> Freed(u)
        BY <1>0, <1>15, <2>2, <2>3 DEF Freed, Released, RemoveSelf, InWait
    <2>6. \A u \in Threads : Pending(u)' = Pending(u)
        BY <1>0, <1>15, <2>2 DEF Pending, RemoveSelf
    <2>7. TRUE \in Timeouts
        BY <1>1, <1>15 DEF AlertsAreFresh, RemoveSelf
    <2>8. AW!Withdraw(t) /\ UNCHANGED PendingCalls
        BY <1>15, <2>4, <2>5, <2>6, Mapping, MappingPrimed DEF AW!Withdraw
    <2> QED  BY <2>7, <2>8 DEF AW!SNext
\* CallWake
<1>16. CASE \E a \in Addrs, v \in Values, k \in kinds : RtlWakeAddress(t, a, v, k)
    <2>1. PICK a \in Addrs, v \in Values, k \in kinds : RtlWakeAddress(t, a, v, k)
        BY <1>16
    <2> DEFINE c == [kind |-> k, addr |-> a]
    <2>2. c \in AW!WakeCalls
        BY <1>1 DEF TypeOK, AW!WakeCalls
    <2>3. UNCHANGED <<queue, entry, lock, tids>> /\ pc[t] = "idle" /\ target' = [target EXCEPT ![t] = c]
        BY <2>1 DEF RtlWakeAddress
    <2>4. lock # t
        BY <1>1, <2>3 DEF CallState
    <2> HIDE DEF c
    <2>5. \A u \in Threads : Doomed(u)' <=> Doomed(u)
        BY <1>0, <1>3, <1>4, <2>3, <2>4
    <2>6. \A u \in Threads : WaitAddr(u)' = WaitAddr(u) /\ (Freed(u)' <=> Freed(u))
        BY <1>0, <2>1, <2>3, <2>5 DEF WaitAddr, Freed, Released, RtlWakeAddress, InWait
    <2>7. Pending(t) = NoCall /\ \A u \in Threads : Pending(u)' = IF u = t THEN c ELSE Pending(u)
        BY <1>0, <2>1, <2>3 DEF Pending, RtlWakeAddress
    <2>8. AW!CallWake(t, c)
        BY <2>6, <2>7, Mapping, MappingPrimed DEF AW!CallWake, AW!NoCall, NoCall, AW!avars
    <2> QED  BY <2>2, <2>8 DEF AW!SNext
\* The call of t, while it has one.
<1>17. ASSUME pc[t] \in InWake
       PROVE  /\ target[t].kind \in {"single", "all"} /\ target[t].addr \in Addrs
              /\ target[t] = [kind |-> target[t].kind, addr |-> target[t].addr] /\ target[t] # NoCall
    BY <1>1, <1>17 DEF CallState, WakeCalls, NoCall
<1>18. CASE spin_lock(t)
    <2>1. /\ UNCHANGED <<queue, entry, target, tids>> /\ lock = NoThread /\ lock' = t /\ pc[t] = "k_lock"
          /\ tids[t] = <<>> /\ pc' = [pc EXCEPT ![t] = "k_scan"]
        BY <1>1, <1>18 DEF spin_lock, CallState
    <2>2. \A u \in Threads : ~Doomed(u)
        BY <1>0, <1>3, <2>1
    <2>3. \A u \in Threads : Doomed(u)' <=> Contains(queue, u) /\ target[t].kind = "all" /\ entry[u] = target[t].addr
        BY <1>0, <1>4, <1>17, <2>1 DEF InWake
    <2>4. \A u \in Threads : Released(u)' <=> Released(u)
        BY <1>0, <2>1 DEF Released, InWait
    <2>5. CASE target[t].kind = "single"
        <3>1. \A u \in Threads : WaitAddr(u)' = WaitAddr(u) /\ (Freed(u)' <=> Freed(u))
            BY <2>1, <2>2, <2>3, <2>4, <2>5 DEF WaitAddr, Freed
        <3>2. \A u \in Threads : Pending(u)' = Pending(u)
            BY <1>0, <2>1, <2>5 DEF Pending
        <3> QED  BY <1>6, <3>1, <3>2
    <2>6. CASE target[t].kind = "all"
        <3>1. \A u \in Threads : WaitAddr(u)' = IF WaitAddr(u) = target[t].addr THEN NoAddr ELSE WaitAddr(u)
            BY <1>0, <1>17, <2>1, <2>2, <2>3, <2>6 DEF WaitAddr, InWake
        <3>2. \A u \in Threads : Freed(u)' <=> Freed(u) \/ WaitAddr(u) = target[t].addr
            BY <1>0, <1>17, <2>1, <2>2, <2>3, <2>4, <2>6 DEF WaitAddr, Freed, InWake
        <3>3. Pending(t) = target[t] /\ \A u \in Threads : Pending(u)' = IF u = t THEN NoCall ELSE Pending(u)
            BY <1>0, <2>1, <2>6 DEF Pending
        <3>4. PendingCalls[t] = target[t] /\ PendingCalls' = [PendingCalls EXCEPT ![t] = NoCall]
            BY <3>3, Mapping, MappingPrimed
        <3>5. AW!ReleaseAll(target[t].addr)
            BY <3>1, <3>2, Mapping, MappingPrimed DEF AW!ReleaseAll, AW!Waiters
        <3>6. AW!TakeEffect(t)
            BY <1>17, <2>1, <2>6, <3>4, <3>5 DEF AW!TakeEffect, AW!NoCall, NoCall, InWake
        <3> QED  BY <3>6 DEF AW!SNext
    <2> QED  BY <1>17, <2>1, <2>5, <2>6 DEF InWake
<1>19. CASE MarkRemoved(t)
    <2>1. PICK k \in Matching(target[t].addr) : /\ victim' = [victim EXCEPT ![t] = queue[k]]
                                                /\ entry' = [entry EXCEPT ![queue[k]] = NoAddr]
        BY <1>19 DEF MarkRemoved
    <2>2. queue[k] \in Threads /\ Contains(queue, queue[k]) /\ entry[queue[k]] = target[t].addr
        BY <1>1 DEF Matching, TypeOK, Contains
    <2>3. PICK w \in Threads : /\ entry' = [entry EXCEPT ![w] = NoAddr]
                               /\ Contains(queue, w) /\ entry[w] = target[t].addr
        BY <2>1, <2>2
    <2>5. /\ UNCHANGED <<queue, lock, target, tids>> /\ pc[t] = "k_scan" /\ pc' = [pc EXCEPT ![t] = "k_remove"]
          /\ lock = t
        BY <1>1, <1>19 DEF MarkRemoved, CallState
    <2>6. target[t].addr \in Addrs /\ target[t].kind \in {"single", "all"}
        BY <1>17, <2>5 DEF InWake
    <2>7. \A u \in Threads : Doomed(u) <=> Contains(queue, u) /\ target[t].kind = "all" /\ entry[u] = target[t].addr
        BY <1>0, <1>3, <1>17, <2>5 DEF InWake
    <2>8. \A u \in Threads : Doomed(u)' <=> Doomed(u) /\ u # w
        BY <1>0, <1>4, <1>17, <2>3, <2>5, <2>7 DEF InWake
    <2>9. pc[w] \in InWait \ {"w_lock"} /\ w # t
        BY <1>1, <1>5, <1>19, <2>3, <2>5 DEF MarkRemoved, QueueState, InWait
    <2>10. \A u \in Threads : Released(u)' <=> Released(u) \/ u = w
        BY <1>0, <2>3, <2>5, <2>9 DEF Released, InWait
    <2>11. CASE target[t].kind = "all"
        <3>1. \A u \in Threads : WaitAddr(u)' = WaitAddr(u)
            BY <1>0, <2>3, <2>5, <2>7, <2>8, <2>11 DEF WaitAddr
        <3>2. \A u \in Threads : Freed(u)' <=> Freed(u)
            BY <2>3, <2>7, <2>8, <2>10, <2>11 DEF Freed
        <3>3. \A u \in Threads : Pending(u)' = Pending(u)
            BY <1>0, <2>5, <2>11 DEF Pending
        <3> QED  BY <1>6, <3>1, <3>2, <3>3
    <2>12. CASE target[t].kind = "single"
        <3>1. WaitAddr(w) = target[t].addr /\ \A u \in Threads : WaitAddr(u)' = IF u = w THEN NoAddr ELSE WaitAddr(u)
            BY <1>0, <2>3, <2>5, <2>7, <2>8, <2>12 DEF WaitAddr
        <3>2. \A u \in Threads : Freed(u)' <=> Freed(u) \/ u = w
            BY <2>7, <2>8, <2>10, <2>12 DEF Freed
        <3>3. tids[t] = <<>>
            BY <1>19, <2>12 DEF MarkRemoved, WantsMore
        <3>4. Pending(t) = target[t] /\ \A u \in Threads : Pending(u)' = IF u = t THEN NoCall ELSE Pending(u)
            BY <1>0, <2>5, <2>12, <3>3 DEF Pending
        <3>5. PendingCalls[t] = target[t] /\ PendingCalls' = [PendingCalls EXCEPT ![t] = NoCall]
            BY <3>4, Mapping, MappingPrimed
        <3>6. AW!Release(target[t].addr)
            <4>1. w \in AW!Waiters(target[t].addr)
                BY <3>1, Mapping DEF AW!Waiters
            <4>2. WaitingOn' = [WaitingOn EXCEPT ![w] = NoAddr] /\ ReleasedWaiters' = ReleasedWaiters \cup {w}
                BY <3>1, <3>2, Mapping, MappingPrimed
            <4> QED  BY <4>1, <4>2 DEF AW!Release
        <3>7. AW!TakeEffect(t)
            BY <1>17, <2>5, <2>12, <3>5, <3>6 DEF AW!TakeEffect, AW!NoCall, NoCall, InWake
        <3> QED  BY <3>7 DEF AW!SNext
    <2> QED  BY <2>6, <2>11, <2>12
<1>20. CASE Unlink(t)
    <2>1. \A x : Contains(queue', x) <=> Contains(queue, x) /\ x # victim[t]
        BY <1>1, <1>20, QueueChange DEF Enqueue, RemoveSelf, Unlink
    <2>2. /\ UNCHANGED <<lock, target, entry>> /\ pc[t] = "k_remove" /\ pc' = [pc EXCEPT ![t] = "k_scan"]
          /\ entry[victim[t]] = NoAddr /\ victim[t] \in Threads
        BY <1>1, <1>20 DEF Unlink, QueueState, CallState, TypeOK
    <2>3. \A u \in Threads : Doomed(u)' <=> Doomed(u)
        BY <1>3, <1>4, <2>1, <2>2
    <2>4. \A u \in Threads : WaitAddr(u)' = WaitAddr(u) /\ (Freed(u)' <=> Freed(u))
        BY <1>0, <2>1, <2>2, <2>3 DEF WaitAddr, Freed, Released, InWait
    <2>5. target[t].kind = "single" => tids'[t] # <<>>
        <3> SUFFICES ASSUME target[t].kind = "single" PROVE tids'[t] # <<>>
            OBVIOUS
        <3>1. tids'[t] = Append(tids[t], victim[t]) /\ tids[t] \in Seq(Threads)
            BY <1>0, <1>1, <1>20 DEF Unlink, TypeOK
        <3> QED  BY <2>2, <3>1
    <2>6. \A u \in Threads : u # t => tids'[u] = tids[u]
        BY <1>0, <1>20 DEF Unlink
    <2>7. \A u \in Threads : Pending(u)' = Pending(u)
        BY <1>0, <2>2, <2>5, <2>6 DEF Pending
    <2> QED  BY <1>6, <2>4, <2>7
<1>21. CASE spin_unlock(t)
    <2>1. /\ UNCHANGED <<queue, entry, target, tids>> /\ pc[t] = "k_scan" /\ pc' = [pc EXCEPT ![t] = "k_alert"]
          /\ lock = t /\ lock' = NoThread
        BY <1>1, <1>21 DEF spin_unlock, CallState
    <2>2. target[t].kind = "all" \/ tids[t] = <<>> => \A u \in Threads : ~(Contains(queue, u) /\ entry[u] = target[t].addr)
        BY <1>1, <1>21 DEF spin_unlock, WantsMore, Matching, Contains, TypeOK
    <2>3. \A u \in Threads : ~Doomed(u)
        BY <1>0, <1>3, <1>17, <2>1, <2>2 DEF InWake
    <2>4. \A u \in Threads : ~Doomed(u)'
        BY <1>0, <1>4, <2>1
    <2>5. \A u \in Threads : WaitAddr(u)' = WaitAddr(u) /\ (Freed(u)' <=> Freed(u))
        BY <1>0, <2>1, <2>3, <2>4 DEF WaitAddr, Freed, Released, InWait
    <2>6. CASE target[t].kind = "single" /\ tids[t] = <<>>
        <3>1. Pending(t) = target[t] /\ \A u \in Threads : Pending(u)' = IF u = t THEN NoCall ELSE Pending(u)
            BY <1>0, <2>1, <2>6 DEF Pending
        <3>2. PendingCalls[t] = target[t] /\ PendingCalls' = [PendingCalls EXCEPT ![t] = NoCall]
            BY <3>1, Mapping, MappingPrimed
        <3>3. AW!Waiters(target[t].addr) = {} /\ UNCHANGED AW!avars
            BY <1>0, <1>17, <2>1, <2>2, <2>5, <2>6, Mapping, MappingPrimed DEF AW!Waiters, AW!avars, WaitAddr, InWake
        <3>4. AW!TakeEffect(t)
            BY <1>17, <2>1, <3>2, <3>3 DEF AW!TakeEffect, AW!NoCall, NoCall, InWake
        <3> QED  BY <3>4 DEF AW!SNext
    <2>7. CASE ~(target[t].kind = "single" /\ tids[t] = <<>>)
        <3>1. \A u \in Threads : Pending(u)' = Pending(u)
            BY <1>0, <2>1, <2>7 DEF Pending
        <3> QED  BY <1>6, <2>5, <3>1
    <2> QED  BY <2>6, <2>7
<1>22. CASE NtAlertThreadByThreadId(t) \/ WakeReturn(t)
    <2>1. /\ UNCHANGED <<queue, entry, lock>> /\ pc[t] = "k_alert" /\ lock # t
          /\ \A u \in Threads : u # t => target'[u] = target[u] /\ tids'[u] = tids[u] /\ pc'[u] = pc[u]
          /\ pc'[t] \in {"k_alert", "idle"}
        BY <1>0, <1>1, <1>22 DEF NtAlertThreadByThreadId, WakeReturn, CallState
    <2>2. \A u \in Threads : Doomed(u)' <=> Doomed(u)
        BY <1>0, <1>3, <1>4, <2>1, ZenonT(90)
    <2>3. \A u \in Threads : WaitAddr(u)' = WaitAddr(u) /\ (Freed(u)' <=> Freed(u)) /\ Pending(u)' = Pending(u)
        BY <1>0, <2>1, <2>2 DEF WaitAddr, Freed, Released, Pending, InWait
    <2> QED  BY <1>6, <2>3
<1> QED  BY <1>8, <1>9, <1>10, <1>11, <1>13, <1>14, <1>15, <1>16, <1>18, <1>19, <1>20, <1>21, <1>22
         DEF ThreadStep, Step

\* RtlWaitOnAddress and RtlWakeAddress*, with their queue, spin lock, buffered
\* thread ids and alerts, implement the primitive that the locks of ntdll are
\* modelled with: a wake call takes effect at one moment, for one or for every
\* registered waiter of its address.
THEOREM Refinement == Spec => ImplementsAddrWait
<1>1. IInv /\ [Next]_vars => [AW!SNext]_<<AW!avars, PendingCalls>>
    <2> SUFFICES ASSUME IInv, [Next]_vars
                 PROVE  AW!SNext \/ UNCHANGED <<WaitingOn, ReleasedWaiters, PendingCalls>>
        BY DEF AW!avars
    <2>1. CASE UNCHANGED vars
        BY <2>1 DEF vars, WaitingOn, ReleasedWaiters, PendingCalls, Doomed, Released
    <2>2. CASE Next
        BY <2>2, NextIsThreadStep, Simulation
    <2> QED  BY <2>1, <2>2
<1> QED  BY <1>1, AWInit, Invariant, PTL DEF Spec, ImplementsAddrWait, AW!SSpec
=============================================================================
