------------------------- MODULE ThreadPool_proofs -------------------------
(***************************************************************************)
(* Machine-checked proofs about ThreadPool, for any number of clients,     *)
(* workers and objects, any program and any limits of the pool.            *)
(***************************************************************************)
EXTENDS ThreadPool_steps, FiniteSetTheorems, SequenceTheorems, TLAPS

----------------------------------------
(* Lists *)

\* list_add_tail of what is not on the list.
LEMMA Appended ==
  ASSUME NEW S, NEW s \in Seq(S), NEW e \in S
  PROVE  /\ Append(s, e) \in Seq(S) /\ Len(Append(s, e)) = Len(s) + 1 /\ Append(s, e) # <<>>
         /\ \A x : Contains(Append(s, e), x) <=> Contains(s, x) \/ x = e
         /\ IsInjective(s) /\ ~Contains(s, e) => IsInjective(Append(s, e))
<1>1. Len(Append(s, e)) = Len(s) + 1 /\ Len(s) \in Nat /\ Append(s, e) \in Seq(S)
  OBVIOUS
<1>2. \A k \in 1..Len(s) : Append(s, e)[k] = s[k]
  OBVIOUS
<1>3. Append(s, e)[Len(s) + 1] = e
  OBVIOUS
<1>4. 1..(Len(s) + 1) = 1..Len(s) \cup {Len(s) + 1}
  BY <1>1
<1>5. \A x : Contains(Append(s, e), x) <=> Contains(s, x) \/ x = e
  BY <1>1, <1>2, <1>3, <1>4 DEF Contains
<1>6. ASSUME IsInjective(s), ~Contains(s, e) PROVE IsInjective(Append(s, e))
  <2>1. DOMAIN s = 1..Len(s) /\ DOMAIN Append(s, e) = 1..Len(s) \cup {Len(s) + 1}
    BY <1>1, <1>4
  <2> QED BY <1>1, <1>2, <1>3, <1>6, <2>1 DEF IsInjective, Contains
<1> QED BY <1>1, <1>5, <1>6

\* The head of a list is taken off.
LEMMA Tailed ==
  ASSUME NEW S, NEW s \in Seq(S), s # <<>>, IsInjective(s)
  PROVE  /\ Head(s) \in S /\ Contains(s, Head(s))
         /\ Tail(s) \in Seq(S) /\ Len(Tail(s)) = Len(s) - 1 /\ IsInjective(Tail(s))
         /\ \A x : Contains(Tail(s), x) <=> Contains(s, x) /\ x # Head(s)
<1>1. Len(Tail(s)) = Len(s) - 1 /\ Len(s) \in Nat \ {0} /\ Head(s) = s[1] /\ Tail(s) \in Seq(S) /\ Head(s) \in S
  OBVIOUS
<1>2. \A k \in 1..(Len(s) - 1) : Tail(s)[k] = s[k + 1]
  OBVIOUS
<1>3. /\ \A k \in 1..(Len(s) - 1) : k + 1 \in 1..Len(s) /\ k + 1 # 1
      /\ \A k \in 1..Len(s) : k = 1 \/ (k - 1 \in 1..(Len(s) - 1) /\ (k - 1) + 1 = k)
      /\ 1 \in 1..Len(s)
  BY <1>1
<1>4. DOMAIN s = 1..Len(s) /\ DOMAIN Tail(s) = 1..(Len(s) - 1)
  BY <1>1
<1>5. \A j, k \in 1..Len(s) : s[j] = s[k] => j = k
  BY <1>4 DEF IsInjective
<1>6. IsInjective(Tail(s))
  <2> SUFFICES ASSUME NEW j \in 1..(Len(s) - 1), NEW k \in 1..(Len(s) - 1), Tail(s)[j] = Tail(s)[k] PROVE j = k
    BY <1>4 DEF IsInjective
  <2>1. j + 1 = k + 1
    BY <1>2, <1>3, <1>5
  <2> QED BY <1>1, <2>1
<1>7. ASSUME NEW x PROVE Contains(Tail(s), x) <=> Contains(s, x) /\ x # Head(s)
  <2>1. ASSUME Contains(Tail(s), x) PROVE Contains(s, x) /\ x # Head(s)
    <3>1. PICK k \in 1..(Len(s) - 1) : s[k + 1] = x
      BY <1>1, <1>2, <2>1 DEF Contains
    <3> QED BY <1>1, <1>3, <1>5, <3>1 DEF Contains
  <2>2. ASSUME Contains(s, x), x # Head(s) PROVE Contains(Tail(s), x)
    <3>1. PICK k \in 1..Len(s) : s[k] = x
      BY <2>2 DEF Contains
    <3>2. k - 1 \in 1..(Len(s) - 1) /\ Tail(s)[k - 1] = x
      BY <1>1, <1>2, <1>3, <2>2, <3>1
    <3> QED BY <1>1, <3>2 DEF Contains
  <2> QED BY <2>1, <2>2
<1>8. Contains(s, Head(s))
  BY <1>1, <1>3 DEF Contains
<1> QED BY <1>1, <1>6, <1>7, <1>8

\* list_remove takes out one entry and keeps the order of the others.
LEMMA RemovalPositions ==
  ASSUME NEW S, NEW q \in Seq(S), NEW n \in DOMAIN q, NEW p, p = RemoveAt(q, n)
  PROVE  /\ p \in Seq(S) /\ Len(p) = Len(q) - 1 /\ DOMAIN p = 1..(Len(q) - 1)
         /\ \A k \in 1..(Len(q) - 1) : (k < n => p[k] = q[k]) /\ (~(k < n) => p[k] = q[k + 1])
<1>1. n \in 1..Len(q) /\ Len(q) \in Nat /\ DOMAIN q = 1..Len(q)
  OBVIOUS
<1> DEFINE a == SubSeq(q, 1, n - 1)  b == SubSeq(q, n + 1, Len(q))
<1>2. p = a \o b
  BY DEF RemoveAt
<1>3. a \in Seq(S) /\ Len(a) = n - 1 /\ \A k \in 1..(n - 1) : a[k] = q[k]
  BY <1>1
<1>4. b \in Seq(S) /\ Len(b) = Len(q) - n /\ \A k \in 1..(Len(q) - n) : b[k] = q[n + k]
  BY <1>1
<1> HIDE DEF a, b
<1>5. /\ a \o b \in Seq(S) /\ Len(a \o b) = Len(a) + Len(b)
      /\ \A k \in 1..(Len(a) + Len(b)) : (a \o b)[k] = IF k <= Len(a) THEN a[k] ELSE b[k - Len(a)]
  BY <1>3, <1>4, ConcatProperties, Zenon
<1>6. /\ p \in Seq(S) /\ Len(p) = Len(q) - 1
      /\ \A k \in 1..(Len(q) - 1) : p[k] = IF k <= n - 1 THEN a[k] ELSE b[k - (n - 1)]
  <2>1. Len(a) + Len(b) = Len(q) - 1
    BY <1>1, <1>3, <1>4
  <2> QED BY <1>2, <1>3, <1>5, <2>1, Zenon
<1>7. DOMAIN p = 1..(Len(q) - 1)
  <2>1. p \in Seq(S) /\ Len(p) = Len(q) - 1
    BY <1>6
  <2>2. DOMAIN p = 1..Len(p)
    BY <2>1, LenProperties, Zenon
  <2> QED BY <2>1, <2>2, Zenon
<1>8. ASSUME NEW k \in 1..(Len(q) - 1), k < n PROVE p[k] = q[k]
  <2>1. k <= n - 1 /\ k \in 1..(n - 1)
    BY <1>1, <1>8
  <2> QED BY <1>3, <1>6, <2>1, Zenon
<1>9. ASSUME NEW k \in 1..(Len(q) - 1), ~(k < n) PROVE p[k] = q[k + 1]
  <2>1. k - (n - 1) \in 1..(Len(q) - n) /\ n + (k - (n - 1)) = k + 1 /\ ~(k <= n - 1)
    BY <1>1, <1>9
  <2>2. p[k] = b[k - (n - 1)]
    BY <1>6, <2>1, Zenon
  <2> QED BY <1>4, <2>1, <2>2, Zenon
<1> QED BY <1>6, <1>7, <1>8, <1>9

\* What is left of a list after the removal.
LEMMA Removal ==
  ASSUME NEW S, NEW q \in Seq(S), IsInjective(q), NEW n \in DOMAIN q, NEW p, p = RemoveAt(q, n)
  PROVE  /\ p \in Seq(S) /\ IsInjective(p)
         /\ \A x : Contains(p, x) <=> Contains(q, x) /\ x # q[n]
<1>1. n \in 1..Len(q) /\ Len(q) \in Nat /\ DOMAIN q = 1..Len(q)
  OBVIOUS
<1>2. p \in Seq(S) /\ Len(p) = Len(q) - 1
  BY RemovalPositions
<1>3. DOMAIN p = 1..(Len(q) - 1)
  BY RemovalPositions
<1>4. ASSUME NEW k \in 1..(Len(q) - 1), k < n PROVE p[k] = q[k]
  BY <1>4, RemovalPositions, ZenonT(30)
<1>5. ASSUME NEW k \in 1..(Len(q) - 1), ~(k < n) PROVE p[k] = q[k + 1]
  BY <1>5, RemovalPositions
<1>6. IsInjective(p)
  <2> SUFFICES ASSUME NEW j \in DOMAIN p, NEW k \in DOMAIN p, p[j] = p[k] PROVE j = k
    BY DEF IsInjective
  <2>1. \A m \in DOMAIN p : m \in DOMAIN q /\ m + 1 \in DOMAIN q /\ m \in 1..(Len(q) - 1)
    BY <1>1, <1>3
  <2>2. \A l, m \in DOMAIN q : q[l] = q[m] => l = m
    BY DEF IsInjective
  <2>3. CASE j < n /\ k < n
    BY <1>4, <2>1, <2>2, <2>3
  <2>4. CASE j < n /\ ~(k < n)
    <3>1. q[j] = q[k + 1]
      BY <1>4, <1>5, <2>1, <2>4
    <3>2. j = k + 1
      BY <2>1, <2>2, <3>1
    <3> QED BY <1>1, <2>1, <2>4, <3>2
  <2>5. CASE ~(j < n) /\ k < n
    <3>1. q[j + 1] = q[k]
      BY <1>4, <1>5, <2>1, <2>5
    <3>2. j + 1 = k
      BY <2>1, <2>2, <3>1
    <3> QED BY <1>1, <2>1, <2>5, <3>2
  <2>6. CASE ~(j < n) /\ ~(k < n)
    <3>1. q[j + 1] = q[k + 1]
      BY <1>5, <2>1, <2>6
    <3>2. j + 1 = k + 1
      BY <2>1, <2>2, <3>1
    <3> QED BY <2>1, <3>2
  <2> QED BY <2>3, <2>4, <2>5, <2>6
<1>7. ASSUME NEW x PROVE Contains(p, x) <=> Contains(q, x) /\ x # q[n]
  <2>1. ASSUME Contains(p, x) PROVE Contains(q, x) /\ x # q[n]
    <3>1. PICK k \in 1..(Len(q) - 1) : p[k] = x
      BY <1>2, <2>1 DEF Contains
    <3>2. \E m \in 1..Len(q) : m # n /\ q[m] = x
      <4>1. k \in 1..Len(q) /\ k + 1 \in 1..Len(q)
        BY <1>1
      <4>2. CASE k < n
        BY <1>1, <1>4, <3>1, <4>1, <4>2
      <4>3. CASE ~(k < n)
        <5>1. k + 1 # n /\ q[k + 1] = x
          BY <1>1, <1>5, <3>1, <4>3
        <5> QED BY <4>1, <5>1
      <4> QED BY <4>2, <4>3
    <3> QED BY <1>1, <3>2 DEF Contains, IsInjective
  <2>2. ASSUME Contains(q, x), x # q[n] PROVE Contains(p, x)
    <3>1. PICK k \in 1..Len(q) : q[k] = x
      BY <2>2 DEF Contains
    <3>2. k # n
      BY <2>2, <3>1
    <3>3. CASE k < n
      <4>1. k \in 1..(Len(q) - 1)
        BY <1>1, <3>3
      <4> QED BY <1>2, <1>4, <3>1, <3>3, <4>1 DEF Contains
    <3>4. CASE k > n
      <4>1. k - 1 \in 1..(Len(q) - 1) /\ ~(k - 1 < n) /\ (k - 1) + 1 = k
        BY <1>1, <3>4
      <4>2. p[k - 1] = x
        BY <1>5, <3>1, <4>1
      <4> QED BY <1>2, <4>1, <4>2 DEF Contains
    <3> QED BY <1>1, <3>2, <3>3, <3>4
  <2> QED BY <2>1, <2>2
<1> QED BY <1>2, <1>6, <1>7

\* list_remove of what may be on the list.
LEMMA Removed ==
  ASSUME NEW S, NEW s \in Seq(S), NEW o, IsInjective(s)
  PROVE  /\ Without(s, o) \in Seq(S) /\ IsInjective(Without(s, o))
         /\ Len(Without(s, o)) \in Nat /\ Len(s) \in Nat /\ Len(Without(s, o)) <= Len(s)
         /\ \A x : Contains(Without(s, o), x) <=> Contains(s, x) /\ x # o
<1>0. Len(s) \in Nat /\ DOMAIN s = 1..Len(s)
  OBVIOUS
<1>1. CASE Contains(s, o)
  <2> DEFINE n == CHOOSE k \in DOMAIN s : s[k] = o
  <2>1. n \in DOMAIN s /\ s[n] = o
    BY <1>0, <1>1 DEF Contains
  <2>2. Without(s, o) = RemoveAt(s, n)
    BY <1>1 DEF Without
  <2> HIDE DEF n
  <2>3. Without(s, o) \in Seq(S) /\ IsInjective(Without(s, o)) /\ \A x : Contains(Without(s, o), x) <=> Contains(s, x) /\ x # o
    BY <2>1, <2>2, Removal
  <2>4. Len(Without(s, o)) = Len(s) - 1
    BY <2>1, <2>2, RemovalPositions
  <2>5. Len(Without(s, o)) \in Nat
    BY <2>3
  <2> QED BY <1>0, <2>3, <2>4, <2>5
<1>2. CASE ~Contains(s, o)
  <2>1. Without(s, o) = s
    BY <1>2 DEF Without
  <2> QED BY <1>0, <1>2, <2>1
<1> QED BY <1>1, <1>2

\* What is at the front of the two queues together.
LEMMA Joined ==
  ASSUME NEW S, NEW h \in Seq(S), NEW n \in Seq(S)
  PROVE  /\ h \o n \in Seq(S)
         /\ Len(h) \in Nat /\ Len(n) \in Nat /\ Len(h \o n) = Len(h) + Len(n)
         /\ h \o n = <<>> <=> h = <<>> /\ n = <<>>
         /\ h # <<>> => Head(h \o n) = Head(h)
         /\ h = <<>> => h \o n = n
         /\ \A x : Contains(h \o n, x) <=> Contains(h, x) \/ Contains(n, x)
<1>1. /\ h \o n \in Seq(S) /\ Len(h) \in Nat /\ Len(n) \in Nat /\ Len(h \o n) = Len(h) + Len(n)
      /\ \A i \in 1..(Len(h) + Len(n)) : (h \o n)[i] = IF i <= Len(h) THEN h[i] ELSE n[i - Len(h)]
  BY ConcatProperties
<1>2. \A s \in Seq(S) : s = <<>> <=> Len(s) = 0
  BY EmptySeq
<1>3. h \o n = <<>> <=> h = <<>> /\ n = <<>>
  BY <1>1, <1>2
<1>4. h # <<>> => Head(h \o n) = Head(h)
  <2> SUFFICES ASSUME h # <<>> PROVE Head(h \o n) = Head(h)
    OBVIOUS
  <2>1. Len(h) >= 1 /\ 1 \in 1..(Len(h) + Len(n))
    BY <1>1, <1>2
  <2>2. (h \o n)[1] = h[1]
    BY <1>1, <2>1
  <2> QED BY <1>1, <1>3, <2>2
<1>5. h = <<>> => h \o n = n
  BY ConcatEmptySeq
<1>6. ASSUME NEW x PROVE Contains(h \o n, x) <=> Contains(h, x) \/ Contains(n, x)
  <2>1. ASSUME Contains(h \o n, x) PROVE Contains(h, x) \/ Contains(n, x)
    <3>1. PICK i \in 1..(Len(h) + Len(n)) : (h \o n)[i] = x
      BY <1>1, <2>1 DEF Contains
    <3>2. CASE i <= Len(h)
      <4>1. i \in 1..Len(h) /\ h[i] = x
        BY <1>1, <3>1, <3>2
      <4> QED BY <4>1 DEF Contains
    <3>3. CASE ~(i <= Len(h))
      <4>1. i - Len(h) \in 1..Len(n) /\ n[i - Len(h)] = x
        BY <1>1, <3>1, <3>3
      <4> QED BY <4>1 DEF Contains
    <3> QED BY <3>2, <3>3
  <2>2. ASSUME Contains(h, x) PROVE Contains(h \o n, x)
    <3>1. PICK i \in 1..Len(h) : h[i] = x
      BY <2>2 DEF Contains
    <3>2. i \in 1..(Len(h) + Len(n)) /\ i <= Len(h)
      BY <1>1
    <3> QED BY <1>1, <3>1, <3>2 DEF Contains
  <2>3. ASSUME Contains(n, x) PROVE Contains(h \o n, x)
    <3>1. PICK i \in 1..Len(n) : n[i] = x
      BY <2>3 DEF Contains
    <3>2. i + Len(h) \in 1..(Len(h) + Len(n)) /\ ~(i + Len(h) <= Len(h)) /\ (i + Len(h)) - Len(h) = i
      BY <1>1
    <3>3. (h \o n)[i + Len(h)] = x
      BY <1>1, <3>1, <3>2
    <3> QED BY <1>1, <3>2, <3>3 DEF Contains
  <2> QED BY <2>1, <2>2, <2>3
<1> QED BY <1>1, <1>3, <1>4, <1>5, <1>6

----------------------------------------
(* Where the threads are *)

LEMMA Kinds ==
  /\ Clients \subseteq Threads /\ Workers \subseteq Threads /\ TimerThread \in Threads
  /\ \A c \in Clients : c \notin Workers /\ c # TimerThread /\ c # None
  /\ \A w \in Workers : w # TimerThread /\ w # None
  /\ TimerThread # None /\ None \notin Threads
  /\ Threads = Clients \cup Workers \cup {TimerThread}
BY ThreadPoolAssumption DEF Threads

LEMMA PlaceNow ==
  ASSUME PlacesOK, NEW t \in Threads
  PROVE  pc[t] \in PlacesOf(t) /\ arg[t] \in Objects \cup {None}
BY Kinds DEF PlacesOK, PlacesOf

LEMMA MovedAlone ==
  ASSUME PlacesOK, NEW t \in Threads, NEW from, pc[t] = from, NEW to \in PlacesOf(t), pc' = [pc EXCEPT ![t] = to],
         NEW a \in Objects \cup {None}, arg' = [arg EXCEPT ![t] = a]
  PROVE  Moved(t, from, to, a)
<1>1. to \in ClientPlaces \cup WorkerPlaces \cup {"t_submit"}
  BY DEF PlacesOf, WorkerPlaces
<1>2. /\ pc'[t] = to /\ arg'[t] = a
      /\ \A u \in Threads \ {t} : pc'[u] = pc[u] /\ arg'[u] = arg[u]
  BY DEF PlacesOK
<1>3. PlacesOK'
  BY <1>1, Kinds DEF PlacesOK, PlacesOf
<1> QED BY <1>2, <1>3 DEF Moved, Others

LEMMA MovedOnly ==
  ASSUME PlacesOK, NEW t \in Threads, NEW from, pc[t] = from, NEW to \in PlacesOf(t), pc' = [pc EXCEPT ![t] = to], arg' = arg
  PROVE  Moved(t, from, to, arg[t])
<1>1. arg' = [arg EXCEPT ![t] = arg[t]] /\ arg[t] \in Objects \cup {None}
  BY DEF PlacesOK
<1> QED BY <1>1, MovedAlone

\* Threads start or wake meanwhile.
LEMMA MovedResume ==
  ASSUME PlacesOK, NEW t \in Threads, NEW from, pc[t] = from, NEW to \in PlacesOf(t), NEW ws \in SUBSET Idle, NEW woken \in SUBSET Sleepers,
         from \notin {"none", "sleep"} \/ t \notin Workers, Resume(t, to, ws, woken),
         NEW a \in Objects \cup {None}, arg' = [arg EXCEPT ![t] = a]
  PROVE  Moved(t, from, to, a)
<1>1. to \in ClientPlaces \cup WorkerPlaces \cup {"t_submit"} /\ "start" \in WorkerPlaces /\ "wake" \in WorkerPlaces
  BY DEF PlacesOf, WorkerPlaces
<1>2. /\ \A w \in ws : w \in Workers /\ w # t /\ pc[w] = "none"
      /\ \A w \in woken : w \in Workers /\ w # t /\ pc[w] = "sleep"
  BY DEF Idle, Sleepers
<1>3. /\ pc'[t] = to /\ arg'[t] = a
      /\ \A u \in Threads \ {t} :
            /\ arg'[u] = arg[u]
            /\ pc'[u] = IF u \in ws THEN "start" ELSE IF u \in woken THEN "wake" ELSE pc[u]
  BY DEF PlacesOK, Resume
<1>4. PlacesOK'
  <2>1. \A u \in Threads : pc'[u] \in ClientPlaces \cup WorkerPlaces \cup {"t_submit"}
    BY <1>1, <1>3 DEF PlacesOK
  <2>2. pc' \in [Threads -> ClientPlaces \cup WorkerPlaces \cup {"t_submit"}]
    <3>1. pc' = [u \in Threads |-> pc'[u]]
      BY DEF Resume
    <3> QED BY <2>1, <3>1
  <2>3. \A c \in Clients : pc'[c] \in ClientPlaces
    BY <1>2, <1>3, Kinds DEF PlacesOK, PlacesOf
  <2>4. \A w \in Workers : pc'[w] \in WorkerPlaces
    BY <1>1, <1>2, <1>3, Kinds DEF PlacesOK, PlacesOf
  <2>5. pc'[TimerThread] \in {"none", "t_submit"}
    BY <1>2, <1>3, Kinds DEF PlacesOK, PlacesOf
  <2>6. arg' \in [Threads -> Objects \cup {None}]
    BY DEF PlacesOK
  <2> QED BY <2>2, <2>3, <2>4, <2>5, <2>6 DEF PlacesOK
<1> QED BY <1>2, <1>3, <1>4 DEF Moved, Others

LEMMA DealMoves ==
  ASSUME PlacesOK, NEW t \in Threads, NEW from, pc[t] = from, NEW to \in PlacesOf(t), pc' = [pc EXCEPT ![t] = to],
         NEW o \in Objects \cup {None}, Deal(t, o)
  PROVE  Moved(t, from, to, IF to \in {"idle", "none", "locked"} THEN None ELSE o)
<1>1. pc'[t] = to
  BY DEF PlacesOK
<1>2. PICK a \in Objects \cup {None} :
            a = (IF to \in {"idle", "none", "locked"} THEN None ELSE o) /\ arg' = [arg EXCEPT ![t] = a]
  BY <1>1 DEF Deal
<1> QED BY <1>2, MovedAlone

LEMMA OneThreadType ==
  ASSUME NEW ws \in OneThread
  PROVE  ws \subseteq Idle /\ (ws = {} \/ \E w \in Idle : ws = {w})
<1>1. CASE Idle = {}
  BY <1>1 DEF OneThread
<1>2. CASE Idle # {}
  <2>1. (CHOOSE w \in Idle : TRUE) \in Idle
    BY <1>2
  <2>2. ws = {} \/ ws = {CHOOSE w \in Idle : TRUE}
    BY <1>2 DEF OneThread
  <2> QED BY <2>1, <2>2
<1> QED BY <1>1, <1>2

LEMMA SubmitMoves ==
  ASSUME PlacesOK, NEW t \in Threads, NEW from, pc[t] = from, NEW to \in PlacesOf(t), from \notin {"none", "sleep"} \/ t \notin Workers,
         NEW o, Submit(t, o, to), NEW a \in Objects \cup {None}, arg' = [arg EXCEPT ![t] = a]
  PROVE  Moved(t, from, to, a)
<1>1. PICK ws \in OneThread :
        \/ ws # {} /\ Resume(t, to, ws, {})
        \/ ws = {} /\ Sleepers = {} /\ Resume(t, to, {}, {})
        \/ ws = {} /\ \E w \in Sleepers : Resume(t, to, {}, {w})
  BY DEF Submit
<1>2. ws \in SUBSET Idle /\ {} \in SUBSET Sleepers /\ {} \in SUBSET Idle
  BY OneThreadType
<1>3. PICK woken \in SUBSET Sleepers : Resume(t, to, ws, woken)
  BY <1>1, <1>2
<1> QED BY <1>2, <1>3, MovedResume

\* The names of the places.
LEMMA ClientPlace ==
  /\ "idle" \in ClientPlaces /\ "a_timer" \in ClientPlaces /\ "a_submit" \in ClientPlaces
  /\ "a_group" \in ClientPlaces /\ "unref" \in ClientPlaces /\ "destroy" \in ClientPlaces
  /\ "destroy2" \in ClientPlaces /\ "s_submit" \in ClientPlaces /\ "w_check" \in ClientPlaces
  /\ "w_sleep" \in ClientPlaces /\ "m_each" \in ClientPlaces /\ "m_timer" \in ClientPlaces
  /\ "m_cancel" \in ClientPlaces /\ "m_wait" \in ClientPlaces /\ "m_sleep" \in ClientPlaces
  /\ "m_release" \in ClientPlaces
BY DEF ClientPlaces

LEMMA WorkerPlace ==
  /\ "none" \in WorkerPlaces /\ "start" \in WorkerPlaces /\ "wake" \in WorkerPlaces
  /\ "locked" \in WorkerPlaces /\ "callback" \in WorkerPlaces /\ "destroy" \in WorkerPlaces
  /\ "destroy2" \in WorkerPlaces /\ "to_sleep" \in WorkerPlaces /\ "sleep" \in WorkerPlaces
  /\ "timeout" \in WorkerPlaces /\ "leave" \in WorkerPlaces
BY DEF WorkerPlaces

LEMMA Parts ==
  ASSUME IInv
  PROVE  /\ PlacesOK
         /\ \A c \in Clients : gone[c] \in Seq(Objects) /\ IsInjective(gone[c])
         /\ members \in Seq(Objects) /\ IsInjective(members)
BY DEF IInv, TypeOK, GroupExact

\* The calls that ask for nothing and those that use an object.
LEMMA CallMoves ==
  ASSUME IInv, NEW c \in Clients
  PROVE  /\ \A n \in Limits : TpSetPoolMaxThreads(c, n) => Moved(c, "idle", "idle", arg[c])
         /\ \A n \in Limits : TpSetPoolMinThreads(c, n) => Moved(c, "idle", "idle", arg[c])
         /\ TpReleasePool(c) => Moved(c, "idle", "idle", arg[c])
         /\ TpReleaseCleanupGroup(c) => Moved(c, "idle", "idle", arg[c])
         /\ TpReleaseCleanupGroupMembers(c) => Moved(c, "idle", "m_each", arg[c])
         /\ \A o \in Objects : Alloc(c, o) =>
              \E to \in Allocating :
                  /\ Moved(c, "idle", to, o)
                  /\ to = IF o \in Timers THEN "a_timer" ELSE IF o \in Simples THEN "a_submit" ELSE "a_group"
         /\ \A o \in Objects : TpRelease(c, o) => Moved(c, "idle", "unref", o)
         /\ \A o \in Objects : TpPostWork(c, o) => Moved(c, "idle", "idle", arg[c])
         /\ \A o \in Objects, later, now, period \in BOOLEAN :
              TpSetTimer(c, o, later, now, period) =>
                  IF now THEN Moved(c, "idle", "s_submit", o) ELSE Moved(c, "idle", "idle", None)
         /\ \A o \in Objects, cancel \in BOOLEAN : TpWaitFor(c, o, cancel) => Moved(c, "idle", "w_check", o)
<1>0. /\ PlacesOK /\ c \in Threads /\ c \notin Workers /\ (\A x \in ClientPlaces : x \in PlacesOf(c)) /\ arg[c] \in Objects \cup {None}
      /\ arg = [arg EXCEPT ![c] = arg[c]] /\ {} \in SUBSET Sleepers /\ {} \in SUBSET Idle
  BY Parts, Kinds, PlaceNow DEF PlacesOf, PlacesOK
<1>1. ASSUME NEW n \in Limits, TpSetPoolMaxThreads(c, n) PROVE Moved(c, "idle", "idle", arg[c])
  <2>1. pc[c] = "idle" /\ pc' = [pc EXCEPT ![c] = "idle"] /\ arg' = arg
    BY <1>1 DEF TpSetPoolMaxThreads, Goto
  <2> QED BY <1>0, <2>1, MovedOnly, ClientPlace, Zenon
<1>2. ASSUME NEW n \in Limits, TpSetPoolMinThreads(c, n) PROVE Moved(c, "idle", "idle", arg[c])
  <2>1. PICK ws \in SUBSET Idle : Resume(c, "idle", ws, {})
    BY <1>2 DEF TpSetPoolMinThreads
  <2>2. pc[c] = "idle" /\ arg' = [arg EXCEPT ![c] = arg[c]]
    BY <1>0, <1>2 DEF TpSetPoolMinThreads
  <2> QED BY <1>0, <2>1, <2>2, MovedResume, ClientPlace, Zenon
<1>3. ASSUME TpReleasePool(c) PROVE Moved(c, "idle", "idle", arg[c])
  <2>1. Resume(c, "idle", {}, Sleepers) /\ pc[c] = "idle" /\ arg' = [arg EXCEPT ![c] = arg[c]]
    BY <1>0, <1>3 DEF TpReleasePool
  <2> QED BY <1>0, <2>1, MovedResume, ClientPlace, Zenon
<1>4. ASSUME TpReleaseCleanupGroup(c) PROVE Moved(c, "idle", "idle", arg[c])
  <2>1. pc[c] = "idle" /\ pc' = [pc EXCEPT ![c] = "idle"] /\ arg' = arg
    BY <1>4 DEF TpReleaseCleanupGroup, Goto
  <2> QED BY <1>0, <2>1, MovedOnly, ClientPlace, Zenon
<1>5. ASSUME TpReleaseCleanupGroupMembers(c) PROVE Moved(c, "idle", "m_each", arg[c])
  <2>1. pc[c] = "idle" /\ pc' = [pc EXCEPT ![c] = "m_each"] /\ arg' = arg
    BY <1>5 DEF TpReleaseCleanupGroupMembers, Goto
  <2> QED BY <1>0, <2>1, MovedOnly, ClientPlace, Zenon
<1>6. ASSUME NEW o \in Objects, Alloc(c, o)
      PROVE  \E to \in Allocating :
                /\ Moved(c, "idle", to, o)
                /\ to = IF o \in Timers THEN "a_timer" ELSE IF o \in Simples THEN "a_submit" ELSE "a_group"
  <2>1. PICK to \in Allocating : to = IF o \in Timers THEN "a_timer" ELSE IF o \in Simples THEN "a_submit" ELSE "a_group"
    BY DEF Allocating
  <2>2. PICK ws \in OneThread : Resume(c, to, ws, {})
    BY <1>6, <2>1 DEF Alloc
  <2>3. ws \in SUBSET Idle
    BY OneThreadType
  <2>4. pc[c] = "idle" /\ Deal(c, o)
    BY <1>6 DEF Alloc
  <2>5. pc'[c] = to
    BY <1>0, <2>2 DEF Resume
  <2>6. arg' = [arg EXCEPT ![c] = o]
    BY <2>4, <2>5 DEF Deal, Allocating
  <2>8. to \in PlacesOf(c) /\ o \in Objects \cup {None}
    BY <1>0 DEF Allocating, ClientPlaces
  <2>7. Moved(c, "idle", to, o)
    BY <1>0, <2>2, <2>3, <2>4, <2>6, <2>8, MovedResume, Zenon
  <2> QED BY <2>1, <2>7
<1>7. ASSUME NEW o \in Objects, TpRelease(c, o) PROVE Moved(c, "idle", "unref", o)
  <2>1. pc[c] = "idle" /\ pc' = [pc EXCEPT ![c] = "unref"] /\ Deal(c, o)
    BY <1>7 DEF TpRelease, Goto
  <2>2. Moved(c, "idle", "unref", IF "unref" \in {"idle", "none", "locked"} THEN None ELSE o)
    BY <1>0, <2>1, DealMoves, ClientPlace, Zenon
  <2> QED BY <2>2
<1>8. ASSUME NEW o \in Objects, TpPostWork(c, o) PROVE Moved(c, "idle", "idle", arg[c])
  <2>1. Submit(c, o, "idle") /\ pc[c] = "idle" /\ arg' = [arg EXCEPT ![c] = arg[c]]
    BY <1>0, <1>8 DEF TpPostWork
  <2> QED BY <1>0, <2>1, SubmitMoves, ClientPlace, Zenon
<1>9. ASSUME NEW o \in Objects, NEW later \in BOOLEAN, NEW now \in BOOLEAN, NEW period \in BOOLEAN,
             TpSetTimer(c, o, later, now, period)
      PROVE  IF now THEN Moved(c, "idle", "s_submit", o) ELSE Moved(c, "idle", "idle", None)
  <2>1. CASE now
    <3>1. pc' = [pc EXCEPT ![c] = "s_submit"] /\ pc[c] = "idle" /\ Deal(c, o)
      BY <1>9, <2>1 DEF TpSetTimer, Goto
    <3>2. Moved(c, "idle", "s_submit", o)
      BY <1>0, <3>1, DealMoves, ClientPlace, Zenon
    <3> QED BY <2>1, <3>2
  <2>2. CASE ~now
    <3>1. pc' = [pc EXCEPT ![c] = "idle"] /\ pc[c] = "idle" /\ Deal(c, o)
      BY <1>9, <2>2 DEF TpSetTimer, Goto
    <3>2. Moved(c, "idle", "idle", None)
      BY <1>0, <3>1, DealMoves, ClientPlace, Zenon
    <3> QED BY <2>2, <3>2
  <2> QED BY <2>1, <2>2
<1>10. ASSUME NEW o \in Objects, NEW cancel \in BOOLEAN, TpWaitFor(c, o, cancel) PROVE Moved(c, "idle", "w_check", o)
  <2>1. pc[c] = "idle" /\ pc' = [pc EXCEPT ![c] = "w_check"] /\ Deal(c, o)
    BY <1>10 DEF TpWaitFor, Goto
  <2>2. Moved(c, "idle", "w_check", IF "w_check" \in {"idle", "none", "locked"} THEN None ELSE o)
    BY <1>0, <2>1, DealMoves, ClientPlace, Zenon
  <2> QED BY <2>2
<1> QED BY <1>1, <1>2, <1>3, <1>4, <1>5, <1>6, <1>7, <1>8, <1>9, <1>10, Zenon

\* The calls go on: allocation and release.
LEMMA ObjectMoves ==
  ASSUME IInv, NEW c \in Clients
  PROVE  /\ AllocTimer(c) => Moved(c, "a_timer", "a_group", arg[c])
         /\ AllocTimerFails(c) => Moved(c, "a_timer", "destroy2", arg[c])
         /\ AllocSubmit(c) => Moved(c, "a_submit", "a_group", arg[c])
         /\ AllocGroup(c) =>
              IF arg[c] \in Simples THEN Moved(c, "a_group", "unref", arg[c]) ELSE Moved(c, "a_group", "idle", None)
         /\ Unref(c) =>
              IF obj[arg[c]].ref = 1 THEN Moved(c, "unref", "destroy", arg[c]) ELSE Moved(c, "unref", "idle", None)
         /\ SetTimerSubmit(c) => Moved(c, "s_submit", "idle", None)
         /\ ObjectWait(c) =>
              Moved(c, "w_check", "idle", None) \/ Moved(c, "w_check", "w_sleep", arg[c])
<1>0. /\ PlacesOK /\ c \in Threads /\ c \notin Workers /\ (\A x \in ClientPlaces : x \in PlacesOf(c)) /\ arg[c] \in Objects \cup {None}
      /\ arg = [arg EXCEPT ![c] = arg[c]]
  BY Parts, Kinds, PlaceNow DEF PlacesOf, PlacesOK
<1>1. ASSUME AllocTimer(c) PROVE Moved(c, "a_timer", "a_group", arg[c])
  <2>1. pc[c] = "a_timer" /\ pc' = [pc EXCEPT ![c] = "a_group"] /\ arg' = arg
    BY <1>1 DEF AllocTimer, Goto
  <2> QED BY <1>0, <2>1, MovedOnly, ClientPlace, Zenon
<1>2. ASSUME AllocTimerFails(c) PROVE Moved(c, "a_timer", "destroy2", arg[c])
  <2>1. pc[c] = "a_timer" /\ pc' = [pc EXCEPT ![c] = "destroy2"] /\ arg' = arg
    BY <1>2 DEF AllocTimerFails, Goto
  <2> QED BY <1>0, <2>1, MovedOnly, ClientPlace, Zenon
<1>3. ASSUME AllocSubmit(c) PROVE Moved(c, "a_submit", "a_group", arg[c])
  <2>1. Submit(c, arg[c], "a_group") /\ pc[c] = "a_submit" /\ arg' = [arg EXCEPT ![c] = arg[c]]
    BY <1>0, <1>3 DEF AllocSubmit
  <2> QED BY <1>0, <2>1, SubmitMoves, ClientPlace, Zenon
<1>4. ASSUME AllocGroup(c)
      PROVE  IF arg[c] \in Simples THEN Moved(c, "a_group", "unref", arg[c]) ELSE Moved(c, "a_group", "idle", None)
  <2>1. PICK to \in {"unref", "idle"} : /\ to = (IF arg[c] \in Simples THEN "unref" ELSE "idle")
                                        /\ pc' = [pc EXCEPT ![c] = to] /\ pc[c] = "a_group" /\ Deal(c, arg[c])
    BY <1>4 DEF AllocGroup, Goto
  <2>2. Moved(c, "a_group", to, IF to \in {"idle", "none", "locked"} THEN None ELSE arg[c])
    BY <1>0, <2>1, DealMoves, ClientPlace, Zenon
  <2> QED BY <2>1, <2>2
<1>5. ASSUME Unref(c)
      PROVE  IF obj[arg[c]].ref = 1 THEN Moved(c, "unref", "destroy", arg[c]) ELSE Moved(c, "unref", "idle", None)
  <2>1. PICK to \in {"destroy", "idle"} : /\ to = (IF obj[arg[c]].ref = 1 THEN "destroy" ELSE "idle")
                                          /\ pc' = [pc EXCEPT ![c] = to] /\ pc[c] = "unref" /\ Deal(c, arg[c])
    BY <1>5 DEF Unref, Goto
  <2>2. Moved(c, "unref", to, IF to \in {"idle", "none", "locked"} THEN None ELSE arg[c])
    BY <1>0, <2>1, DealMoves, ClientPlace, Zenon
  <2> QED BY <2>1, <2>2
<1>6. ASSUME SetTimerSubmit(c) PROVE Moved(c, "s_submit", "idle", None)
  <2>1. Submit(c, arg[c], "idle") /\ pc[c] = "s_submit" /\ Deal(c, None)
    BY <1>6 DEF SetTimerSubmit
  <2>2. arg' = [arg EXCEPT ![c] = None]
    BY <2>1 DEF Deal
  <2> QED BY <1>0, <2>1, <2>2, SubmitMoves, ClientPlace, Zenon
<1>7. ASSUME ObjectWait(c) PROVE Moved(c, "w_check", "idle", None) \/ Moved(c, "w_check", "w_sleep", arg[c])
  <2>1. PICK to \in {"idle", "w_sleep"} : pc' = [pc EXCEPT ![c] = to] /\ pc[c] = "w_check" /\ Deal(c, arg[c])
    BY <1>7 DEF ObjectWait, Goto
  <2>2. Moved(c, "w_check", to, IF to \in {"idle", "none", "locked"} THEN None ELSE arg[c])
    BY <1>0, <2>1, DealMoves, ClientPlace, Zenon
  <2> QED BY <2>2
<1> QED BY <1>1, <1>2, <1>3, <1>4, <1>5, <1>6, <1>7

\* The entry after the i-th one of a list of n, and the first one after the last.
LEMMA NextIndex ==
  ASSUME NEW n \in Nat, NEW i \in 1..n
  PROVE  (i % n) + 1 \in 1..n
OBVIOUS

\* The calls go on: the members of the group.
LEMMA MemberMoves ==
  ASSUME IInv, NEW c \in Clients
  PROVE  /\ MemberEach(c) =>
              IF Dying(Head(members)) THEN Moved(c, "m_each", "m_each", arg[c])
              ELSE IF Head(members) \in Timers THEN Moved(c, "m_each", "m_timer", Head(members))
              ELSE Moved(c, "m_each", "m_each", Head(members))
         /\ MemberTimer(c) => Moved(c, "m_timer", "m_each", arg[c])
         /\ MembersMoved(c) =>
              \/ gone[c] = <<>> /\ Moved(c, "m_each", "m_wait", arg[c])
              \/ gone[c] # <<>> /\ \E to \in {"m_wait", "m_cancel"} : Moved(c, "m_each", to, Head(gone[c]))
         /\ MemberCancel(c) =>
              \E to \in {"m_wait", "m_cancel"}, a \in Objects :
                  Contains(gone[c], a) /\ Moved(c, "m_cancel", to, a)
         /\ MemberWait(c) =>
              \E to \in {"m_release", "m_sleep"} : gone[c] # <<>> /\ Moved(c, "m_wait", to, Head(gone[c]))
         /\ MemberRelease(c) =>
              IF obj[arg[c]].ref = (IF obj[arg[c]].shutdown \/ arg[c] \in Simples THEN 1 ELSE 2)
              THEN Moved(c, "m_release", "destroy", arg[c]) ELSE Moved(c, "m_release", "m_wait", arg[c])
         /\ MembersReleased(c) => Moved(c, "m_wait", "idle", None)
<1>0. /\ PlacesOK /\ c \in Threads /\ c \notin Workers /\ (\A x \in ClientPlaces : x \in PlacesOf(c)) /\ arg[c] \in Objects \cup {None}
      /\ arg = [arg EXCEPT ![c] = arg[c]] /\ pc = [pc EXCEPT ![c] = pc[c]]
  BY Parts, Kinds, PlaceNow DEF PlacesOf, PlacesOK
<1>1. ASSUME MemberEach(c)
      PROVE  IF Dying(Head(members)) THEN Moved(c, "m_each", "m_each", arg[c])
                ELSE IF Head(members) \in Timers THEN Moved(c, "m_each", "m_timer", Head(members))
                ELSE Moved(c, "m_each", "m_each", Head(members))
  <2>1. CASE Dying(Head(members))
    <3>1. pc[c] = "m_each" /\ pc' = [pc EXCEPT ![c] = "m_each"] /\ arg' = arg
      BY <1>0, <1>1, <2>1 DEF MemberEach
    <3>2. Moved(c, "m_each", "m_each", arg[c])
      BY <1>0, <3>1, MovedOnly, ClientPlace, Zenon
    <3> QED BY <2>1, <3>2
  <2>2. CASE ~Dying(Head(members))
    <3>1. Head(members) \in Objects \cup {None}
      BY <1>1, Parts, Tailed DEF MemberEach
    <3>2. CASE Head(members) \in Timers
      <4>1. pc[c] = "m_each" /\ pc' = [pc EXCEPT ![c] = "m_timer"] /\ Deal(c, Head(members))
        BY <1>1, <2>2, <3>2 DEF MemberEach
      <4>2. Moved(c, "m_each", "m_timer", IF "m_timer" \in {"idle", "none", "locked"} THEN None ELSE Head(members))
        BY <1>0, <3>1, <4>1, DealMoves, ClientPlace, Zenon
      <4> QED BY <2>2, <3>2, <4>2
    <3>3. CASE Head(members) \notin Timers
      <4>1. pc[c] = "m_each" /\ pc' = [pc EXCEPT ![c] = "m_each"] /\ Deal(c, Head(members))
        BY <1>1, <2>2, <3>3 DEF MemberEach
      <4>2. Moved(c, "m_each", "m_each", IF "m_each" \in {"idle", "none", "locked"} THEN None ELSE Head(members))
        BY <1>0, <3>1, <4>1, DealMoves, ClientPlace, Zenon
      <4> QED BY <2>2, <3>3, <4>2
    <3> QED BY <3>2, <3>3
  <2> QED BY <2>1, <2>2
<1>2. ASSUME MemberTimer(c) PROVE Moved(c, "m_timer", "m_each", arg[c])
  <2>1. pc[c] = "m_timer" /\ pc' = [pc EXCEPT ![c] = "m_each"] /\ arg' = arg
    BY <1>2 DEF MemberTimer, Goto
  <2> QED BY <1>0, <2>1, MovedOnly, ClientPlace, Zenon
<1>3. ASSUME MembersMoved(c)
      PROVE  \/ gone[c] = <<>> /\ Moved(c, "m_each", "m_wait", arg[c])
             \/ gone[c] # <<>> /\ \E to \in {"m_wait", "m_cancel"} : Moved(c, "m_each", to, Head(gone[c]))
  <2>1. CASE gone[c] = <<>>
    <3>1. pc[c] = "m_each" /\ pc' = [pc EXCEPT ![c] = "m_wait"] /\ arg' = arg
      BY <1>3, <2>1 DEF MembersMoved, Goto
    <3>2. Moved(c, "m_each", "m_wait", arg[c])
      BY <1>0, <3>1, MovedOnly, ClientPlace, Zenon
    <3> QED BY <2>1, <3>2
  <2>2. CASE gone[c] # <<>>
    <3>1. Head(gone[c]) \in Objects \cup {None}
      BY <2>2, Parts, Tailed
    <3>2. PICK to \in {"m_wait", "m_cancel"} :
            pc[c] = "m_each" /\ pc' = [pc EXCEPT ![c] = to] /\ arg' = [arg EXCEPT ![c] = Head(gone[c])]
      BY <1>3, <2>2 DEF MembersMoved, Goto
    <3>3. to \in PlacesOf(c)
      BY <1>0, ClientPlace
    <3>4. Moved(c, "m_each", to, Head(gone[c]))
      BY <1>0, <3>1, <3>2, <3>3, MovedAlone, Zenon
    <3> QED BY <2>2, <3>4
  <2> QED BY <2>1, <2>2
<1>4. ASSUME MemberCancel(c)
      PROVE  \E to \in {"m_wait", "m_cancel"}, a \in Objects : Contains(gone[c], a) /\ Moved(c, "m_cancel", to, a)
  <2>1. pc[c] = "m_cancel" /\ gone[c] \in Seq(Objects) /\ Contains(gone[c], arg[c])
    <3>1. pc[c] = "m_cancel"
      BY <1>4 DEF MemberCancel, Goto
    <3> QED BY <3>1, Parts DEF IInv, ClientExact
  <2> DEFINE i == CHOOSE n \in DOMAIN gone[c] : gone[c][n] = arg[c]
  <2>2. i \in 1..Len(gone[c]) /\ Len(gone[c]) \in Nat
    <3>1. \E n \in DOMAIN gone[c] : gone[c][n] = arg[c]
      BY <2>1 DEF Contains
    <3>2. i \in DOMAIN gone[c]
      BY <3>1
    <3> QED BY <2>1, <3>2
  <2>3. PICK k \in 1..Len(gone[c]) : k = (i % Len(gone[c])) + 1
    <3>1. (i % Len(gone[c])) + 1 \in 1..Len(gone[c])
      <4> HIDE DEF i
      <4> QED BY <2>2, NextIndex
    <3> QED BY <3>1, Zenon
  <2>4. PICK to \in {"m_wait", "m_cancel"} : pc' = [pc EXCEPT ![c] = to]
    BY <1>4 DEF MemberCancel, Goto
  <2>5. arg' = [arg EXCEPT ![c] = gone[c][k]]
    BY <1>4, <2>3 DEF MemberCancel
  <2>6. gone[c][k] \in Objects /\ Contains(gone[c], gone[c][k])
    BY <2>1 DEF Contains
  <2>7. to \in PlacesOf(c) /\ gone[c][k] \in Objects \cup {None}
    BY <1>0, <2>6, ClientPlace
  <2>8. Moved(c, "m_cancel", to, gone[c][k])
    BY <1>0, <2>1, <2>4, <2>5, <2>7, MovedAlone, Zenon
  <2> QED BY <2>6, <2>8, Zenon
<1>5. ASSUME MemberWait(c)
      PROVE  \E to \in {"m_release", "m_sleep"} : gone[c] # <<>> /\ Moved(c, "m_wait", to, Head(gone[c]))
  <2>1. gone[c] # <<>> /\ Head(gone[c]) \in Objects \cup {None}
    <3>1. gone[c] # <<>>
      BY <1>5 DEF MemberWait
    <3> QED BY <3>1, Parts, Tailed
  <2>2. PICK to \in {"m_release", "m_sleep"} :
          pc[c] = "m_wait" /\ pc' = [pc EXCEPT ![c] = to] /\ arg' = [arg EXCEPT ![c] = Head(gone[c])]
    BY <1>5 DEF MemberWait, Goto
  <2>3. to \in PlacesOf(c)
    BY <1>0, ClientPlace
  <2>4. Moved(c, "m_wait", to, Head(gone[c]))
    BY <1>0, <2>1, <2>2, <2>3, MovedAlone, Zenon
  <2> QED BY <2>1, <2>4
<1>6. ASSUME MemberRelease(c)
      PROVE  IF obj[arg[c]].ref = (IF obj[arg[c]].shutdown \/ arg[c] \in Simples THEN 1 ELSE 2)
             THEN Moved(c, "m_release", "destroy", arg[c]) ELSE Moved(c, "m_release", "m_wait", arg[c])
  <2>1. PICK to \in {"destroy", "m_wait"} :
          /\ to = (IF obj[arg[c]].ref = (IF obj[arg[c]].shutdown \/ arg[c] \in Simples THEN 1 ELSE 2) THEN "destroy" ELSE "m_wait")
          /\ pc[c] = "m_release" /\ pc' = [pc EXCEPT ![c] = to] /\ Deal(c, arg[c])
    BY <1>6 DEF MemberRelease, Goto
  <2>2. to \in PlacesOf(c)
    BY <1>0, ClientPlace
  <2>3. Moved(c, "m_release", to, IF to \in {"idle", "none", "locked"} THEN None ELSE arg[c])
    BY <1>0, <2>1, <2>2, DealMoves, Zenon
  <2> QED BY <2>1, <2>3
<1>7. ASSUME MembersReleased(c) PROVE Moved(c, "m_wait", "idle", None)
  <2>1. pc[c] = "m_wait" /\ pc' = [pc EXCEPT ![c] = "idle"] /\ Deal(c, None)
    BY <1>7 DEF MembersReleased, Goto
  <2>2. Moved(c, "m_wait", "idle", IF "idle" \in {"idle", "none", "locked"} THEN None ELSE None)
    BY <1>0, <2>1, DealMoves, ClientPlace, Zenon
  <2> QED BY <2>2
<1> QED BY <1>1, <1>2, <1>3, <1>4, <1>5, <1>6, <1>7, Zenon

\* The last reference to an object is dropped, by a client or by a worker.
LEMMA DestroyMoves ==
  ASSUME IInv, NEW t \in Threads
  PROVE  /\ Destroy(t) => Moved(t, "destroy", "destroy2", arg[t])
         /\ Destroy2(t) /\ t \in Workers => Moved(t, "destroy2", "locked", None)
         /\ Destroy2(t) /\ t \in Clients =>
              IF gone[t] # <<>> THEN Moved(t, "destroy2", "m_wait", None) ELSE Moved(t, "destroy2", "idle", None)
<1>0. /\ PlacesOK /\ arg[t] \in Objects \cup {None} /\ None \in Objects \cup {None}
      /\ t \in Clients => t \notin Workers /\ \A x \in ClientPlaces : x \in PlacesOf(t)
      /\ t \in Workers => \A x \in WorkerPlaces : x \in PlacesOf(t)
      /\ pc[t] = "destroy" => t \in Clients \cup Workers
  BY Parts, Kinds, PlaceNow DEF PlacesOf, PlacesOK
<1>1. ASSUME Destroy(t) PROVE Moved(t, "destroy", "destroy2", arg[t])
  <2>1. pc[t] = "destroy" /\ pc' = [pc EXCEPT ![t] = "destroy2"] /\ arg' = arg
    BY <1>1 DEF Destroy, Goto
  <2>2. "destroy2" \in PlacesOf(t)
    BY <1>0, <2>1, ClientPlace, WorkerPlace
  <2> QED BY <1>0, <2>1, <2>2, MovedOnly, Zenon
<1>2. ASSUME Destroy2(t), t \in Workers PROVE Moved(t, "destroy2", "locked", None)
  <2>1. pc[t] = "destroy2" /\ pc' = [pc EXCEPT ![t] = "locked"] /\ Deal(t, None)
    BY <1>2 DEF Destroy2, Goto
  <2>2. Moved(t, "destroy2", "locked", IF "locked" \in {"idle", "none", "locked"} THEN None ELSE None)
    BY <1>0, <1>2, <2>1, DealMoves, WorkerPlace, Zenon
  <2> QED BY <2>2
<1>3. ASSUME Destroy2(t), t \in Clients
      PROVE  IF gone[t] # <<>> THEN Moved(t, "destroy2", "m_wait", None) ELSE Moved(t, "destroy2", "idle", None)
  <2>1. PICK to \in {"m_wait", "idle"} :
          /\ to = (IF gone[t] # <<>> THEN "m_wait" ELSE "idle")
          /\ pc[t] = "destroy2" /\ pc' = [pc EXCEPT ![t] = to] /\ Deal(t, None)
    BY <1>0, <1>3 DEF Destroy2, Goto
  <2>2. to \in PlacesOf(t)
    BY <1>0, <1>3, ClientPlace
  <2>3. Moved(t, "destroy2", to, IF to \in {"idle", "none", "locked"} THEN None ELSE None)
    BY <1>0, <2>1, <2>2, DealMoves, Zenon
  <2> QED BY <2>1, <2>3
<1> QED BY <1>1, <1>2, <1>3, Zenon

\* A step that other threads notice.
LEMMA MovedWith ==
  ASSUME PlacesOK, NEW t \in Threads, NEW from, pc[t] = from, NEW to \in PlacesOf(t),
         pc' = [u \in Threads |-> pc'[u]], pc'[t] = to, Others(t),
         NEW a \in Objects \cup {None}, arg' = [arg EXCEPT ![t] = a]
  PROVE  Moved(t, from, to, a)
<1>1. /\ to \in ClientPlaces \cup WorkerPlaces \cup {"t_submit"} /\ "start" \in WorkerPlaces /\ "wake" \in WorkerPlaces
      /\ "w_check" \in ClientPlaces /\ "m_wait" \in ClientPlaces
  BY DEF PlacesOf, WorkerPlaces, ClientPlaces
<1>2. \A u \in Threads : pc'[u] \in ClientPlaces \cup WorkerPlaces \cup {"t_submit"}
  BY <1>1 DEF PlacesOK, Others
<1>3. pc' \in [Threads -> ClientPlaces \cup WorkerPlaces \cup {"t_submit"}]
  BY <1>2
<1>4. \A c \in Clients : pc'[c] \in ClientPlaces
  BY <1>1, Kinds DEF PlacesOK, PlacesOf, Others
<1>5. \A w \in Workers : pc'[w] \in WorkerPlaces
  BY <1>1, Kinds DEF PlacesOK, PlacesOf, Others
<1>6. pc'[TimerThread] \in {"none", "t_submit"}
  BY Kinds DEF PlacesOK, PlacesOf, Others
<1>7. arg' \in [Threads -> Objects \cup {None}] /\ arg'[t] = a
  BY DEF PlacesOK
<1>8. PlacesOK'
  BY <1>3, <1>4, <1>5, <1>6, <1>7 DEF PlacesOK
<1> QED BY <1>7, <1>8 DEF Moved

LEMMA WorkerMoves ==
  ASSUME IInv, NEW w \in Workers
  PROVE  /\ WorkerTake(w) => Moved(w, pc[w], "callback", NextItem) /\ pc[w] \in {"start", "wake", "locked"}
         /\ WorkerNoItem(w) => Moved(w, pc[w], NoItem, arg[w]) /\ pc[w] \in {"start", "wake", "locked"}
         /\ WorkerSleep(w) => Moved(w, "to_sleep", "sleep", arg[w])
         /\ WorkerTimeout(w) => Moved(w, "sleep", "timeout", arg[w])
         /\ WorkerTimedOut(w) => Moved(w, "timeout", IF MayTerminate THEN "leave" ELSE "locked", arg[w])
         /\ WorkerLeave(w) => Moved(w, "leave", "none", arg[w])
<1>0. /\ PlacesOK /\ w \in Threads /\ (\A x \in WorkerPlaces : x \in PlacesOf(w)) /\ arg[w] \in Objects \cup {None}
      /\ NoItem \in WorkerPlaces /\ (IF MayTerminate THEN "leave" ELSE "locked") \in WorkerPlaces
  BY Parts, Kinds, PlaceNow DEF PlacesOf, NoItem, WorkerPlaces
<1>1. ASSUME WorkerTake(w) PROVE Moved(w, pc[w], "callback", NextItem) /\ pc[w] \in {"start", "wake", "locked"}
  <2>1. pc' = [pc EXCEPT ![w] = "callback"] /\ Deal(w, NextItem) /\ pc[w] \in {"start", "wake", "locked"} /\ Queued # <<>>
    BY <1>1 DEF WorkerTake, AtTop
  <2>2. NextItem \in Objects \cup {None}
    <3>1. queue["high"] \in Seq(Objects) /\ queue["normal"] \in Seq(Objects)
      BY DEF IInv, TypeOK, Priorities
    <3>2. Queued \in Seq(Objects)
      BY <3>1, Joined DEF Queued
    <3> QED BY <2>1, <3>2 DEF NextItem
  <2>3. Moved(w, pc[w], "callback", IF "callback" \in {"idle", "none", "locked"} THEN None ELSE NextItem)
    BY <1>0, <2>1, <2>2, DealMoves, WorkerPlace, Zenon
  <2> QED BY <2>1, <2>3
<1>2. ASSUME WorkerNoItem(w) PROVE Moved(w, pc[w], NoItem, arg[w]) /\ pc[w] \in {"start", "wake", "locked"}
  <2>1. pc' = [pc EXCEPT ![w] = NoItem] /\ arg' = arg /\ pc[w] \in {"start", "wake", "locked"}
    BY <1>2 DEF WorkerNoItem, AtTop
  <2>2. NoItem \in PlacesOf(w)
    BY <1>0
  <2> QED BY <1>0, <2>1, <2>2, MovedOnly, Zenon
<1>3. ASSUME WorkerSleep(w) PROVE Moved(w, "to_sleep", "sleep", arg[w])
  <2>1. pc[w] = "to_sleep" /\ pc' = [pc EXCEPT ![w] = "sleep"] /\ arg' = arg
    BY <1>3 DEF WorkerSleep, Goto
  <2> QED BY <1>0, <2>1, MovedOnly, WorkerPlace, Zenon
<1>4. ASSUME WorkerTimeout(w) PROVE Moved(w, "sleep", "timeout", arg[w])
  <2>1. pc[w] = "sleep" /\ pc' = [pc EXCEPT ![w] = "timeout"] /\ arg' = arg
    BY <1>4 DEF WorkerTimeout, Goto
  <2> QED BY <1>0, <2>1, MovedOnly, WorkerPlace, Zenon
<1>5. ASSUME WorkerTimedOut(w) PROVE Moved(w, "timeout", IF MayTerminate THEN "leave" ELSE "locked", arg[w])
  <2>1. pc[w] = "timeout" /\ pc' = [pc EXCEPT ![w] = IF MayTerminate THEN "leave" ELSE "locked"] /\ arg' = arg
    BY <1>5 DEF WorkerTimedOut
  <2>2. (IF MayTerminate THEN "leave" ELSE "locked") \in PlacesOf(w)
    BY <1>0
  <2> QED BY <1>0, <2>1, <2>2, MovedOnly, Zenon
<1>6. ASSUME WorkerLeave(w) PROVE Moved(w, "leave", "none", arg[w])
  <2>1. pc[w] = "leave" /\ pc' = [pc EXCEPT ![w] = "none"] /\ arg' = arg
    BY <1>6 DEF WorkerLeave, Goto
  <2> QED BY <1>0, <2>1, MovedOnly, WorkerPlace, Zenon
<1> QED BY <1>1, <1>2, <1>3, <1>4, <1>5, <1>6, Zenon

LEMMA CallbackMoves ==
  ASSUME IInv, NEW w \in Workers
  PROVE  /\ TpCallbackMayRunLong(w) => Moved(w, "callback", "callback", arg[w])
         /\ TpDisassociateCallback(w) => Moved(w, "callback", "callback", arg[w])
         /\ CallbackPosts(w) => Moved(w, "callback", "callback", arg[w])
         /\ CallbackReleases(w) => Moved(w, "callback", "callback", arg[w])
         /\ CallbackReturns(w) =>
              IF obj[arg[w]].ref = 1 THEN Moved(w, "callback", "destroy", arg[w]) ELSE Moved(w, "callback", "locked", None)
<1>0. /\ PlacesOK /\ w \in Threads /\ (\A x \in WorkerPlaces : x \in PlacesOf(w)) /\ arg[w] \in Objects \cup {None}
      /\ arg = [arg EXCEPT ![w] = arg[w]] /\ {} \in SUBSET Sleepers /\ {} \in SUBSET Idle
      /\ "callback" \notin {"none", "sleep"} /\ None \in Objects \cup {None}
  BY Parts, Kinds, PlaceNow DEF PlacesOf, PlacesOK
<1>1. ASSUME TpCallbackMayRunLong(w) PROVE Moved(w, "callback", "callback", arg[w])
  <2>1. PICK ws \in OneThread : Resume(w, "callback", ws, {})
    BY <1>1 DEF TpCallbackMayRunLong
  <2>2. pc[w] = "callback" /\ arg' = [arg EXCEPT ![w] = arg[w]] /\ ws \in SUBSET Idle
    BY <1>0, <1>1, OneThreadType DEF TpCallbackMayRunLong
  <2> QED BY <1>0, <2>1, <2>2, MovedResume, WorkerPlace, Zenon
<1>2. ASSUME TpDisassociateCallback(w) PROVE Moved(w, "callback", "callback", arg[w])
  <2>1. /\ pc[w] = "callback" /\ arg' = [arg EXCEPT ![w] = arg[w]]
        /\ pc' = [c \in Threads |-> IF c \in ObjectWoken(arg[w]) THEN "w_check" ELSE pc[c]]
    BY <1>0, <1>2 DEF TpDisassociateCallback
  <2>2. \A c \in ObjectWoken(arg[w]) : c \in Clients /\ pc[c] = "w_sleep"
    BY DEF ObjectWoken, Woken
  <2>3. pc'[w] = "callback" /\ pc' = [u \in Threads |-> pc'[u]]
    BY <1>0, <2>1, <2>2
  <2>4. Others(w)
    BY <1>0, <2>1, <2>2 DEF Others, PlacesOK
  <2> QED BY <1>0, <2>1, <2>3, <2>4, MovedWith, WorkerPlace, Zenon
<1>3. ASSUME CallbackPosts(w) PROVE Moved(w, "callback", "callback", arg[w])
  <2>1. pc[w] = "callback" /\ arg' = [arg EXCEPT ![w] = arg[w]] /\ Submit(w, arg[w], "callback")
    BY <1>0, <1>3 DEF CallbackPosts
  <2> QED BY <1>0, <2>1, SubmitMoves, WorkerPlace, Zenon
<1>4. ASSUME CallbackReturns(w)
      PROVE  IF obj[arg[w]].ref = 1 THEN Moved(w, "callback", "destroy", arg[w]) ELSE Moved(w, "callback", "locked", None)
  <2>1. PICK to \in {"destroy", "locked"} : to = (IF obj[arg[w]].ref = 1 THEN "destroy" ELSE "locked")
    OBVIOUS
  <2>2. /\ \A c \in ObjectWoken(arg[w]) : c \in Clients /\ pc[c] = "w_sleep"
        /\ \A c \in GroupWoken(arg[w]) : c \in Clients /\ pc[c] = "m_sleep"
    BY DEF ObjectWoken, GroupWoken, Woken
  <2>3. /\ pc[w] = "callback" /\ Deal(w, arg[w])
        /\ pc' = [t \in Threads |->
              CASE t = w -> to
                [] t \in GroupWoken(arg[w]) -> "m_wait"
                [] inst[w].associated /\ t \in ObjectWoken(arg[w]) -> "w_check"
                [] OTHER -> pc[t]]
    BY <1>4, <2>1 DEF CallbackReturns
  <2>4. pc' = [u \in Threads |-> pc'[u]] /\ pc'[w] = to
    <3>1. w \notin GroupWoken(arg[w]) /\ w \notin ObjectWoken(arg[w])
      BY <2>2, Kinds
    <3> QED BY <1>0, <2>3, <3>1
  <2>5. PICK a \in Objects \cup {None} : a = (IF to = "locked" THEN None ELSE arg[w]) /\ arg' = [arg EXCEPT ![w] = a]
    BY <1>0, <2>3, <2>4 DEF Deal
  <2>6. \A c \in GroupWoken(arg[w]) : c \notin ObjectWoken(arg[w])
    BY <2>2
  <2>7. Others(w)
    <3> SUFFICES ASSUME NEW u \in Threads \ {w}
                 PROVE  /\ arg'[u] = arg[u]
                        /\ \/ pc'[u] = pc[u]
                           \/ u \in Clients /\ pc[u] = "w_sleep" /\ pc'[u] = "w_check"
                           \/ u \in Clients /\ pc[u] = "m_sleep" /\ pc'[u] = "m_wait"
      BY Zenon DEF Others
    <3>1. arg'[u] = arg[u]
      BY <1>0, <2>5 DEF PlacesOK
    <3>2. CASE u \in GroupWoken(arg[w])
      <4>1. pc'[u] = "m_wait"
        BY <2>3, <2>6, <3>2
      <4> QED BY <2>2, <3>1, <3>2, <4>1
    <3>3. CASE u \notin GroupWoken(arg[w]) /\ inst[w].associated /\ u \in ObjectWoken(arg[w])
      <4>1. pc'[u] = "w_check"
        BY <2>3, <3>3
      <4> QED BY <2>2, <3>1, <3>3, <4>1
    <3>4. CASE u \notin GroupWoken(arg[w]) /\ ~(inst[w].associated /\ u \in ObjectWoken(arg[w]))
      <4>1. pc'[u] = pc[u]
        BY <2>3, <3>4
      <4> QED BY <3>1, <4>1
    <3> QED BY <3>2, <3>3, <3>4
  <2>8. to \in PlacesOf(w)
    BY <1>0, WorkerPlace
  <2>9. Moved(w, "callback", to, a)
    BY <1>0, <2>3, <2>4, <2>5, <2>7, <2>8, MovedWith, Zenon
  <2> QED BY <2>1, <2>5, <2>9
<1>5. ASSUME CallbackReleases(w) PROVE Moved(w, "callback", "callback", arg[w])
  <2>1. pc[w] = "callback" /\ pc' = [pc EXCEPT ![w] = "callback"] /\ arg' = arg
    BY <1>0, <1>5 DEF CallbackReleases, PlacesOK
  <2> QED BY <1>0, <2>1, MovedOnly, WorkerPlace, Zenon
<1> QED BY <1>1, <1>2, <1>3, <1>4, <1>5, Zenon

LEMMA TimerMoves ==
  ASSUME IInv
  PROVE  /\ \A o \in Timers : TimerExpires(o) => Moved(TimerThread, "none", "t_submit", o)
         /\ TimerSubmit => Moved(TimerThread, "t_submit", "none", None)
         /\ TimerThreadEnds => Moved(TimerThread, "none", "none", arg[TimerThread])
<1>0. /\ PlacesOK /\ TimerThread \in Threads /\ TimerThread \notin Workers /\ arg[TimerThread] \in Objects \cup {None}
      /\ pc = [pc EXCEPT ![TimerThread] = pc[TimerThread]] /\ None \in Objects \cup {None}
      /\ "t_submit" \in PlacesOf(TimerThread) /\ "none" \in PlacesOf(TimerThread)
  BY Parts, Kinds, PlaceNow DEF PlacesOf, PlacesOK
<1>1. ASSUME NEW o \in Timers, TimerExpires(o) PROVE Moved(TimerThread, "none", "t_submit", o)
  <2>1. pc[TimerThread] = "none" /\ pc' = [pc EXCEPT ![TimerThread] = "t_submit"] /\ arg' = [arg EXCEPT ![TimerThread] = o]
    BY <1>1 DEF TimerExpires
  <2>2. o \in Objects \cup {None}
    BY DEF Objects
  <2> QED BY <1>0, <2>1, <2>2, MovedAlone, Zenon
<1>2. ASSUME TimerSubmit PROVE Moved(TimerThread, "t_submit", "none", None)
  <2>1. pc[TimerThread] = "t_submit" /\ Submit(TimerThread, arg[TimerThread], "none") /\ Deal(TimerThread, None)
    BY <1>2 DEF TimerSubmit
  <2>2. arg' = [arg EXCEPT ![TimerThread] = None]
    BY <2>1 DEF Deal
  <2> QED BY <1>0, <2>1, <2>2, SubmitMoves, Zenon
<1>3. ASSUME TimerThreadEnds PROVE Moved(TimerThread, "none", "none", arg[TimerThread])
  <2>1. pc[TimerThread] = "none" /\ pc' = [pc EXCEPT ![TimerThread] = "none"] /\ arg' = arg
    BY <1>0, <1>3 DEF TimerThreadEnds
  <2> QED BY <1>0, <2>1, MovedOnly, Zenon
<1> QED BY <1>1, <1>2, <1>3, Zenon

----------------------------------------
(* What the invariant says at a glance *)

LEMMA Fields ==
  ASSUME TypeOK
  PROVE  /\ \A o \in Objects :
              /\ obj[o] \in ObjectStruct
              /\ obj[o].ref \in Int /\ obj[o].pending \in Nat /\ obj[o].running \in Int /\ obj[o].associated \in Int
              /\ obj[o].shutdown \in BOOLEAN /\ obj[o].state \in {"none", "alive", "freed"}
              /\ handle[o] \in {"none", "alloc", "live", "closing", "closed"}
         /\ pool.ref \in Int /\ pool.objcount \in Int /\ pool.workers \in Int /\ pool.busy \in Int
         /\ pool.max \in Nat /\ pool.min \in Nat /\ pool.shutdown \in BOOLEAN /\ pool.state \in {"open", "freed"}
         /\ timerq.pending \subseteq Timers
         /\ \A w \in Workers : inst[w].associated \in BOOLEAN
BY DEF TypeOK, ObjectStruct, PoolStruct

\* The two queues together.
LEMMA TwoQueues ==
  ASSUME NEW q \in [Priorities -> Seq(Objects)], NEW j, j = q["high"] \o q["normal"]
  PROVE  /\ q["high"] \in Seq(Objects) /\ q["normal"] \in Seq(Objects) /\ j \in Seq(Objects)
         /\ Len(q["high"]) \in Nat /\ Len(q["normal"]) \in Nat
         /\ Len(j) \in Nat /\ Len(j) = Len(q["high"]) + Len(q["normal"])
         /\ j = <<>> <=> q["high"] = <<>> /\ q["normal"] = <<>>
         /\ q["high"] # <<>> => Head(j) = Head(q["high"])
         /\ q["high"] = <<>> => j = q["normal"]
         /\ \A x : Contains(j, x) <=> Contains(q["high"], x) \/ Contains(q["normal"], x)
<1>1. PICK h \in Seq(Objects) : h = q["high"]
  BY DEF Priorities
<1>2. PICK n \in Seq(Objects) : n = q["normal"]
  BY DEF Priorities
<1>3. /\ h \o n \in Seq(Objects) /\ Len(h) \in Nat /\ Len(n) \in Nat /\ Len(h \o n) = Len(h) + Len(n)
      /\ h \o n = <<>> <=> h = <<>> /\ n = <<>>
      /\ \A x : Contains(h \o n, x) <=> Contains(h, x) \/ Contains(n, x)
  BY Joined
<1>4. Len(h \o n) \in Nat
  BY <1>3, LenProperties, Zenon
<1>5. h # <<>> => Head(h \o n) = Head(h)
  BY Joined, Zenon
<1>6. h = <<>> => h \o n = n
  BY Joined, Zenon
<1> QED BY <1>1, <1>2, <1>3, <1>4, <1>5, <1>6, Zenon

LEMMA QueueNow ==
  ASSUME TypeOK
  PROVE  /\ queue["high"] \in Seq(Objects) /\ queue["normal"] \in Seq(Objects) /\ Queued \in Seq(Objects)
         /\ Len(queue["high"]) \in Nat /\ Len(queue["normal"]) \in Nat
         /\ Len(Queued) \in Nat /\ Len(Queued) = Len(queue["high"]) + Len(queue["normal"])
         /\ Queued = <<>> <=> queue["high"] = <<>> /\ queue["normal"] = <<>>
         /\ \A x : Contains(Queued, x) <=> Contains(queue["high"], x) \/ Contains(queue["normal"], x)
<1>1. queue \in [Priorities -> Seq(Objects)] /\ Queued = queue["high"] \o queue["normal"]
  BY DEF TypeOK, Queued
<1> QED BY <1>1, TwoQueues, Zenon

LEMMA SumShift ==
  ASSUME NEW a \in Nat, NEW b \in Nat, NEW d \in Int
  PROVE  (a + d) + b = (a + b) + d /\ a + (b + d) = (a + b) + d
OBVIOUS

\* One list changes its length, and so do the two together.
LEMMA QueueLength ==
  ASSUME TypeOK, queue' \in [Priorities -> Seq(Objects)], NEW p \in Priorities, NEW d \in Int,
         Len(queue'[p]) = Len(queue[p]) + d, \A r \in Priorities \ {p} : queue'[r] = queue[r]
  PROVE  Len(Queued') \in Nat /\ Len(Queued) \in Nat /\ Len(Queued') = Len(Queued) + d
<1>1. Queued' = queue'["high"] \o queue'["normal"]
  BY DEF Queued
<1>2. /\ Len(queue'["high"]) \in Nat /\ Len(queue'["normal"]) \in Nat
      /\ Len(Queued') \in Nat /\ Len(Queued') = Len(queue'["high"]) + Len(queue'["normal"])
  BY <1>1, TwoQueues, Zenon
<1>3. /\ Len(queue["high"]) \in Nat /\ Len(queue["normal"]) \in Nat
      /\ Len(Queued) \in Nat /\ Len(Queued) = Len(queue["high"]) + Len(queue["normal"])
  BY QueueNow, Zenon
<1>4. p = "high" \/ p = "normal"
  BY DEF Priorities
<1>5. CASE p = "high"
  <2>1. Len(queue'["high"]) = Len(queue["high"]) + d /\ Len(queue'["normal"]) = Len(queue["normal"])
    BY <1>5 DEF Priorities
  <2>2. Len(Queued') = (Len(queue["high"]) + d) + Len(queue["normal"])
    BY <1>2, <2>1, Zenon
  <2>3. (Len(queue["high"]) + d) + Len(queue["normal"]) = (Len(queue["high"]) + Len(queue["normal"])) + d
    BY <1>3, SumShift, Zenon
  <2> QED BY <1>2, <1>3, <2>2, <2>3, Zenon
<1>6. CASE p = "normal"
  <2>1. Len(queue'["normal"]) = Len(queue["normal"]) + d /\ Len(queue'["high"]) = Len(queue["high"])
    BY <1>6 DEF Priorities
  <2>2. Len(Queued') = Len(queue["high"]) + (Len(queue["normal"]) + d)
    BY <1>2, <2>1, Zenon
  <2>3. Len(queue["high"]) + (Len(queue["normal"]) + d) = (Len(queue["high"]) + Len(queue["normal"])) + d
    BY <1>3, SumShift, Zenon
  <2> QED BY <1>2, <1>3, <2>2, <2>3, Zenon
<1> QED BY <1>4, <1>5, <1>6

LEMMA EmptyContains ==
  ASSUME NEW S, NEW s \in Seq(S)
  PROVE  s = <<>> <=> \A x \in S : ~Contains(s, x)
<1>1. CASE s = <<>>
  BY <1>1 DEF Contains
<1>2. CASE s # <<>>
  <2>1. Len(s) \in Nat \ {0} /\ s[1] \in S /\ 1 \in 1..Len(s)
    BY <1>2
  <2>2. Contains(s, s[1])
    BY <2>1 DEF Contains
  <2> QED BY <1>2, <2>1, <2>2
<1> QED BY <1>1, <1>2

LEMMA QueuedPending ==
  ASSUME TypeOK, QueuesExact
  PROVE  /\ \A o \in Objects : Contains(Queued, o) <=> obj[o].pending > 0
         /\ Queued = <<>> <=> \A o \in Objects : obj[o].pending = 0
<1>1. ASSUME NEW o \in Objects PROVE Contains(Queued, o) <=> obj[o].pending > 0
  <2>1. Prio(o) \in {"high", "normal"}
    BY DEF Prio
  <2>2. \A p \in {"high", "normal"} : Contains(queue[p], o) <=> p = Prio(o) /\ obj[o].pending > 0
    BY DEF QueuesExact, Priorities
  <2> QED BY <2>1, <2>2, QueueNow, Zenon
<1>2. Queued = <<>> <=> \A o \in Objects : ~Contains(Queued, o)
  BY QueueNow, EmptyContains
<1>3. \A o \in Objects : obj[o].pending > 0 <=> obj[o].pending # 0
  BY Fields
<1> QED BY <1>1, <1>2, <1>3

LEMMA FiniteWorkers == IsFiniteSet(Workers)
BY ThreadPoolAssumption

\* The sets that an object's counters count.
LEMMA Counted ==
  ASSUME GroupExact, NEW o \in Objects
  PROVE  /\ IsFiniteSet(Running(o)) /\ Cardinality(Running(o)) \in Nat /\ (Cardinality(Running(o)) = 0 <=> Running(o) = {})
         /\ IsFiniteSet(Releasing(o)) /\ Cardinality(Releasing(o)) = IF Releasing(o) = {} THEN 0 ELSE 1
<1>1. Running(o) \subseteq Workers
  BY DEF Running
<1>2. IsFiniteSet(Running(o))
  BY <1>1, FiniteWorkers, FS_Subset, Zenon
<1>3. Cardinality(Running(o)) \in Nat /\ (Cardinality(Running(o)) = 0 <=> Running(o) = {})
  BY <1>2, FS_CardinalityType, FS_EmptySet, Zenon
<1>4. CASE Releasing(o) = {}
  <2>1. IsFiniteSet(Releasing(o)) /\ Cardinality(Releasing(o)) = 0
    BY <1>4, FS_EmptySet, Zenon
  <2> QED BY <1>2, <1>3, <1>4, <2>1
<1>5. CASE Releasing(o) # {}
  <2>1. PICK c \in Releasing(o) : TRUE
    BY <1>5
  <2>2. Releasing(o) = {c}
    BY DEF GroupExact, MemberExact
  <2>3. IsFiniteSet(Releasing(o)) /\ Cardinality(Releasing(o)) = 1
    BY <2>2, FS_Singleton, Zenon
  <2> QED BY <1>2, <1>3, <1>5, <2>3
<1> QED BY <1>4, <1>5

\* An object that somebody refers to is alive, and has a reference for each.
LEMMA Referenced ==
  ASSUME IInv, NEW o \in Objects
  PROVE  /\ obj[o].ref >= 0
         /\ InUse(o) \/ obj[o].pending > 0 \/ Running(o) # {} \/ Releasing(o) # {} =>
              obj[o].ref >= 1 /\ obj[o].state = "alive"
         /\ InUse(o) /\ obj[o].ref = 1 => obj[o].pending = 0 /\ Running(o) = {} /\ Releasing(o) = {}
<1>1. /\ Cardinality(Running(o)) \in Nat /\ (Cardinality(Running(o)) = 0 <=> Running(o) = {})
      /\ Cardinality(Releasing(o)) = IF Releasing(o) = {} THEN 0 ELSE 1
  BY Counted DEF IInv
<1>2. obj[o].ref \in Int /\ obj[o].pending \in Nat
  BY Fields DEF IInv
<1>3. obj[o].ref = (IF InUse(o) THEN 1 ELSE 0)
                     + obj[o].pending + Cardinality(Running(o)) + Cardinality(Releasing(o))
  BY DEF IInv, ObjectExact, CountsExact
<1>4. obj[o].state # "alive" => obj[o].ref = 0
  BY DEF IInv, ObjectExact, FlagsExact
<1> QED BY <1>1, <1>2, <1>3, <1>4

\* A timer that is set or expires is one that the timer queue counts.
LEMMA TicksCounted ==
  ASSUME TimersExact, \A c \in Clients : ClientExact(c), NEW o \in Timers, Ticks(o)
  PROVE  TimerCounted(o)
<1>1. handle[o] \in {"live", "closing"} /\ \A c \in Releasing(o) : pc[c] = "m_timer" /\ arg[c] = o
  BY DEF TimersExact, Ticks
<1>2. ASSUME NEW c \in Clients PROVE ~OffQueue(c, o)
  <2>1. pc[c] = "a_timer" => arg[c] # o
    BY <1>1 DEF ClientExact, Allocating
  <2>2. pc[c] = "unref" => arg[c] # o
    BY DEF ClientExact, Ticks
  <2>3. Contains(gone[c], o) => pc[c] = "m_timer" /\ arg[c] = o
    BY <1>1 DEF Releasing
  <2> QED BY <2>1, <2>2, <2>3 DEF OffQueue
<1> QED BY <1>1, <1>2 DEF TimerCounted, InUse

\* tp_timerqueue_unlock: also a timer that has been taken off already is not set.
LEMMA Unlocked ==
  ASSUME IInv, NEW o, TimerqueueUnlock(o)
  PROVE  /\ timerq'.pending = timerq.pending \ {o} /\ timerq'.initialized = timerq.initialized \ {o}
         /\ timerq'.objcount = IF o \in timerq.initialized THEN timerq.objcount - 1 ELSE timerq.objcount
         /\ timerq' \in TimerStruct /\ pc[TimerThread] # "t_submit"
<1>1. timerq \in TimerStruct
  BY DEF IInv, TypeOK, TimerStruct
<1>2. o \in timerq.pending => o \in timerq.initialized
  <2>1. o \in timerq.pending => o \in Timers /\ Ticks(o)
    BY <1>1 DEF TimerStruct, Ticks
  <2> QED BY <2>1, TicksCounted DEF IInv, TimersCounted
<1>3. pc[TimerThread] # "t_submit"
  BY Kinds DEF TimerqueueUnlock, IInv, LocksHeld, Free
<1>4. CASE o \in timerq.initialized
  <2>1. timerq' = [timerq EXCEPT !.objcount = @ - 1, !.pending = @ \ {o}, !.initialized = @ \ {o}]
    BY <1>4 DEF TimerqueueUnlock
  <2>2. timerq.objcount \in Int /\ timerq.pending \subseteq Timers /\ timerq.initialized \subseteq Timers
    BY <1>1 DEF TimerStruct
  <2>3. PICK n \in Int : n = timerq.objcount - 1
    BY <2>2
  <2>4. PICK s \in SUBSET Timers : s = timerq.pending \ {o}
    BY <2>2
  <2>5. PICK i \in SUBSET Timers : i = timerq.initialized \ {o}
    BY <2>2
  <2>6. timerq' = [timerq EXCEPT !.objcount = n, !.pending = s, !.initialized = i]
    BY <2>1, <2>3, <2>4, <2>5
  <2>7. timerq' \in TimerStruct /\ timerq'.objcount = n /\ timerq'.pending = s /\ timerq'.initialized = i
    BY <1>1, <2>6 DEF TimerStruct
  <2> QED BY <1>3, <1>4, <2>3, <2>4, <2>5, <2>7
<1>5. CASE o \notin timerq.initialized
  <2>1. timerq' = timerq
    BY <1>5 DEF TimerqueueUnlock
  <2> QED BY <1>1, <1>2, <1>3, <1>5, <2>1
<1> QED BY <1>4, <1>5

----------------------------------------
(* The steps, by what they do to the objects *)

LEMMA Cases ==
  ASSUME Next
  PROVE  \/ \E t \in Threads : Quiet(t)
         \/ \E t \in Threads : \E o : Submits(t, o)
         \/ \E t \in Threads : Destroy(t)
         \/ \E t \in Threads : Destroy2(t)
         \/ \E c \in Clients : \E o : Cancels(c, o)
         \/ \E c \in Clients : \E o \in Objects : Alloc(c, o)
         \/ \E c \in Clients : TpReleaseCleanupGroupMembers(c)
         \/ \E c \in Clients : AllocTimerFails(c)
         \/ \E c \in Clients : AllocGroup(c)
         \/ \E c \in Clients : Unref(c)
         \/ \E c \in Clients : MemberEach(c)
         \/ \E c \in Clients : MemberRelease(c)
         \/ \E w \in Workers : WorkerTake(w)
         \/ \E w \in Workers : CallbackReturns(w)
         \/ \E w \in Workers : TpDisassociateCallback(w)
         \/ \E w \in Workers : CallbackReleases(w)
<1>0. Clients \subseteq Threads /\ Workers \subseteq Threads /\ TimerThread \in Threads
  BY Kinds
<1>1. ASSUME NEW c \in Clients, Call(c)
      PROVE  \/ Quiet(c) \/ (\E o : Submits(c, o)) \/ (\E o : Cancels(c, o))
             \/ (\E o \in Objects : Alloc(c, o)) \/ TpReleaseCleanupGroupMembers(c)
  <2>1. CASE \E n \in Limits : TpSetPoolMaxThreads(c, n) \/ TpSetPoolMinThreads(c, n)
    BY <2>1, Zenon DEF Quiet, QuietCall
  <2>2. CASE TpReleasePool(c) \/ TpReleaseCleanupGroup(c) \/ TpReleaseCleanupGroupMembers(c)
    BY <2>2, Zenon DEF Quiet, QuietCall
  <2>3. ASSUME NEW o \in Objects, Alloc(c, o) \/ TpRelease(c, o)
        PROVE  Quiet(c) \/ \E x \in Objects : Alloc(c, x)
    BY <2>3, Zenon DEF Quiet, QuietCall
  <2>4. ASSUME NEW o \in Objects, TpPostWork(c, o)
        PROVE  \E x : Submits(c, x)
    BY <2>4, Zenon DEF Submits
  <2>5. ASSUME NEW o \in Objects, \E later, now, period \in BOOLEAN : TpSetTimer(c, o, later, now, period)
        PROVE  Quiet(c)
    BY <2>5, Zenon DEF Quiet, QuietCall
  <2>6. ASSUME NEW o \in Objects, NEW cancel \in BOOLEAN, TpWaitFor(c, o, cancel)
        PROVE  Quiet(c) \/ \E x : Cancels(c, x)
    <3>1. CASE cancel = TRUE
      BY <2>6, <3>1, Zenon DEF Cancels
    <3>2. CASE cancel = FALSE
      BY <2>6, <3>2, Zenon DEF Quiet, QuietCall
    <3> QED BY <3>1, <3>2
  <2> QED BY <1>1, <2>1, <2>2, <2>3, <2>4, <2>5, <2>6, Zenon DEF Call
<1>2. ASSUME NEW c \in Clients, InCall(c)
      PROVE  \/ Quiet(c) \/ (\E o : Submits(c, o)) \/ (\E o : Cancels(c, o))
             \/ Destroy(c) \/ Destroy2(c) \/ AllocTimerFails(c) \/ AllocGroup(c) \/ Unref(c) \/ MemberEach(c) \/ MemberRelease(c)
  BY <1>2, Zenon DEF InCall, Quiet, QuietCall, Submits, Cancels
<1>3. ASSUME NEW w \in Workers, Work(w) \/ InCallback(w)
      PROVE  \/ Quiet(w) \/ (\E o : Submits(w, o))
             \/ Destroy(w) \/ Destroy2(w) \/ WorkerTake(w) \/ CallbackReturns(w) \/ TpDisassociateCallback(w)
             \/ CallbackReleases(w)
  BY <1>3, Zenon DEF Work, InCallback, Quiet, QuietWork, Submits
<1>4. ASSUME TimerStep
      PROVE  Quiet(TimerThread) \/ (\E o : Submits(TimerThread, o))
  BY <1>4, Zenon DEF TimerStep, Quiet, QuietTimer, Submits
<1>5. \/ \E c \in Clients : Call(c) \/ InCall(c)
      \/ \E w \in Workers : Work(w) \/ InCallback(w)
      \/ TimerStep
  BY DEF Next
<1> QED BY <1>0, <1>1, <1>2, <1>3, <1>4, <1>5

LEMMA QuietMoves ==
  ASSUME IInv, NEW t \in Threads, Quiet(t)
  PROVE  PlacesOK' /\ Others(t)
<1>1. CASE t \in Clients /\ QuietCall(t)
  BY <1>1, CallMoves, ObjectMoves, MemberMoves, Zenon DEF QuietCall, Moved
<1>2. CASE t \in Workers /\ QuietWork(t)
  BY <1>2, WorkerMoves, CallbackMoves, Zenon DEF QuietWork, Moved
<1>3. CASE t = TimerThread /\ QuietTimer
  BY <1>3, TimerMoves, Zenon DEF QuietTimer, Moved
<1> QED BY <1>1, <1>2, <1>3, Zenon DEF Quiet

LEMMA SubmitsMoves ==
  ASSUME IInv, NEW t \in Threads, NEW o, Submits(t, o)
  PROVE  PlacesOK' /\ Others(t)
<1>1. CASE t \in Clients /\ TpPostWork(t, o)
  <2>1. o \in Objects
    BY <1>1, Kinds DEF TpPostWork, Objects
  <2> QED BY <1>1, <2>1, CallMoves, Zenon DEF Moved
<1>2. CASE t \in Clients /\ (AllocSubmit(t) \/ SetTimerSubmit(t))
  BY <1>2, ObjectMoves, Zenon DEF Moved
<1>3. CASE t \in Workers /\ CallbackPosts(t)
  BY <1>3, CallbackMoves, Zenon DEF Moved
<1>4. CASE t = TimerThread /\ TimerSubmit
  BY <1>4, TimerMoves, Zenon DEF Moved
<1> QED BY <1>1, <1>2, <1>3, <1>4, Zenon DEF Submits

\* Only workers run callbacks.
LEMMA OutsideCallbacks ==
  ASSUME NEW t \in Threads \ Workers, PlacesOK, PlacesOK', Others(t), inst' = inst
  PROVE  SameRunners
BY Kinds DEF Others, SameRunners

LEMMA QuietKept ==
  ASSUME IInv, NEW t \in Threads, Quiet(t)
  PROVE  Kept
<1>1. CASE t \in Clients /\ QuietCall(t)
  <2>1. ASSUME NEW n \in Limits, TpSetPoolMaxThreads(t, n) \/ TpSetPoolMinThreads(t, n) PROVE Kept
    BY <2>1 DEF TpSetPoolMaxThreads, TpSetPoolMinThreads, Kept, SameObject, groupVars, userVars
  <2>2. ASSUME TpReleasePool(t) \/ TpReleaseCleanupGroup(t) PROVE Kept
    BY <2>2 DEF TpReleasePool, TpReleaseCleanupGroup, Kept, SameObject, groupVars, userVars, poolVars
  <2>3. ASSUME NEW o \in Objects, TpRelease(t, o) PROVE Kept
    BY <2>3 DEF TpRelease, Kept, SameObject, groupVars, userVars, poolVars
  <2>4. ASSUME NEW o \in Objects, NEW later \in BOOLEAN, NEW now \in BOOLEAN, NEW period \in BOOLEAN,
               TpSetTimer(t, o, later, now, period)
        PROVE  Kept
    <3>1. obj' = [obj EXCEPT ![o].period = later /\ period]
      BY <2>4 DEF TpSetTimer
    <3>2. PICK b : b = (later /\ period)
      OBVIOUS
    <3>3. obj' = [obj EXCEPT ![o].period = b] /\ obj \in [Objects -> ObjectStruct]
      BY <3>1, <3>2 DEF IInv, TypeOK
    <3>4. \A x \in Objects : SameObject(x)
      BY <3>3 DEF ObjectStruct, SameObject
    <3> QED BY <2>4, <3>4 DEF TpSetTimer, Kept, groupVars, userVars, poolVars
  <2>5. ASSUME NEW o \in Objects, TpWaitFor(t, o, FALSE) PROVE Kept
    BY <2>5 DEF TpWaitFor, Kept, SameObject, groupVars, userVars, poolVars
  <2>6. ASSUME AllocTimer(t) \/ ObjectWait(t) PROVE Kept
    BY <2>6 DEF AllocTimer, ObjectWait, Kept, SameObject, groupVars, userVars, poolVars
  <2>7. ASSUME MemberTimer(t) \/ MembersMoved(t) PROVE Kept
    BY <2>7 DEF MemberTimer, MembersMoved, Kept, SameObject, groupVars, userVars, poolVars
  <2>8. ASSUME MemberWait(t) \/ MembersReleased(t) PROVE Kept
    BY <2>8 DEF MemberWait, MembersReleased, Kept, SameObject, groupVars, userVars, poolVars
  <2> QED BY <1>1, <2>1, <2>2, <2>3, <2>4, <2>5, <2>6, <2>7, <2>8, Zenon DEF QuietCall
<1>2. CASE t \in Workers /\ QuietWork(t)
  <2>1. ASSUME WorkerNoItem(t) \/ WorkerSleep(t) \/ WorkerTimeout(t) \/ WorkerTimedOut(t) PROVE Kept
    BY <2>1 DEF WorkerNoItem, WorkerSleep, WorkerTimeout, WorkerTimedOut, Kept, SameObject, groupVars, userVars, poolVars
  <2>2. ASSUME WorkerLeave(t) \/ TpCallbackMayRunLong(t) PROVE Kept
    BY <2>2 DEF WorkerLeave, TpCallbackMayRunLong, Kept, SameObject, groupVars, userVars
  <2> QED BY <1>2, <2>1, <2>2, Zenon DEF QuietWork
<1>3. CASE t = TimerThread /\ QuietTimer
  BY <1>3 DEF QuietTimer, TimerExpires, TimerThreadEnds, Kept, SameObject, groupVars, userVars, poolVars
<1> QED BY <1>1, <1>2, <1>3, Zenon DEF Quiet

LEMMA QuietRunners ==
  ASSUME IInv, NEW t \in Threads, Quiet(t)
  PROVE  SameRunners
<1>0. PlacesOK /\ PlacesOK' /\ Others(t)
  BY QuietMoves, Parts, Zenon
<1>1. CASE t \notin Workers
  <2>1. inst' = inst
    BY <1>1, Kinds DEF Quiet, QuietCall, QuietTimer, TpSetPoolMaxThreads, TpSetPoolMinThreads, TpReleasePool,
        TpReleaseCleanupGroup, TpRelease, TpSetTimer, TpWaitFor, AllocTimer, ObjectWait, MemberTimer, MembersMoved,
        MemberWait, MembersReleased, TimerExpires, TimerThreadEnds
  <2> QED BY <1>0, <1>1, <2>1, OutsideCallbacks, Zenon
<1>2. CASE t \in Workers
  <2>0. QuietWork(t)
    BY <1>2, Kinds, Zenon DEF Quiet
  <2>1. ASSUME NEW from, NEW to, NEW a, Moved(t, from, to, a), inst' = inst,
               from = "callback" <=> to = "callback", from = "callback" => a = arg[t]
        PROVE  SameRunners
    BY <2>1, Kinds DEF Moved, Others, SameRunners
  <2>2. ASSUME WorkerNoItem(t) PROVE SameRunners
    <3>1. Moved(t, pc[t], NoItem, arg[t]) /\ pc[t] \in {"start", "wake", "locked"} /\ inst' = inst /\ NoItem # "callback"
      BY <1>2, <2>2, WorkerMoves DEF WorkerNoItem, NoItem
    <3> QED BY <2>1, <3>1
  <2>3. ASSUME WorkerSleep(t) PROVE SameRunners
    <3>1. Moved(t, "to_sleep", "sleep", arg[t]) /\ inst' = inst
      BY <1>2, <2>3, WorkerMoves DEF WorkerSleep
    <3> QED BY <2>1, <3>1
  <2>4. ASSUME WorkerTimeout(t) PROVE SameRunners
    <3>1. Moved(t, "sleep", "timeout", arg[t]) /\ inst' = inst
      BY <1>2, <2>4, WorkerMoves DEF WorkerTimeout
    <3> QED BY <2>1, <3>1
  <2>5. ASSUME WorkerTimedOut(t) PROVE SameRunners
    <3>1. Moved(t, "timeout", IF MayTerminate THEN "leave" ELSE "locked", arg[t]) /\ inst' = inst
      BY <1>2, <2>5, WorkerMoves DEF WorkerTimedOut
    <3> QED BY <2>1, <3>1
  <2>6. ASSUME WorkerLeave(t) PROVE SameRunners
    <3>1. Moved(t, "leave", "none", arg[t]) /\ inst' = inst
      BY <1>2, <2>6, WorkerMoves DEF WorkerLeave
    <3> QED BY <2>1, <3>1
  <2>7. ASSUME TpCallbackMayRunLong(t) PROVE SameRunners
    <3>1. Moved(t, "callback", "callback", arg[t])
      BY <1>2, <2>7, CallbackMoves
    <3>2. inst' = [inst EXCEPT ![t].long = TRUE]
      BY <2>7 DEF TpCallbackMayRunLong
    <3>3. \A w \in Workers : inst'[w].associated = inst[w].associated
      BY <3>2 DEF IInv, TypeOK
    <3> QED BY <3>1, <3>3, Kinds DEF Moved, Others, SameRunners
  <2> QED BY <2>0, <2>2, <2>3, <2>4, <2>5, <2>6, <2>7, Zenon DEF QuietWork
<1> QED BY <1>1, <1>2

----------------------------------------
(* tp_object_submit *)

\* A callback is requested only for an object that somebody may use.
LEMMA SubmitUse ==
  ASSUME IInv, NEW t \in Threads, NEW o, Submits(t, o)
  PROVE  /\ o \in Objects /\ InUse(o) /\ ~obj[o].shutdown
         /\ \E to \in PlacesOf(t) : Submit(t, o, to) /\ pc'[t] = to
         /\ handle' = handle /\ members' = members /\ gone' = gone /\ inst' = inst
         /\ o \in Simples => t \in Clients /\ pc[t] = "a_submit" /\ arg[t] = o
         /\ t \in Clients /\ pc[t] = "a_submit" => arg[t] = o
<1>0. /\ \A x \in Objects \ Simples : obj[x].shutdown => handle[x] = "closed"
      /\ \A x \in Works : x \in Objects /\ x \notin Simples
      /\ \A x \in Timers : x \in Objects /\ x \notin Simples
      /\ \A x \in Simples : x \in Objects
  BY ThreadPoolAssumption DEF IInv, ObjectExact, FlagsExact, Objects
<1>1. CASE t \in Clients /\ TpPostWork(t, o)
  <2>1. /\ o \in Works /\ handle[o] = "live" /\ Submit(t, o, "idle") /\ pc[t] = "idle"
        /\ handle' = handle /\ members' = members /\ gone' = gone /\ inst' = inst
    BY <1>1 DEF TpPostWork, groupVars
  <2>2. "idle" \in PlacesOf(t) /\ pc'[t] = "idle"
    BY <1>0, <1>1, <2>1, CallMoves, ClientPlace DEF PlacesOf, Moved
  <2> QED BY <1>0, <2>1, <2>2 DEF InUse
<1>2. CASE t \in Clients /\ AllocSubmit(t) /\ o = arg[t]
  <2>1. /\ pc[t] = "a_submit" /\ Submit(t, o, "a_group")
        /\ handle' = handle /\ members' = members /\ gone' = gone /\ inst' = inst
    BY <1>2 DEF AllocSubmit, groupVars
  <2>2. "a_group" \in PlacesOf(t) /\ pc'[t] = "a_group"
    BY <1>2, ObjectMoves, ClientPlace DEF PlacesOf, Moved
  <2>3. o \in Simples /\ handle[o] = "alloc" /\ ~obj[o].shutdown
    BY <1>2, <2>1 DEF IInv, ClientExact, Allocating
  <2> QED BY <1>0, <1>2, <2>1, <2>2, <2>3 DEF InUse
<1>3. CASE t \in Clients /\ SetTimerSubmit(t) /\ o = arg[t]
  <2>1. /\ pc[t] = "s_submit" /\ Submit(t, o, "idle")
        /\ handle' = handle /\ members' = members /\ gone' = gone /\ inst' = inst
    BY <1>3 DEF SetTimerSubmit, groupVars
  <2>2. "idle" \in PlacesOf(t) /\ pc'[t] = "idle"
    BY <1>3, ObjectMoves, ClientPlace DEF PlacesOf, Moved
  <2>3. o \in Timers /\ handle[o] = "live"
    BY <1>3, <2>1 DEF IInv, ClientExact, Using
  <2> QED BY <1>0, <2>1, <2>2, <2>3 DEF InUse
<1>4. CASE t \in Workers /\ CallbackPosts(t) /\ o = arg[t]
  <2>1. /\ pc[t] = "callback" /\ Submit(t, o, "callback") /\ o \in Works /\ handle[o] \in {"live", "closing"}
        /\ handle' = handle /\ members' = members /\ gone' = gone /\ inst' = inst
    BY <1>4 DEF CallbackPosts, groupVars
  <2>2. "callback" \in PlacesOf(t) /\ pc'[t] = "callback"
    BY <1>4, CallbackMoves, WorkerPlace, Kinds DEF PlacesOf, Moved
  <2> QED BY <1>0, <1>4, <2>1, <2>2, Kinds DEF InUse
<1>5. CASE t = TimerThread /\ TimerSubmit /\ o = arg[t]
  <2>1. /\ pc[t] = "t_submit" /\ Submit(t, o, "none")
        /\ handle' = handle /\ members' = members /\ gone' = gone /\ inst' = inst
    BY <1>5 DEF TimerSubmit, groupVars
  <2>2. "none" \in PlacesOf(t) /\ pc'[t] = "none"
    BY <1>5, TimerMoves, Kinds DEF PlacesOf, Moved
  <2>3. o \in Timers /\ handle[o] \in {"live", "closing"}
    BY <1>5, <2>1 DEF IInv, TimersExact
  <2> QED BY <1>0, <1>5, <2>1, <2>2, <2>3, Kinds DEF InUse
<1> QED BY <1>1, <1>2, <1>3, <1>4, <1>5, Zenon DEF Submits

LEMMA SubmitObject ==
  ASSUME TypeOK, NEW o \in Objects, NEW t, NEW to, Submit(t, o, to)
  PROVE  /\ obj'[o].ref = obj[o].ref + 1 /\ obj'[o].pending = obj[o].pending + 1
         /\ obj'[o].running = obj[o].running /\ obj'[o].associated = obj[o].associated
         /\ obj'[o].state = obj[o].state /\ obj'[o].shutdown = obj[o].shutdown
         /\ \A x \in Objects \ {o} : obj'[x] = obj[x]
         /\ obj' \in [Objects -> ObjectStruct]
<1>1. obj' = [obj EXCEPT ![o].ref = @ + 1, ![o].pending = @ + 1]
  BY DEF Submit
<1>2. PICK q \in ObjectStruct : q = obj[o]
  BY DEF TypeOK
<1>3. PICK r : r = [q EXCEPT !.ref = @ + 1, !.pending = @ + 1]
  OBVIOUS
<1>4. obj' = [obj EXCEPT ![o] = r]
  BY <1>1, <1>2, <1>3
<1>5. q.ref + 1 \in Int /\ q.pending + 1 \in Nat
  BY <1>2 DEF ObjectStruct
<1>6. r \in ObjectStruct
  BY <1>2, <1>3, <1>5 DEF ObjectStruct
<1>7. r.ref = q.ref + 1 /\ r.pending = q.pending + 1
  BY <1>2, <1>3 DEF ObjectStruct
<1>8. r.running = q.running /\ r.associated = q.associated /\ r.state = q.state /\ r.shutdown = q.shutdown
  BY <1>2, <1>3 DEF ObjectStruct
<1>9. obj'[o] = r /\ (\A x \in Objects \ {o} : obj'[x] = obj[x]) /\ obj' \in [Objects -> ObjectStruct]
  BY <1>4, <1>6 DEF TypeOK
<1> QED BY <1>2, <1>7, <1>8, <1>9

LEMMA SubmitQueue ==
  ASSUME TypeOK, QueuesExact, NEW o \in Objects, NEW t, NEW to, Submit(t, o, to)
  PROVE  /\ queue' \in [Priorities -> Seq(Objects)]
         /\ \A p \in Priorities : IsInjective(queue'[p])
         /\ \A p \in Priorities : \A x : Contains(queue'[p], x) <=> Contains(queue[p], x) \/ (p = Prio(o) /\ x = o)
         /\ Len(Queued') \in Nat
         /\ Len(Queued') = Len(Queued) + (IF obj[o].pending = 0 THEN 1 ELSE 0)
<1>0. Prio(o) \in Priorities /\ queue[Prio(o)] \in Seq(Objects) /\ queue \in [Priorities -> Seq(Objects)]
  BY DEF Prio, Priorities, TypeOK
<1>1. CASE obj[o].pending = 0
  <2>1. PICK q \in Seq(Objects) : q = Append(queue[Prio(o)], o)
    BY <1>0, Appended
  <2>2. queue' = [queue EXCEPT ![Prio(o)] = q]
    BY <1>1, <2>1 DEF Submit
  <2>3. ~Contains(queue[Prio(o)], o) /\ \A p \in Priorities : IsInjective(queue[p])
    BY <1>0, <1>1 DEF QueuesExact
  <2>4. /\ Len(q) = Len(queue[Prio(o)]) + 1 /\ IsInjective(q)
        /\ \A x : Contains(q, x) <=> Contains(queue[Prio(o)], x) \/ x = o
    BY <1>0, <2>1, <2>3, Appended
  <2>5. /\ queue' \in [Priorities -> Seq(Objects)] /\ queue'[Prio(o)] = q
        /\ \A p \in Priorities \ {Prio(o)} : queue'[p] = queue[p]
    BY <1>0, <2>2
  <2>6. /\ \A p \in Priorities : IsInjective(queue'[p])
        /\ \A p \in Priorities : \A x : Contains(queue'[p], x) <=> Contains(queue[p], x) \/ (p = Prio(o) /\ x = o)
    BY <2>3, <2>4, <2>5, Zenon
  <2>7. Len(queue'[Prio(o)]) = Len(queue[Prio(o)]) + 1
    BY <2>4, <2>5
  <2>8. Len(Queued') \in Nat /\ Len(Queued') = Len(Queued) + 1
    BY <1>0, <2>5, <2>7, QueueLength
  <2> QED BY <1>1, <2>5, <2>6, <2>8
<1>2. CASE obj[o].pending # 0
  <2>1. queue' = queue /\ obj[o].pending > 0
    BY <1>2, Fields DEF Submit
  <2>2. Queued' = Queued /\ Len(Queued) \in Nat
    BY <2>1, QueueNow DEF Queued
  <2>3. Contains(queue[Prio(o)], o) /\ \A p \in Priorities : IsInjective(queue[p])
    BY <1>0, <2>1 DEF QueuesExact
  <2> QED BY <1>0, <1>2, <2>1, <2>2, <2>3
<1> QED BY <1>1, <1>2

----------------------------------------
(* The other changes of one object *)

LEMMA OneObject ==
  ASSUME TypeOK, NEW o \in Objects, NEW r \in ObjectStruct, obj' = [obj EXCEPT ![o] = r]
  PROVE  obj'[o] = r /\ (\A x \in Objects \ {o} : obj'[x] = obj[x]) /\ obj' \in [Objects -> ObjectStruct]
BY DEF TypeOK

\* tp_object_cancel
LEMMA CancelObject ==
  ASSUME TypeOK, NEW o \in Objects, Cancel(o)
  PROVE  /\ obj'[o].ref = obj[o].ref - obj[o].pending /\ obj'[o].pending = 0
         /\ obj'[o].running = obj[o].running /\ obj'[o].associated = obj[o].associated
         /\ obj'[o].state = obj[o].state /\ obj'[o].shutdown = obj[o].shutdown
         /\ \A x \in Objects \ {o} : obj'[x] = obj[x]
         /\ obj' \in [Objects -> ObjectStruct]
<1>1. obj' = [obj EXCEPT ![o].pending = 0, ![o].ref = @ - obj[o].pending]
  BY DEF Cancel
<1>2. PICK q \in ObjectStruct : q = obj[o]
  BY DEF TypeOK
<1>3. PICK r : r = [q EXCEPT !.pending = 0, !.ref = @ - q.pending]
  OBVIOUS
<1>4. obj' = [obj EXCEPT ![o] = r]
  BY <1>1, <1>2, <1>3
<1>5. q.ref - q.pending \in Int /\ 0 \in Nat
  BY <1>2 DEF ObjectStruct
<1>6. r \in ObjectStruct
  BY <1>2, <1>3, <1>5 DEF ObjectStruct
<1>7. r.ref = q.ref - q.pending /\ r.pending = 0
  BY <1>2, <1>3 DEF ObjectStruct
<1>8. r.running = q.running /\ r.associated = q.associated /\ r.state = q.state /\ r.shutdown = q.shutdown
  BY <1>2, <1>3 DEF ObjectStruct
<1>9. obj'[o] = r /\ (\A x \in Objects \ {o} : obj'[x] = obj[x]) /\ obj' \in [Objects -> ObjectStruct]
  BY <1>4, <1>6, OneObject, Zenon
<1> QED BY <1>2, <1>7, <1>8, <1>9

LEMMA CancelQueue ==
  ASSUME TypeOK, QueuesExact, NEW o \in Objects, Cancel(o)
  PROVE  /\ queue' \in [Priorities -> Seq(Objects)]
         /\ \A p \in Priorities : IsInjective(queue'[p])
         /\ \A p \in Priorities : \A x : Contains(queue'[p], x) <=> Contains(queue[p], x) /\ (p # Prio(o) \/ x # o)
         /\ Len(Queued') \in Nat /\ Len(Queued) \in Nat /\ Len(Queued') <= Len(Queued)
<1>0. Prio(o) \in Priorities /\ queue[Prio(o)] \in Seq(Objects) /\ queue \in [Priorities -> Seq(Objects)]
  BY DEF Prio, Priorities, TypeOK
<1>1. \A p \in Priorities : IsInjective(queue[p])
  BY DEF QueuesExact
<1>2. /\ Without(queue[Prio(o)], o) \in Seq(Objects) /\ IsInjective(Without(queue[Prio(o)], o))
      /\ Len(Without(queue[Prio(o)], o)) \in Nat /\ Len(queue[Prio(o)]) \in Nat
      /\ Len(Without(queue[Prio(o)], o)) <= Len(queue[Prio(o)])
      /\ \A x : Contains(Without(queue[Prio(o)], o), x) <=> Contains(queue[Prio(o)], x) /\ x # o
  BY <1>0, <1>1, Removed, Zenon
<1>3. PICK q \in Seq(Objects) : q = Without(queue[Prio(o)], o)
  BY <1>2
<1>4. queue' = [queue EXCEPT ![Prio(o)] = q]
  BY <1>3 DEF Cancel
<1>5. /\ queue' \in [Priorities -> Seq(Objects)] /\ queue'[Prio(o)] = q
      /\ \A p \in Priorities \ {Prio(o)} : queue'[p] = queue[p]
  BY <1>0, <1>4
<1>6. /\ \A p \in Priorities : IsInjective(queue'[p])
      /\ \A p \in Priorities : \A x : Contains(queue'[p], x) <=> Contains(queue[p], x) /\ (p # Prio(o) \/ x # o)
  BY <1>1, <1>2, <1>3, <1>5, Zenon
<1>7. PICK m \in Nat : m = Len(q) /\ m <= Len(queue[Prio(o)])
  BY <1>2, <1>3, Zenon
<1>8. PICK n \in Nat : n = Len(queue[Prio(o)])
  BY <1>2
<1>9. PICK d \in Int : d = m - n /\ m = n + d /\ d <= 0
  <2>1. m - n \in Int /\ m = n + (m - n) /\ m - n <= 0
    BY <1>7, <1>8
  <2> QED BY <2>1
<1>10. Len(queue'[Prio(o)]) = Len(queue[Prio(o)]) + d
  BY <1>5, <1>7, <1>8, <1>9, Zenon
<1>11. Len(Queued') \in Nat /\ Len(Queued) \in Nat /\ Len(Queued') = Len(Queued) + d
  BY <1>0, <1>5, <1>10, QueueLength
<1>12. Len(Queued') <= Len(Queued)
  BY <1>9, <1>11
<1> QED BY <1>5, <1>6, <1>11, <1>12

\* A worker takes the first object.
LEMMA TakeItem ==
  ASSUME TypeOK, QueuesExact, Queued # <<>>
  PROVE  /\ NextItem \in Objects /\ obj[NextItem].pending > 0
         /\ queue[Prio(NextItem)] # <<>> /\ Head(queue[Prio(NextItem)]) = NextItem
<1>0. queue \in [Priorities -> Seq(Objects)] /\ "high" \in Priorities /\ "normal" \in Priorities
  BY DEF TypeOK, Priorities
<1>1. /\ queue["high"] # <<>> => Head(Queued) = Head(queue["high"])
      /\ queue["high"] = <<>> => Queued = queue["normal"]
  BY <1>0, TwoQueues, Zenon DEF Queued
<1>2. PICK p \in Priorities : queue[p] # <<>> /\ NextItem = Head(queue[p])
  BY <1>0, <1>1 DEF NextItem
<1>3. queue[p] \in Seq(Objects) /\ IsInjective(queue[p])
  BY DEF TypeOK, QueuesExact
<1>4. Head(queue[p]) \in Objects /\ Contains(queue[p], Head(queue[p]))
  BY <1>2, <1>3, Tailed, Zenon
<1>5. p = Prio(NextItem) /\ obj[NextItem].pending > 0
  BY <1>2, <1>4 DEF QueuesExact
<1> QED BY <1>2, <1>4, <1>5

LEMMA TakeObject ==
  ASSUME TypeOK, QueuesExact, NEW w \in Workers, WorkerTake(w), NEW o, o = NextItem
  PROVE  /\ o \in Objects /\ obj[o].pending > 0
         /\ obj'[o].ref = obj[o].ref /\ obj'[o].pending = obj[o].pending - 1
         /\ obj'[o].running = obj[o].running + 1 /\ obj'[o].associated = obj[o].associated + 1
         /\ obj'[o].state = obj[o].state /\ obj'[o].shutdown = obj[o].shutdown
         /\ \A x \in Objects \ {o} : obj'[x] = obj[x]
         /\ obj' \in [Objects -> ObjectStruct]
<1>0. o \in Objects /\ obj[o].pending > 0
  BY TakeItem DEF WorkerTake
<1>1. obj' = [obj EXCEPT ![o].pending = @ - 1, ![o].associated = @ + 1, ![o].running = @ + 1]
  BY DEF WorkerTake
<1>2. PICK q \in ObjectStruct : q = obj[o]
  BY <1>0 DEF TypeOK
<1>3. PICK r : r = [q EXCEPT !.pending = @ - 1, !.associated = @ + 1, !.running = @ + 1]
  OBVIOUS
<1>4. obj' = [obj EXCEPT ![o] = r]
  BY <1>0, <1>1, <1>2, <1>3
<1>5. q.pending - 1 \in Nat /\ q.associated + 1 \in Int /\ q.running + 1 \in Int
  BY <1>0, <1>2 DEF ObjectStruct
<1>6. r \in ObjectStruct
  BY <1>0, <1>2, <1>3, <1>5 DEF ObjectStruct
<1>7. r.pending = q.pending - 1 /\ r.running = q.running + 1 /\ r.associated = q.associated + 1
  BY <1>0, <1>2, <1>3 DEF ObjectStruct
<1>8. r.ref = q.ref /\ r.state = q.state /\ r.shutdown = q.shutdown
  BY <1>0, <1>2, <1>3 DEF ObjectStruct
<1>9. obj'[o] = r /\ (\A x \in Objects \ {o} : obj'[x] = obj[x]) /\ obj' \in [Objects -> ObjectStruct]
  BY <1>0, <1>4, <1>6, OneObject, Zenon
<1> QED BY <1>0, <1>2, <1>7, <1>8, <1>9

LEMMA TakeQueue ==
  ASSUME TypeOK, QueuesExact, NEW w \in Workers, WorkerTake(w), NEW o, o = NextItem
  PROVE  /\ queue' \in [Priorities -> Seq(Objects)]
         /\ \A p \in Priorities : IsInjective(queue'[p])
         /\ obj[o].pending > 1 => \A p \in Priorities : \A x : Contains(queue'[p], x) <=> Contains(queue[p], x)
         /\ ~(obj[o].pending > 1) =>
              \A p \in Priorities : \A x : Contains(queue'[p], x) <=> Contains(queue[p], x) /\ (p # Prio(o) \/ x # o)
         /\ Len(Queued') \in Nat /\ Len(Queued) \in Nat
         /\ Len(Queued') = Len(Queued) + (IF obj[o].pending > 1 THEN 0 ELSE -1)
<1>0. /\ o \in Objects /\ obj[o].pending > 0 /\ queue[Prio(o)] # <<>> /\ Head(queue[Prio(o)]) = o
      /\ Prio(o) \in Priorities /\ queue[Prio(o)] \in Seq(Objects) /\ queue \in [Priorities -> Seq(Objects)]
  <2>1. o \in Objects /\ obj[o].pending > 0 /\ queue[Prio(o)] # <<>> /\ Head(queue[Prio(o)]) = o
    BY TakeItem DEF WorkerTake
  <2> QED BY <2>1 DEF Prio, Priorities, TypeOK
<1>1. \A p \in Priorities : IsInjective(queue[p])
  BY DEF QueuesExact
<1>2. PICK s \in Seq(Objects) : s = queue[Prio(o)]
  BY <1>0
<1>3. /\ Contains(s, o) /\ Tail(s) \in Seq(Objects) /\ Len(Tail(s)) = Len(s) - 1 /\ IsInjective(Tail(s))
      /\ \A x : Contains(Tail(s), x) <=> Contains(s, x) /\ x # o
  BY <1>0, <1>1, <1>2, Tailed, Zenon
<1>4. /\ Append(Tail(s), o) \in Seq(Objects) /\ Len(Append(Tail(s), o)) = Len(Tail(s)) + 1
      /\ IsInjective(Append(Tail(s), o)) /\ \A x : Contains(Append(Tail(s), o), x) <=> Contains(Tail(s), x) \/ x = o
  BY <1>0, <1>3, Appended, Zenon
<1>5. Len(s) \in Nat /\ Len(s) - 1 + 1 = Len(s) /\ Len(s) - 1 = Len(s) + (-1) /\ Len(s) = Len(s) + 0
  OBVIOUS
<1>6. queue' = [queue EXCEPT ![Prio(o)] = IF obj[o].pending > 1 THEN Append(Tail(s), o) ELSE Tail(s)]
  BY <1>2 DEF WorkerTake
<1>7. CASE obj[o].pending > 1
  <2>1. /\ queue' \in [Priorities -> Seq(Objects)] /\ queue'[Prio(o)] = Append(Tail(s), o)
        /\ \A p \in Priorities \ {Prio(o)} : queue'[p] = queue[p]
    BY <1>0, <1>4, <1>6, <1>7
  <2>2. /\ \A p \in Priorities : IsInjective(queue'[p])
        /\ \A p \in Priorities : \A x : Contains(queue'[p], x) <=> Contains(queue[p], x)
    BY <1>1, <1>2, <1>3, <1>4, <2>1, Zenon
  <2>3. Len(queue'[Prio(o)]) = Len(queue[Prio(o)]) + 0 /\ 0 \in Int
    BY <1>2, <1>3, <1>4, <1>5, <2>1
  <2>4. Len(Queued') \in Nat /\ Len(Queued) \in Nat /\ Len(Queued') = Len(Queued) + 0
    BY <1>0, <2>1, <2>3, QueueLength, Zenon
  <2> QED BY <1>7, <2>1, <2>2, <2>4
<1>8. CASE ~(obj[o].pending > 1)
  <2>1. /\ queue' \in [Priorities -> Seq(Objects)] /\ queue'[Prio(o)] = Tail(s)
        /\ \A p \in Priorities \ {Prio(o)} : queue'[p] = queue[p]
    BY <1>0, <1>3, <1>6, <1>8
  <2>2. /\ \A p \in Priorities : IsInjective(queue'[p])
        /\ \A p \in Priorities : \A x : Contains(queue'[p], x) <=> Contains(queue[p], x) /\ (p # Prio(o) \/ x # o)
    BY <1>1, <1>2, <1>3, <2>1, Zenon
  <2>3. Len(queue'[Prio(o)]) = Len(queue[Prio(o)]) + (-1) /\ -1 \in Int
    BY <1>2, <1>3, <1>5, <2>1
  <2>4. Len(Queued') \in Nat /\ Len(Queued) \in Nat /\ Len(Queued') = Len(Queued) + (-1)
    BY <1>0, <2>1, <2>3, QueueLength, Zenon
  <2> QED BY <1>8, <2>1, <2>2, <2>4, SMTT(20)
<1> QED BY <1>7, <1>8

\* An object is allocated.
LEMMA AllocObject ==
  ASSUME TypeOK, NEW c, NEW o \in Objects, Alloc(c, o)
  PROVE  /\ obj'[o].ref = 1 /\ obj'[o].pending = obj[o].pending /\ obj'[o].running = obj[o].running
         /\ obj'[o].associated = obj[o].associated /\ obj'[o].state = "alive" /\ obj'[o].shutdown = obj[o].shutdown
         /\ \A x \in Objects \ {o} : obj'[x] = obj[x]
         /\ obj' \in [Objects -> ObjectStruct]
<1>1. obj' = [obj EXCEPT ![o].ref = 1, ![o].state = "alive"]
  BY DEF Alloc
<1>2. PICK q \in ObjectStruct : q = obj[o]
  BY DEF TypeOK
<1>3. PICK r : r = [q EXCEPT !.ref = 1, !.state = "alive"]
  OBVIOUS
<1>4. obj' = [obj EXCEPT ![o] = r]
  BY <1>1, <1>2, <1>3
<1>5. 1 \in Int /\ "alive" \in {"none", "alive", "freed"}
  OBVIOUS
<1>6. r \in ObjectStruct
  BY <1>2, <1>3, <1>5 DEF ObjectStruct
<1>7. r.ref = 1 /\ r.pending = q.pending /\ r.running = q.running
  BY <1>2, <1>3 DEF ObjectStruct
<1>8. r.associated = q.associated /\ r.state = "alive" /\ r.shutdown = q.shutdown
  BY <1>2, <1>3 DEF ObjectStruct
<1>9. obj'[o] = r /\ (\A x \in Objects \ {o} : obj'[x] = obj[x]) /\ obj' \in [Objects -> ObjectStruct]
  BY <1>4, <1>6, OneObject, Zenon
<1> QED BY <1>2, <1>7, <1>8, <1>9

\* The timer queue has no thread.
LEMMA AllocTimerFailsObject ==
  ASSUME TypeOK, NEW c, NEW o \in Objects, o = arg[c], AllocTimerFails(c)
  PROVE  /\ obj'[o].ref = 0 /\ obj'[o].pending = obj[o].pending /\ obj'[o].running = obj[o].running
         /\ obj'[o].associated = obj[o].associated /\ obj'[o].state = obj[o].state /\ obj'[o].shutdown = obj[o].shutdown
         /\ \A x \in Objects \ {o} : obj'[x] = obj[x]
         /\ obj' \in [Objects -> ObjectStruct]
<1>1. obj' = [obj EXCEPT ![o].ref = 0]
  BY DEF AllocTimerFails
<1>2. PICK q \in ObjectStruct : q = obj[o]
  BY DEF TypeOK
<1>3. PICK r : r = [q EXCEPT !.ref = 0]
  OBVIOUS
<1>4. obj' = [obj EXCEPT ![o] = r]
  BY <1>1, <1>2, <1>3
<1>5. r \in ObjectStruct
  BY <1>2, <1>3 DEF ObjectStruct
<1>6. r.ref = 0 /\ r.pending = q.pending /\ r.running = q.running
  BY <1>2, <1>3 DEF ObjectStruct
<1>7. r.associated = q.associated /\ r.state = q.state /\ r.shutdown = q.shutdown
  BY <1>2, <1>3 DEF ObjectStruct
<1>8. obj'[o] = r /\ (\A x \in Objects \ {o} : obj'[x] = obj[x]) /\ obj' \in [Objects -> ObjectStruct]
  BY <1>4, <1>5, OneObject, Zenon
<1> QED BY <1>2, <1>6, <1>7, <1>8

\* tp_object_release
LEMMA UnrefRecord ==
  ASSUME NEW q \in ObjectStruct, NEW shut \in BOOLEAN, NEW r, r = [q EXCEPT !.ref = @ - 1, !.shutdown = shut]
  PROVE  /\ r \in ObjectStruct
         /\ r.ref = q.ref - 1 /\ r.pending = q.pending /\ r.running = q.running
         /\ r.associated = q.associated /\ r.state = q.state
<1>1. q.ref - 1 \in Int
  BY DEF ObjectStruct
<1>2. r \in ObjectStruct
  BY <1>1 DEF ObjectStruct
<1>3. r.ref = q.ref - 1 /\ r.pending = q.pending /\ r.running = q.running
  BY DEF ObjectStruct
<1>4. r.associated = q.associated /\ r.state = q.state
  BY DEF ObjectStruct
<1> QED BY <1>2, <1>3, <1>4

LEMMA UnrefObject ==
  ASSUME TypeOK, NEW c, NEW o \in Objects, o = arg[c], Unref(c)
  PROVE  /\ obj'[o].ref = obj[o].ref - 1 /\ obj'[o].pending = obj[o].pending /\ obj'[o].running = obj[o].running
         /\ obj'[o].associated = obj[o].associated /\ obj'[o].state = obj[o].state /\ (obj'[o].shutdown <=> obj[o].shutdown \/ o \notin Simples)
         /\ \A x \in Objects \ {o} : obj'[x] = obj[x]
         /\ obj' \in [Objects -> ObjectStruct]
<1>1. PICK q \in ObjectStruct : q = obj[o]
  BY DEF TypeOK
<1>2. PICK shut \in BOOLEAN : shut = (obj[o].shutdown \/ o \notin Simples)
  OBVIOUS
<1>3. obj' = [obj EXCEPT ![o].ref = @ - 1, ![o].shutdown = shut]
  BY <1>1, <1>2 DEF Unref
<1>4. PICK r : r = [q EXCEPT !.ref = @ - 1, !.shutdown = shut]
  OBVIOUS
<1>5. obj' = [obj EXCEPT ![o] = r]
  BY <1>1, <1>3, <1>4
<1>6. /\ r \in ObjectStruct
      /\ r.ref = q.ref - 1 /\ r.pending = q.pending /\ r.running = q.running
      /\ r.associated = q.associated /\ r.state = q.state
  BY <1>4, UnrefRecord, Zenon
<1>10. r.shutdown = shut
  BY <1>4 DEF ObjectStruct
<1>7. obj'[o] = r /\ (\A x \in Objects \ {o} : obj'[x] = obj[x]) /\ obj' \in [Objects -> ObjectStruct]
  BY <1>5, <1>6, OneObject, Zenon
<1> QED BY <1>1, <1>2, <1>6, <1>7, <1>10

LEMMA Destroy2Object ==
  ASSUME TypeOK, NEW t, NEW o \in Objects, o = arg[t], Destroy2(t)
  PROVE  /\ obj'[o].ref = obj[o].ref /\ obj'[o].pending = obj[o].pending /\ obj'[o].running = obj[o].running
         /\ obj'[o].associated = obj[o].associated /\ obj'[o].state = "freed" /\ obj'[o].shutdown = obj[o].shutdown
         /\ \A x \in Objects \ {o} : obj'[x] = obj[x]
         /\ obj' \in [Objects -> ObjectStruct]
<1>1. obj' = [obj EXCEPT ![o].state = "freed"]
  BY DEF Destroy2
<1>2. PICK q \in ObjectStruct : q = obj[o]
  BY DEF TypeOK
<1>3. PICK r : r = [q EXCEPT !.state = "freed"]
  OBVIOUS
<1>4. obj' = [obj EXCEPT ![o] = r]
  BY <1>1, <1>2, <1>3
<1>5. r \in ObjectStruct
  BY <1>2, <1>3 DEF ObjectStruct
<1>6. r.ref = q.ref /\ r.pending = q.pending /\ r.running = q.running
  BY <1>2, <1>3 DEF ObjectStruct
<1>7. r.associated = q.associated /\ r.state = "freed" /\ r.shutdown = q.shutdown
  BY <1>2, <1>3 DEF ObjectStruct
<1>8. obj'[o] = r /\ (\A x \in Objects \ {o} : obj'[x] = obj[x]) /\ obj' \in [Objects -> ObjectStruct]
  BY <1>4, <1>5, OneObject, Zenon
<1> QED BY <1>2, <1>6, <1>7, <1>8

\* A member is taken off the group, and released.
LEMMA MemberEachObject ==
  ASSUME TypeOK, NEW c, NEW o \in Objects, o = Head(members), MemberEach(c), ~Dying(o)
  PROVE  /\ obj'[o].ref = obj[o].ref + 1 /\ obj'[o].pending = obj[o].pending /\ obj'[o].running = obj[o].running
         /\ obj'[o].associated = obj[o].associated /\ obj'[o].state = obj[o].state /\ obj'[o].shutdown = obj[o].shutdown
         /\ \A x \in Objects \ {o} : obj'[x] = obj[x]
         /\ obj' \in [Objects -> ObjectStruct]
<1>1. obj' = [obj EXCEPT ![o].ref = @ + 1]
  BY DEF MemberEach
<1>2. PICK q \in ObjectStruct : q = obj[o]
  BY DEF TypeOK
<1>3. PICK r : r = [q EXCEPT !.ref = @ + 1]
  OBVIOUS
<1>4. obj' = [obj EXCEPT ![o] = r]
  BY <1>1, <1>2, <1>3
<1>5. q.ref + 1 \in Int
  BY <1>2 DEF ObjectStruct
<1>6. r \in ObjectStruct
  BY <1>2, <1>3, <1>5 DEF ObjectStruct
<1>7. r.ref = q.ref + 1 /\ r.pending = q.pending /\ r.running = q.running
  BY <1>2, <1>3 DEF ObjectStruct
<1>8. r.associated = q.associated /\ r.state = q.state /\ r.shutdown = q.shutdown
  BY <1>2, <1>3 DEF ObjectStruct
<1>9. obj'[o] = r /\ (\A x \in Objects \ {o} : obj'[x] = obj[x]) /\ obj' \in [Objects -> ObjectStruct]
  BY <1>4, <1>6, OneObject, Zenon
<1> QED BY <1>2, <1>7, <1>8, <1>9

LEMMA MemberReleaseObject ==
  ASSUME TypeOK, NEW c, NEW o \in Objects, o = arg[c], MemberRelease(c),
         NEW drop \in Int, drop = (IF obj[o].shutdown \/ o \in Simples THEN 1 ELSE 2)
  PROVE  /\ obj'[o].ref = obj[o].ref - drop /\ obj'[o].pending = obj[o].pending /\ obj'[o].running = obj[o].running
         /\ obj'[o].associated = obj[o].associated /\ obj'[o].state = obj[o].state /\ obj'[o].shutdown
         /\ \A x \in Objects \ {o} : obj'[x] = obj[x]
         /\ obj' \in [Objects -> ObjectStruct]
<1>1. PICK q \in ObjectStruct : q = obj[o]
  BY DEF TypeOK
<1>2. PICK shut \in BOOLEAN : shut = (TRUE)
  OBVIOUS
<1>3. obj' = [obj EXCEPT ![o].ref = @ - drop, ![o].shutdown = shut]
  BY <1>1, <1>2 DEF MemberRelease
<1>4. PICK r : r = [q EXCEPT !.ref = @ - drop, !.shutdown = shut]
  OBVIOUS
<1>5. obj' = [obj EXCEPT ![o] = r]
  BY <1>1, <1>3, <1>4
<1>6. q.ref - drop \in Int
  BY DEF ObjectStruct
<1>7. r \in ObjectStruct
  BY <1>4, <1>6 DEF ObjectStruct
<1>8. r.ref = q.ref - drop /\ r.pending = q.pending /\ r.running = q.running
  BY <1>4 DEF ObjectStruct
<1>9. r.associated = q.associated /\ r.state = q.state /\ r.shutdown = shut
  BY <1>4 DEF ObjectStruct
<1>10. obj'[o] = r /\ (\A x \in Objects \ {o} : obj'[x] = obj[x]) /\ obj' \in [Objects -> ObjectStruct]
  BY <1>5, <1>7, OneObject, Zenon
<1> QED BY <1>1, <1>2, <1>8, <1>9, <1>10

\* A callback returns, or is disassociated from its object.
LEMMA ReturnObject ==
  ASSUME TypeOK, NEW w \in Workers, NEW o \in Objects, o = arg[w], CallbackReturns(w)
  PROVE  /\ obj'[o].ref = obj[o].ref - 1 /\ obj'[o].pending = obj[o].pending /\ obj'[o].running = obj[o].running - 1
         /\ obj'[o].associated = (IF inst[w].associated THEN obj[o].associated - 1 ELSE obj[o].associated)
         /\ obj'[o].state = obj[o].state /\ (obj'[o].shutdown <=> obj[o].shutdown \/ o \in Simples)
         /\ \A x \in Objects \ {o} : obj'[x] = obj[x]
         /\ obj' \in [Objects -> ObjectStruct]
<1>1. PICK q \in ObjectStruct : q = obj[o]
  BY DEF TypeOK
<1>2. PICK shut \in BOOLEAN : shut = (obj[o].shutdown \/ o \in Simples)
  OBVIOUS
<1>3. PICK n \in Int : n = (IF inst[w].associated THEN obj[o].associated - 1 ELSE obj[o].associated)
  BY Fields
<1>4. obj' = [obj EXCEPT ![o].running = @ - 1, ![o].associated = n, ![o].shutdown = shut, ![o].ref = @ - 1]
  BY <1>1, <1>2, <1>3 DEF CallbackReturns
<1>5. PICK r : r = [q EXCEPT !.running = @ - 1, !.associated = n, !.shutdown = shut, !.ref = @ - 1]
  OBVIOUS
<1>6. obj' = [obj EXCEPT ![o] = r]
  BY <1>1, <1>4, <1>5
<1>7. q.ref - 1 \in Int /\ q.running - 1 \in Int
  BY DEF ObjectStruct
<1>8. r \in ObjectStruct
  BY <1>5, <1>7 DEF ObjectStruct
<1>9. r.ref = q.ref - 1 /\ r.pending = q.pending /\ r.running = q.running - 1
  BY <1>5 DEF ObjectStruct
<1>10. r.associated = n /\ r.state = q.state /\ r.shutdown = shut
  BY <1>5 DEF ObjectStruct
<1>11. obj'[o] = r /\ (\A x \in Objects \ {o} : obj'[x] = obj[x]) /\ obj' \in [Objects -> ObjectStruct]
  BY <1>6, <1>8, OneObject, Zenon
<1> QED BY <1>1, <1>2, <1>3, <1>9, <1>10, <1>11

LEMMA DisassociateObject ==
  ASSUME TypeOK, NEW w \in Workers, NEW o \in Objects, o = arg[w], TpDisassociateCallback(w)
  PROVE  /\ obj'[o].ref = obj[o].ref /\ obj'[o].pending = obj[o].pending /\ obj'[o].running = obj[o].running
         /\ obj'[o].associated = obj[o].associated - 1 /\ obj'[o].state = obj[o].state /\ obj'[o].shutdown = obj[o].shutdown
         /\ \A x \in Objects \ {o} : obj'[x] = obj[x]
         /\ obj' \in [Objects -> ObjectStruct]
<1>1. obj' = [obj EXCEPT ![o].associated = @ - 1]
  BY DEF TpDisassociateCallback
<1>2. PICK q \in ObjectStruct : q = obj[o]
  BY DEF TypeOK
<1>3. PICK r : r = [q EXCEPT !.associated = @ - 1]
  OBVIOUS
<1>4. obj' = [obj EXCEPT ![o] = r]
  BY <1>1, <1>2, <1>3
<1>5. q.associated - 1 \in Int
  BY <1>2 DEF ObjectStruct
<1>6. r \in ObjectStruct
  BY <1>2, <1>3, <1>5 DEF ObjectStruct
<1>7. r.ref = q.ref /\ r.pending = q.pending /\ r.running = q.running
  BY <1>2, <1>3 DEF ObjectStruct
<1>8. r.associated = q.associated - 1 /\ r.state = q.state /\ r.shutdown = q.shutdown
  BY <1>2, <1>3 DEF ObjectStruct
<1>9. obj'[o] = r /\ (\A x \in Objects \ {o} : obj'[x] = obj[x]) /\ obj' \in [Objects -> ObjectStruct]
  BY <1>4, <1>6, OneObject, Zenon
<1> QED BY <1>2, <1>7, <1>8, <1>9

----------------------------------------
(* What each of these steps leaves alone *)

\* A thread that deals with an object has one.
LEMMA Dealt ==
  ASSUME IInv
  PROVE  /\ \A c \in Clients : pc[c] \in Allocating \cup Using \cup {"unref"} => arg[c] \in Objects
         /\ \A c \in Clients : pc[c] \in {"m_timer", "m_cancel", "m_sleep", "m_release"} =>
              arg[c] \in Objects /\ Contains(gone[c], arg[c])
         /\ \A t \in Threads : pc[t] \in Destroying => arg[t] \in Objects
         /\ \A w \in Workers : pc[w] = "callback" => arg[w] \in Objects
<1>1. \A c \in Clients : pc[c] \in Allocating \cup Using \cup {"unref"} => arg[c] \in Objects
  BY DEF IInv, ClientExact
<1>2. ASSUME NEW c \in Clients, pc[c] \in {"m_timer", "m_cancel", "m_sleep", "m_release"}
      PROVE  arg[c] \in Objects /\ Contains(gone[c], arg[c])
  <2>0. gone[c] \in Seq(Objects) /\ IsInjective(gone[c])
    BY Parts
  <2>1. CASE pc[c] \in {"m_timer", "m_cancel"}
    <3>1. Contains(gone[c], arg[c])
      BY <2>1 DEF IInv, ClientExact
    <3> QED BY <2>0, <3>1 DEF Contains
  <2>2. CASE pc[c] \in {"m_sleep", "m_release"}
    <3>1. gone[c] # <<>> /\ arg[c] = Head(gone[c])
      BY <2>2 DEF IInv, ClientExact
    <3> QED BY <2>0, <3>1, Tailed
  <2> QED BY <1>2, <2>1, <2>2
<1>3. \A t \in Threads : pc[t] \in Destroying => arg[t] \in Objects
  BY DEF IInv, DestroyerExact
<1>4. \A w \in Workers : pc[w] = "callback" => arg[w] \in Objects
  BY DEF IInv, WorkerExact
<1> QED BY <1>1, <1>2, <1>3, <1>4

LEMMA OneHandle ==
  ASSUME TypeOK, NEW o \in Objects, NEW h \in {"none", "alloc", "live", "closing", "closed"}, handle' = [handle EXCEPT ![o] = h]
  PROVE  /\ handle'[o] = h /\ (\A x \in Objects \ {o} : handle'[x] = handle[x])
         /\ handle' \in [Objects -> {"none", "alloc", "live", "closing", "closed"}]
BY DEF TypeOK

LEMMA AllocStep ==
  ASSUME IInv, NEW c \in Clients, NEW o \in Objects, Alloc(c, o)
  PROVE  /\ Beside(o) /\ handle[o] = "none" /\ handle'[o] = "alloc" /\ obj'[o].ref = 1 /\ obj'[o].state = "alive"
         /\ obj'[o].pending = obj[o].pending /\ obj'[o].running = obj[o].running
         /\ obj'[o].associated = obj[o].associated /\ obj'[o].shutdown = obj[o].shutdown
         /\ members' = members /\ gone' = gone /\ SameRunners /\ PlacesOK' /\ Others(c)
<1>0. TypeOK
  BY DEF IInv
<1>1. \E to \in Allocating : Moved(c, "idle", to, o)
  BY CallMoves, Zenon
<1>2. handle[o] = "none" /\ handle' = [handle EXCEPT ![o] = "alloc"] /\ members' = members /\ gone' = gone /\ inst' = inst /\ queue' = queue
  BY DEF Alloc, groupVars
<1>3. PlacesOK /\ PlacesOK' /\ Others(c) /\ c \in Threads \ Workers
  BY <1>1, Parts, Kinds DEF Moved
<1>4. SameRunners
  BY <1>2, <1>3, OutsideCallbacks, Zenon
<1>6. Beside(o) /\ handle'[o] = "alloc"
  <2>1. /\ handle'[o] = "alloc" /\ (\A x \in Objects \ {o} : handle'[x] = handle[x])
        /\ handle' \in [Objects -> {"none", "alloc", "live", "closing", "closed"}]
    BY <1>0, <1>2, OneHandle
  <2>2. obj' \in [Objects -> ObjectStruct] /\ \A x \in Objects \ {o} : obj'[x] = obj[x]
    BY <1>0, AllocObject, Zenon
  <2> QED BY <1>2, <2>1, <2>2 DEF Beside
<1>7. /\ obj'[o].ref = 1 /\ obj'[o].state = "alive"
      /\ obj'[o].pending = obj[o].pending /\ obj'[o].running = obj[o].running
      /\ obj'[o].associated = obj[o].associated /\ obj'[o].shutdown = obj[o].shutdown
  BY <1>0, AllocObject
<1> QED BY <1>2, <1>3, <1>4, <1>6, <1>7

LEMMA AllocFailsStep ==
  ASSUME IInv, NEW c \in Clients, NEW o, o = arg[c], AllocTimerFails(c)
  PROVE  /\ o \in Objects
         /\ Beside(o) /\ handle[o] = "alloc" /\ handle'[o] = "closed" /\ obj'[o].ref = 0 /\ obj'[o].state = obj[o].state
         /\ obj'[o].pending = obj[o].pending /\ obj'[o].running = obj[o].running
         /\ obj'[o].associated = obj[o].associated /\ obj'[o].shutdown = obj[o].shutdown
         /\ members' = members /\ gone' = gone /\ SameRunners /\ PlacesOK' /\ Others(c)
         /\ pc[c] = "a_timer" /\ pc'[c] = "destroy2" /\ arg'[c] = o
<1>0. TypeOK
  BY DEF IInv
<1>1. Moved(c, "a_timer", "destroy2", arg[c])
  BY ObjectMoves, Zenon
<1>2. handle' = [handle EXCEPT ![o] = "closed"] /\ members' = members /\ gone' = gone /\ inst' = inst /\ queue' = queue
  BY DEF AllocTimerFails, groupVars, poolVars
<1>3. PlacesOK /\ PlacesOK' /\ Others(c) /\ c \in Threads \ Workers /\ pc[c] = "a_timer" /\ pc'[c] = "destroy2" /\ arg'[c] = o
  BY <1>1, Parts, Kinds DEF Moved
<1>4. SameRunners
  BY <1>2, <1>3, OutsideCallbacks, Zenon
<1>5. o \in Objects /\ handle[o] = "alloc"
  BY <1>3 DEF IInv, ClientExact, Allocating
<1>6. Beside(o) /\ handle'[o] = "closed"
  <2>1. /\ handle'[o] = "closed" /\ (\A x \in Objects \ {o} : handle'[x] = handle[x])
        /\ handle' \in [Objects -> {"none", "alloc", "live", "closing", "closed"}]
    BY <1>0, <1>2, <1>5, OneHandle
  <2>2. obj' \in [Objects -> ObjectStruct] /\ \A x \in Objects \ {o} : obj'[x] = obj[x]
    BY <1>0, <1>5, AllocTimerFailsObject, Zenon
  <2> QED BY <1>2, <2>1, <2>2 DEF Beside
<1>7. /\ obj'[o].ref = 0 /\ obj'[o].state = obj[o].state
      /\ obj'[o].pending = obj[o].pending /\ obj'[o].running = obj[o].running
      /\ obj'[o].associated = obj[o].associated /\ obj'[o].shutdown = obj[o].shutdown
  BY <1>0, <1>5, AllocTimerFailsObject
<1> QED BY <1>2, <1>3, <1>4, <1>5, <1>6, <1>7

LEMMA AllocGroupStep ==
  ASSUME IInv, NEW c \in Clients, NEW o, o = arg[c], AllocGroup(c)
  PROVE  /\ o \in Objects /\ obj' = obj
         /\ Beside(o) /\ handle[o] = "alloc" /\ handle'[o] = (IF o \in Simples THEN "alloc" ELSE "live")
         /\ gone' = gone /\ SameRunners /\ PlacesOK' /\ Others(c)
         /\ members' \in Seq(Objects) /\ IsInjective(members')
         /\ \A x : Contains(members', x) <=> Contains(members, x) \/ (x = o /\ o \in Grouped)
         /\ pc[c] = "a_group" /\ pc'[c] = (IF o \in Simples THEN "unref" ELSE "idle")
         /\ o \in Simples => arg'[c] = o
<1>0. TypeOK
  BY DEF IInv
<1>1. IF arg[c] \in Simples THEN Moved(c, "a_group", "unref", arg[c]) ELSE Moved(c, "a_group", "idle", None)
  BY ObjectMoves, Zenon
<1>2. handle' = [handle EXCEPT ![o] = IF o \in Simples THEN @ ELSE "live"] /\ gone' = gone /\ inst' = inst /\ queue' = queue /\ obj' = obj
  BY DEF AllocGroup, groupVars, poolVars
<1>3. /\ PlacesOK /\ PlacesOK' /\ Others(c) /\ c \in Threads \ Workers
      /\ pc[c] = "a_group" /\ pc'[c] = (IF o \in Simples THEN "unref" ELSE "idle") /\ (o \in Simples => arg'[c] = o)
  BY <1>1, Parts, Kinds DEF Moved
<1>4. SameRunners
  BY <1>2, <1>3, OutsideCallbacks, Zenon
<1>5. o \in Objects /\ handle[o] = "alloc" /\ ~Contains(members, o)
  BY <1>3 DEF IInv, ClientExact, Allocating
<1>6. PICK h \in {"none", "alloc", "live", "closing", "closed"} : h = (IF o \in Simples THEN "alloc" ELSE "live")
  OBVIOUS
<1>7. handle' = [handle EXCEPT ![o] = h]
  BY <1>0, <1>2, <1>5, <1>6 DEF TypeOK
<1>8. /\ members' \in Seq(Objects) /\ IsInjective(members')
      /\ \A x : Contains(members', x) <=> Contains(members, x) \/ (x = o /\ o \in Grouped)
  <2>1. members \in Seq(Objects) /\ IsInjective(members)
    BY Parts
  <2>2. CASE o \in Grouped
    <3>1. members' = Append(members, o)
      BY <2>2 DEF AllocGroup
    <3> QED BY <1>5, <2>1, <2>2, <3>1, Appended
  <2>3. CASE o \notin Grouped
    <3>1. members' = members
      BY <2>3 DEF AllocGroup
    <3> QED BY <2>1, <2>3, <3>1
  <2> QED BY <2>2, <2>3
<1>9. Beside(o) /\ handle'[o] = h
  <2>1. /\ handle'[o] = h /\ (\A x \in Objects \ {o} : handle'[x] = handle[x])
        /\ handle' \in [Objects -> {"none", "alloc", "live", "closing", "closed"}]
    BY <1>0, <1>5, <1>7, OneHandle, Zenon
  <2>2. obj' \in [Objects -> ObjectStruct]
    BY <1>0, <1>2 DEF TypeOK
  <2> QED BY <1>2, <2>1, <2>2 DEF Beside
<1> QED BY <1>2, <1>3, <1>4, <1>5, <1>6, <1>8, <1>9

LEMMA UnrefStep ==
  ASSUME IInv, NEW c \in Clients, NEW o, o = arg[c], Unref(c)
  PROVE  /\ o \in Objects
         /\ Beside(o) /\ handle[o] \in {"alloc", "live"} /\ handle'[o] = "closed"
         /\ obj'[o].ref = obj[o].ref - 1 /\ obj'[o].state = obj[o].state
         /\ obj'[o].pending = obj[o].pending /\ obj'[o].running = obj[o].running
         /\ obj'[o].associated = obj[o].associated /\ (obj'[o].shutdown <=> obj[o].shutdown \/ o \notin Simples)
         /\ members' = members /\ gone' = gone /\ SameRunners /\ PlacesOK' /\ Others(c)
         /\ pc[c] = "unref" /\ pc'[c] = (IF obj[o].ref = 1 THEN "destroy" ELSE "idle")
         /\ obj[o].ref = 1 => arg'[c] = o
<1>0. TypeOK
  BY DEF IInv
<1>1. IF obj[arg[c]].ref = 1 THEN Moved(c, "unref", "destroy", arg[c]) ELSE Moved(c, "unref", "idle", None)
  BY ObjectMoves, Zenon
<1>2. handle' = [handle EXCEPT ![o] = "closed"] /\ members' = members /\ gone' = gone /\ inst' = inst /\ queue' = queue
  BY DEF Unref, groupVars, poolVars
<1>3. /\ PlacesOK /\ PlacesOK' /\ Others(c) /\ c \in Threads \ Workers
      /\ pc[c] = "unref" /\ pc'[c] = (IF obj[o].ref = 1 THEN "destroy" ELSE "idle") /\ (obj[o].ref = 1 => arg'[c] = o)
  BY <1>1, Parts, Kinds DEF Moved
<1>4. SameRunners
  BY <1>2, <1>3, OutsideCallbacks, Zenon
<1>5. o \in Objects /\ handle[o] \in {"alloc", "live"}
  BY <1>3 DEF IInv, ClientExact
<1>6. Beside(o) /\ handle'[o] = "closed"
  <2>1. /\ handle'[o] = "closed" /\ (\A x \in Objects \ {o} : handle'[x] = handle[x])
        /\ handle' \in [Objects -> {"none", "alloc", "live", "closing", "closed"}]
    BY <1>0, <1>2, <1>5, OneHandle
  <2>2. obj' \in [Objects -> ObjectStruct] /\ \A x \in Objects \ {o} : obj'[x] = obj[x]
    BY <1>0, <1>5, UnrefObject, Zenon
  <2> QED BY <1>2, <2>1, <2>2 DEF Beside
<1>7. /\ obj'[o].ref = obj[o].ref - 1 /\ obj'[o].state = obj[o].state
      /\ obj'[o].pending = obj[o].pending /\ obj'[o].running = obj[o].running
      /\ obj'[o].associated = obj[o].associated /\ (obj'[o].shutdown <=> obj[o].shutdown \/ o \notin Simples)
  BY <1>0, <1>5, UnrefObject
<1> QED BY <1>2, <1>3, <1>4, <1>5, <1>6, <1>7

LEMMA DestroyStep ==
  ASSUME IInv, NEW t \in Threads, NEW o, o = arg[t], Destroy(t)
  PROVE  /\ o \in Objects /\ obj' = obj /\ handle' = handle /\ queue' = queue /\ gone' = gone /\ pool' = pool
         /\ SameRunners /\ PlacesOK' /\ Others(t)
         /\ members' \in Seq(Objects) /\ IsInjective(members')
         /\ \A x : Contains(members', x) <=> Contains(members, x) /\ x # o
         /\ pc[t] = "destroy" /\ pc'[t] = "destroy2" /\ arg'[t] = o
<1>1. Moved(t, "destroy", "destroy2", arg[t])
  BY DestroyMoves, Zenon
<1>2. obj' = obj /\ handle' = handle /\ queue' = queue /\ gone' = gone /\ inst' = inst /\ pool' = pool
  BY DEF Destroy, userVars, poolVars
<1>3. PlacesOK /\ PlacesOK' /\ Others(t) /\ pc[t] = "destroy" /\ pc'[t] = "destroy2" /\ arg'[t] = o
  BY <1>1, Parts DEF Moved
<1>4. SameRunners
  BY <1>2, <1>3, Kinds DEF SameRunners, Others
<1>5. o \in Objects
  BY <1>3, Dealt DEF Destroying
<1>6. members \in Seq(Objects) /\ IsInjective(members) /\ (Contains(members, o) => o \in Grouped)
  BY <1>5 DEF IInv, TypeOK, GroupExact, MemberExact
<1>7. /\ members' \in Seq(Objects) /\ IsInjective(members')
      /\ \A x : Contains(members', x) <=> Contains(members, x) /\ x # o
  <2>1. CASE o \in Grouped
    <3>1. members' = Without(members, o)
      BY <2>1 DEF Destroy
    <3>2. /\ Without(members, o) \in Seq(Objects) /\ IsInjective(Without(members, o))
          /\ \A x : Contains(Without(members, o), x) <=> Contains(members, x) /\ x # o
      BY <1>6, Removed, Zenon
    <3> QED BY <3>1, <3>2
  <2>2. CASE o \notin Grouped
    <3>1. members' = members
      BY <2>2 DEF Destroy
    <3> QED BY <1>6, <2>2, <3>1
  <2> QED BY <2>1, <2>2
<1> QED BY <1>2, <1>3, <1>4, <1>5, <1>7

LEMMA Destroy2Step ==
  ASSUME IInv, NEW t \in Threads, NEW o, o = arg[t], Destroy2(t)
  PROVE  /\ o \in Objects /\ handle' = handle
         /\ Beside(o) /\ obj'[o].ref = obj[o].ref /\ obj'[o].state = "freed"
         /\ obj'[o].pending = obj[o].pending /\ obj'[o].running = obj[o].running
         /\ obj'[o].associated = obj[o].associated /\ obj'[o].shutdown = obj[o].shutdown
         /\ members' = members /\ gone' = gone /\ SameRunners /\ PlacesOK' /\ Others(t)
         /\ pc[t] = "destroy2" /\ pc'[t] \in {"locked", "m_wait", "idle"}
         /\ t \in Clients \cup Workers /\ (t \in Clients => pc'[t] # "locked") /\ (t \in Workers => pc'[t] = "locked")
<1>0. TypeOK /\ pc[t] = "destroy2"
  BY DEF IInv, Destroy2, Goto
<1>1. t \in Clients \cup Workers
  BY <1>0, Kinds DEF TypeOK, PlacesOK
<1>2. handle' = handle /\ members' = members /\ gone' = gone /\ inst' = inst /\ queue' = queue
  BY DEF Destroy2, groupVars, userVars
<1>3. /\ PlacesOK' /\ Others(t) /\ pc'[t] \in {"locked", "m_wait", "idle"}
      /\ (t \in Clients => pc'[t] # "locked") /\ (t \in Workers => pc'[t] = "locked")
  <2>1. CASE t \in Workers
    <3>1. Moved(t, "destroy2", "locked", None)
      BY <2>1, DestroyMoves, Zenon
    <3> QED BY <2>1, <3>1, Kinds DEF Moved
  <2>2. CASE t \in Clients
    <3>1. Moved(t, "destroy2", "m_wait", None) \/ Moved(t, "destroy2", "idle", None)
      BY <2>2, DestroyMoves, Zenon
    <3> QED BY <2>2, <3>1, Kinds DEF Moved
  <2> QED BY <1>1, <2>1, <2>2
<1>4. SameRunners
  BY <1>0, <1>2, <1>3, Kinds DEF SameRunners, Others
<1>5. o \in Objects
  BY <1>0, Dealt DEF Destroying
<1>6. Beside(o)
  <2>1. obj' \in [Objects -> ObjectStruct] /\ \A x \in Objects \ {o} : obj'[x] = obj[x]
    BY <1>0, <1>5, Destroy2Object, Zenon
  <2> QED BY <1>0, <1>2, <2>1 DEF Beside, TypeOK
<1>7. /\ obj'[o].ref = obj[o].ref /\ obj'[o].state = "freed"
      /\ obj'[o].pending = obj[o].pending /\ obj'[o].running = obj[o].running
      /\ obj'[o].associated = obj[o].associated /\ obj'[o].shutdown = obj[o].shutdown
  BY <1>0, <1>5, Destroy2Object
<1> QED BY <1>0, <1>1, <1>2, <1>3, <1>4, <1>5, <1>6, <1>7

LEMMA ReleaseMembersStep ==
  ASSUME IInv, NEW c \in Clients, TpReleaseCleanupGroupMembers(c)
  PROVE  /\ obj' = obj /\ queue' = queue /\ members' = members /\ gone' = gone
         /\ handle' \in [Objects -> {"none", "alloc", "live", "closing", "closed"}]
         /\ \A x \in Objects : handle'[x] = IF x \in Grouped /\ handle[x] = "live" THEN "closing" ELSE handle[x]
         /\ \A x \in Grouped : handle[x] = "live" => Undisturbed(x)
         /\ SameRunners /\ PlacesOK' /\ Others(c) /\ pc[c] = "idle" /\ pc'[c] = "m_each"
<1>0. TypeOK
  BY DEF IInv
<1>1. Moved(c, "idle", "m_each", arg[c])
  BY CallMoves, Zenon
<1>2. /\ obj' = obj /\ queue' = queue /\ members' = members /\ gone' = gone /\ inst' = inst
      /\ handle' = [o \in Objects |-> IF o \in Grouped /\ handle[o] = "live" THEN "closing" ELSE handle[o]]
      /\ \A x \in Grouped : handle[x] = "live" => Undisturbed(x)
  BY DEF TpReleaseCleanupGroupMembers, groupVars, poolVars
<1>3. PlacesOK /\ PlacesOK' /\ Others(c) /\ c \in Threads \ Workers /\ pc[c] = "idle" /\ pc'[c] = "m_each"
  BY <1>1, Parts, Kinds DEF Moved
<1>4. SameRunners
  BY <1>2, <1>3, OutsideCallbacks, Zenon
<1>5. /\ handle' \in [Objects -> {"none", "alloc", "live", "closing", "closed"}]
      /\ \A x \in Objects : handle'[x] = IF x \in Grouped /\ handle[x] = "live" THEN "closing" ELSE handle[x]
  BY <1>0, <1>2 DEF TypeOK
<1> QED BY <1>2, <1>3, <1>4, <1>5

LEMMA MemberEachStep ==
  ASSUME IInv, NEW c \in Clients, NEW o, o = Head(members), MemberEach(c)
  PROVE  /\ o \in Objects /\ Contains(members, o) /\ members # <<>> /\ handle' = handle /\ queue' = queue
         /\ obj' \in [Objects -> ObjectStruct] /\ \A x \in Objects \ {o} : obj'[x] = obj[x]
         /\ members' \in Seq(Objects) /\ IsInjective(members')
         /\ \A x : Contains(members', x) <=> Contains(members, x) /\ x # o
         /\ SameRunners /\ PlacesOK' /\ Others(c) /\ pc[c] = "m_each" /\ lock' = lock
         /\ Dying(o) => obj' = obj /\ gone' = gone /\ pc'[c] = "m_each"
         /\ ~Dying(o) =>
              /\ obj'[o].ref = obj[o].ref + 1 /\ obj'[o].state = obj[o].state
              /\ obj'[o].pending = obj[o].pending /\ obj'[o].running = obj[o].running
              /\ obj'[o].associated = obj[o].associated /\ obj'[o].shutdown = obj[o].shutdown
              /\ gone' = [gone EXCEPT ![c] = Append(@, o)]
              /\ arg'[c] = o /\ pc'[c] = (IF o \in Timers THEN "m_timer" ELSE "m_each")
<1>0. TypeOK /\ members \in Seq(Objects) /\ IsInjective(members) /\ members # <<>>
  BY Parts DEF IInv, MemberEach
<1>1. /\ o \in Objects /\ Contains(members, o) /\ Tail(members) \in Seq(Objects) /\ IsInjective(Tail(members))
      /\ \A x : Contains(Tail(members), x) <=> Contains(members, x) /\ x # o
  BY <1>0, Tailed, Zenon
<1>2. handle' = handle /\ queue' = queue /\ inst' = inst /\ members' = Tail(members) /\ lock' = lock
  BY DEF MemberEach, userVars, poolVars
<1>3. IF Dying(o) THEN Moved(c, "m_each", "m_each", arg[c])
                ELSE IF o \in Timers THEN Moved(c, "m_each", "m_timer", o)
                ELSE Moved(c, "m_each", "m_each", o)
  BY MemberMoves, Zenon
<1>4. /\ PlacesOK /\ PlacesOK' /\ Others(c) /\ c \in Threads \ Workers /\ pc[c] = "m_each"
      /\ Dying(o) => pc'[c] = "m_each"
      /\ ~Dying(o) => arg'[c] = o /\ pc'[c] = (IF o \in Timers THEN "m_timer" ELSE "m_each")
  BY <1>3, Parts, Kinds DEF Moved
<1>5. SameRunners
  BY <1>2, <1>4, OutsideCallbacks, Zenon
<1>6. CASE Dying(o)
  <2>1. obj' = obj /\ gone' = gone
    BY <1>6 DEF MemberEach
  <2>2. obj' \in [Objects -> ObjectStruct] /\ \A x \in Objects \ {o} : obj'[x] = obj[x]
    BY <1>0, <2>1 DEF TypeOK
  <2> QED BY <1>0, <1>1, <1>2, <1>4, <1>5, <1>6, <2>1, <2>2
<1>7. CASE ~Dying(o)
  <2>1. gone' = [gone EXCEPT ![c] = Append(@, o)]
    BY <1>7 DEF MemberEach
  <2>2. obj' \in [Objects -> ObjectStruct] /\ \A x \in Objects \ {o} : obj'[x] = obj[x]
    BY <1>0, <1>1, <1>7, MemberEachObject, Zenon
  <2>3. /\ obj'[o].ref = obj[o].ref + 1 /\ obj'[o].state = obj[o].state
        /\ obj'[o].pending = obj[o].pending /\ obj'[o].running = obj[o].running
        /\ obj'[o].associated = obj[o].associated /\ obj'[o].shutdown = obj[o].shutdown
    BY <1>0, <1>1, <1>7, MemberEachObject, Zenon
  <2> QED BY <1>0, <1>1, <1>2, <1>4, <1>5, <1>7, <2>1, <2>2, <2>3
<1> QED BY <1>6, <1>7

LEMMA MemberReleaseLists ==
  ASSUME IInv, NEW c \in Clients, NEW o, o = arg[c], MemberRelease(c)
  PROVE  /\ gone' \in [Clients -> Seq(Objects)] /\ IsInjective(gone'[c])
         /\ \A d \in Clients \ {c} : gone'[d] = gone[d]
         /\ \A x : Contains(gone'[c], x) <=> Contains(gone[c], x) /\ x # o
<1>1. pc[c] = "m_release" /\ gone' = [gone EXCEPT ![c] = Tail(@)]
  BY DEF MemberRelease, Goto
<1>2. gone[c] # <<>> /\ o = Head(gone[c]) /\ gone[c] \in Seq(Objects) /\ IsInjective(gone[c])
  BY <1>1, Parts DEF IInv, ClientExact
<1>3. /\ Tail(gone[c]) \in Seq(Objects) /\ IsInjective(Tail(gone[c]))
      /\ \A x : Contains(Tail(gone[c]), x) <=> Contains(gone[c], x) /\ x # o
  BY <1>2, Tailed, Zenon
<1>4. /\ gone' \in [Clients -> Seq(Objects)] /\ gone'[c] = Tail(gone[c])
      /\ \A d \in Clients \ {c} : gone'[d] = gone[d]
  BY <1>1, <1>3 DEF IInv, TypeOK
<1> QED BY <1>3, <1>4

LEMMA MemberReleaseStep ==
  ASSUME IInv, NEW c \in Clients, NEW o, o = arg[c], MemberRelease(c)
  PROVE  /\ o \in Objects /\ Contains(gone[c], o)
         /\ Beside(o) /\ handle'[o] = (IF o \in Simples THEN handle[o] ELSE "closed")
         /\ obj'[o].ref = obj[o].ref - Drop(o) /\ obj'[o].state = obj[o].state
         /\ obj'[o].pending = obj[o].pending /\ obj'[o].running = obj[o].running
         /\ obj'[o].associated = obj[o].associated /\ obj'[o].shutdown
         /\ members' = members /\ SameRunners /\ PlacesOK' /\ Others(c)
         /\ pc[c] = "m_release" /\ pc'[c] = (IF obj[o].ref = Drop(o) THEN "destroy" ELSE "m_wait") /\ arg'[c] = o
<1>0. TypeOK
  BY DEF IInv
<1>14. PICK drop \in Int : drop = (IF obj[o].shutdown \/ o \in Simples THEN 1 ELSE 2) /\ drop = Drop(o)
  BY DEF Drop
<1>1. IF obj[o].ref = drop THEN Moved(c, "m_release", "destroy", o) ELSE Moved(c, "m_release", "m_wait", o)
  BY <1>14, MemberMoves, Zenon
<1>2. /\ handle' = [handle EXCEPT ![o] = IF o \in Simples THEN @ ELSE "closed"] /\ members' = members
      /\ gone' = [gone EXCEPT ![c] = Tail(@)] /\ inst' = inst /\ queue' = queue
  BY DEF MemberRelease, poolVars
<1>3. /\ PlacesOK /\ PlacesOK' /\ Others(c) /\ c \in Threads \ Workers
      /\ pc[c] = "m_release" /\ pc'[c] = (IF obj[o].ref = drop THEN "destroy" ELSE "m_wait") /\ arg'[c] = o
  BY <1>1, Parts, Kinds DEF Moved
<1>4. SameRunners
  BY <1>2, <1>3, OutsideCallbacks, Zenon
<1>5. o \in Objects /\ Contains(gone[c], o)
  BY <1>3, Dealt
<1>9. PICK h \in {"none", "alloc", "live", "closing", "closed"} : h = (IF o \in Simples THEN handle[o] ELSE "closed")
  BY <1>0, <1>5, Fields
<1>10. handle' = [handle EXCEPT ![o] = h]
  BY <1>0, <1>2, <1>5, <1>9 DEF TypeOK
<1>11. Beside(o) /\ handle'[o] = h
  <2>1. /\ handle'[o] = h /\ (\A x \in Objects \ {o} : handle'[x] = handle[x])
        /\ handle' \in [Objects -> {"none", "alloc", "live", "closing", "closed"}]
    BY <1>0, <1>5, <1>10, OneHandle, Zenon
  <2>2. obj' \in [Objects -> ObjectStruct] /\ \A x \in Objects \ {o} : obj'[x] = obj[x]
    BY <1>0, <1>5, <1>14, MemberReleaseObject
  <2> QED BY <1>2, <2>1, <2>2 DEF Beside
<1>12. /\ obj'[o].ref = obj[o].ref - drop /\ obj'[o].state = obj[o].state
       /\ obj'[o].pending = obj[o].pending /\ obj'[o].running = obj[o].running
       /\ obj'[o].associated = obj[o].associated /\ obj'[o].shutdown
  BY <1>0, <1>5, <1>14, MemberReleaseObject
<1> QED BY <1>2, <1>3, <1>4, <1>5, <1>9, <1>11, <1>12, <1>14

LEMMA CancelStep ==
  ASSUME IInv, NEW c \in Clients, NEW o, Cancels(c, o)
  PROVE  /\ o \in Objects /\ Cancel(o) /\ (handle[o] = "live" \/ Contains(gone[c], o))
         /\ handle' = handle /\ members' = members /\ gone' = gone /\ pool' = pool /\ timerq' = timerq /\ lock' = lock
         /\ SameRunners /\ PlacesOK' /\ Others(c)
         /\ \/ pc[c] = "idle" /\ pc'[c] = "w_check" /\ arg'[c] = o /\ handle[o] = "live"
               /\ \A d \in Clients : pc[d] = "unref" => arg[d] # o
            \/ pc[c] = "m_cancel" /\ pc'[c] \in {"m_wait", "m_cancel"} /\ Contains(gone[c], arg'[c])
<1>0. PlacesOK /\ c \in Threads \ Workers /\ \A x \in Objects : TpWaitFor(c, x, TRUE) => Moved(c, "idle", "w_check", x)
  BY Parts, Kinds, CallMoves
<1>1. CASE TpWaitFor(c, o, TRUE) /\ o \in Objects
  <2>1. o \in Objects
    BY <1>1
  <2>2. Moved(c, "idle", "w_check", o)
    BY <1>0, <1>1, <2>1, Zenon
  <2>3. /\ handle[o] = "live" /\ Cancel(o) /\ (\A d \in Clients : pc[d] = "unref" => arg[d] # o)
        /\ handle' = handle /\ members' = members /\ gone' = gone /\ pool' = pool /\ timerq' = timerq /\ inst' = inst /\ lock' = lock
    BY <1>1 DEF TpWaitFor, NotReleased, groupVars, userVars
  <2>4. SameRunners
    BY <1>0, <2>2, <2>3, OutsideCallbacks, Zenon DEF Moved
  <2> QED BY <2>1, <2>2, <2>3, <2>4 DEF Moved
<1>2. CASE MemberCancel(c) /\ o = arg[c]
  <2>1. PICK to \in {"m_wait", "m_cancel"}, a \in Objects : Contains(gone[c], a) /\ Moved(c, "m_cancel", to, a)
    BY <1>2, MemberMoves, Zenon
  <2>2. o \in Objects /\ Contains(gone[c], o)
    BY <1>2, <2>1, Dealt DEF Moved
  <2>3. /\ Cancel(o) /\ handle' = handle /\ members' = members /\ gone' = gone /\ pool' = pool /\ timerq' = timerq /\ inst' = inst /\ lock' = lock
    BY <1>2 DEF MemberCancel, groupVars, userVars
  <2>4. SameRunners
    BY <1>0, <2>1, <2>3, OutsideCallbacks, Zenon DEF Moved
  <2> QED BY <2>1, <2>2, <2>3, <2>4 DEF Moved
<1> QED BY <1>1, <1>2 DEF Cancels

LEMMA TakeStep ==
  ASSUME IInv, NEW w \in Workers, WorkerTake(w), NEW o, o = NextItem
  PROVE  /\ handle' = handle /\ members' = members /\ gone' = gone /\ timerq' = timerq
         /\ pc[w] \in {"start", "wake", "locked"} /\ pc'[w] = "callback" /\ arg'[w] = o /\ inst'[w].associated
         /\ inst' \in [Workers -> [associated : BOOLEAN, long : BOOLEAN]]
         /\ OtherRunners(w) /\ PlacesOK' /\ Others(w)
<1>1. Moved(w, pc[w], "callback", o) /\ pc[w] \in {"start", "wake", "locked"}
  BY WorkerMoves, Zenon
<1>2. /\ handle' = handle /\ members' = members /\ gone' = gone /\ timerq' = timerq
      /\ inst' = [inst EXCEPT ![w] = [associated |-> TRUE, long |-> FALSE]]
  BY DEF WorkerTake, groupVars, userVars
<1>3. /\ inst'[w].associated /\ inst' \in [Workers -> [associated : BOOLEAN, long : BOOLEAN]]
      /\ \A u \in Workers \ {w} : inst'[u] = inst[u]
  BY <1>2 DEF IInv, TypeOK
<1>4. OtherRunners(w)
  BY <1>1, <1>3, Kinds DEF Moved, Others, OtherRunners
<1> QED BY <1>1, <1>2, <1>3, <1>4 DEF Moved

LEMMA ReturnStep ==
  ASSUME IInv, NEW w \in Workers, CallbackReturns(w), NEW o, o = arg[w]
  PROVE  /\ o \in Objects /\ handle' = handle /\ members' = members /\ gone' = gone /\ timerq' = timerq /\ queue' = queue
         /\ pc[w] = "callback" /\ pc'[w] = (IF obj[o].ref = 1 THEN "destroy" ELSE "locked")
         /\ obj[o].ref = 1 => arg'[w] = o
         /\ inst' \in [Workers -> [associated : BOOLEAN, long : BOOLEAN]]
         /\ OtherRunners(w) /\ PlacesOK' /\ Others(w)
<1>1. IF obj[o].ref = 1 THEN Moved(w, "callback", "destroy", o) ELSE Moved(w, "callback", "locked", None)
  BY CallbackMoves, Zenon
<1>2. /\ handle' = handle /\ members' = members /\ gone' = gone /\ timerq' = timerq /\ queue' = queue
      /\ inst' = [inst EXCEPT ![w] = NoInstance]
  BY DEF CallbackReturns, groupVars, userVars
<1>3. /\ inst' \in [Workers -> [associated : BOOLEAN, long : BOOLEAN]]
      /\ \A u \in Workers \ {w} : inst'[u] = inst[u]
  BY <1>2 DEF IInv, TypeOK, NoInstance
<1>4. /\ PlacesOK' /\ Others(w) /\ pc[w] = "callback" /\ pc'[w] = (IF obj[o].ref = 1 THEN "destroy" ELSE "locked")
      /\ obj[o].ref = 1 => arg'[w] = o
  BY <1>1 DEF Moved
<1>5. OtherRunners(w)
  BY <1>3, <1>4, Kinds DEF Others, OtherRunners
<1>6. o \in Objects
  BY <1>4, Dealt
<1> QED BY <1>2, <1>3, <1>4, <1>5, <1>6

LEMMA DisassociateStep ==
  ASSUME IInv, NEW w \in Workers, TpDisassociateCallback(w), NEW o, o = arg[w]
  PROVE  /\ o \in Objects /\ handle' = handle /\ members' = members /\ gone' = gone /\ timerq' = timerq /\ queue' = queue
         /\ pool' = pool /\ lock' = lock /\ inst[w].associated /\ ~inst'[w].associated
         /\ pc[w] = "callback" /\ pc'[w] = "callback" /\ arg'[w] = o
         /\ inst' \in [Workers -> [associated : BOOLEAN, long : BOOLEAN]]
         /\ OtherRunners(w) /\ PlacesOK' /\ Others(w)
<1>1. Moved(w, "callback", "callback", o)
  BY CallbackMoves, Zenon
<1>2. /\ handle' = handle /\ members' = members /\ gone' = gone /\ timerq' = timerq /\ queue' = queue
      /\ pool' = pool /\ lock' = lock /\ inst[w].associated /\ inst' = [inst EXCEPT ![w].associated = FALSE]
  BY DEF TpDisassociateCallback, groupVars, userVars, poolVars
<1>3. /\ inst' \in [Workers -> [associated : BOOLEAN, long : BOOLEAN]] /\ ~inst'[w].associated
      /\ \A u \in Workers \ {w} : inst'[u] = inst[u]
  <2>1. inst \in [Workers -> [associated : BOOLEAN, long : BOOLEAN]]
    BY DEF IInv, TypeOK
  <2> QED BY <1>2, <2>1
<1>4. OtherRunners(w)
  BY <1>1, <1>3, Kinds DEF Moved, Others, OtherRunners
<1>5. o \in Objects
  BY <1>1, Dealt DEF Moved
<1> QED BY <1>1, <1>2, <1>3, <1>4, <1>5 DEF Moved

\* The callback releases its own object.
LEMMA CallbackReleasesStep ==
  ASSUME IInv, NEW w \in Workers, NEW o, o = arg[w], CallbackReleases(w)
  PROVE  /\ o \in Objects /\ o \notin Simples /\ Beside(o) /\ handle[o] \in {"live", "closing"} /\ handle'[o] = "closed"
         /\ obj'[o].ref = obj[o].ref - 1 /\ obj'[o].state = obj[o].state
         /\ obj'[o].pending = obj[o].pending /\ obj'[o].running = obj[o].running
         /\ obj'[o].associated = obj[o].associated /\ obj'[o].shutdown = TRUE
         /\ members' = members /\ gone' = gone /\ pc' = pc /\ arg' = arg /\ inst' = inst /\ lock' = lock
         /\ pool' = pool /\ group' = group /\ posts' = posts
         /\ SameRunners /\ PlacesOK' /\ Others(w) /\ pc[w] = "callback"
         /\ NotReleased(o) /\ NotUsed(o) /\ obj[o].ref >= 2 /\ obj[o].state = "alive"
<1>0. TypeOK
  BY DEF IInv
<1>1. Moved(w, "callback", "callback", arg[w])
  BY CallbackMoves, Zenon
<1>2. /\ members' = members /\ gone' = gone /\ pc' = pc /\ arg' = arg /\ inst' = inst /\ lock' = lock
      /\ pool' = pool /\ group' = group /\ posts' = posts /\ queue' = queue /\ NotReleased(o) /\ NotUsed(o)
      /\ handle' = [handle EXCEPT ![o] = "closed"] /\ handle[o] \in {"live", "closing"} /\ o \notin Simples
      /\ obj' = [obj EXCEPT ![o].ref = @ - 1, ![o].shutdown = TRUE]
  BY DEF CallbackReleases, groupVars, poolVars
<1>3. PlacesOK' /\ Others(w) /\ pc[w] = "callback" /\ SameRunners
  BY <1>1, <1>2 DEF Moved, SameRunners
<1>4. o \in Objects
  BY <1>3, Dealt
<1>5. /\ handle'[o] = "closed" /\ (\A x \in Objects \ {o} : handle'[x] = handle[x])
      /\ handle' \in [Objects -> {"none", "alloc", "live", "closing", "closed"}]
  BY <1>0, <1>2, <1>4, OneHandle
<1>6. PICK q \in ObjectStruct : q = obj[o]
  BY <1>0, <1>4 DEF TypeOK
<1>7. PICK r : r = [q EXCEPT !.ref = @ - 1, !.shutdown = TRUE]
  OBVIOUS
<1>8. obj' = [obj EXCEPT ![o] = r]
  BY <1>2, <1>6, <1>7
<1>9. /\ r \in ObjectStruct /\ r.ref = q.ref - 1 /\ r.pending = q.pending /\ r.running = q.running
      /\ r.associated = q.associated /\ r.state = q.state
  BY <1>7, UnrefRecord, Zenon
<1>10. r.shutdown = TRUE
  BY <1>7 DEF ObjectStruct
<1>11. obj'[o] = r /\ (\A x \in Objects \ {o} : obj'[x] = obj[x]) /\ obj' \in [Objects -> ObjectStruct]
  BY <1>0, <1>4, <1>8, <1>9, OneObject, Zenon
<1>12. Running(o) # {}
  BY <1>3 DEF Running
<1>13. obj[o].ref >= 2 /\ obj[o].state = "alive"
  BY <1>0, <1>2, <1>4, <1>12, Referenced, Fields DEF InUse
<1> QED BY <1>2, <1>3, <1>4, <1>5, <1>6, <1>9, <1>10, <1>11, <1>13 DEF Beside

----------------------------------------
(* The queues *)

LEMMA QueuesKept ==
  ASSUME QueuesExact, queue' = queue, \A x \in Objects : obj'[x].pending = obj[x].pending
  PROVE  QueuesExact'
BY DEF QueuesExact

LEMMA QueuesStep ==
  ASSUME IInv, Next
  PROVE  QueuesExact'
<1>0. TypeOK /\ QueuesExact
  BY DEF IInv
<1>1. ASSUME NEW t \in Threads, Quiet(t) PROVE QueuesExact'
  <2>1. queue' = queue /\ \A x \in Objects : obj'[x].pending = obj[x].pending
    BY <1>1, QuietKept, Zenon DEF Kept, SameObject
  <2> QED BY <1>0, <2>1, QueuesKept
<1>2. ASSUME NEW t \in Threads, NEW o, Submits(t, o) PROVE QueuesExact'
  <2>1. PICK to \in PlacesOf(t) : Submit(t, o, to)
    BY <1>2, SubmitUse, Zenon
  <2>2. o \in Objects
    BY <1>2, SubmitUse, Zenon
  <2>3. /\ \A p \in Priorities : IsInjective(queue'[p])
        /\ \A p \in Priorities : \A x : Contains(queue'[p], x) <=> Contains(queue[p], x) \/ (p = Prio(o) /\ x = o)
    BY <1>0, <2>1, <2>2, SubmitQueue, Zenon
  <2>4. obj'[o].pending = obj[o].pending + 1 /\ \A x \in Objects \ {o} : obj'[x] = obj[x]
    BY <1>0, <2>1, <2>2, SubmitObject, Zenon
  <2>5. obj[o].pending \in Nat /\ obj'[o].pending > 0
    BY <1>0, <2>2, <2>4, Fields
  <2> QED BY <1>0, <2>2, <2>3, <2>4, <2>5 DEF QueuesExact
<1>3. ASSUME NEW c \in Clients, NEW o, Cancels(c, o) PROVE QueuesExact'
  <2>1. o \in Objects /\ Cancel(o)
    BY <1>3, CancelStep, Zenon
  <2>2. /\ \A p \in Priorities : IsInjective(queue'[p])
        /\ \A p \in Priorities : \A x : Contains(queue'[p], x) <=> Contains(queue[p], x) /\ (p # Prio(o) \/ x # o)
    BY <1>0, <2>1, CancelQueue, Zenon
  <2>3. obj'[o].pending = 0 /\ \A x \in Objects \ {o} : obj'[x] = obj[x]
    BY <1>0, <2>1, CancelObject, Zenon
  <2> QED BY <1>0, <2>1, <2>2, <2>3 DEF QueuesExact
<1>4. ASSUME NEW w \in Workers, WorkerTake(w) PROVE QueuesExact'
  <2>1. PICK o : o = NextItem
    OBVIOUS
  <2>2. /\ o \in Objects /\ obj[o].pending > 0 /\ obj'[o].pending = obj[o].pending - 1
        /\ \A x \in Objects \ {o} : obj'[x] = obj[x]
    BY <1>0, <1>4, <2>1, TakeObject, Zenon
  <2>3. \A p \in Priorities : IsInjective(queue'[p])
    BY <1>0, <1>4, <2>1, TakeQueue, Zenon
  <2>5. /\ obj[o].pending > 1 => \A p \in Priorities : \A x : Contains(queue'[p], x) <=> Contains(queue[p], x)
        /\ ~(obj[o].pending > 1) =>
              \A p \in Priorities : \A x : Contains(queue'[p], x) <=> Contains(queue[p], x) /\ (p # Prio(o) \/ x # o)
    BY <1>0, <1>4, <2>1, TakeQueue, Zenon
  <2>4. obj[o].pending \in Nat /\ (obj'[o].pending > 0 <=> obj[o].pending > 1)
    BY <1>0, <2>2, Fields
  <2> QED BY <1>0, <2>2, <2>3, <2>4, <2>5 DEF QueuesExact
<1>5. ASSUME NEW t \in Threads, Destroy(t) PROVE QueuesExact'
  BY <1>0, <1>5, DestroyStep, QueuesKept
<1>6. ASSUME NEW o \in Objects, Beside(o), obj'[o].pending = obj[o].pending PROVE QueuesExact'
  BY <1>0, <1>6, QueuesKept DEF Beside
<1>7. ASSUME NEW t \in Threads, Destroy2(t) PROVE QueuesExact'
  BY <1>6, <1>7, Destroy2Step
<1>8. ASSUME NEW c \in Clients, NEW o \in Objects, Alloc(c, o) PROVE QueuesExact'
  BY <1>6, <1>8, AllocStep
<1>9. ASSUME NEW c \in Clients, TpReleaseCleanupGroupMembers(c) PROVE QueuesExact'
  BY <1>0, <1>9, ReleaseMembersStep, QueuesKept
<1>10. ASSUME NEW c \in Clients, AllocTimerFails(c) PROVE QueuesExact'
  BY <1>6, <1>10, AllocFailsStep
<1>11. ASSUME NEW c \in Clients, AllocGroup(c) PROVE QueuesExact'
  BY <1>6, <1>11, AllocGroupStep
<1>12. ASSUME NEW c \in Clients, Unref(c) PROVE QueuesExact'
  BY <1>6, <1>12, UnrefStep
<1>13. ASSUME NEW c \in Clients, MemberEach(c) PROVE QueuesExact'
  <2>1. queue' = queue /\ \A x \in Objects : obj'[x].pending = obj[x].pending
    BY <1>13, MemberEachStep
  <2> QED BY <1>0, <2>1, QueuesKept
<1>14. ASSUME NEW c \in Clients, MemberRelease(c) PROVE QueuesExact'
  <2>1. PICK o : o = arg[c]
    OBVIOUS
  <2>2. o \in Objects /\ Beside(o) /\ obj'[o].pending = obj[o].pending
    BY <1>14, <2>1, MemberReleaseStep, ZenonT(60)
  <2> QED BY <1>6, <2>2
<1>15. ASSUME NEW w \in Workers, CallbackReturns(w) PROVE QueuesExact'
  <2>1. arg[w] \in Objects /\ queue' = queue
    BY <1>15, ReturnStep, Zenon
  <2>2. obj'[arg[w]].pending = obj[arg[w]].pending /\ \A x \in Objects \ {arg[w]} : obj'[x] = obj[x]
    BY <1>0, <1>15, <2>1, ReturnObject, Zenon
  <2> QED BY <1>0, <2>1, <2>2, QueuesKept
<1>16. ASSUME NEW w \in Workers, TpDisassociateCallback(w) PROVE QueuesExact'
  <2>1. arg[w] \in Objects /\ queue' = queue
    BY <1>16, DisassociateStep, Zenon
  <2>2. obj'[arg[w]].pending = obj[arg[w]].pending /\ \A x \in Objects \ {arg[w]} : obj'[x] = obj[x]
    BY <1>0, <1>16, <2>1, DisassociateObject, Zenon
  <2> QED BY <1>0, <2>1, <2>2, QueuesKept
<1>17. ASSUME NEW w \in Workers, CallbackReleases(w) PROVE QueuesExact'
  <2>1. arg[w] \in Objects /\ Beside(arg[w]) /\ obj'[arg[w]].pending = obj[arg[w]].pending
    BY <1>17, CallbackReleasesStep, Zenon
  <2> QED BY <1>6, <2>1
<1> QED BY <1>1, <1>2, <1>3, <1>4, <1>5, <1>7, <1>8, <1>9, <1>10, <1>11, <1>12, <1>13, <1>14, <1>15, <1>16, <1>17, Cases, Zenon

----------------------------------------
(* What a step of one thread may do to what the others rely on *)

\* Most steps change no timer.
LEMMA TimersAlone ==
  ASSUME NEW t \in Threads \ {TimerThread}, Others(t), timerq' = timerq
  PROVE  TimersKept
BY Kinds DEF Others, TimersKept

\* The threads that do not deal with objects.
LEMMA UsesNothing ==
  ASSUME NEW t \in Threads, t \in Clients => pc'[t] \notin Allocating \cup Using \cup {"unref"}
  PROVE  UsesKept(t)
BY DEF UsesKept

LEMMA GuaranteeQuiet ==
  ASSUME IInv, NEW t \in Threads, Quiet(t)
  PROVE  Guarantee(t)
<1>0. Kept /\ Others(t) /\ PlacesOK /\ PlacesOK'
  BY QuietKept, QuietMoves, Parts, Zenon
<1>1. HandlesKept(t) /\ ListsKept(t) /\ ObjectsKept(t)
  BY <1>0 DEF Kept, HandlesKept, ListsKept, ObjectsKept
<1>2. CASE t \in Clients /\ QuietCall(t)
  <2>0. t \in Threads \ {TimerThread}
    BY <1>2, Kinds
  <2>1. ASSUME NEW n \in Limits, TpSetPoolMaxThreads(t, n) \/ TpSetPoolMinThreads(t, n) PROVE UsesKept(t) /\ TimersKept
    <3>1. Moved(t, "idle", "idle", arg[t])
      BY <1>2, <2>1, CallMoves, Zenon
    <3>2. timerq' = timerq
      BY <2>1 DEF TpSetPoolMaxThreads, TpSetPoolMinThreads
    <3> QED BY <1>0, <2>0, <3>1, <3>2, TimersAlone, UsesNothing DEF Moved, Allocating, Using
  <2>2. ASSUME TpReleasePool(t) \/ TpReleaseCleanupGroup(t) PROVE UsesKept(t) /\ TimersKept
    <3>1. Moved(t, "idle", "idle", arg[t]) /\ timerq' = timerq
      BY <1>2, <2>2, CallMoves DEF TpReleasePool, TpReleaseCleanupGroup
    <3> QED BY <1>0, <2>0, <3>1, TimersAlone, UsesNothing DEF Moved, Allocating, Using
  <2>3. ASSUME NEW o \in Objects, TpRelease(t, o) PROVE UsesKept(t) /\ TimersKept
    <3>1. Moved(t, "idle", "unref", o)
      BY <1>2, <2>3, CallMoves
    <3>2. handle[o] = "live" /\ Undisturbed(o) /\ timerq'.pending \subseteq timerq.pending
      <4>1. timerq' = timerq \/ TimerqueueUnlock(o)
        BY <2>3 DEF TpRelease
      <4>2. timerq'.pending \subseteq timerq.pending
        BY <4>1, Unlocked
      <4> QED BY <2>3, <4>2 DEF TpRelease
    <3>3. UsesKept(t)
      BY <3>1, <3>2 DEF Moved, UsesKept, Allocating, Using
    <3>4. TimersKept
      BY <1>0, <2>0, <3>2, Kinds DEF TimersKept, Others
    <3> QED BY <3>3, <3>4
  <2>4. ASSUME NEW o \in Objects, NEW later \in BOOLEAN, NEW now \in BOOLEAN, NEW period \in BOOLEAN,
               TpSetTimer(t, o, later, now, period)
        PROVE  UsesKept(t) /\ TimersKept
    <3>1. IF now THEN Moved(t, "idle", "s_submit", o) ELSE Moved(t, "idle", "idle", None)
      BY <1>2, <2>4, CallMoves
    <3>2. handle[o] = "live" /\ Undisturbed(o) /\ timerq'.pending \subseteq timerq.pending \cup {o} /\ pc[t] = "idle"
      BY <2>4 DEF TpSetTimer, IInv, TypeOK, Goto
    <3>3. UsesKept(t)
      BY <3>1, <3>2 DEF Moved, UsesKept, Allocating, Using, Undisturbed
    <3>4. TimersKept
      BY <1>0, <2>0, <3>2, Kinds DEF TimersKept, Others
    <3> QED BY <3>3, <3>4
  <2>5. ASSUME NEW o \in Objects, TpWaitFor(t, o, FALSE) PROVE UsesKept(t) /\ TimersKept
    <3>1. Moved(t, "idle", "w_check", o)
      BY <1>2, <2>5, CallMoves
    <3>2. timerq' = timerq /\ \A d \in Clients : pc[d] = "unref" => arg[d] # o
      BY <2>5 DEF TpWaitFor, NotReleased
    <3>3. UsesKept(t)
      BY <3>1, <3>2 DEF Moved, UsesKept, Allocating, Using
    <3> QED BY <1>0, <2>0, <3>2, <3>3, TimersAlone
  <2>6. ASSUME AllocTimer(t) PROVE UsesKept(t) /\ TimersKept
    <3>1. Moved(t, "a_timer", "a_group", arg[t])
      BY <1>2, <2>6, ObjectMoves
    <3>2. timerq'.pending = timerq.pending
      BY <2>6 DEF AllocTimer, IInv, TypeOK
    <3>3. UsesKept(t)
      BY <3>1 DEF Moved, UsesKept, Allocating, Using
    <3>4. TimersKept
      BY <1>0, <2>0, <3>2, Kinds DEF TimersKept, Others
    <3> QED BY <3>3, <3>4
  <2>7. ASSUME ObjectWait(t) PROVE UsesKept(t) /\ TimersKept
    <3>1. Moved(t, "w_check", "idle", None) \/ Moved(t, "w_check", "w_sleep", arg[t])
      BY <1>2, <2>7, ObjectMoves
    <3>2. UsesKept(t)
      BY <3>1 DEF Moved, UsesKept, Allocating, Using
    <3>3. timerq' = timerq
      BY <2>7 DEF ObjectWait
    <3> QED BY <1>0, <2>0, <3>2, <3>3, TimersAlone
  <2>8. ASSUME MemberTimer(t) PROVE UsesKept(t) /\ TimersKept
    <3>1. Moved(t, "m_timer", "m_each", arg[t])
      BY <1>2, <2>8, MemberMoves
    <3>2. timerq'.pending \subseteq timerq.pending
      BY <2>8, Unlocked DEF MemberTimer
    <3>3. TimersKept
      BY <1>0, <2>0, <3>2, Kinds DEF TimersKept, Others
    <3> QED BY <3>1, <3>3, UsesNothing DEF Moved, Allocating, Using
  <2>9. ASSUME MembersMoved(t) PROVE UsesKept(t) /\ TimersKept
    <3>1. pc'[t] \in {"m_wait", "m_cancel"} /\ timerq' = timerq
      BY <1>2, <2>9, MemberMoves DEF Moved, MembersMoved
    <3> QED BY <1>0, <2>0, <3>1, TimersAlone, UsesNothing DEF Allocating, Using
  <2>10. ASSUME MemberWait(t) PROVE UsesKept(t) /\ TimersKept
    <3>1. pc'[t] \in {"m_release", "m_sleep"} /\ timerq' = timerq
      BY <1>2, <2>10, MemberMoves DEF Moved, MemberWait
    <3> QED BY <1>0, <2>0, <3>1, TimersAlone, UsesNothing DEF Allocating, Using
  <2>11. ASSUME MembersReleased(t) PROVE UsesKept(t) /\ TimersKept
    <3>1. pc'[t] = "idle" /\ timerq' = timerq
      BY <1>2, <2>11, MemberMoves DEF Moved, MembersReleased
    <3> QED BY <1>0, <2>0, <3>1, TimersAlone, UsesNothing DEF Allocating, Using
  <2>12. UsesKept(t) /\ TimersKept
    BY <1>2, <2>1, <2>2, <2>3, <2>4, <2>5, <2>6, <2>7, <2>8, <2>9, <2>10, <2>11, Zenon DEF QuietCall
  <2> QED BY <1>1, <2>12 DEF Guarantee
<1>3. CASE t \in Workers /\ QuietWork(t)
  <2>1. timerq' = timerq
    BY <1>3 DEF QuietWork, WorkerNoItem, WorkerSleep, WorkerTimeout, WorkerTimedOut, WorkerLeave, TpCallbackMayRunLong
  <2>2. UsesKept(t) /\ TimersKept
    BY <1>0, <1>3, <2>1, Kinds, TimersAlone, UsesNothing
  <2> QED BY <1>1, <2>2 DEF Guarantee
<1>4. CASE t = TimerThread /\ QuietTimer
  <2>0. UsesKept(t)
    BY <1>4, Kinds, UsesNothing
  <2>1. ASSUME NEW o \in Timers, TimerExpires(o) PROVE TimersKept
    <3>1. Moved(TimerThread, "none", "t_submit", o)
      BY <2>1, TimerMoves
    <3>2. o \in timerq.pending /\ timerq'.pending \subseteq timerq.pending
      BY <2>1 DEF TimerExpires, IInv, TypeOK
    <3> QED BY <3>1, <3>2 DEF TimersKept, Moved
  <2>2. ASSUME TimerThreadEnds PROVE TimersKept
    <3>1. timerq'.pending = timerq.pending /\ pc' = pc /\ pc[TimerThread] = "none"
      BY <2>2 DEF TimerThreadEnds, IInv, TypeOK
    <3> QED BY <3>1 DEF TimersKept
  <2> QED BY <1>1, <1>4, <2>0, <2>1, <2>2 DEF QuietTimer, Guarantee
<1> QED BY <1>2, <1>3, <1>4 DEF Quiet

LEMMA GuaranteeSubmits ==
  ASSUME IInv, NEW t \in Threads, NEW o, Submits(t, o)
  PROVE  Guarantee(t)
<1>0. /\ o \in Objects /\ InUse(o) /\ handle' = handle /\ members' = members /\ gone' = gone
      /\ o \in Simples => t \in Clients /\ pc[t] = "a_submit" /\ arg[t] = o
  BY SubmitUse, Zenon
<1>1. PlacesOK' /\ Others(t)
  BY SubmitsMoves, Zenon
<1>2. \A x \in Objects \ {o} : obj'[x] = obj[x]
  <2>1. PICK to : Submit(t, o, to)
    BY SubmitUse, Zenon
  <2> QED BY <1>0, <2>1, SubmitObject, Zenon DEF IInv
<1>3. obj[o].ref >= 1
  BY <1>0, Referenced
<1>4. HandlesKept(t) /\ ListsKept(t)
  BY <1>0 DEF HandlesKept, ListsKept
<1>5. ASSUME NEW c \in Clients \ {t}, pc[c] = "a_submit" PROVE arg[c] # o
  <2>1. pc[c] \in Allocating /\ c \in Clients
    BY <1>5 DEF Allocating
  <2>2. arg[c] \in Simples /\ \A d \in Clients \ {c} : pc[d] \in Allocating \cup {"unref"} => arg[d] # arg[c]
    BY <1>5, <2>1 DEF IInv, ClientExact
  <2>3. t \in Clients /\ pc[t] = "a_submit" => arg[t] # arg[c]
    BY <1>5, <2>2 DEF Allocating
  <2> QED BY <1>0, <2>2, <2>3
<1>6. ObjectsKept(t)
  BY <1>2, <1>3, <1>5 DEF ObjectsKept, SameObject
<1>7. UsesKept(t) /\ TimersKept
  <2>1. CASE t \in Clients /\ TpPostWork(t, o)
    <3>1. Moved(t, "idle", "idle", arg[t]) /\ timerq' = timerq
      BY <1>0, <2>1, CallMoves DEF TpPostWork
    <3> QED BY <1>1, <2>1, <3>1, Kinds, TimersAlone, UsesNothing DEF Moved, Allocating, Using
  <2>2. CASE t \in Clients /\ AllocSubmit(t)
    <3>1. Moved(t, "a_submit", "a_group", arg[t]) /\ timerq' = timerq
      BY <2>2, ObjectMoves DEF AllocSubmit
    <3>2. UsesKept(t)
      BY <3>1 DEF Moved, UsesKept, Allocating, Using
    <3> QED BY <1>1, <2>2, <3>1, <3>2, Kinds, TimersAlone
  <2>3. CASE t \in Clients /\ SetTimerSubmit(t)
    <3>1. Moved(t, "s_submit", "idle", None) /\ timerq' = timerq
      BY <2>3, ObjectMoves DEF SetTimerSubmit
    <3> QED BY <1>1, <2>3, <3>1, Kinds, TimersAlone, UsesNothing DEF Moved, Allocating, Using
  <2>4. CASE t \in Workers /\ CallbackPosts(t)
    <3>1. timerq' = timerq
      BY <2>4 DEF CallbackPosts
    <3> QED BY <1>1, <2>4, <3>1, Kinds, TimersAlone, UsesNothing
  <2>5. CASE t = TimerThread /\ TimerSubmit
    <3>1. Moved(TimerThread, "t_submit", "none", None)
      BY <2>5, TimerMoves
    <3>2. timerq'.pending \subseteq timerq.pending \cup {arg[TimerThread]}
      BY <2>5 DEF TimerSubmit, IInv, TypeOK
    <3>3. TimersKept
      BY <3>1, <3>2 DEF Moved, TimersKept
    <3> QED BY <2>5, <3>3, Kinds, UsesNothing
  <2> QED BY <2>1, <2>2, <2>3, <2>4, <2>5 DEF Submits
<1> QED BY <1>4, <1>6, <1>7 DEF Guarantee

\* A client that allocates or releases an object has it for itself.
LEMMA Unshared ==
  ASSUME IInv, NEW c \in Clients, NEW d \in Clients \ {c}, arg[c] = arg[d], pc[c] \in Allocating
  PROVE  pc[d] \notin Allocating \cup Using \cup {"unref"}
<1>1. handle[arg[c]] = "alloc" /\ (pc[d] \in Allocating \cup {"unref"} => arg[d] # arg[c])
  BY DEF IInv, ClientExact
<1>2. pc[d] \in Using => handle[arg[d]] = "live"
  BY DEF IInv, ClientExact
<1> QED BY <1>1, <1>2

\* A thread that does something to a single object x, which is not dying, and
\* which is not one that another thread is allocating.
LEMMA ObjectsBeside ==
  ASSUME NEW t \in Threads, NEW x, \A y \in Objects \ {x} : obj'[y] = obj[y],
         x \in Objects => (obj[x].ref = 0 /\ obj[x].state = "alive" => SameObject(x) \/ (pc[t] = "destroy2" /\ arg[t] = x)),
         \A c \in Clients \ {t} : pc[c] = "a_submit" => arg[c] # x
  PROVE  ObjectsKept(t)
BY DEF ObjectsKept, SameObject

\* A simple callback that is being allocated.
LEMMA NewSimple ==
  ASSUME IInv, NEW c \in Clients, pc[c] = "a_submit", NEW o, o = arg[c]
  PROVE  /\ o \in Objects /\ o \in Simples /\ handle[o] = "alloc" /\ obj[o].ref = 1 /\ ~obj[o].shutdown
         /\ ~Contains(members, o) /\ Releasing(o) = {} /\ obj[o].pending = 0 /\ Running(o) = {}
         /\ \A d \in Clients \ {c} : pc[d] \in Allocating \cup {"unref"} => arg[d] # o
<1>1. ClientExact(c)
  BY DEF IInv
<1>2. /\ o \in Objects /\ o \in Simples /\ handle[o] = "alloc" /\ obj[o].ref = 1 /\ ~obj[o].shutdown
      /\ ~Contains(members, o) /\ Releasing(o) = {}
      /\ \A d \in Clients \ {c} : pc[d] \in Allocating \cup {"unref"} => arg[d] # o
  BY <1>1 DEF ClientExact, Allocating
<1>3. obj[o].pending = 0 /\ Running(o) = {}
  BY <1>2, Referenced DEF InUse
<1> QED BY <1>2, <1>3

LEMMA GuaranteeDestroy ==
  ASSUME IInv, NEW t \in Threads, Destroy(t)
  PROVE  Guarantee(t)
<1>1. PICK o : o = arg[t]
  OBVIOUS
<1>2. /\ o \in Objects /\ obj' = obj /\ handle' = handle /\ gone' = gone /\ PlacesOK' /\ Others(t)
      /\ \A x : Contains(members', x) <=> Contains(members, x) /\ x # o
  BY <1>1, DestroyStep, Zenon
<1>3. pc[t] = "destroy" /\ pc'[t] = "destroy2"
  BY <1>1, DestroyStep, Zenon
<1>4. timerq' = timerq /\ t # TimerThread
  BY <1>3, Parts DEF Destroy, PlacesOK
<1>5. TimersKept /\ UsesKept(t)
  BY <1>2, <1>3, <1>4, TimersAlone, UsesNothing DEF Allocating, Using
<1>6. HandlesKept(t) /\ ListsKept(t) /\ ObjectsKept(t)
  BY <1>2 DEF HandlesKept, ListsKept, ObjectsKept, SameObject
<1> QED BY <1>5, <1>6 DEF Guarantee

LEMMA GuaranteeDestroy2 ==
  ASSUME IInv, NEW t \in Threads, Destroy2(t)
  PROVE  Guarantee(t)
<1>1. PICK o : o = arg[t]
  OBVIOUS
<1>2. o \in Objects /\ handle' = handle /\ Beside(o) /\ members' = members /\ gone' = gone /\ PlacesOK' /\ Others(t)
  BY <1>1, Destroy2Step, Zenon
<1>3. pc[t] = "destroy2" /\ pc'[t] \in {"locked", "m_wait", "idle"}
  BY <1>1, Destroy2Step, Zenon
<1>4. timerq' = timerq /\ t # TimerThread
  BY <1>3, Parts DEF Destroy2, PlacesOK
<1>5. TimersKept /\ UsesKept(t)
  BY <1>2, <1>3, <1>4, TimersAlone, UsesNothing DEF Allocating, Using
<1>6. obj[o].ref = 0
  BY <1>1, <1>3 DEF IInv, DestroyerExact, Destroying
<1>7. ASSUME NEW c \in Clients \ {t}, pc[c] = "a_submit" PROVE arg[c] # o
  <2>1. obj[arg[c]].ref = 1
    BY <1>7, NewSimple
  <2> QED BY <1>6, <2>1
<1>8. ObjectsKept(t)
  BY <1>1, <1>2, <1>3, <1>7, ObjectsBeside DEF Beside
<1>9. HandlesKept(t) /\ ListsKept(t)
  BY <1>2 DEF HandlesKept, ListsKept
<1> QED BY <1>5, <1>8, <1>9 DEF Guarantee

LEMMA GuaranteeCancels ==
  ASSUME IInv, NEW c \in Clients, NEW o, Cancels(c, o)
  PROVE  Guarantee(c)
<1>1. /\ o \in Objects /\ Cancel(o) /\ (handle[o] = "live" \/ Contains(gone[c], o))
      /\ handle' = handle /\ members' = members /\ gone' = gone /\ timerq' = timerq /\ PlacesOK' /\ Others(c)
  BY CancelStep, Zenon
<1>2. \/ pc[c] = "idle" /\ pc'[c] = "w_check" /\ arg'[c] = o /\ \A d \in Clients : pc[d] = "unref" => arg[d] # o
      \/ pc[c] = "m_cancel" /\ pc'[c] \in {"m_wait", "m_cancel"}
  BY CancelStep, Zenon
<1>3. \A x \in Objects \ {o} : obj'[x] = obj[x]
  BY <1>1, CancelObject, Zenon DEF IInv
<1>4. obj[o].ref >= 1
  BY <1>1, Referenced DEF InUse, Releasing
<1>5. UsesKept(c)
  BY <1>2 DEF UsesKept, Allocating, Using
<1>6. TimersKept
  BY <1>1, Kinds, TimersAlone
<1>7. ASSUME NEW d \in Clients \ {c}, pc[d] = "a_submit" PROVE arg[d] # o
  <2>1. handle[arg[d]] = "alloc" /\ Releasing(arg[d]) = {}
    BY <1>7, NewSimple, Zenon
  <2> QED BY <1>1, <2>1 DEF Releasing
<1>8. ObjectsKept(c)
  BY <1>3, <1>4, <1>7, Kinds, ObjectsBeside
<1>9. HandlesKept(c) /\ ListsKept(c)
  BY <1>1 DEF HandlesKept, ListsKept
<1> QED BY <1>5, <1>6, <1>8, <1>9 DEF Guarantee

LEMMA GuaranteeAlloc ==
  ASSUME IInv, NEW c \in Clients, NEW o \in Objects, Alloc(c, o)
  PROVE  Guarantee(c)
<1>1. /\ Beside(o) /\ handle[o] = "none" /\ members' = members /\ gone' = gone /\ PlacesOK' /\ Others(c)
  BY AllocStep, Zenon
<1>2. PICK to \in Allocating : Moved(c, "idle", to, o)
  BY CallMoves
<1>3. timerq' = timerq
  BY DEF Alloc
<1>4. obj[o].state # "alive"
  BY <1>1 DEF IInv, ObjectExact, FlagsExact
<1>5. ASSUME NEW d \in Clients \ {c}, pc[d] = "a_submit" PROVE arg[d] # o
  <2>1. handle[arg[d]] = "alloc"
    BY <1>5, NewSimple
  <2> QED BY <1>1, <2>1
<1>6. ObjectsKept(c)
  BY <1>1, <1>4, <1>5, Kinds, ObjectsBeside DEF Beside
<1>7. HandlesKept(c) /\ ListsKept(c)
  BY <1>1 DEF HandlesKept, ListsKept, Beside
<1>8. UsesKept(c)
  BY <1>1, <1>2 DEF UsesKept, Allocating, Using, Moved
<1>9. TimersKept
  BY <1>1, <1>3, Kinds, TimersAlone
<1> QED BY <1>6, <1>7, <1>8, <1>9 DEF Guarantee

LEMMA GuaranteeReleaseMembers ==
  ASSUME IInv, NEW c \in Clients, TpReleaseCleanupGroupMembers(c)
  PROVE  Guarantee(c)
<1>1. /\ obj' = obj /\ members' = members /\ gone' = gone /\ PlacesOK' /\ Others(c) /\ pc'[c] = "m_each"
      /\ \A x \in Objects : handle'[x] = handle[x] \/ (x \in Grouped /\ handle[x] = "live" /\ handle'[x] = "closing")
      /\ \A x \in Grouped : handle[x] = "live" => Undisturbed(x)
  BY ReleaseMembersStep
<1>2. HandlesKept(c) /\ ListsKept(c) /\ ObjectsKept(c)
  BY <1>1 DEF HandlesKept, ListsKept, ObjectsKept, SameObject
<1>3. timerq' = timerq
  BY DEF TpReleaseCleanupGroupMembers
<1>4. TimersKept /\ UsesKept(c)
  BY <1>1, <1>3, Kinds, TimersAlone, UsesNothing DEF Allocating, Using
<1> QED BY <1>2, <1>4 DEF Guarantee

LEMMA GuaranteeAllocFails ==
  ASSUME IInv, NEW c \in Clients, AllocTimerFails(c)
  PROVE  Guarantee(c)
<1>1. PICK o : o = arg[c]
  OBVIOUS
<1>2. o \in Objects /\ Beside(o) /\ members' = members /\ gone' = gone /\ PlacesOK' /\ Others(c)
  BY <1>1, AllocFailsStep, Zenon
<1>3. handle[o] = "alloc" /\ pc[c] = "a_timer" /\ pc'[c] = "destroy2"
  BY <1>1, AllocFailsStep
<1>4. timerq' = timerq
  BY DEF AllocTimerFails
<1>5. obj[o].ref >= 1
  BY <1>2, <1>3, Referenced DEF InUse
<1>6. ASSUME NEW d \in Clients \ {c}, pc[d] = "a_submit" PROVE arg[d] # o
  BY <1>1, <1>3, <1>6, NewSimple DEF Allocating
<1>7. ObjectsKept(c)
  BY <1>2, <1>5, <1>6, Kinds, ObjectsBeside DEF Beside
<1>8. HandlesKept(c) /\ ListsKept(c)
  BY <1>1, <1>2, <1>3 DEF HandlesKept, ListsKept, Beside, Allocating
<1>9. TimersKept /\ UsesKept(c)
  BY <1>2, <1>3, <1>4, Kinds, TimersAlone, UsesNothing DEF Allocating, Using
<1> QED BY <1>7, <1>8, <1>9 DEF Guarantee

LEMMA GuaranteeAllocGroup ==
  ASSUME IInv, NEW c \in Clients, AllocGroup(c)
  PROVE  Guarantee(c)
<1>1. PICK o : o = arg[c]
  OBVIOUS
<1>2. o \in Objects /\ obj' = obj /\ Beside(o) /\ gone' = gone /\ PlacesOK' /\ Others(c)
  BY <1>1, AllocGroupStep, Zenon
<1>8. \A x : Contains(members', x) <=> Contains(members, x) \/ (x = o /\ o \in Grouped)
  BY <1>1, AllocGroupStep
<1>3. pc[c] = "a_group" /\ pc'[c] \in {"unref", "idle"} /\ (pc'[c] = "unref" => arg'[c] = o)
  BY <1>1, AllocGroupStep
<1>4. timerq' = timerq
  BY DEF AllocGroup
<1>5. HandlesKept(c) /\ ListsKept(c) /\ ObjectsKept(c)
  BY <1>1, <1>2, <1>3, <1>8 DEF HandlesKept, ListsKept, ObjectsKept, SameObject, Beside, Allocating
<1>6. UsesKept(c)
  BY <1>1, <1>3 DEF UsesKept, Allocating, Using
<1>7. TimersKept
  BY <1>2, <1>4, Kinds, TimersAlone
<1> QED BY <1>5, <1>6, <1>7 DEF Guarantee

LEMMA GuaranteeUnref ==
  ASSUME IInv, NEW c \in Clients, Unref(c)
  PROVE  Guarantee(c)
<1>1. PICK o : o = arg[c]
  OBVIOUS
<1>2. o \in Objects /\ Beside(o) /\ members' = members /\ gone' = gone /\ PlacesOK' /\ Others(c)
  BY <1>1, UnrefStep, Zenon
<1>3. handle[o] \in {"alloc", "live"} /\ pc[c] = "unref"
  BY <1>1, UnrefStep, Zenon
<1>4. pc'[c] \in {"destroy", "idle"}
  BY <1>1, UnrefStep
<1>5. timerq' = timerq
  BY DEF Unref
<1>6. obj[o].ref >= 1
  BY <1>2, <1>3, Referenced DEF InUse
<1>7. ASSUME NEW d \in Clients \ {c}, pc[d] = "a_submit" PROVE arg[d] # o
  BY <1>1, <1>3, <1>7, NewSimple DEF Allocating
<1>8. ObjectsKept(c)
  BY <1>2, <1>6, <1>7, Kinds, ObjectsBeside DEF Beside
<1>9. HandlesKept(c) /\ ListsKept(c)
  BY <1>1, <1>2, <1>3 DEF HandlesKept, ListsKept, Beside, Allocating
<1>10. TimersKept /\ UsesKept(c)
  BY <1>2, <1>4, <1>5, Kinds, TimersAlone, UsesNothing DEF Allocating, Using
<1> QED BY <1>8, <1>9, <1>10 DEF Guarantee

LEMMA GuaranteeMemberEach ==
  ASSUME IInv, NEW c \in Clients, MemberEach(c)
  PROVE  Guarantee(c)
<1>1. PICK o : o = Head(members)
  OBVIOUS
<1>2. /\ o \in Objects /\ Contains(members, o) /\ handle' = handle /\ PlacesOK' /\ Others(c)
      /\ \A x \in Objects \ {o} : obj'[x] = obj[x]
      /\ \A x : Contains(members', x) <=> Contains(members, x) /\ x # o
  BY <1>1, MemberEachStep, Zenon
<1>3. Dying(o) => obj' = obj /\ gone' = gone /\ pc'[c] = "m_each"
  BY <1>1, MemberEachStep, Zenon
<1>4. ~Dying(o) => gone' = [gone EXCEPT ![c] = Append(@, o)] /\ pc'[c] \in {"m_timer", "m_each"}
  BY <1>1, MemberEachStep
<1>5. /\ \A d \in Clients \ {c} : gone'[d] = gone[d]
      /\ \A x \in Objects : Contains(gone'[c], x) => Contains(gone[c], x) \/ x = o
  <2>1. gone \in [Clients -> Seq(Objects)] /\ gone[c] \in Seq(Objects) /\ IsInjective(gone[c])
    BY Parts DEF IInv, TypeOK
  <2>2. CASE Dying(o)
    BY <1>3, <2>2
  <2>3. CASE ~Dying(o)
    <3>1. (\A d \in Clients \ {c} : gone'[d] = gone[d]) /\ gone'[c] = Append(gone[c], o)
      BY <1>4, <2>1, <2>3
    <3>2. \A x : Contains(Append(gone[c], o), x) <=> Contains(gone[c], x) \/ x = o
      BY <1>2, <2>1, Appended
    <3> QED BY <3>1, <3>2
  <2> QED BY <2>2, <2>3
<1>6. timerq' = timerq
  BY DEF MemberEach
<1>7. HandlesKept(c) /\ ListsKept(c)
  BY <1>2, <1>5 DEF HandlesKept, ListsKept
<1>8. ASSUME NEW d \in Clients \ {c}, pc[d] = "a_submit" PROVE arg[d] # o
  BY <1>2, <1>8, NewSimple
<1>9. obj[o].ref = 0 => SameObject(o)
  BY <1>3 DEF Dying, SameObject
<1>10. ObjectsKept(c)
  BY <1>2, <1>8, <1>9, Kinds, ObjectsBeside
<1>11. pc'[c] \in {"m_timer", "m_each"}
  BY <1>3, <1>4
<1>12. TimersKept /\ UsesKept(c)
  BY <1>2, <1>6, <1>11, Kinds, TimersAlone, UsesNothing DEF Allocating, Using
<1> QED BY <1>7, <1>10, <1>12 DEF Guarantee

LEMMA GuaranteeMemberRelease ==
  ASSUME IInv, NEW c \in Clients, MemberRelease(c)
  PROVE  Guarantee(c)
<1>1. PICK o : o = arg[c]
  OBVIOUS
<1>2. /\ o \in Objects /\ Contains(gone[c], o) /\ Beside(o) /\ members' = members /\ PlacesOK' /\ Others(c)
  BY <1>1, MemberReleaseStep, Zenon
<1>11. /\ \A d \in Clients \ {c} : gone'[d] = gone[d]
       /\ \A x : Contains(gone'[c], x) <=> Contains(gone[c], x) /\ x # o
  BY <1>1, MemberReleaseLists, Zenon
<1>3. handle'[o] = handle[o] \/ (handle'[o] = "closed" /\ o \notin Simples)
  BY <1>1, MemberReleaseStep
<1>4. pc'[c] \in {"destroy", "m_wait"} /\ pc[c] = "m_release"
  BY <1>1, MemberReleaseStep
<1>5. timerq' = timerq
  BY DEF MemberRelease
<1>6. obj[o].ref >= 1 /\ Releasing(o) # {}
  BY <1>2, Referenced DEF Releasing
<1>7. ASSUME NEW d \in Clients \ {c}, pc[d] = "a_submit" PROVE arg[d] # o
  BY <1>6, <1>7, NewSimple
<1>8. ObjectsKept(c)
  BY <1>2, <1>6, <1>7, Kinds, ObjectsBeside DEF Beside
<1>9. HandlesKept(c) /\ ListsKept(c)
  BY <1>2, <1>3, <1>4, <1>11 DEF HandlesKept, ListsKept, Beside
<1>10. TimersKept /\ UsesKept(c)
  BY <1>2, <1>4, <1>5, Kinds, TimersAlone, UsesNothing DEF Allocating, Using
<1> QED BY <1>8, <1>9, <1>10 DEF Guarantee

\* The steps of workers.
LEMMA GuaranteeWorker ==
  ASSUME IInv, NEW w \in Workers, Others(w), NEW o \in Objects, \A x \in Objects \ {o} : obj'[x] = obj[x],
         handle' = handle, members' = members, gone' = gone, timerq' = timerq,
         obj[o].pending > 0 \/ Running(o) # {}
  PROVE  Guarantee(w)
<1>1. obj[o].ref >= 1
  BY Referenced
<1>2. ASSUME NEW d \in Clients \ {w}, pc[d] = "a_submit" PROVE arg[d] # o
  <2>1. obj[arg[d]].pending = 0 /\ Running(arg[d]) = {}
    BY <1>2, NewSimple, Zenon
  <2> QED BY <2>1
<1>3. ObjectsKept(w)
  BY <1>1, <1>2, Kinds, ObjectsBeside
<1>4. HandlesKept(w) /\ ListsKept(w)
  BY DEF HandlesKept, ListsKept
<1>5. TimersKept /\ UsesKept(w)
  BY Kinds, TimersAlone, UsesNothing
<1> QED BY <1>3, <1>4, <1>5 DEF Guarantee

LEMMA GuaranteeCallbacks ==
  ASSUME IInv, NEW w \in Workers, WorkerTake(w) \/ CallbackReturns(w) \/ TpDisassociateCallback(w)
  PROVE  Guarantee(w)
<1>0. TypeOK /\ QueuesExact
  BY DEF IInv
<1>1. CASE WorkerTake(w)
  <2>1. PICK o : o = NextItem
    OBVIOUS
  <2>2. o \in Objects /\ obj[o].pending > 0 /\ \A x \in Objects \ {o} : obj'[x] = obj[x]
    BY <1>0, <1>1, <2>1, TakeObject, Zenon
  <2>3. handle' = handle /\ members' = members /\ gone' = gone /\ timerq' = timerq /\ Others(w)
    BY <1>1, <2>1, TakeStep, Zenon
  <2> QED BY <2>2, <2>3, GuaranteeWorker
<1>2. ASSUME pc[w] = "callback", arg[w] \in Objects PROVE Running(arg[w]) # {}
  BY <1>2 DEF Running
<1>3. CASE CallbackReturns(w)
  <2>1. PICK o : o = arg[w]
    OBVIOUS
  <2>2. /\ o \in Objects /\ handle' = handle /\ members' = members /\ gone' = gone /\ timerq' = timerq /\ Others(w)
        /\ pc[w] = "callback"
    BY <1>3, <2>1, ReturnStep, Zenon
  <2>3. \A x \in Objects \ {o} : obj'[x] = obj[x]
    BY <1>0, <1>3, <2>1, <2>2, ReturnObject, Zenon
  <2> QED BY <1>2, <2>1, <2>2, <2>3, GuaranteeWorker
<1>4. CASE TpDisassociateCallback(w)
  <2>1. PICK o : o = arg[w]
    OBVIOUS
  <2>2. /\ o \in Objects /\ handle' = handle /\ members' = members /\ gone' = gone /\ timerq' = timerq /\ Others(w)
        /\ pc[w] = "callback"
    BY <1>4, <2>1, DisassociateStep, Zenon
  <2>3. \A x \in Objects \ {o} : obj'[x] = obj[x]
    BY <1>0, <1>4, <2>1, <2>2, DisassociateObject, Zenon
  <2> QED BY <1>2, <2>1, <2>2, <2>3, GuaranteeWorker
<1> QED BY <1>1, <1>3, <1>4

LEMMA GuaranteeReleases ==
  ASSUME IInv, NEW w \in Workers, CallbackReleases(w)
  PROVE  Guarantee(w) /\ Others(w)
<1>1. PICK o : o = arg[w]
  OBVIOUS
<1>2. /\ o \in Objects /\ o \notin Simples /\ Beside(o) /\ members' = members /\ gone' = gone /\ pc' = pc /\ arg' = arg
      /\ Others(w) /\ NotReleased(o) /\ NotUsed(o) /\ obj[o].ref >= 2 /\ pc[w] = "callback"
  BY <1>1, CallbackReleasesStep, Zenon
<1>3. handle[o] \in {"live", "closing"} /\ handle'[o] = "closed"
  BY <1>1, CallbackReleasesStep, Zenon
<1>4. timerq'.pending \subseteq timerq.pending /\ ~Ticks(o)'
  <2>1. CASE o \in Timers
    <3>1. TimerqueueUnlock(o)
      BY <1>1, <2>1 DEF CallbackReleases
    <3> QED BY <1>2, <3>1, Unlocked DEF Ticks
  <2>2. CASE o \notin Timers
    <3>1. timerq' = timerq
      BY <1>1, <2>2 DEF CallbackReleases
    <3>2. timerq.pending \subseteq Timers /\ (pc[TimerThread] = "t_submit" => arg[TimerThread] \in Timers)
      BY Fields DEF IInv, TimersExact
    <3> QED BY <1>2, <2>2, <3>1, <3>2 DEF Ticks
  <2> QED BY <2>1, <2>2
<1>5. ASSUME NEW d \in Clients \ {w}, pc[d] = "a_submit" PROVE arg[d] # o
  BY <1>2, <1>5 DEF IInv, ClientExact
<1>6. ObjectsKept(w)
  BY <1>2, <1>5, Kinds, ObjectsBeside DEF Beside
<1>7. HandlesKept(w) /\ ListsKept(w)
  BY <1>2, <1>3, <1>4 DEF HandlesKept, ListsKept, Beside
<1>8. TimersKept /\ UsesKept(w)
  BY <1>2, <1>4, Kinds, UsesNothing DEF TimersKept
<1> QED BY <1>2, <1>6, <1>7, <1>8 DEF Guarantee

----------------------------------------
(* What the clients rely on *)

\* Where another client is after a step of t.
LEMMA Stays ==
  ASSUME NEW t \in Threads, Others(t), NEW c \in Clients \ {t}
  PROVE  /\ arg'[c] = arg[c]
         /\ \/ pc'[c] = pc[c]
            \/ pc[c] = "w_sleep" /\ pc'[c] = "w_check"
            \/ pc[c] = "m_sleep" /\ pc'[c] = "m_wait"
BY Kinds DEF Others

\* An object that a client has for itself while it allocates it.
LEMMA AllocatedAlone ==
  ASSUME IInv, NEW t \in Threads, Others(t), Guarantee(t), NEW c \in Clients \ {t}, pc[c] \in Allocating, NEW o, o = arg[c]
  PROVE  /\ o \in Objects /\ handle'[o] = "alloc" /\ ~Contains(members', o) /\ Releasing(o)' = {}
         /\ \A d \in Clients \ {c} : pc'[d] \in Allocating \cup {"unref"} => arg'[d] # o
<1>0. c \in Clients
  OBVIOUS
<1>1. /\ o \in Objects /\ handle[o] = "alloc" /\ ~Contains(members, o) /\ Releasing(o) = {}
      /\ \A d \in Clients \ {c} : pc[d] \in Allocating \cup {"unref"} => arg[d] # o
  BY DEF IInv, ClientExact
<1>2. t \in Clients => ~(pc[t] \in Allocating \cup {"unref"} /\ arg[t] = o) /\ ~Contains(gone[t], o)
  BY <1>1 DEF Releasing
<1>3. handle'[o] = "alloc"
  BY <1>1, <1>2 DEF Guarantee, HandlesKept
<1>4. ~Contains(members', o)
  BY <1>1, <1>2 DEF Guarantee, ListsKept, Allocating
<1>5. Releasing(o)' = {}
  BY <1>1, <1>2 DEF Guarantee, ListsKept, Releasing
<1>6. ASSUME NEW d \in Clients \ {c}, pc'[d] \in Allocating \cup {"unref"} PROVE arg'[d] # o
  <2>1. CASE d # t
    <3>1. arg'[d] = arg[d] /\ pc'[d] = pc[d]
      BY <1>6, <2>1, Stays DEF Allocating
    <3> QED BY <1>1, <1>6, <3>1
  <2>2. CASE d = t
    BY <1>0, <1>1, <1>2, <1>6, <2>2 DEF Guarantee, UsesKept, Allocating
  <2> QED BY <2>1, <2>2
<1> QED BY <1>1, <1>3, <1>4, <1>5, <1>6

\* An object that a client is about to release.
LEMMA ReleasedAlone ==
  ASSUME IInv, NEW t \in Threads, Others(t), Guarantee(t), NEW c \in Clients \ {t}, pc[c] = "unref", NEW o, o = arg[c]
  PROVE  /\ o \in Objects /\ handle'[o] = (IF o \in Simples THEN "alloc" ELSE "live") /\ o \notin timerq'.pending
         /\ pc'[TimerThread] = "t_submit" => arg'[TimerThread] # o
         /\ \A d \in Clients \ {c} : pc'[d] \in Using \cup {"unref"} => arg'[d] # o
<1>0. c \in Clients /\ ~Undisturbed(o)
  BY DEF Undisturbed
<1>1. /\ o \in Objects /\ handle[o] = (IF o \in Simples THEN "alloc" ELSE "live") /\ o \notin timerq.pending
      /\ pc[TimerThread] = "t_submit" => arg[TimerThread] # o
      /\ \A d \in Clients \ {c} : pc[d] \in Using \cup {"unref"} => arg[d] # o
  BY DEF IInv, ClientExact
<1>2. t \in Clients => ~(pc[t] \in Allocating \cup {"unref"} /\ arg[t] = o)
  <2>1. t \in Clients /\ pc[t] \in Allocating => arg[t] # o
    BY Unshared
  <2> QED BY <1>1, <2>1
<1>3. o \notin Simples => \A d \in Clients : ~Contains(gone[d], o)
  BY <1>1 DEF IInv, GroupExact, MemberExact, Releasing
<1>4. handle'[o] = handle[o]
  BY <1>0, <1>1, <1>2, <1>3 DEF Guarantee, HandlesKept, NotReleased
<1>5. o \notin timerq'.pending
  BY <1>0, <1>1 DEF Guarantee, TimersKept
<1>6. pc'[TimerThread] = "t_submit" => arg'[TimerThread] # o
  BY <1>0, <1>1 DEF Guarantee, TimersKept
<1>7. ASSUME NEW d \in Clients \ {c}, pc'[d] \in Using \cup {"unref"} PROVE arg'[d] # o
  <2>1. CASE d # t
    <3>1. arg'[d] = arg[d] /\ (pc'[d] = pc[d] \/ pc[d] = "w_sleep")
      BY <1>7, <2>1, Stays DEF Using
    <3> QED BY <1>1, <1>7, <3>1 DEF Using
  <2>2. CASE d = t
    BY <1>0, <1>1, <1>2, <1>7, <2>2 DEF Guarantee, UsesKept, Allocating, Using
  <2> QED BY <2>1, <2>2
<1> QED BY <1>1, <1>4, <1>5, <1>6, <1>7

\* An object that a client uses.
LEMMA UsedStays ==
  ASSUME IInv, NEW t \in Threads, Guarantee(t), NEW c \in Clients \ {t}, pc[c] \in Using, NEW o, o = arg[c]
  PROVE  o \in Objects /\ handle'[o] = "live"
<1>0. c \in Clients /\ ~Undisturbed(o)
  BY DEF Undisturbed, Using
<1>1. o \in Objects /\ handle[o] = "live"
  BY DEF IInv, ClientExact
<1>2. t \in Clients => ~(pc[t] \in Allocating \cup {"unref"} /\ arg[t] = o)
  <2>1. t \in Clients /\ pc[t] \in Allocating => arg[t] # o
    BY Unshared
  <2>2. t \in Clients /\ pc[t] = "unref" => \A d \in Clients \ {t} : pc[d] \in Using \cup {"unref"} => arg[d] # arg[t]
    BY DEF IInv, ClientExact
  <2>3. t \in Clients /\ pc[t] = "unref" => arg[t] # o
    BY <2>2
  <2> QED BY <2>1, <2>3
<1>3. o \notin Simples => \A d \in Clients : ~Contains(gone[d], o)
  BY <1>1 DEF IInv, GroupExact, MemberExact, Releasing
<1>4. handle'[o] = handle[o]
  BY <1>0, <1>1, <1>2, <1>3 DEF Guarantee, HandlesKept, NotUsed
<1> QED BY <1>1, <1>4

LEMMA Interference ==
  ASSUME IInv, NEW t \in Threads, Others(t), Guarantee(t), NEW c \in Clients \ {t}
  PROVE  ClientExact(c)'
<1>0. ClientExact(c) /\ c \in Clients
  BY DEF IInv
<1>1. PICK o : o = arg[c]
  OBVIOUS
<1>2. /\ arg'[c] = o /\ gone'[c] = gone[c]
      /\ pc'[c] = pc[c] \/ (pc[c] = "w_sleep" /\ pc'[c] = "w_check") \/ (pc[c] = "m_sleep" /\ pc'[c] = "m_wait")
  BY <1>1, Stays DEF Guarantee, ListsKept
<1>3. CASE pc'[c] \in Allocating
  <2>1. pc[c] = pc'[c]
    BY <1>2, <1>3 DEF Allocating
  <2>2. /\ o \in Objects /\ handle'[o] = "alloc" /\ ~Contains(members', o) /\ Releasing(o)' = {}
        /\ \A d \in Clients \ {c} : pc'[d] \in Allocating \cup {"unref"} => arg'[d] # o
    BY <1>1, <1>3, <2>1, AllocatedAlone
  <2>3. pc[c] = "a_submit" => o \in Simples /\ obj'[o].ref = 1 /\ ~obj'[o].shutdown
    <3>1. pc[c] = "a_submit" => SameObject(o)
      BY <1>1, <2>2 DEF Guarantee, ObjectsKept
    <3> QED BY <1>0, <1>1, <3>1 DEF ClientExact, SameObject
  <2>4. pc[c] = "a_timer" => o \in Timers
    BY <1>0, <1>1 DEF ClientExact
  <2> QED BY <1>2, <1>3, <2>1, <2>2, <2>3, <2>4 DEF ClientExact, Allocating, Using
<1>4. CASE pc'[c] = "unref"
  <2>1. pc[c] = "unref"
    BY <1>2, <1>4
  <2>2. /\ o \in Objects /\ handle'[o] = (IF o \in Simples THEN "alloc" ELSE "live") /\ o \notin timerq'.pending
        /\ pc'[TimerThread] = "t_submit" => arg'[TimerThread] # o
        /\ \A d \in Clients \ {c} : pc'[d] \in Using \cup {"unref"} => arg'[d] # o
    BY <1>1, <2>1, ReleasedAlone
  <2> QED BY <1>2, <1>4, <2>2 DEF ClientExact, Allocating, Using
<1>5. CASE pc'[c] \in Using
  <2>1. pc[c] \in Using /\ (pc'[c] = "s_submit" => pc[c] = "s_submit")
    BY <1>2, <1>5 DEF Using
  <2>2. o \in Objects /\ handle'[o] = "live"
    BY <1>1, <2>1, UsedStays
  <2>3. pc'[c] = "s_submit" => o \in Timers
    BY <1>0, <1>1, <2>1 DEF ClientExact
  <2> QED BY <1>2, <1>5, <2>2, <2>3 DEF ClientExact, Allocating, Using
<1>6. CASE pc'[c] \notin Allocating \cup Using \cup {"unref"}
  <2>1. /\ pc'[c] \in {"m_timer", "m_cancel"} => Contains(gone[c], o)
        /\ pc'[c] = "m_timer" => o \in Timers
        /\ pc'[c] \in {"m_sleep", "m_release"} => gone[c] # <<>> /\ o = Head(gone[c])
    BY <1>0, <1>1, <1>2 DEF ClientExact
  <2> QED BY <1>2, <1>6, <2>1 DEF ClientExact, Allocating, Using
<1> QED BY <1>3, <1>4, <1>5, <1>6

LEMMA Elsewhere ==
  ASSUME NEW c \in Clients, pc'[c] \in {"idle", "destroy", "destroy2", "m_each", "m_wait"}
  PROVE  ClientExact(c)'
BY DEF ClientExact, Allocating, Using

\* A timer is allocated, or a simple callback submitted.
LEMMA AllocationGoesOn ==
  ASSUME IInv, NEW c \in Clients, Others(c), pc[c] \in Allocating, pc'[c] = "a_group", arg'[c] = arg[c],
         handle' = handle, members' = members, gone' = gone
  PROVE  ClientExact(c)'
<1>1. PICK o : o = arg[c]
  OBVIOUS
<1>2. /\ o \in Objects /\ handle[o] = "alloc" /\ ~Contains(members, o) /\ Releasing(o) = {}
      /\ \A d \in Clients \ {c} : pc[d] \in Allocating \cup {"unref"} => arg[d] # o
  BY <1>1 DEF IInv, ClientExact
<1>3. \A d \in Clients \ {c} : pc'[d] \in Allocating \cup {"unref"} => arg'[d] # o
  BY <1>2, Kinds, Stays DEF Allocating
<1>4. Releasing(o)' = {}
  BY <1>2 DEF Releasing
<1> QED BY <1>1, <1>2, <1>3, <1>4 DEF ClientExact, Allocating, Using

\* A timer's release has taken it off the timer queue.
LEMMA TakenOff ==
  ASSUME IInv, NEW c \in Clients, NEW o \in Objects, TpRelease(c, o)
  PROVE  o \notin timerq'.pending /\ (pc[TimerThread] = "t_submit" => arg[TimerThread] # o)
<1>1. timerq.pending \subseteq Timers
  BY Fields DEF IInv
<1>2. CASE o \in Timers
  <2>1. TimerqueueUnlock(o)
    BY <1>2 DEF TpRelease
  <2> QED BY <2>1, Unlocked
<1>3. CASE o \notin Timers
  <2>1. timerq' = timerq
    BY <1>3 DEF TpRelease
  <2>2. pc[TimerThread] = "t_submit" => arg[TimerThread] \in Timers
    BY DEF IInv, TimersExact
  <2> QED BY <1>1, <1>3, <2>1, <2>2
<1> QED BY <1>2, <1>3

LEMMA OwnQuiet ==
  ASSUME IInv, NEW c \in Clients, Quiet(c)
  PROVE  ClientExact(c)'
<1>0. QuietCall(c) /\ handle' = handle /\ members' = members /\ gone' = gone /\ Others(c) /\ c \in Threads
  BY Kinds, QuietKept, QuietMoves, Zenon DEF Quiet, Kept
<1>1. ASSUME NEW n \in Limits, TpSetPoolMaxThreads(c, n) \/ TpSetPoolMinThreads(c, n) PROVE ClientExact(c)'
  <2>1. pc'[c] = "idle"
    BY <1>1, CallMoves, Zenon DEF Moved
  <2> QED BY <2>1, Elsewhere
<1>2. ASSUME TpReleasePool(c) \/ TpReleaseCleanupGroup(c) \/ MembersReleased(c) PROVE ClientExact(c)'
  <2>1. pc'[c] = "idle"
    BY <1>2, CallMoves, MemberMoves, Zenon DEF Moved
  <2> QED BY <2>1, Elsewhere
<1>3. ASSUME NEW o \in Objects, TpRelease(c, o) PROVE ClientExact(c)'
  <2>1. pc'[c] = "unref" /\ arg'[c] = o
    BY <1>3, CallMoves, Zenon DEF Moved
  <2>2. handle[o] = "live" /\ Undisturbed(o)
    BY <1>3 DEF TpRelease
  <2>3. o \notin Simples
    BY <2>2 DEF IInv, ObjectExact, SimpleExact
  <2>4. o \notin timerq'.pending /\ (pc[TimerThread] = "t_submit" => arg[TimerThread] # o)
    BY <1>3, TakenOff
  <2>5. pc'[TimerThread] = "t_submit" => arg'[TimerThread] # o
    BY <1>0, <2>4, Kinds DEF Others
  <2>6. \A d \in Clients \ {c} : pc'[d] \in Using \cup {"unref"} => arg'[d] # o
    BY <1>0, <2>2, Stays DEF Undisturbed, Using
  <2> QED BY <1>0, <2>1, <2>2, <2>3, <2>4, <2>5, <2>6 DEF ClientExact, Allocating, Using
<1>4. ASSUME NEW o \in Objects, NEW later \in BOOLEAN, NEW now \in BOOLEAN, NEW period \in BOOLEAN,
             TpSetTimer(c, o, later, now, period)
      PROVE  ClientExact(c)'
  <2>1. (pc'[c] = "s_submit" /\ arg'[c] = o) \/ pc'[c] = "idle"
    BY <1>4, CallMoves DEF Moved
  <2>2. handle[o] = "live" /\ o \in Timers
    BY <1>4 DEF TpSetTimer
  <2> QED BY <1>0, <2>1, <2>2 DEF ClientExact, Allocating, Using
<1>5. ASSUME NEW o \in Objects, TpWaitFor(c, o, FALSE) PROVE ClientExact(c)'
  <2>1. pc'[c] = "w_check" /\ arg'[c] = o /\ handle[o] = "live"
    BY <1>5, CallMoves DEF Moved, TpWaitFor
  <2> QED BY <1>0, <2>1 DEF ClientExact, Allocating, Using
<1>6. ASSUME AllocTimer(c) PROVE ClientExact(c)'
  <2>1. pc[c] \in Allocating /\ pc'[c] = "a_group" /\ arg'[c] = arg[c]
    BY <1>6, ObjectMoves DEF Moved, Allocating
  <2> QED BY <1>0, <2>1, AllocationGoesOn
<1>7. ASSUME ObjectWait(c) PROVE ClientExact(c)'
  <2>1. pc'[c] = "idle" \/ (pc[c] = "w_check" /\ pc'[c] = "w_sleep" /\ arg'[c] = arg[c])
    BY <1>7, ObjectMoves DEF Moved
  <2>2. pc[c] = "w_check" => arg[c] \in Objects /\ handle[arg[c]] = "live"
    BY DEF IInv, ClientExact, Using
  <2> QED BY <1>0, <2>1, <2>2 DEF ClientExact, Allocating, Using
<1>8. ASSUME MemberTimer(c) PROVE ClientExact(c)'
  <2>1. pc'[c] = "m_each"
    BY <1>8, MemberMoves DEF Moved
  <2> QED BY <2>1, Elsewhere
<1>9. ASSUME MembersMoved(c) PROVE ClientExact(c)'
  <2>1. pc'[c] = "m_wait" \/ (gone[c] # <<>> /\ pc'[c] = "m_cancel" /\ arg'[c] = Head(gone[c]))
    BY <1>9, MemberMoves DEF Moved, MembersMoved, Goto
  <2>2. gone[c] # <<>> => Contains(gone[c], Head(gone[c]))
    BY Parts, Tailed
  <2> QED BY <1>0, <2>1, <2>2 DEF ClientExact, Allocating, Using
<1>10. ASSUME MemberWait(c) PROVE ClientExact(c)'
  <2>1. gone[c] # <<>> /\ pc'[c] \in {"m_release", "m_sleep"} /\ arg'[c] = Head(gone[c])
    BY <1>10, MemberMoves DEF Moved
  <2> QED BY <1>0, <2>1 DEF ClientExact, Allocating, Using
<1> QED BY <1>0, <1>1, <1>2, <1>3, <1>4, <1>5, <1>6, <1>7, <1>8, <1>9, <1>10, Zenon DEF QuietCall

LEMMA OwnAlloc ==
  ASSUME IInv, NEW c \in Clients, NEW o \in Objects, Alloc(c, o)
  PROVE  ClientExact(c)'
<1>1. /\ handle[o] = "none" /\ handle'[o] = "alloc" /\ obj'[o].ref = 1
      /\ members' = members /\ gone' = gone /\ Others(c)
  BY AllocStep, Zenon
<1>2. obj'[o].shutdown = obj[o].shutdown
  BY AllocStep, Zenon
<1>3. obj[o].state = "none" /\ ~obj[o].shutdown /\ ~Contains(members, o)
  BY <1>1 DEF IInv, ObjectExact, FlagsExact
<1>4. Releasing(o) = {}
  BY <1>3, Referenced
<1>5. /\ pc'[c] \in Allocating /\ arg'[c] = o
      /\ pc'[c] = IF o \in Timers THEN "a_timer" ELSE IF o \in Simples THEN "a_submit" ELSE "a_group"
  BY CallMoves DEF Moved
<1>6. \A d \in Clients : pc[d] \in Allocating \cup {"unref"} => arg[d] # o
  BY <1>1 DEF IInv, ClientExact
<1>7. \A d \in Clients \ {c} : pc'[d] \in Allocating \cup {"unref"} => arg'[d] # o
  BY <1>1, <1>6, Kinds, Stays DEF Allocating
<1>8. Releasing(o)' = {}
  BY <1>1, <1>4 DEF Releasing
<1>9. pc'[c] = "a_submit" => o \in Simples /\ obj'[o].ref = 1 /\ ~obj'[o].shutdown
  BY <1>1, <1>2, <1>3, <1>5
<1>10. pc'[c] = "a_timer" => o \in Timers
  BY <1>5
<1> QED BY <1>1, <1>3, <1>5, <1>7, <1>8, <1>9, <1>10 DEF ClientExact, Allocating, Using

LEMMA OwnAllocGroup ==
  ASSUME IInv, NEW c \in Clients, AllocGroup(c)
  PROVE  ClientExact(c)'
<1>1. PICK o : o = arg[c]
  OBVIOUS
<1>2. /\ o \in Objects /\ pc[c] = "a_group" /\ Others(c)
  BY <1>1, AllocGroupStep, Zenon
<1>3. /\ handle'[o] = (IF o \in Simples THEN "alloc" ELSE "live")
      /\ pc'[c] = (IF o \in Simples THEN "unref" ELSE "idle") /\ (o \in Simples => arg'[c] = o)
  BY <1>1, AllocGroupStep
<1>4. CASE o \notin Simples
  BY <1>3, <1>4, Elsewhere
<1>5. CASE o \in Simples
  <2>1. o \notin Timers /\ timerq' = timerq
    BY <1>5, ThreadPoolAssumption DEF AllocGroup
  <2>2. o \notin timerq'.pending
    BY <2>1, Fields DEF IInv
  <2>3. pc[TimerThread] = "t_submit" => arg[TimerThread] \in Timers
    BY DEF IInv, TimersExact
  <2>4. pc'[TimerThread] = "t_submit" => arg'[TimerThread] # o
    BY <1>2, <2>1, <2>3, Kinds DEF Others
  <2>5. \A d \in Clients \ {c} : pc[d] \in Using \cup {"unref"} => arg[d] # o
    BY <1>1, <1>2, Unshared DEF Allocating
  <2>6. \A d \in Clients \ {c} : pc'[d] \in Using \cup {"unref"} => arg'[d] # o
    BY <1>2, <2>5, Kinds, Stays DEF Using
  <2> QED BY <1>2, <1>3, <1>5, <2>2, <2>4, <2>6 DEF ClientExact, Allocating, Using
<1> QED BY <1>4, <1>5

LEMMA OwnMemberEach ==
  ASSUME IInv, NEW c \in Clients, MemberEach(c)
  PROVE  ClientExact(c)'
<1>1. PICK o : o = Head(members)
  OBVIOUS
<1>2. o \in Objects /\ (Dying(o) => pc'[c] = "m_each")
  BY <1>1, MemberEachStep, Zenon
<1>3. ~Dying(o) =>
        /\ gone' = [gone EXCEPT ![c] = Append(@, o)]
        /\ arg'[c] = o /\ pc'[c] = (IF o \in Timers THEN "m_timer" ELSE "m_each")
  BY <1>1, MemberEachStep
<1>4. CASE Dying(o) \/ o \notin Timers
  BY <1>2, <1>3, <1>4, Elsewhere
<1>5. CASE ~Dying(o) /\ o \in Timers
  <2>1. gone \in [Clients -> Seq(Objects)] /\ gone[c] \in Seq(Objects)
    BY DEF IInv, TypeOK
  <2>2. gone'[c] = Append(gone[c], o) /\ arg'[c] = o /\ pc'[c] = "m_timer"
    BY <1>3, <1>5, <2>1
  <2>3. Contains(Append(gone[c], o), o)
    BY <1>2, <2>1, Appended
  <2> QED BY <1>5, <2>2, <2>3 DEF ClientExact, Allocating, Using
<1> QED BY <1>4, <1>5

LEMMA OwnCancels ==
  ASSUME IInv, NEW c \in Clients, NEW o, Cancels(c, o)
  PROVE  ClientExact(c)'
<1>1. o \in Objects /\ handle' = handle /\ gone' = gone
  BY CancelStep, Zenon
<1>2. \/ pc'[c] = "w_check" /\ arg'[c] = o /\ handle[o] = "live"
      \/ pc'[c] \in {"m_wait", "m_cancel"} /\ Contains(gone[c], arg'[c])
  BY CancelStep, Zenon
<1> QED BY <1>1, <1>2 DEF ClientExact, Allocating, Using

LEMMA ClientStep ==
  ASSUME IInv, Next, NEW c \in Clients
  PROVE  ClientExact(c)'
<1>0. Clients \subseteq Threads /\ Workers \subseteq Threads /\ Clients \cap Workers = {}
  BY Kinds
<1>1. ASSUME NEW t \in Threads, Others(t), Guarantee(t), t = c => ClientExact(c)' PROVE ClientExact(c)'
  BY <1>1, Interference
<1>2. ASSUME NEW t \in Threads, Quiet(t) PROVE ClientExact(c)'
  BY <1>1, <1>2, QuietMoves, GuaranteeQuiet, OwnQuiet, Zenon
<1>3. ASSUME NEW t \in Threads, NEW o, Submits(t, o) PROVE ClientExact(c)'
  <2>1. Others(t) /\ handle' = handle /\ members' = members /\ gone' = gone
    BY <1>3, SubmitsMoves, SubmitUse, Zenon
  <2>2. ASSUME t = c PROVE ClientExact(c)'
    <3>1. CASE TpPostWork(c, o)
      <4>1. o \in Objects
        BY <1>3, SubmitUse, Zenon
      <4>2. pc'[c] = "idle"
        BY <3>1, <4>1, CallMoves, Zenon DEF Moved
      <4> QED BY <4>2, Elsewhere
    <3>2. CASE AllocSubmit(c)
      <4>1. pc[c] \in Allocating /\ pc'[c] = "a_group" /\ arg'[c] = arg[c]
        BY <3>2, ObjectMoves DEF Moved, Allocating
      <4> QED BY <2>1, <2>2, <4>1, AllocationGoesOn
    <3>3. CASE SetTimerSubmit(c)
      <4>1. pc'[c] = "idle"
        BY <3>3, ObjectMoves DEF Moved
      <4> QED BY <4>1, Elsewhere
    <3> QED BY <1>3, <2>2, <3>1, <3>2, <3>3, Kinds DEF Submits
  <2> QED BY <1>1, <1>3, <2>1, <2>2, GuaranteeSubmits, Zenon
<1>4. ASSUME NEW t \in Threads, Destroy(t) PROVE ClientExact(c)'
  <2>1. Others(t) /\ pc'[t] = "destroy2"
    BY <1>4, DestroyStep, Zenon
  <2> QED BY <1>1, <1>4, <2>1, GuaranteeDestroy, Elsewhere
<1>5. ASSUME NEW t \in Threads, Destroy2(t) PROVE ClientExact(c)'
  <2>1. Others(t) /\ (t \in Clients => pc'[t] \in {"m_wait", "idle"})
    BY <1>5, Destroy2Step
  <2> QED BY <1>1, <1>5, <2>1, GuaranteeDestroy2, Elsewhere
<1>6. ASSUME NEW d \in Clients, NEW o, Cancels(d, o) PROVE ClientExact(c)'
  <2>1. d \in Threads /\ Others(d) /\ Guarantee(d) /\ ClientExact(d)'
    BY <1>0, <1>6, CancelStep, GuaranteeCancels, OwnCancels, Zenon
  <2> QED BY <1>1, <2>1
<1>7. ASSUME NEW d \in Clients, NEW o \in Objects, Alloc(d, o) PROVE ClientExact(c)'
  <2>1. d \in Threads /\ Others(d) /\ Guarantee(d) /\ ClientExact(d)'
    BY <1>0, <1>7, AllocStep, GuaranteeAlloc, OwnAlloc, Zenon
  <2> QED BY <1>1, <2>1
<1>8. ASSUME NEW d \in Clients, TpReleaseCleanupGroupMembers(d) PROVE ClientExact(c)'
  <2>1. d \in Threads /\ Others(d) /\ Guarantee(d) /\ pc'[d] = "m_each"
    BY <1>0, <1>8, ReleaseMembersStep, GuaranteeReleaseMembers, Zenon
  <2> QED BY <1>1, <2>1, Elsewhere
<1>9. ASSUME NEW d \in Clients, AllocTimerFails(d) PROVE ClientExact(c)'
  <2>1. d \in Threads /\ Others(d) /\ Guarantee(d) /\ pc'[d] = "destroy2"
    BY <1>0, <1>9, AllocFailsStep, GuaranteeAllocFails
  <2> QED BY <1>1, <2>1, Elsewhere
<1>10. ASSUME NEW d \in Clients, AllocGroup(d) PROVE ClientExact(c)'
  <2>1. d \in Threads /\ Others(d) /\ Guarantee(d) /\ ClientExact(d)'
    BY <1>0, <1>10, AllocGroupStep, GuaranteeAllocGroup, OwnAllocGroup, Zenon
  <2> QED BY <1>1, <2>1
<1>11. ASSUME NEW d \in Clients, Unref(d) PROVE ClientExact(c)'
  <2>1. d \in Threads /\ Others(d) /\ Guarantee(d)
    BY <1>0, <1>11, UnrefStep, GuaranteeUnref, Zenon
  <2>2. pc'[d] \in {"idle", "destroy"}
    BY <1>11, UnrefStep
  <2> QED BY <1>1, <2>1, <2>2, Elsewhere
<1>12. ASSUME NEW d \in Clients, MemberEach(d) PROVE ClientExact(c)'
  <2>1. d \in Threads /\ Others(d) /\ Guarantee(d) /\ ClientExact(d)'
    BY <1>0, <1>12, MemberEachStep, GuaranteeMemberEach, OwnMemberEach, Zenon
  <2> QED BY <1>1, <2>1
<1>13. ASSUME NEW d \in Clients, MemberRelease(d) PROVE ClientExact(c)'
  <2>1. d \in Threads /\ Others(d) /\ Guarantee(d)
    BY <1>0, <1>13, MemberReleaseStep, GuaranteeMemberRelease, Zenon
  <2>2. pc'[d] \in {"m_wait", "destroy"}
    BY <1>13, MemberReleaseStep
  <2> QED BY <1>1, <2>1, <2>2, Elsewhere
<1>14. ASSUME NEW w \in Workers, WorkerTake(w) \/ CallbackReturns(w) \/ TpDisassociateCallback(w) PROVE ClientExact(c)'
  <2>1. w \in Threads /\ w # c /\ Guarantee(w)
    BY <1>0, <1>14, GuaranteeCallbacks
  <2>2. Others(w)
    BY <1>14, TakeStep, ReturnStep, DisassociateStep, Zenon
  <2> QED BY <1>1, <2>1, <2>2
<1>15. ASSUME NEW w \in Workers, CallbackReleases(w) PROVE ClientExact(c)'
  BY <1>0, <1>1, <1>15, GuaranteeReleases
<1> QED BY <1>2, <1>3, <1>4, <1>5, <1>6, <1>7, <1>8, <1>9, <1>10, <1>11, <1>12, <1>13, <1>14, <1>15, Cases, Zenon

----------------------------------------
(* Who destroys an object *)

\* Another thread that destroys an object: t does not begin to destroy one
\* that has no reference already.
LEMMA DestroyerStays ==
  ASSUME IInv, NEW t \in Threads, Others(t), Guarantee(t), NEW u \in Threads \ {t},
         pc'[t] \in Destroying => (pc[t] \in Destroying /\ arg'[t] = arg[t]) \/ obj[arg'[t]].ref # 0
  PROVE  DestroyerExact(u)'
<1>1. SUFFICES ASSUME pc'[u] \in Destroying
               PROVE  DestroyerExact(u)'
  BY DEF DestroyerExact
<1>2. pc[u] = pc'[u] /\ arg'[u] = arg[u]
  BY <1>1 DEF Others, Destroying
<1>3. PICK o : o = arg[u]
  OBVIOUS
<1>4. /\ o \in Objects /\ obj[o].ref = 0 /\ obj[o].state = "alive"
      /\ (pc[u] = "destroy" => obj[o].shutdown) /\ (pc[u] = "destroy2" => ~Contains(members, o))
      /\ \A v \in Threads \ {u} : pc[v] \in Destroying => arg[v] # o
  BY <1>1, <1>2, <1>3 DEF IInv, DestroyerExact
<1>5. SameObject(o)
  BY <1>4 DEF Guarantee, ObjectsKept, Destroying
<1>6. ~(t \in Clients /\ pc[t] = "a_group" /\ arg[t] = o)
  <2>1. t \in Clients /\ pc[t] = "a_group" => handle[arg[t]] = "alloc"
    BY DEF IInv, ClientExact, Allocating
  <2> QED BY <1>4, <2>1, Referenced DEF InUse
<1>7. Contains(members', o) => Contains(members, o)
  BY <1>4, <1>6 DEF Guarantee, ListsKept
<1>8. ASSUME NEW v \in Threads \ {u}, pc'[v] \in Destroying PROVE arg'[v] # o
  <2>1. CASE v = t
    BY <1>4, <1>8, <2>1
  <2>2. CASE v # t
    <3>1. pc'[v] = pc[v] /\ arg'[v] = arg[v]
      BY <1>8, <2>2 DEF Others, Destroying
    <3> QED BY <1>4, <1>8, <3>1
  <2> QED BY <2>1, <2>2
<1> QED BY <1>2, <1>3, <1>4, <1>5, <1>7, <1>8 DEF DestroyerExact, SameObject

\* The thread that drops the last reference.
LEMMA NewDestroyer ==
  ASSUME IInv, NEW t \in Threads, Others(t), NEW o \in Objects, pc'[t] \in Destroying => arg'[t] = o,
         obj[o].ref # 0, pc'[t] \in Destroying => obj'[o].ref = 0 /\ obj'[o].state = "alive",
         pc'[t] = "destroy" => obj'[o].shutdown, pc'[t] = "destroy2" => ~Contains(members', o)
  PROVE  DestroyerExact(t)'
<1>1. \A v \in Threads : pc[v] \in Destroying => obj[arg[v]].ref = 0
  BY DEF IInv, DestroyerExact
<1>2. \A v \in Threads \ {t} : pc'[v] \in Destroying => arg'[v] # o
  BY <1>1 DEF Others, Destroying
<1> QED BY <1>2 DEF DestroyerExact

\* One thread may begin to destroy an object, the others stay.
LEMMA OneDestroyer ==
  ASSUME IInv, NEW t \in Threads, Others(t), Guarantee(t), DestroyerExact(t)',
         pc'[t] \in Destroying => (pc[t] \in Destroying /\ arg'[t] = arg[t]) \/ obj[arg'[t]].ref # 0
  PROVE  \A u \in Threads : DestroyerExact(u)'
BY DestroyerStays

LEMMA QuietPlaces ==
  ASSUME IInv, NEW t \in Threads, Quiet(t)
  PROVE  pc'[t] \notin Destroying
<1>1. CASE t \in Clients /\ QuietCall(t)
  <2>1. (\E n \in Limits : TpSetPoolMaxThreads(t, n) \/ TpSetPoolMinThreads(t, n)) \/ TpReleasePool(t)
           \/ TpReleaseCleanupGroup(t) \/ MembersReleased(t) => pc'[t] = "idle"
    BY <1>1, CallMoves, MemberMoves, Zenon DEF Moved
  <2>2. \A o \in Objects : TpRelease(t, o) => pc'[t] = "unref"
    BY <1>1, CallMoves, Zenon DEF Moved
  <2>3. \A o \in Objects, later, now, period \in BOOLEAN :
          TpSetTimer(t, o, later, now, period) => pc'[t] \in {"s_submit", "idle"}
    BY <1>1, CallMoves DEF Moved
  <2>4. \A o \in Objects : TpWaitFor(t, o, FALSE) => pc'[t] = "w_check"
    BY <1>1, CallMoves, Zenon DEF Moved
  <2>5. (AllocTimer(t) => pc'[t] = "a_group") /\ (ObjectWait(t) => pc'[t] \in {"idle", "w_sleep"})
    BY <1>1, ObjectMoves DEF Moved
  <2>6. /\ MemberTimer(t) => pc'[t] = "m_each"
        /\ MembersMoved(t) => pc'[t] \in {"m_wait", "m_cancel"}
        /\ MemberWait(t) => pc'[t] \in {"m_release", "m_sleep"}
    BY <1>1, MemberMoves DEF Moved
  <2>7. pc'[t] \in {"idle", "unref", "s_submit", "w_check", "a_group", "w_sleep", "m_each", "m_wait", "m_cancel", "m_release", "m_sleep"}
    BY <1>1, <2>1, <2>2, <2>3, <2>4, <2>5, <2>6 DEF QuietCall
  <2> QED BY <2>7 DEF Destroying
<1>2. CASE t \in Workers /\ QuietWork(t)
  <2>1. pc'[t] \in {"leave", "to_sleep", "sleep", "timeout", "locked", "none", "callback"}
    BY <1>2, WorkerMoves, CallbackMoves DEF QuietWork, Moved, NoItem
  <2> QED BY <2>1 DEF Destroying
<1>3. CASE t = TimerThread /\ QuietTimer
  <2>1. pc'[t] \in {"none", "t_submit"}
    BY <1>3, QuietMoves DEF PlacesOK
  <2> QED BY <2>1 DEF Destroying
<1> QED BY <1>1, <1>2, <1>3 DEF Quiet

LEMMA SubmitsPlaces ==
  ASSUME IInv, NEW t \in Threads, NEW o, Submits(t, o)
  PROVE  pc'[t] \notin Destroying
<1>1. CASE t \in Clients /\ TpPostWork(t, o)
  <2>1. o \in Objects
    BY SubmitUse, Zenon
  <2>2. pc'[t] = "idle"
    BY <1>1, <2>1, CallMoves, Zenon DEF Moved
  <2> QED BY <2>2 DEF Destroying
<1>2. CASE t \in Clients /\ (AllocSubmit(t) \/ SetTimerSubmit(t))
  <2>1. pc'[t] \in {"a_group", "idle"}
    BY <1>2, ObjectMoves DEF Moved
  <2> QED BY <2>1 DEF Destroying
<1>3. CASE t \in Workers /\ CallbackPosts(t)
  <2>1. pc'[t] = "callback"
    BY <1>3, CallbackMoves DEF Moved
  <2> QED BY <2>1 DEF Destroying
<1>4. CASE t = TimerThread /\ TimerSubmit
  <2>1. pc'[t] = "none"
    BY <1>4, TimerMoves DEF Moved
  <2> QED BY <2>1 DEF Destroying
<1> QED BY <1>1, <1>2, <1>3, <1>4 DEF Submits

\* The last reference of a simple callback goes after it was shut down: it has
\* been submitted, and its callback has run or was cancelled with the group.
LEMMA LastSimple ==
  ASSUME IInv, NEW c \in Clients, pc[c] = "unref", NEW o \in Simples, o = arg[c], obj[o].ref = 1
  PROVE  obj[o].shutdown
<1>0. o \in Objects
  BY DEF Objects
<1>1. handle[o] = "alloc"
  BY DEF IInv, ClientExact
<1>2. obj[o].state = "alive" /\ obj[o].pending = 0 /\ Running(o) = {} /\ Releasing(o) = {}
  BY <1>0, <1>1, Referenced DEF InUse
<1>3. ~\E d \in Clients : pc[d] = "a_submit" /\ arg[d] = o
  BY NewSimple
<1> QED BY <1>0, <1>2, <1>3 DEF IInv, ObjectExact, SimpleExact

LEMMA DestroyerStep ==
  ASSUME IInv, Next, NEW u \in Threads
  PROVE  DestroyerExact(u)'
<1>0. Clients \subseteq Threads /\ Workers \subseteq Threads /\ TypeOK /\ QueuesExact
  BY Kinds DEF IInv
<1>1. ASSUME NEW t \in Threads, Others(t), Guarantee(t), pc'[t] \notin Destroying PROVE DestroyerExact(u)'
  <2>1. DestroyerExact(t)'
    BY <1>1 DEF DestroyerExact
  <2> QED BY <1>1, <2>1, OneDestroyer
<1>2. ASSUME NEW t \in Threads, Quiet(t) PROVE DestroyerExact(u)'
  BY <1>1, <1>2, QuietMoves, GuaranteeQuiet, QuietPlaces, Zenon
<1>3. ASSUME NEW t \in Threads, NEW o, Submits(t, o) PROVE DestroyerExact(u)'
  BY <1>1, <1>3, SubmitsMoves, GuaranteeSubmits, SubmitsPlaces, Zenon
<1>4. ASSUME NEW t \in Threads, Destroy(t) PROVE DestroyerExact(u)'
  <2>1. PICK o : o = arg[t]
    OBVIOUS
  <2>2. /\ o \in Objects /\ obj' = obj /\ Others(t) /\ pc[t] = "destroy" /\ pc'[t] = "destroy2" /\ arg'[t] = o
        /\ \A x : Contains(members', x) <=> Contains(members, x) /\ x # o
    BY <1>4, <2>1, DestroyStep, Zenon
  <2>3. /\ obj[o].ref = 0 /\ obj[o].state = "alive"
        /\ \A v \in Threads \ {t} : pc[v] \in Destroying => arg[v] # o
    BY <2>1, <2>2 DEF IInv, DestroyerExact, Destroying
  <2>4. \A v \in Threads \ {t} : pc'[v] \in Destroying => arg'[v] # o
    BY <2>2, <2>3 DEF Others, Destroying
  <2>5. DestroyerExact(t)'
    BY <2>2, <2>3, <2>4 DEF DestroyerExact
  <2> QED BY <1>4, <2>1, <2>2, <2>5, GuaranteeDestroy, OneDestroyer DEF Destroying
<1>5. ASSUME NEW t \in Threads, Destroy2(t) PROVE DestroyerExact(u)'
  <2>1. Others(t) /\ pc'[t] \in {"locked", "m_wait", "idle"}
    BY <1>5, Destroy2Step, Zenon
  <2>2. pc'[t] \notin Destroying
    BY <2>1 DEF Destroying
  <2> QED BY <1>1, <1>5, <2>1, <2>2, GuaranteeDestroy2, Zenon
<1>6. ASSUME NEW d \in Clients, NEW o, Cancels(d, o) PROVE DestroyerExact(u)'
  <2>1. Others(d) /\ Guarantee(d) /\ d \in Threads
    BY <1>0, <1>6, CancelStep, GuaranteeCancels, Zenon
  <2>2. pc'[d] = "w_check" \/ pc'[d] \in {"m_wait", "m_cancel"}
    BY <1>6, CancelStep, Zenon
  <2>3. pc'[d] \notin Destroying
    BY <2>2 DEF Destroying
  <2> QED BY <1>1, <2>1, <2>3, Zenon
<1>7. ASSUME NEW d \in Clients, NEW o \in Objects, Alloc(d, o) PROVE DestroyerExact(u)'
  <2>1. Others(d) /\ Guarantee(d) /\ d \in Threads
    BY <1>0, <1>7, AllocStep, GuaranteeAlloc, Zenon
  <2>2. pc'[d] \in Allocating
    BY <1>7, CallMoves DEF Moved
  <2>3. pc'[d] \notin Destroying
    BY <2>2 DEF Destroying, Allocating
  <2> QED BY <1>1, <2>1, <2>3, Zenon
<1>8. ASSUME NEW d \in Clients, TpReleaseCleanupGroupMembers(d) PROVE DestroyerExact(u)'
  <2>1. Others(d) /\ Guarantee(d) /\ d \in Threads /\ pc'[d] = "m_each"
    BY <1>0, <1>8, ReleaseMembersStep, GuaranteeReleaseMembers, Zenon
  <2>2. pc'[d] \notin Destroying
    BY <2>1 DEF Destroying
  <2> QED BY <1>1, <2>1, <2>2, Zenon
<1>9. ASSUME NEW d \in Clients, AllocTimerFails(d) PROVE DestroyerExact(u)'
  <2>1. PICK o : o = arg[d]
    OBVIOUS
  <2>2. /\ o \in Objects /\ handle[o] = "alloc" /\ obj'[o].ref = 0 /\ members' = members /\ Others(d)
        /\ pc[d] = "a_timer" /\ pc'[d] = "destroy2" /\ arg'[d] = o
    BY <1>9, <2>1, AllocFailsStep
  <2>3. obj'[o].state = obj[o].state
    BY <1>9, <2>1, AllocFailsStep
  <2>4. obj[o].ref >= 1 /\ obj[o].state = "alive"
    BY <2>2, Referenced DEF InUse
  <2>5. ~Contains(members', o)
    BY <2>1, <2>2 DEF IInv, ClientExact, Allocating
  <2>6. DestroyerExact(d)'
    BY <1>0, <2>2, <2>3, <2>4, <2>5, NewDestroyer DEF Destroying
  <2> QED BY <1>0, <1>9, <2>2, <2>4, <2>6, GuaranteeAllocFails, OneDestroyer
<1>10. ASSUME NEW d \in Clients, AllocGroup(d) PROVE DestroyerExact(u)'
  <2>1. Others(d) /\ Guarantee(d) /\ d \in Threads
    BY <1>0, <1>10, AllocGroupStep, GuaranteeAllocGroup, Zenon
  <2>2. pc'[d] \in {"unref", "idle"}
    BY <1>10, AllocGroupStep
  <2>3. pc'[d] \notin Destroying
    BY <2>2 DEF Destroying
  <2> QED BY <1>1, <2>1, <2>3, Zenon
<1>11. ASSUME NEW d \in Clients, Unref(d) PROVE DestroyerExact(u)'
  <2>1. PICK o : o = arg[d]
    OBVIOUS
  <2>2. /\ o \in Objects /\ handle[o] \in {"alloc", "live"} /\ obj'[o].ref = obj[o].ref - 1 /\ Others(d) /\ pc[d] = "unref"
        /\ obj'[o].state = obj[o].state
    BY <1>11, <2>1, UnrefStep, ZenonT(60)
  <2>3. /\ pc'[d] = (IF obj[o].ref = 1 THEN "destroy" ELSE "idle") /\ (obj[o].ref = 1 => arg'[d] = o)
        /\ obj'[o].shutdown <=> obj[o].shutdown \/ o \notin Simples
    BY <1>11, <2>1, UnrefStep
  <2>4. obj[o].ref >= 1 /\ obj[o].state = "alive" /\ obj[o].ref \in Int
    BY <1>0, <2>2, Referenced, Fields DEF InUse
  <2>5. pc'[d] = "destroy" => obj'[o].shutdown
    BY <2>1, <2>2, <2>3, LastSimple
  <2>6. pc'[d] # "destroy2" /\ (pc'[d] \in Destroying => obj[o].ref = 1 /\ arg'[d] = o /\ obj'[o].ref = 0)
    BY <2>2, <2>3 DEF Destroying
  <2>7. DestroyerExact(d)'
    BY <1>0, <2>2, <2>4, <2>5, <2>6, NewDestroyer
  <2> QED BY <1>0, <1>11, <2>2, <2>4, <2>6, <2>7, GuaranteeUnref, OneDestroyer
<1>12. ASSUME NEW d \in Clients, MemberEach(d) PROVE DestroyerExact(u)'
  <2>1. Others(d) /\ Guarantee(d) /\ d \in Threads
    BY <1>0, <1>12, MemberEachStep, GuaranteeMemberEach, Zenon
  <2>2. pc'[d] \in {"m_timer", "m_each"}
    BY <1>12, MemberMoves DEF Moved
  <2>3. pc'[d] \notin Destroying
    BY <2>2 DEF Destroying
  <2> QED BY <1>1, <2>1, <2>3, Zenon
<1>13. ASSUME NEW d \in Clients, MemberRelease(d) PROVE DestroyerExact(u)'
  <2>1. PICK o : o = arg[d]
    OBVIOUS
  <2>2. /\ o \in Objects /\ Contains(gone[d], o) /\ obj'[o].ref = obj[o].ref - Drop(o) /\ Others(d)
        /\ obj'[o].shutdown
    BY <1>13, <2>1, MemberReleaseStep
  <2>3. /\ pc'[d] = (IF obj[o].ref = Drop(o) THEN "destroy" ELSE "m_wait") /\ arg'[d] = o
        /\ obj'[o].state = obj[o].state
    BY <1>13, <2>1, MemberReleaseStep
  <2>4. obj[o].ref >= 1 /\ obj[o].state = "alive" /\ obj[o].ref \in Int
    BY <1>0, <2>2, Referenced, Fields DEF Releasing
  <2>5. pc'[d] # "destroy2" /\ (pc'[d] \in Destroying => obj'[o].ref = 0)
    BY <2>2, <2>3, <2>4 DEF Destroying
  <2>6. DestroyerExact(d)'
    BY <1>0, <2>2, <2>3, <2>4, <2>5, NewDestroyer
  <2> QED BY <1>0, <1>13, <2>2, <2>3, <2>4, <2>6, GuaranteeMemberRelease, OneDestroyer
<1>14. ASSUME NEW w \in Workers, WorkerTake(w) \/ TpDisassociateCallback(w) PROVE DestroyerExact(u)'
  <2>1. Others(w) /\ Guarantee(w) /\ w \in Threads /\ pc'[w] = "callback"
    BY <1>0, <1>14, TakeStep, DisassociateStep, GuaranteeCallbacks, Zenon
  <2>2. pc'[w] \notin Destroying
    BY <2>1 DEF Destroying
  <2> QED BY <1>1, <2>1, <2>2, Zenon
<1>15. ASSUME NEW w \in Workers, CallbackReturns(w) PROVE DestroyerExact(u)'
  <2>1. PICK o : o = arg[w]
    OBVIOUS
  <2>2. o \in Objects /\ Others(w) /\ pc[w] = "callback"
    BY <1>15, <2>1, ReturnStep, Zenon
  <2>3. pc'[w] = (IF obj[o].ref = 1 THEN "destroy" ELSE "locked") /\ (obj[o].ref = 1 => arg'[w] = o)
    BY <1>15, <2>1, ReturnStep
  <2>4. /\ obj'[o].ref = obj[o].ref - 1 /\ obj'[o].state = obj[o].state
        /\ obj'[o].shutdown <=> obj[o].shutdown \/ o \in Simples
    BY <1>0, <1>15, <2>1, <2>2, ReturnObject
  <2>5. Running(o) # {}
    BY <2>1, <2>2 DEF Running
  <2>6. obj[o].ref >= 1 /\ obj[o].state = "alive" /\ obj[o].ref \in Int
    BY <1>0, <2>2, <2>5, Referenced, Fields
  <2>7. obj[o].ref = 1 /\ o \notin Simples => obj[o].shutdown
    <3>1. obj[o].ref = 1 => ~InUse(o)
      BY <2>2, <2>5, Referenced
    <3>2. handle[o] # "none" /\ handle[o] \in {"none", "alloc", "live", "closing", "closed"}
      BY <1>0, <2>2, <2>6, Fields DEF IInv, ObjectExact, FlagsExact
    <3>3. o \notin Simples /\ handle[o] = "closed" /\ obj[o].ref > 0 => obj[o].shutdown
      BY <2>2 DEF IInv, ObjectExact, FlagsExact
    <3>4. obj[o].ref = 1 => handle[o] = "closed" /\ obj[o].ref > 0
      BY <3>1, <3>2 DEF InUse
    <3> QED BY <3>3, <3>4
  <2>8. pc'[w] # "destroy2" /\ (pc'[w] \in Destroying => obj[o].ref = 1 /\ arg'[w] = o /\ obj'[o].ref = 0 /\ obj'[o].shutdown)
    BY <2>3, <2>4, <2>7 DEF Destroying
  <2>9. DestroyerExact(w)'
    BY <1>0, <2>2, <2>4, <2>6, <2>8, NewDestroyer DEF Destroying
  <2>10. Guarantee(w)
    BY <1>15, GuaranteeCallbacks
  <2>11. pc'[w] \in Destroying => obj[arg'[w]].ref # 0
    BY <2>8
  <2> QED BY <1>0, <2>2, <2>9, <2>10, <2>11, OneDestroyer
<1>16. ASSUME NEW w \in Workers, CallbackReleases(w) PROVE DestroyerExact(u)'
  <2>1. Others(w) /\ Guarantee(w) /\ w \in Threads
    BY <1>0, <1>16, GuaranteeReleases
  <2>2. pc'[w] \notin Destroying
    BY <1>16, CallbackReleasesStep DEF Destroying
  <2> QED BY <1>1, <2>1, <2>2, Zenon
<1> QED BY <1>2, <1>3, <1>4, <1>5, <1>6, <1>7, <1>8, <1>9, <1>10, <1>11, <1>12, <1>13, <1>14, <1>15, <1>16, Cases, Zenon

----------------------------------------
(* The timer queue *)

LEMMA TicksOn ==
  ASSUME TypeOK, TimersKept, NEW o \in Timers, Ticks(o)'
  PROVE  Ticks(o) \/ (handle[o] = "live" /\ Undisturbed(o))
BY DEF TimersKept, Ticks

\* A step that takes no object into the group's release.
LEMMA TimersStay ==
  ASSUME IInv, NEW t \in Threads, Others(t), Guarantee(t),
         t \in Clients => pc[t] # "m_timer" /\ \A o \in Objects : Contains(gone'[t], o) => Contains(gone[t], o)
  PROVE  TimersExact'
<1>0. Timers \subseteq Objects /\ Timers \cap Simples = {} /\ TypeOK
  BY ThreadPoolAssumption DEF Objects, IInv
<1>1. ASSUME NEW o \in Timers, Ticks(o)
      PROVE handle[o] \in {"live", "closing"} /\ \A c \in Releasing(o) : pc[c] = "m_timer" /\ arg[c] = o
  BY <1>1 DEF IInv, TimersExact, Ticks
<1>2. pc'[TimerThread] = "t_submit" => arg'[TimerThread] \in Timers
  <2>1. pc[TimerThread] = "t_submit" => arg[TimerThread] \in Timers
    BY DEF IInv, TimersExact
  <2> QED BY <1>0, <2>1, Fields DEF Guarantee, TimersKept
<1>3. ASSUME NEW o \in Timers, Ticks(o)' PROVE handle'[o] \in {"live", "closing"} /\ \A c \in Releasing(o)' : pc'[c] = "m_timer" /\ arg'[c] = o
  <2>0. o \in Objects /\ o \notin Simples
    BY <1>0
  <2>1. Ticks(o) \/ (handle[o] = "live" /\ Undisturbed(o))
    BY <1>0, <1>3, TicksOn DEF Guarantee
  <2>2. handle[o] \in {"live", "closing"}
    BY <1>1, <2>1
  <2>3. \A c \in Releasing(o) : pc[c] = "m_timer" /\ arg[c] = o
    <3>1. handle[o] = "live" => Releasing(o) = {}
      BY <2>0 DEF IInv, GroupExact, MemberExact
    <3> QED BY <1>1, <2>1, <3>1
  <2>4. ~(t \in Clients /\ pc[t] \in Allocating \cup {"unref"} /\ arg[t] = o)
    <3>1. t \in Clients /\ pc[t] \in Allocating => handle[arg[t]] = "alloc"
      BY DEF IInv, ClientExact
    <3>2. t \in Clients /\ pc[t] = "unref" => ~Ticks(arg[t])
      BY DEF IInv, ClientExact, Ticks
    <3>3. t \in Clients /\ pc[t] = "unref" => ~Undisturbed(arg[t])
      BY DEF Undisturbed
    <3> QED BY <2>1, <2>2, <3>1, <3>2, <3>3
  <2>5. ~(t \in Clients /\ Contains(gone[t], o))
    BY <2>3 DEF Releasing
  <2>6. handle'[o] \in {"live", "closing"}
    BY <1>3, <2>0, <2>2, <2>4, <2>5 DEF Guarantee, HandlesKept
  <2>7. ASSUME NEW c \in Releasing(o)' PROVE pc'[c] = "m_timer" /\ arg'[c] = o
    <3>1. c \in Clients /\ Contains(gone'[c], o)
      BY <2>7 DEF Releasing
    <3>2. c # t
      BY <2>0, <2>5, <3>1
    <3>3. gone'[c] = gone[c]
      BY <3>1, <3>2 DEF Guarantee, ListsKept
    <3>4. pc[c] = "m_timer" /\ arg[c] = o
      BY <2>3, <3>1, <3>3 DEF Releasing
    <3> QED BY <3>1, <3>2, <3>4, Stays
  <2> QED BY <2>6, <2>7
<1> QED BY <1>2, <1>3 DEF TimersExact, Ticks

LEMMA TimersMemberTimer ==
  ASSUME IInv, NEW c \in Clients, MemberTimer(c)
  PROVE  TimersExact'
<1>1. /\ pc[c] = "m_timer" /\ pc'[c] = "m_each" /\ Others(c)
  BY MemberMoves DEF Moved
<1>2. TimerqueueUnlock(arg[c]) /\ handle' = handle /\ gone' = gone
  BY DEF MemberTimer, userVars, groupVars
<1>3. timerq'.pending = timerq.pending \ {arg[c]} /\ pc[TimerThread] # "t_submit"
  BY <1>2, Unlocked
<1>4. pc'[TimerThread] # "t_submit"
  BY <1>1, <1>3, Kinds DEF Others
<1>5. ASSUME NEW o \in Timers, o \in timerq'.pending, NEW d \in Releasing(o)' PROVE pc'[d] = "m_timer" /\ arg'[d] = o
  <2>1. pc[d] = "m_timer" /\ arg[d] = o /\ d \in Clients
    BY <1>2, <1>3, <1>5 DEF IInv, TimersExact, Releasing
  <2>2. d # c
    BY <1>3, <1>5, <2>1
  <2> QED BY <1>1, <2>1, <2>2, Stays, Kinds
<1>6. \A o \in Timers : o \in timerq'.pending => handle'[o] \in {"live", "closing"}
  BY <1>2, <1>3 DEF IInv, TimersExact
<1> QED BY <1>4, <1>5, <1>6 DEF TimersExact

LEMMA TimersMemberEach ==
  ASSUME IInv, NEW c \in Clients, MemberEach(c)
  PROVE  TimersExact'
<1>1. PICK o : o = Head(members)
  OBVIOUS
<1>2. o \in Objects /\ Contains(members, o) /\ handle' = handle /\ Others(c) /\ pc[c] = "m_each"
  BY <1>1, MemberEachStep, Zenon
<1>3. Dying(o) => gone' = gone /\ pc'[c] = "m_each"
  BY <1>1, MemberEachStep, Zenon
<1>4. ~Dying(o) => gone' = [gone EXCEPT ![c] = Append(@, o)] /\ arg'[c] = o /\ (o \in Timers => pc'[c] = "m_timer")
  BY <1>1, MemberEachStep
<1>5. timerq' = timerq /\ pc'[TimerThread] = pc[TimerThread] /\ arg'[TimerThread] = arg[TimerThread]
  BY <1>2, Kinds DEF MemberEach, Others
<1>6. ASSUME NEW x \in Timers, Ticks(x) PROVE handle'[x] \in {"live", "closing"} /\ \A d \in Releasing(x)' : pc'[d] = "m_timer" /\ arg'[d] = x
  <2>1. handle[x] \in {"live", "closing"} /\ \A d \in Releasing(x) : pc[d] = "m_timer" /\ arg[d] = x
    BY <1>6 DEF IInv, TimersExact, Ticks
  <2>2. ASSUME NEW d \in Releasing(x)' PROVE pc'[d] = "m_timer" /\ arg'[d] = x
    <3>1. d \in Clients /\ Contains(gone'[d], x)
      BY <2>2 DEF Releasing
    <3>2. CASE Contains(gone[d], x)
      <4>1. pc[d] = "m_timer" /\ arg[d] = x
        BY <2>1, <3>1, <3>2 DEF Releasing
      <4> QED BY <1>2, <3>1, <4>1, Stays, Kinds
    <3>3. CASE ~Contains(gone[d], x)
      <4>1. ~Dying(o)
        BY <1>3, <3>1, <3>3
      <4>2. gone \in [Clients -> Seq(Objects)]
        BY DEF IInv, TypeOK
      <4>3. d = c /\ gone'[c] = Append(gone[c], o)
        BY <1>4, <3>1, <3>3, <4>1, <4>2
      <4>4. x = o
        BY <1>2, <3>1, <3>3, <4>2, <4>3, Appended
      <4> QED BY <1>4, <4>1, <4>3, <4>4
    <3> QED BY <3>2, <3>3
  <2> QED BY <1>2, <2>1, <2>2
<1>7. \A x : Ticks(x)' <=> Ticks(x)
  BY <1>5 DEF Ticks
<1>8. pc'[TimerThread] = "t_submit" => arg'[TimerThread] \in Timers
  BY <1>5 DEF IInv, TimersExact
<1> QED BY <1>6, <1>7, <1>8 DEF TimersExact, Ticks

LEMMA TimersStep ==
  ASSUME IInv, Next
  PROVE  TimersExact'
<1>0. Clients \subseteq Threads /\ Workers \subseteq Threads /\ Clients \cap Workers = {} /\ TypeOK /\ QueuesExact
  BY Kinds DEF IInv
<1>1. ASSUME NEW t \in Threads, Quiet(t) PROVE TimersExact'
  <2>1. CASE t \in Clients /\ MemberTimer(t)
    BY <2>1, TimersMemberTimer
  <2>2. CASE ~(t \in Clients /\ MemberTimer(t))
    <3>1. t \in Clients => pc[t] # "m_timer"
      <4>1. t \in Clients => QuietCall(t)
        BY <1>1, Kinds DEF Quiet
      <4>2. t \in Clients => pc[t] \in {"idle", "a_timer", "w_check", "m_each", "m_wait"}
        BY <2>2, <4>1 DEF QuietCall, TpSetPoolMaxThreads, TpSetPoolMinThreads, TpReleasePool, TpReleaseCleanupGroup,
            TpRelease, TpSetTimer, TpWaitFor, AllocTimer, ObjectWait, MembersMoved, MemberWait, MembersReleased, Goto
      <4> QED BY <4>2
    <3>2. Others(t) /\ Guarantee(t) /\ gone' = gone
      BY <1>1, QuietMoves, GuaranteeQuiet, QuietKept, Zenon DEF Kept
    <3> QED BY <3>1, <3>2, TimersStay
  <2> QED BY <2>1, <2>2
<1>2. ASSUME NEW t \in Threads, NEW o, Submits(t, o) PROVE TimersExact'
  <2>1. Others(t) /\ Guarantee(t) /\ gone' = gone
    BY <1>2, SubmitsMoves, GuaranteeSubmits, SubmitUse, Zenon
  <2>2. t \in Clients => pc[t] \in {"idle", "a_submit", "s_submit"}
    BY <1>2, Kinds DEF Submits, TpPostWork, AllocSubmit, SetTimerSubmit
  <2> QED BY <2>1, <2>2, TimersStay
<1>3. ASSUME NEW t \in Threads, Destroy(t) PROVE TimersExact'
  <2>1. Others(t) /\ Guarantee(t) /\ gone' = gone /\ pc[t] = "destroy"
    BY <1>3, DestroyStep, GuaranteeDestroy, Zenon
  <2> QED BY <2>1, TimersStay
<1>4. ASSUME NEW t \in Threads, Destroy2(t) PROVE TimersExact'
  <2>1. Others(t) /\ Guarantee(t) /\ gone' = gone /\ pc[t] = "destroy2"
    BY <1>4, Destroy2Step, GuaranteeDestroy2, Zenon
  <2> QED BY <2>1, TimersStay
<1>5. ASSUME NEW d \in Clients, NEW o, Cancels(d, o) PROVE TimersExact'
  <2>1. Others(d) /\ Guarantee(d) /\ gone' = gone /\ (pc[d] = "idle" \/ pc[d] = "m_cancel")
    BY <1>5, CancelStep, GuaranteeCancels, Zenon
  <2> QED BY <1>0, <2>1, TimersStay
<1>6. ASSUME NEW d \in Clients, NEW o \in Objects, Alloc(d, o) PROVE TimersExact'
  <2>1. Others(d) /\ Guarantee(d) /\ gone' = gone
    BY <1>6, AllocStep, GuaranteeAlloc, Zenon
  <2>2. pc[d] = "idle"
    BY <1>6 DEF Alloc
  <2> QED BY <1>0, <2>1, <2>2, TimersStay
<1>7. ASSUME NEW d \in Clients, TpReleaseCleanupGroupMembers(d) PROVE TimersExact'
  <2>1. Others(d) /\ Guarantee(d) /\ gone' = gone /\ pc[d] = "idle"
    BY <1>7, ReleaseMembersStep, GuaranteeReleaseMembers, Zenon
  <2> QED BY <1>0, <2>1, TimersStay
<1>8. ASSUME NEW d \in Clients, AllocTimerFails(d) PROVE TimersExact'
  <2>1. Others(d) /\ Guarantee(d) /\ gone' = gone /\ pc[d] = "a_timer"
    BY <1>8, AllocFailsStep, GuaranteeAllocFails
  <2> QED BY <1>0, <2>1, TimersStay
<1>9. ASSUME NEW d \in Clients, AllocGroup(d) PROVE TimersExact'
  <2>1. Others(d) /\ Guarantee(d) /\ gone' = gone /\ pc[d] = "a_group"
    BY <1>9, AllocGroupStep, GuaranteeAllocGroup, Zenon
  <2> QED BY <1>0, <2>1, TimersStay
<1>10. ASSUME NEW d \in Clients, Unref(d) PROVE TimersExact'
  <2>1. Others(d) /\ Guarantee(d) /\ gone' = gone /\ pc[d] = "unref"
    BY <1>10, UnrefStep, GuaranteeUnref, Zenon
  <2> QED BY <1>0, <2>1, TimersStay
<1>11. ASSUME NEW d \in Clients, MemberEach(d) PROVE TimersExact'
  BY <1>11, TimersMemberEach
<1>12. ASSUME NEW d \in Clients, MemberRelease(d) PROVE TimersExact'
  <2>1. Others(d) /\ Guarantee(d) /\ pc[d] = "m_release"
    BY <1>12, MemberReleaseStep, GuaranteeMemberRelease
  <2>2. \A x : Contains(gone'[d], x) => Contains(gone[d], x)
    BY <1>12, MemberReleaseLists, Zenon
  <2> QED BY <1>0, <2>1, <2>2, TimersStay
<1>13. ASSUME NEW w \in Workers, WorkerTake(w) \/ CallbackReturns(w) \/ TpDisassociateCallback(w) PROVE TimersExact'
  <2>1. w \in Threads /\ w \notin Clients /\ Guarantee(w)
    BY <1>0, <1>13, GuaranteeCallbacks
  <2>2. Others(w)
    BY <1>13, TakeStep, ReturnStep, DisassociateStep, Zenon
  <2> QED BY <2>1, <2>2, TimersStay
<1>14. ASSUME NEW w \in Workers, CallbackReleases(w) PROVE TimersExact'
  BY <1>0, <1>14, GuaranteeReleases, TimersStay
<1> QED BY <1>1, <1>2, <1>3, <1>4, <1>5, <1>6, <1>7, <1>8, <1>9, <1>10, <1>11, <1>12, <1>13, <1>14, Cases, Zenon

----------------------------------------
(* Who is inside the critical sections *)

\* A step takes or leaves locks that are free or its own, and has the lock at
\* the places where a thread is inside.
LEMMA LocksStay ==
  ASSUME IInv, NEW t \in Threads, Others(t),
         \A l \in Locks : lock'[l] = lock[l] \/ lock[l] \in {None, t},
         t \in Workers /\ pc'[t] \in {"locked", "to_sleep", "leave", "destroy", "destroy2"} => lock'["pool"] = t,
         t \in Clients /\ pc'[t] \in {"m_each", "m_timer"} => lock'["group"] = t,
         t = TimerThread /\ pc'[t] = "t_submit" => lock'["timers"] = t
  PROVE  LocksHeld'
<1>1. ASSUME NEW w \in Workers, pc'[w] \in {"locked", "to_sleep", "leave", "destroy", "destroy2"} PROVE lock'["pool"] = w
  <2>1. CASE w = t
    BY <1>1, <2>1
  <2>2. CASE w # t
    <3>1. pc[w] = pc'[w]
      BY <1>1, <2>2, Kinds DEF Others
    <3>2. lock["pool"] = w /\ w # None
      BY <1>1, <3>1, Kinds DEF IInv, LocksHeld
    <3> QED BY <2>2, <3>2 DEF Locks
  <2> QED BY <2>1, <2>2
<1>2. ASSUME NEW c \in Clients, pc'[c] \in {"m_each", "m_timer"} PROVE lock'["group"] = c
  <2>1. CASE c = t
    BY <1>2, <2>1
  <2>2. CASE c # t
    <3>1. pc[c] = pc'[c]
      BY <1>2, <2>2, Kinds DEF Others
    <3>2. lock["group"] = c /\ c # None
      BY <1>2, <3>1, Kinds DEF IInv, LocksHeld
    <3> QED BY <2>2, <3>2 DEF Locks
  <2> QED BY <2>1, <2>2
<1>3. ASSUME pc'[TimerThread] = "t_submit" PROVE lock'["timers"] = TimerThread
  <2>1. CASE TimerThread = t
    BY <1>3, <2>1
  <2>2. CASE TimerThread # t
    <3>1. pc[TimerThread] = pc'[TimerThread]
      BY <1>3, <2>2, Kinds DEF Others
    <3>2. lock["timers"] = TimerThread /\ TimerThread # None
      BY <1>3, <3>1, Kinds DEF IInv, LocksHeld
    <3> QED BY <2>2, <3>2 DEF Locks
  <2> QED BY <2>1, <2>2
<1> QED BY <1>1, <1>2, <1>3 DEF LocksHeld

\* One lock changes hands.
LEMMA OneLock ==
  ASSUME TypeOK, NEW l \in Locks, NEW u \in Threads \cup {None}, lock' = [lock EXCEPT ![l] = u]
  PROVE  lock'[l] = u /\ (\A m \in Locks \ {l} : lock'[m] = lock[m]) /\ lock' \in [Locks -> Threads \cup {None}]
BY DEF TypeOK

LEMMA NoLock ==
  ASSUME IInv, NEW t \in Threads, Others(t), lock' = lock,
         t \in Workers /\ pc'[t] \in {"locked", "to_sleep", "leave", "destroy", "destroy2"} =>
              pc[t] \in {"locked", "to_sleep", "leave", "destroy", "destroy2"},
         t \in Clients /\ pc'[t] \in {"m_each", "m_timer"} => pc[t] \in {"m_each", "m_timer"},
         t = TimerThread => pc'[t] # "t_submit"
  PROVE  LocksHeld' /\ lock' \in [Locks -> Threads \cup {None}]
<1>1. t \in Workers /\ pc'[t] \in {"locked", "to_sleep", "leave", "destroy", "destroy2"} => lock'["pool"] = t
  BY DEF IInv, LocksHeld
<1>2. t \in Clients /\ pc'[t] \in {"m_each", "m_timer"} => lock'["group"] = t
  BY DEF IInv, LocksHeld
<1>3. LocksHeld'
  BY <1>1, <1>2, LocksStay
<1> QED BY <1>3 DEF IInv, TypeOK

LEMMA LockQuiet ==
  ASSUME IInv, NEW t \in Threads, Quiet(t)
  PROVE  LocksHeld' /\ lock' \in [Locks -> Threads \cup {None}]
<1>0. Others(t) /\ TypeOK /\ Clients \cap Workers = {} /\ TimerThread \notin Clients \cup Workers
      /\ "pool" \in Locks /\ "group" \in Locks /\ "timers" \in Locks /\ None \in Threads \cup {None} /\ t \in Threads \cup {None}
  BY QuietMoves, Kinds DEF IInv, Locks
<1>1. CASE t \in Clients /\ QuietCall(t)
  <2>1. ASSUME MembersMoved(t) PROVE LocksHeld' /\ lock' \in [Locks -> Threads \cup {None}]
    <3>1. pc[t] = "m_each" /\ pc'[t] \in {"m_wait", "m_cancel"}
      BY <1>1, <2>1, MemberMoves DEF Moved
    <3>2. lock["group"] = t
      BY <1>1, <3>1 DEF IInv, LocksHeld
    <3>3. lock' = [lock EXCEPT !["group"] = None]
      BY <2>1 DEF MembersMoved
    <3>4. (\A m \in Locks \ {"group"} : lock'[m] = lock[m]) /\ lock' \in [Locks -> Threads \cup {None}]
      BY <1>0, <3>3, OneLock
    <3> QED BY <1>0, <1>1, <3>1, <3>2, <3>4, LocksStay
  <2>2. ASSUME ~MembersMoved(t) PROVE LocksHeld' /\ lock' \in [Locks -> Threads \cup {None}]
    <3>1. lock' = lock
      BY <1>1, <2>2, Zenon DEF QuietCall, TpSetPoolMaxThreads, TpSetPoolMinThreads, TpReleasePool, TpReleaseCleanupGroup,
              TpRelease, TpSetTimer, TpWaitFor, AllocTimer, ObjectWait, MemberWait, MembersReleased, MemberTimer
    <3>2. pc'[t] \in {"m_each", "m_timer"} => pc[t] = "m_timer"
      <4>1. (\E n \in Limits : TpSetPoolMaxThreads(t, n) \/ TpSetPoolMinThreads(t, n)) \/ TpReleasePool(t)
               \/ TpReleaseCleanupGroup(t) \/ MembersReleased(t) => pc'[t] = "idle"
        BY <1>1, CallMoves, MemberMoves, Zenon DEF Moved
      <4>2. \A o \in Objects : TpRelease(t, o) => pc'[t] = "unref"
        BY <1>1, CallMoves, Zenon DEF Moved
      <4>3. \A o \in Objects, later, now, period \in BOOLEAN :
              TpSetTimer(t, o, later, now, period) => pc'[t] \in {"s_submit", "idle"}
        BY <1>1, CallMoves DEF Moved
      <4>4. \A o \in Objects : TpWaitFor(t, o, FALSE) => pc'[t] = "w_check"
        BY <1>1, CallMoves, Zenon DEF Moved
      <4>5. (AllocTimer(t) => pc'[t] = "a_group") /\ (ObjectWait(t) => pc'[t] \in {"idle", "w_sleep"})
        BY <1>1, ObjectMoves DEF Moved
      <4>6. /\ MemberTimer(t) => pc[t] = "m_timer"
            /\ MemberWait(t) => pc'[t] \in {"m_release", "m_sleep"}
        BY <1>1, MemberMoves DEF Moved
      <4>7. \/ pc'[t] \in {"idle", "unref", "s_submit", "w_check", "a_group", "w_sleep", "m_release", "m_sleep"}
            \/ pc[t] = "m_timer"
        BY <1>1, <2>2, <4>1, <4>2, <4>3, <4>4, <4>5, <4>6 DEF QuietCall
      <4> QED BY <4>7
    <3> QED BY <1>0, <1>1, <3>1, <3>2, NoLock
  <2> QED BY <2>1, <2>2
<1>2. CASE t \in Workers /\ QuietWork(t)
  <2>0. pc[t] \in {"locked", "to_sleep", "leave"} => lock["pool"] = t
    BY <1>2 DEF IInv, LocksHeld
  <2>1. ASSUME NEW u \in {t, None}, lock' = [lock EXCEPT !["pool"] = u], lock["pool"] \in {t, None}, u = None => pc'[t] \in {"sleep", "none"}
        PROVE  LocksHeld' /\ lock' \in [Locks -> Threads \cup {None}]
    <3>1. lock'["pool"] = u /\ (\A m \in Locks \ {"pool"} : lock'[m] = lock[m]) /\ lock' \in [Locks -> Threads \cup {None}]
      BY <1>0, <2>1, OneLock
    <3> QED BY <1>0, <1>2, <2>1, <3>1, LocksStay
  <2>2. CASE WorkerNoItem(t)
    <3>1. lock' = [lock EXCEPT !["pool"] = t] /\ lock["pool"] \in {t, None}
      BY <2>0, <2>2 DEF WorkerNoItem, AtTop, Free
    <3> QED BY <1>2, <2>1, <3>1, Kinds
  <2>3. CASE WorkerSleep(t)
    <3>1. lock' = [lock EXCEPT !["pool"] = None] /\ lock["pool"] = t /\ pc'[t] = "sleep"
      BY <1>2, <2>0, <2>3, WorkerMoves DEF WorkerSleep, Moved
    <3> QED BY <2>1, <3>1
  <2>4. CASE WorkerTimedOut(t)
    <3>1. lock' = [lock EXCEPT !["pool"] = t] /\ lock["pool"] \in {t, None}
      BY <2>4 DEF WorkerTimedOut, Free
    <3> QED BY <1>2, <2>1, <3>1, Kinds
  <2>5. CASE WorkerLeave(t)
    <3>1. lock' = [lock EXCEPT !["pool"] = None] /\ lock["pool"] = t /\ pc'[t] = "none"
      BY <1>2, <2>0, <2>5, WorkerMoves DEF WorkerLeave, Moved
    <3> QED BY <2>1, <3>1
  <2>6. CASE WorkerTimeout(t) \/ TpCallbackMayRunLong(t)
    <3>1. pc'[t] \in {"timeout", "callback"}
      BY <1>2, <2>6, WorkerMoves, CallbackMoves DEF Moved
    <3>2. lock' = lock
      BY <2>6 DEF WorkerTimeout, TpCallbackMayRunLong
    <3> QED BY <1>0, <1>2, <3>1, <3>2, NoLock
  <2> QED BY <1>2, <2>2, <2>3, <2>4, <2>5, <2>6 DEF QuietWork
<1>3. CASE t = TimerThread /\ QuietTimer
  <2>1. CASE TimerThreadEnds
    <3>1. lock' = lock /\ pc'[t] # "t_submit"
      BY <1>3, <2>1 DEF TimerThreadEnds
    <3> QED BY <1>0, <1>3, <3>1, NoLock
  <2>2. ASSUME NEW o \in Timers, TimerExpires(o) PROVE LocksHeld' /\ lock' \in [Locks -> Threads \cup {None}]
    <3>1. lock' = [lock EXCEPT !["timers"] = t] /\ lock["timers"] = None
      BY <1>3, <2>2 DEF TimerExpires, Free
    <3>2. lock'["timers"] = t /\ (\A m \in Locks \ {"timers"} : lock'[m] = lock[m]) /\ lock' \in [Locks -> Threads \cup {None}]
      BY <1>0, <3>1, OneLock
    <3> QED BY <1>0, <1>3, <3>1, <3>2, LocksStay
  <2> QED BY <1>3, <2>1, <2>2 DEF QuietTimer
<1> QED BY <1>1, <1>2, <1>3 DEF Quiet

LEMMA LockSubmits ==
  ASSUME IInv, NEW t \in Threads, NEW o, Submits(t, o)
  PROVE  LocksHeld' /\ lock' \in [Locks -> Threads \cup {None}]
<1>0. Others(t) /\ TypeOK /\ Clients \cap Workers = {} /\ TimerThread \notin Clients \cup Workers
  BY SubmitsMoves, Kinds DEF IInv
<1>1. CASE t \in Clients
  <2>1. lock' = lock
    BY <1>1, Kinds, Zenon DEF Submits, TpPostWork, AllocSubmit, SetTimerSubmit
  <2>2. pc'[t] \in {"idle", "a_group"}
    <3>1. o \in Objects
      BY SubmitUse, Zenon
    <3>2. TpPostWork(t, o) => pc'[t] = "idle"
      BY <1>1, <3>1, CallMoves, Zenon DEF Moved
    <3>3. AllocSubmit(t) \/ SetTimerSubmit(t) => pc'[t] \in {"idle", "a_group"}
      BY <1>1, ObjectMoves DEF Moved
    <3> QED BY <1>0, <1>1, <3>2, <3>3 DEF Submits
  <2> QED BY <1>0, <1>1, <2>1, <2>2, NoLock
<1>2. CASE t \in Workers
  <2>1. CallbackPosts(t)
    BY <1>0, <1>2, Kinds DEF Submits
  <2>2. lock' = lock /\ pc'[t] = "callback"
    BY <1>2, <2>1, CallbackMoves DEF CallbackPosts, Moved
  <2> QED BY <1>0, <1>2, <2>2, NoLock
<1>3. CASE t = TimerThread
  <2>1. TimerSubmit
    BY <1>0, <1>3 DEF Submits
  <2>2. lock' = [lock EXCEPT !["timers"] = None] /\ pc[t] = "t_submit" /\ pc'[t] = "none"
    BY <1>3, <2>1, TimerMoves DEF TimerSubmit, Moved
  <2>3. lock["timers"] = t
    BY <1>3, <2>2 DEF IInv, LocksHeld
  <2>4. (\A m \in Locks \ {"timers"} : lock'[m] = lock[m]) /\ lock' \in [Locks -> Threads \cup {None}]
    BY <1>0, <2>2, OneLock DEF Locks
  <2> QED BY <1>0, <1>3, <2>2, <2>3, <2>4, LocksStay
<1> QED BY <1>1, <1>2, <1>3, Kinds

LEMMA LockStep ==
  ASSUME IInv, Next
  PROVE  LocksHeld' /\ lock' \in [Locks -> Threads \cup {None}]
<1> DEFINE Goal == LocksHeld' /\ lock' \in [Locks -> Threads \cup {None}]
<1>0. Clients \subseteq Threads /\ Workers \subseteq Threads /\ Clients \cap Workers = {} /\ TimerThread \notin Clients \cup Workers
      /\ TypeOK /\ "pool" \in Locks /\ "group" \in Locks /\ None \notin Threads
  BY Kinds DEF IInv, Locks
<1>1. ASSUME NEW d \in Clients, Others(d), lock' = lock, pc'[d] \in {"m_each", "m_timer"} => pc[d] \in {"m_each", "m_timer"} PROVE Goal
  BY <1>0, <1>1, NoLock
<1>2. ASSUME NEW t \in Threads, Quiet(t) PROVE Goal
  BY <1>2, LockQuiet
<1>3. ASSUME NEW t \in Threads, NEW o, Submits(t, o) PROVE Goal
  BY <1>3, LockSubmits
<1>4. ASSUME NEW t \in Threads, Destroy(t) \/ Destroy2(t) PROVE Goal
  <2>1. Others(t) /\ pc[t] \in {"destroy", "destroy2"}
    BY <1>4, DestroyStep, Destroy2Step
  <2>2. pc'[t] \in {"destroy2", "locked", "m_wait", "idle"}
    BY <1>4, DestroyStep, Destroy2Step
  <2>3. lock' = lock
    BY <1>4, Zenon DEF Destroy, Destroy2
  <2>4. t # TimerThread
    BY <2>1, Parts DEF PlacesOK
  <2> QED BY <1>0, <2>1, <2>2, <2>3, <2>4, NoLock
<1>5. ASSUME NEW d \in Clients, NEW o, Cancels(d, o) PROVE Goal
  <2>1. Others(d) /\ lock' = lock /\ (pc'[d] = "w_check" \/ pc'[d] \in {"m_wait", "m_cancel"})
    BY <1>5, CancelStep, Zenon
  <2> QED BY <1>1, <2>1
<1>6. ASSUME NEW d \in Clients, NEW o \in Objects, Alloc(d, o) PROVE Goal
  <2>1. Others(d)
    BY <1>6, AllocStep, Zenon
  <2>2. pc'[d] \in Allocating /\ lock' = lock
    BY <1>6, CallMoves DEF Moved, Alloc
  <2> QED BY <1>1, <2>1, <2>2 DEF Allocating
<1>7. ASSUME NEW d \in Clients, TpReleaseCleanupGroupMembers(d) PROVE Goal
  <2>1. Others(d) /\ pc'[d] = "m_each"
    BY <1>7, ReleaseMembersStep, Zenon
  <2>2. lock' = [lock EXCEPT !["group"] = d] /\ lock["group"] = None
    BY <1>7 DEF TpReleaseCleanupGroupMembers, Free
  <2>3. lock'["group"] = d /\ (\A m \in Locks \ {"group"} : lock'[m] = lock[m]) /\ lock' \in [Locks -> Threads \cup {None}]
    BY <1>0, <2>2, OneLock
  <2> QED BY <1>0, <2>1, <2>2, <2>3, LocksStay
<1>8. ASSUME NEW d \in Clients, AllocTimerFails(d) \/ AllocGroup(d) \/ Unref(d) \/ MemberRelease(d) PROVE Goal
  <2>1. Others(d)
    BY <1>8, AllocFailsStep, AllocGroupStep, UnrefStep, MemberReleaseStep
  <2>2. lock' = lock
    BY <1>8, Zenon DEF AllocTimerFails, AllocGroup, Unref, MemberRelease
  <2>3. pc'[d] \in {"destroy2", "unref", "idle", "destroy", "m_wait"}
    BY <1>8, AllocFailsStep, AllocGroupStep, UnrefStep, MemberReleaseStep
  <2> QED BY <1>1, <2>1, <2>2, <2>3
<1>9. ASSUME NEW d \in Clients, MemberEach(d) PROVE Goal
  <2>1. Others(d) /\ pc[d] = "m_each" /\ lock' = lock
    BY <1>9, MemberEachStep, Zenon
  <2> QED BY <1>1, <2>1
<1>10. ASSUME NEW w \in Workers, WorkerTake(w) PROVE Goal
  <2>1. Others(w) /\ pc'[w] = "callback"
    BY <1>10, TakeStep, Zenon
  <2>2. pc[w] = "locked" => lock["pool"] = w
    BY DEF IInv, LocksHeld
  <2>3. lock' = [lock EXCEPT !["pool"] = None] /\ lock["pool"] \in {w, None}
    BY <1>10, <2>2 DEF WorkerTake, AtTop, Free
  <2>4. (\A m \in Locks \ {"pool"} : lock'[m] = lock[m]) /\ lock' \in [Locks -> Threads \cup {None}]
    BY <1>0, <2>3, OneLock
  <2> QED BY <1>0, <2>1, <2>3, <2>4, LocksStay
<1>11. ASSUME NEW w \in Workers, CallbackReturns(w) PROVE Goal
  <2>1. Others(w)
    BY <1>11, ReturnStep, Zenon
  <2>2. lock' = [lock EXCEPT !["pool"] = w] /\ lock["pool"] = None
    BY <1>11 DEF CallbackReturns, Free
  <2>3. lock'["pool"] = w /\ (\A m \in Locks \ {"pool"} : lock'[m] = lock[m]) /\ lock' \in [Locks -> Threads \cup {None}]
    BY <1>0, <2>2, OneLock
  <2> QED BY <1>0, <2>1, <2>2, <2>3, LocksStay
<1>12. ASSUME NEW w \in Workers, TpDisassociateCallback(w) PROVE Goal
  <2>1. Others(w) /\ lock' = lock /\ pc'[w] = "callback"
    BY <1>12, DisassociateStep, Zenon
  <2> QED BY <1>0, <2>1, NoLock
<1>13. ASSUME NEW w \in Workers, CallbackReleases(w) PROVE Goal
  <2>1. Others(w) /\ lock' = lock /\ pc' = pc /\ pc[w] = "callback"
    BY <1>13, CallbackReleasesStep, Zenon
  <2> QED BY <1>0, <2>1, NoLock
<1> QED BY <1>2, <1>3, <1>4, <1>5, <1>6, <1>7, <1>8, <1>9, <1>10, <1>11, <1>12, <1>13, Cases, Zenon

----------------------------------------
(* The types *)

\* Where the threads are.
LEMMA PlacesStep ==
  ASSUME IInv, Next
  PROVE  PlacesOK'
<1>1. (\E t \in Threads : Quiet(t)) \/ (\E t \in Threads : \E o : Submits(t, o)) => PlacesOK'
  BY QuietMoves, SubmitsMoves, Zenon
<1>2. (\E t \in Threads : Destroy(t)) \/ (\E t \in Threads : Destroy2(t)) => PlacesOK'
  BY DestroyStep, Destroy2Step, Zenon
<1>3. (\E c \in Clients : \E o : Cancels(c, o)) \/ (\E c \in Clients : \E o \in Objects : Alloc(c, o)) => PlacesOK'
  BY CancelStep, AllocStep, Zenon
<1>4. \A c \in Clients : TpReleaseCleanupGroupMembers(c) \/ AllocTimerFails(c) \/ AllocGroup(c) => PlacesOK'
  BY ReleaseMembersStep, AllocFailsStep, AllocGroupStep, Zenon
<1>5. \A c \in Clients : Unref(c) \/ MemberEach(c) \/ MemberRelease(c) => PlacesOK'
  BY UnrefStep, MemberEachStep, MemberReleaseStep, Zenon
<1>6. \A w \in Workers : WorkerTake(w) \/ CallbackReturns(w) \/ TpDisassociateCallback(w) \/ CallbackReleases(w) => PlacesOK'
  BY TakeStep, ReturnStep, DisassociateStep, CallbackReleasesStep, Zenon
<1> QED BY <1>1, <1>2, <1>3, <1>4, <1>5, <1>6, Cases, Zenon

LEMMA ListsTypedNow ==
  ASSUME TypeOK
  PROVE  /\ obj \in [Objects -> ObjectStruct] /\ queue \in [Priorities -> Seq(Objects)] /\ members \in Seq(Objects)
         /\ gone \in [Clients -> Seq(Objects)] /\ handle \in [Objects -> Handles] /\ inst \in [Workers -> Instances]
BY DEF TypeOK, Handles, Instances

LEMMA ListsTypedQuiet ==
  ASSUME IInv, NEW t \in Threads, Quiet(t)
  PROVE  ListsTyped
<1>0. TypeOK /\ Kept
  BY QuietKept, Zenon DEF IInv
<1>1. obj' \in [Objects -> ObjectStruct]
  <2>1. ASSUME NEW o \in Objects, NEW later \in BOOLEAN, NEW now \in BOOLEAN, NEW period \in BOOLEAN,
               TpSetTimer(t, o, later, now, period)
        PROVE  obj' \in [Objects -> ObjectStruct]
    <3>1. obj' = [obj EXCEPT ![o].period = later /\ period]
      BY <2>1 DEF TpSetTimer
    <3>2. PICK b \in BOOLEAN : b = (later /\ period)
      OBVIOUS
    <3>3. PICK q \in ObjectStruct : q = obj[o]
      BY <1>0, Fields
    <3>4. [q EXCEPT !.period = b] \in ObjectStruct
      BY DEF ObjectStruct
    <3>5. obj' = [obj EXCEPT ![o] = [q EXCEPT !.period = b]]
      BY <3>1, <3>2, <3>3
    <3> QED BY <1>0, <3>4, <3>5, OneObject, Zenon
  <2>2. ASSUME ~\E o \in Objects, later, now, period \in BOOLEAN : TpSetTimer(t, o, later, now, period) PROVE obj' = obj
    <3>1. CASE QuietCall(t)
      BY <2>2, <3>1, Zenon DEF QuietCall, TpSetPoolMaxThreads, TpSetPoolMinThreads, TpReleasePool, TpReleaseCleanupGroup,
              TpRelease, TpWaitFor, AllocTimer, ObjectWait, MembersMoved, MemberWait, MembersReleased, MemberTimer
    <3>2. CASE QuietWork(t)
      BY <3>2, Zenon DEF QuietWork, WorkerNoItem, WorkerSleep, WorkerTimeout, WorkerTimedOut, WorkerLeave, TpCallbackMayRunLong
    <3>3. CASE QuietTimer
      BY <3>3, Zenon DEF QuietTimer, TimerExpires, TimerThreadEnds
    <3> QED BY <3>1, <3>2, <3>3 DEF Quiet
  <2> QED BY <1>0, <2>1, <2>2 DEF TypeOK
<1>2. inst' \in [Workers -> Instances]
  <2>1. inst \in [Workers -> Instances]
    BY <1>0, ListsTypedNow
  <2>2. CASE TpCallbackMayRunLong(t)
    <3>1. inst' = [inst EXCEPT ![t].long = TRUE]
      BY <2>2 DEF TpCallbackMayRunLong
    <3> QED BY <2>1, <3>1 DEF Instances
  <2>3. CASE ~TpCallbackMayRunLong(t)
    <3>1. CASE QuietCall(t)
      BY <2>1, <3>1, Zenon DEF QuietCall, TpSetPoolMaxThreads, TpSetPoolMinThreads, TpReleasePool, TpReleaseCleanupGroup,
              TpRelease, TpSetTimer, TpWaitFor, AllocTimer, ObjectWait, MembersMoved, MemberWait, MembersReleased, MemberTimer
    <3>2. CASE QuietWork(t)
      BY <2>1, <2>3, <3>2, Zenon DEF QuietWork, WorkerNoItem, WorkerSleep, WorkerTimeout, WorkerTimedOut, WorkerLeave
    <3>3. CASE QuietTimer
      BY <2>1, <3>3, Zenon DEF QuietTimer, TimerExpires, TimerThreadEnds
    <3> QED BY <3>1, <3>2, <3>3 DEF Quiet
  <2> QED BY <2>2, <2>3
<1> QED BY <1>0, <1>1, <1>2, ListsTypedNow DEF ListsTyped, Kept

LEMMA ListsStep ==
  ASSUME IInv, Next
  PROVE  ListsTyped
<1>0. /\ TypeOK /\ QueuesExact
      /\ obj \in [Objects -> ObjectStruct] /\ queue \in [Priorities -> Seq(Objects)] /\ members \in Seq(Objects)
      /\ gone \in [Clients -> Seq(Objects)] /\ handle \in [Objects -> Handles] /\ inst \in [Workers -> Instances]
  BY ListsTypedNow DEF IInv
<1>1. ASSUME NEW t \in Threads, Quiet(t) PROVE ListsTyped
  BY <1>1, ListsTypedQuiet
<1>2. ASSUME NEW t \in Threads, NEW o, Submits(t, o) PROVE ListsTyped
  <2>1. o \in Objects /\ handle' = handle /\ members' = members /\ gone' = gone /\ inst' = inst
    BY <1>2, SubmitUse, Zenon
  <2>2. PICK to : Submit(t, o, to)
    BY <1>2, SubmitUse, Zenon
  <2>3. obj' \in [Objects -> ObjectStruct] /\ queue' \in [Priorities -> Seq(Objects)]
    BY <1>0, <2>1, <2>2, SubmitObject, SubmitQueue, Zenon
  <2> QED BY <1>0, <2>1, <2>3 DEF ListsTyped
<1>3. ASSUME NEW t \in Threads, Destroy(t) PROVE ListsTyped
  <2>1. obj' = obj /\ handle' = handle /\ queue' = queue /\ gone' = gone /\ members' \in Seq(Objects)
    BY <1>3, DestroyStep, Zenon
  <2>2. inst' = inst
    BY <1>3 DEF Destroy
  <2> QED BY <1>0, <2>1, <2>2 DEF ListsTyped
<1>4. ASSUME NEW o, Beside(o), members' \in Seq(Objects), gone' \in [Clients -> Seq(Objects)], inst' = inst PROVE ListsTyped
  BY <1>0, <1>4 DEF ListsTyped, Beside, Handles
<1>5. ASSUME NEW t \in Threads, Destroy2(t) PROVE ListsTyped
  <2>1. Beside(arg[t]) /\ members' = members /\ gone' = gone
    BY <1>5, Destroy2Step, Zenon
  <2>2. inst' = inst
    BY <1>5 DEF Destroy2
  <2> QED BY <1>0, <1>4, <2>1, <2>2
<1>6. ASSUME NEW c \in Clients, NEW o, Cancels(c, o) PROVE ListsTyped
  <2>1. o \in Objects /\ Cancel(o) /\ handle' = handle /\ members' = members /\ gone' = gone
    BY <1>6, CancelStep, Zenon
  <2>2. obj' \in [Objects -> ObjectStruct] /\ queue' \in [Priorities -> Seq(Objects)]
    BY <1>0, <2>1, CancelObject, CancelQueue, Zenon
  <2>3. inst' = inst
    BY <1>6 DEF Cancels, TpWaitFor, MemberCancel
  <2> QED BY <1>0, <2>1, <2>2, <2>3 DEF ListsTyped
<1>7. ASSUME NEW c \in Clients, NEW o \in Objects, Alloc(c, o) PROVE ListsTyped
  <2>1. Beside(o) /\ members' = members /\ gone' = gone
    BY <1>7, AllocStep, Zenon
  <2>2. inst' = inst
    BY <1>7 DEF Alloc
  <2> QED BY <1>0, <1>4, <2>1, <2>2
<1>8. ASSUME NEW c \in Clients, TpReleaseCleanupGroupMembers(c) PROVE ListsTyped
  <2>1. obj' = obj /\ queue' = queue /\ members' = members /\ gone' = gone /\ handle' \in [Objects -> Handles]
    BY <1>8, ReleaseMembersStep DEF Handles
  <2>2. inst' = inst
    BY <1>8 DEF TpReleaseCleanupGroupMembers
  <2> QED BY <1>0, <2>1, <2>2 DEF ListsTyped
<1>9. ASSUME NEW c \in Clients, AllocTimerFails(c) PROVE ListsTyped
  <2>1. Beside(arg[c]) /\ members' = members /\ gone' = gone
    BY <1>9, AllocFailsStep, Zenon
  <2>2. inst' = inst
    BY <1>9 DEF AllocTimerFails
  <2> QED BY <1>0, <1>4, <2>1, <2>2
<1>10. ASSUME NEW c \in Clients, AllocGroup(c) PROVE ListsTyped
  <2>1. Beside(arg[c]) /\ members' \in Seq(Objects) /\ gone' = gone
    BY <1>10, AllocGroupStep, Zenon
  <2>2. inst' = inst
    BY <1>10 DEF AllocGroup
  <2> QED BY <1>0, <1>4, <2>1, <2>2
<1>11. ASSUME NEW c \in Clients, Unref(c) PROVE ListsTyped
  <2>1. Beside(arg[c]) /\ members' = members /\ gone' = gone
    BY <1>11, UnrefStep, Zenon
  <2>2. inst' = inst
    BY <1>11 DEF Unref
  <2> QED BY <1>0, <1>4, <2>1, <2>2
<1>12. ASSUME NEW c \in Clients, MemberEach(c) PROVE ListsTyped
  <2>1. PICK o : o = Head(members)
    OBVIOUS
  <2>2. o \in Objects /\ handle' = handle /\ queue' = queue /\ obj' \in [Objects -> ObjectStruct] /\ members' \in Seq(Objects)
    BY <1>12, <2>1, MemberEachStep, Zenon
  <2>6. Dying(o) => gone' = gone
    BY <1>12, <2>1, MemberEachStep, Zenon
  <2>7. ~Dying(o) => gone' = [gone EXCEPT ![c] = Append(@, o)]
    BY <1>12, <2>1, MemberEachStep
  <2>4. gone' \in [Clients -> Seq(Objects)]
    <3>1. CASE Dying(o)
      BY <1>0, <2>6, <3>1
    <3>2. CASE ~Dying(o)
      <4>1. Append(gone[c], o) \in Seq(Objects)
        BY <1>0, <2>2, Appended
      <4>2. gone' = [gone EXCEPT ![c] = Append(gone[c], o)]
        BY <1>0, <2>7, <3>2
      <4> QED BY <1>0, <4>1, <4>2
    <3> QED BY <3>1, <3>2
  <2>5. inst' = inst
    BY <1>12 DEF MemberEach
  <2> QED BY <1>0, <2>2, <2>4, <2>5 DEF ListsTyped
<1>13. ASSUME NEW c \in Clients, MemberRelease(c) PROVE ListsTyped
  <2>1. Beside(arg[c]) /\ members' = members
    BY <1>13, MemberReleaseStep, Zenon
  <2>2. gone' \in [Clients -> Seq(Objects)]
    BY <1>13, MemberReleaseLists, Zenon
  <2>3. inst' = inst
    BY <1>13 DEF MemberRelease
  <2> QED BY <1>0, <1>4, <2>1, <2>2, <2>3
<1>14. ASSUME NEW w \in Workers, WorkerTake(w) PROVE ListsTyped
  <2>1. handle' = handle /\ members' = members /\ gone' = gone /\ inst' \in [Workers -> Instances]
    BY <1>14, TakeStep, Zenon DEF Instances
  <2>2. obj' \in [Objects -> ObjectStruct] /\ queue' \in [Priorities -> Seq(Objects)]
    BY <1>0, <1>14, TakeObject, TakeQueue, Zenon
  <2> QED BY <1>0, <2>1, <2>2 DEF ListsTyped
<1>15. ASSUME NEW w \in Workers, CallbackReturns(w) PROVE ListsTyped
  <2>1. /\ arg[w] \in Objects /\ handle' = handle /\ members' = members /\ gone' = gone /\ queue' = queue
        /\ inst' \in [Workers -> Instances]
    BY <1>15, ReturnStep, Zenon DEF Instances
  <2>2. obj' \in [Objects -> ObjectStruct]
    BY <1>0, <1>15, <2>1, ReturnObject, Zenon
  <2> QED BY <1>0, <2>1, <2>2 DEF ListsTyped
<1>16. ASSUME NEW w \in Workers, TpDisassociateCallback(w) PROVE ListsTyped
  <2>1. /\ arg[w] \in Objects /\ handle' = handle /\ members' = members /\ gone' = gone /\ queue' = queue
        /\ inst' \in [Workers -> Instances]
    BY <1>16, DisassociateStep, Zenon DEF Instances
  <2>2. obj' \in [Objects -> ObjectStruct]
    BY <1>0, <1>16, <2>1, DisassociateObject, Zenon
  <2> QED BY <1>0, <2>1, <2>2 DEF ListsTyped
<1>17. ASSUME NEW w \in Workers, CallbackReleases(w) PROVE ListsTyped
  <2>1. Beside(arg[w]) /\ members' = members /\ gone' = gone /\ inst' = inst
    BY <1>17, CallbackReleasesStep, Zenon
  <2> QED BY <1>0, <1>4, <2>1
<1> QED BY <1>1, <1>2, <1>3, <1>5, <1>6, <1>7, <1>8, <1>9, <1>10, <1>11, <1>12, <1>13, <1>14, <1>15, <1>16, <1>17, Cases, Zenon

LEMMA TimerRecord ==
  ASSUME NEW o \in Timers, timerq \in TimerStruct,
         timerq' = [timerq EXCEPT !.objcount = @ + 1, !.running = TRUE, !.initialized = @ \cup {o}]
  PROVE  /\ timerq' \in TimerStruct /\ timerq'.objcount = timerq.objcount + 1
         /\ timerq'.initialized = timerq.initialized \cup {o}
<1>1. timerq.objcount \in Int /\ timerq.initialized \subseteq Timers
  BY DEF TimerStruct
<1>2. PICK n \in Int : n = timerq.objcount + 1
  BY <1>1
<1>3. PICK s \in SUBSET Timers : s = timerq.initialized \cup {o}
  BY <1>1
<1>4. timerq' = [timerq EXCEPT !.objcount = n, !.running = TRUE, !.initialized = s]
  BY <1>2, <1>3
<1>5. timerq' \in TimerStruct /\ timerq'.objcount = n /\ timerq'.initialized = s
  BY <1>4 DEF TimerStruct
<1> QED BY <1>2, <1>3, <1>5

LEMMA RestQuiet ==
  ASSUME IInv, NEW t \in Threads, Quiet(t)
  PROVE  RestTyped
<1>0. timerq \in TimerStruct /\ group \in GroupStruct /\ posts \in [Objects -> Nat]
  BY DEF IInv, TypeOK, TimerStruct, GroupStruct
<1>1. posts' = posts
  <2>1. CASE QuietCall(t)
    BY <2>1, Zenon DEF QuietCall, TpSetPoolMaxThreads, TpSetPoolMinThreads, TpReleasePool, TpReleaseCleanupGroup, userVars,
            TpRelease, TpSetTimer, TpWaitFor, AllocTimer, ObjectWait, MembersMoved, MemberWait, MembersReleased, MemberTimer
  <2>2. CASE QuietWork(t)
    BY <2>2, Zenon DEF QuietWork, WorkerNoItem, WorkerSleep, WorkerTimeout, WorkerTimedOut, WorkerLeave, TpCallbackMayRunLong, userVars
  <2>3. CASE QuietTimer
    BY <2>3, Zenon DEF QuietTimer, TimerExpires, TimerThreadEnds, userVars
  <2> QED BY <2>1, <2>2, <2>3 DEF Quiet
<1>2. group' \in GroupStruct
  <2>1. CASE TpReleaseCleanupGroup(t)
    <3>1. group' = [ref |-> group.ref - 1, shutdown |-> TRUE]
      BY <2>1 DEF TpReleaseCleanupGroup
    <3> QED BY <1>0, <3>1 DEF GroupStruct
  <2>2. CASE ~TpReleaseCleanupGroup(t)
    <3>1. group' = group
      <4>1. CASE QuietCall(t)
        BY <2>2, <4>1, Zenon DEF QuietCall, TpSetPoolMaxThreads, TpSetPoolMinThreads, TpReleasePool, groupVars,
                TpRelease, TpSetTimer, TpWaitFor, AllocTimer, ObjectWait, MembersMoved, MemberWait, MembersReleased, MemberTimer
      <4>2. CASE QuietWork(t)
        BY <4>2, Zenon DEF QuietWork, WorkerNoItem, WorkerSleep, WorkerTimeout, WorkerTimedOut, WorkerLeave, TpCallbackMayRunLong, groupVars
      <4>3. CASE QuietTimer
        BY <4>3, Zenon DEF QuietTimer, TimerExpires, TimerThreadEnds, groupVars
      <4> QED BY <4>1, <4>2, <4>3 DEF Quiet
    <3> QED BY <1>0, <3>1
  <2> QED BY <2>1, <2>2
<1>3. timerq' \in TimerStruct
  <2>1. CASE QuietCall(t)
    <3>1. ASSUME NEW o \in Objects, TpRelease(t, o) PROVE timerq' \in TimerStruct
      <4>1. timerq' = timerq \/ TimerqueueUnlock(o)
        BY <3>1 DEF TpRelease
      <4> QED BY <1>0, <4>1, Unlocked
    <3>2. ASSUME NEW o \in Objects, NEW later \in BOOLEAN, NEW now \in BOOLEAN, NEW period \in BOOLEAN,
                 TpSetTimer(t, o, later, now, period)
          PROVE  timerq' \in TimerStruct
      <4>1. timerq' = [timerq EXCEPT !.pending = IF later THEN @ \cup {o} ELSE @ \ {o}] /\ o \in Timers
        BY <3>2 DEF TpSetTimer
      <4> QED BY <1>0, <4>1 DEF TimerStruct
    <3>3. ASSUME AllocTimer(t) PROVE timerq' \in TimerStruct
      <4>1. timerq' = [timerq EXCEPT !.objcount = @ + 1, !.running = TRUE, !.initialized = @ \cup {arg[t]}] /\ pc[t] = "a_timer"
        BY <3>3 DEF AllocTimer, Goto
      <4>2. t \in Clients
        BY <4>1, Parts, Kinds DEF PlacesOK, WorkerPlaces
      <4>3. arg[t] \in Timers
        BY <4>1, <4>2 DEF IInv, ClientExact
      <4> QED BY <1>0, <4>1, <4>3, TimerRecord
    <3>4. ASSUME MemberTimer(t) PROVE timerq' \in TimerStruct
      BY <3>4, Unlocked DEF MemberTimer
    <3> QED BY <1>0, <2>1, <3>1, <3>2, <3>3, <3>4, Zenon DEF QuietCall, TpSetPoolMaxThreads, TpSetPoolMinThreads, TpReleasePool,
                    TpReleaseCleanupGroup, TpWaitFor, ObjectWait, MembersMoved, MemberWait, MembersReleased
  <2>2. CASE QuietWork(t)
    BY <1>0, <2>2, Zenon DEF QuietWork, WorkerNoItem, WorkerSleep, WorkerTimeout, WorkerTimedOut, WorkerLeave, TpCallbackMayRunLong
  <2>3. CASE QuietTimer
    <3>1. ASSUME NEW o \in Timers, TimerExpires(o) PROVE timerq' \in TimerStruct
      <4>1. timerq' = [timerq EXCEPT !.pending = @ \ {o}]
        BY <3>1 DEF TimerExpires
      <4> QED BY <1>0, <4>1 DEF TimerStruct
    <3>2. ASSUME TimerThreadEnds PROVE timerq' \in TimerStruct
      <4>1. timerq' = [timerq EXCEPT !.running = FALSE]
        BY <3>2 DEF TimerThreadEnds
      <4> QED BY <1>0, <4>1 DEF TimerStruct
    <3> QED BY <2>3, <3>1, <3>2 DEF QuietTimer
  <2> QED BY <2>1, <2>2, <2>3 DEF Quiet
<1> QED BY <1>0, <1>1, <1>2, <1>3 DEF RestTyped

LEMMA RestSubmits ==
  ASSUME IInv, NEW t \in Threads, NEW o, Submits(t, o)
  PROVE  RestTyped
<1>0. timerq \in TimerStruct /\ group \in GroupStruct /\ posts \in [Objects -> Nat]
  BY DEF IInv, TypeOK, TimerStruct, GroupStruct
<1>1. o \in Objects
  BY SubmitUse, Zenon
<1>2. PICK to : Submit(t, o, to)
  BY SubmitUse, Zenon
<1>3. posts' = [posts EXCEPT ![o] = @ + 1]
  BY <1>2 DEF Submit
<1>4. posts' \in [Objects -> Nat]
  BY <1>0, <1>1, <1>3
<1>5. group' = group
  BY Zenon DEF Submits, TpPostWork, AllocSubmit, SetTimerSubmit, CallbackPosts, TimerSubmit, groupVars
<1>6. timerq' \in TimerStruct
  <2>1. CASE TimerSubmit
    <3>1. pc[TimerThread] = "t_submit" /\ (timerq' = timerq \/ timerq' = [timerq EXCEPT !.pending = @ \cup {arg[TimerThread]}])
      <4>1. timerq' = [timerq EXCEPT !.pending = IF obj[arg[TimerThread]].period /\ ~obj[arg[TimerThread]].shutdown
                                               THEN @ \cup {arg[TimerThread]} ELSE @]
        BY <2>1 DEF TimerSubmit
      <4>2. CASE obj[arg[TimerThread]].period /\ ~obj[arg[TimerThread]].shutdown
        BY <2>1, <4>1, <4>2 DEF TimerSubmit
      <4>3. CASE ~(obj[arg[TimerThread]].period /\ ~obj[arg[TimerThread]].shutdown)
        BY <1>0, <2>1, <4>1, <4>3 DEF TimerSubmit, TimerStruct
      <4> QED BY <4>2, <4>3
    <3>2. arg[TimerThread] \in Timers
      BY <3>1 DEF IInv, TimersExact
    <3> QED BY <1>0, <3>1, <3>2 DEF TimerStruct
  <2>2. CASE ~TimerSubmit
    BY <1>0, <2>2, Zenon DEF Submits, TpPostWork, AllocSubmit, SetTimerSubmit, CallbackPosts
  <2> QED BY <2>1, <2>2
<1> QED BY <1>0, <1>4, <1>5, <1>6 DEF RestTyped

LEMMA RestStep ==
  ASSUME IInv, Next
  PROVE  RestTyped
<1>0. timerq \in TimerStruct /\ group \in GroupStruct /\ posts \in [Objects -> Nat]
  BY DEF IInv, TypeOK, TimerStruct, GroupStruct
<1>1. ASSUME NEW t \in Threads, Quiet(t) PROVE RestTyped
  BY <1>1, RestQuiet
<1>2. ASSUME NEW t \in Threads, NEW o, Submits(t, o) PROVE RestTyped
  BY <1>2, RestSubmits
<1>3. ASSUME timerq' = timerq, posts' = posts, group' = group \/ (\E n \in {1, -1} : group' = [group EXCEPT !.ref = @ + n]) PROVE RestTyped
  BY <1>0, <1>3 DEF RestTyped, GroupStruct
<1>4. ASSUME NEW t \in Threads, Destroy(t) PROVE RestTyped
  <2>1. timerq' = timerq /\ posts' = posts /\ (group' = group \/ group' = [group EXCEPT !.ref = @ - 1])
    BY <1>4 DEF Destroy, userVars
  <2>2. group' = group \/ group' = [group EXCEPT !.ref = @ + (-1)]
    BY <1>0, <2>1 DEF GroupStruct
  <2> QED BY <1>3, <2>1, <2>2
<1>5. ASSUME NEW c \in Clients, AllocGroup(c) PROVE RestTyped
  <2>1. timerq' = timerq /\ posts' = posts /\ (group' = group \/ group' = [group EXCEPT !.ref = @ + 1])
    BY <1>5 DEF AllocGroup
  <2> QED BY <1>3, <2>1
<1>6. ASSUME NEW t \in Threads, Destroy2(t) PROVE RestTyped
  BY <1>3, <1>6 DEF Destroy2, userVars, groupVars
<1>7. ASSUME NEW c \in Clients, NEW o, Cancels(c, o) PROVE RestTyped
  <2>1. timerq' = timerq /\ posts' = posts /\ group' = group
    BY <1>7 DEF Cancels, TpWaitFor, MemberCancel, userVars, groupVars
  <2> QED BY <1>3, <2>1
<1>8. ASSUME NEW c \in Clients, NEW o \in Objects, Alloc(c, o) PROVE RestTyped
  BY <1>3, <1>8, Zenon DEF Alloc, groupVars
<1>9. ASSUME NEW c \in Clients, TpReleaseCleanupGroupMembers(c) \/ AllocTimerFails(c) \/ Unref(c) \/ MemberEach(c) \/ MemberRelease(c)
      PROVE  RestTyped
  <2>1. timerq' = timerq /\ posts' = posts /\ group' = group
    BY <1>9, Zenon DEF TpReleaseCleanupGroupMembers, AllocTimerFails, Unref, MemberEach, MemberRelease, userVars, groupVars
  <2> QED BY <1>3, <2>1
<1>10. ASSUME NEW w \in Workers, WorkerTake(w) \/ CallbackReturns(w) \/ TpDisassociateCallback(w) PROVE RestTyped
  <2>1. timerq' = timerq /\ posts' = posts /\ group' = group
    BY <1>10, Zenon DEF WorkerTake, CallbackReturns, TpDisassociateCallback, userVars, groupVars
  <2> QED BY <1>3, <2>1
<1>11. ASSUME NEW w \in Workers, CallbackReleases(w) PROVE RestTyped
  <2>1. posts' = posts /\ group' = group
    BY <1>11, CallbackReleasesStep, Zenon
  <2>2. timerq' = timerq \/ TimerqueueUnlock(arg[w])
    BY <1>11 DEF CallbackReleases
  <2>3. timerq' \in TimerStruct
    BY <1>0, <2>2, Unlocked
  <2> QED BY <1>0, <2>1, <2>3 DEF RestTyped
<1> QED BY <1>1, <1>2, <1>4, <1>5, <1>6, <1>7, <1>8, <1>9, <1>10, <1>11, Cases, Zenon

----------------------------------------
(* The pool's counters *)

LEMMA StartedRecord ==
  ASSUME NEW q \in PoolStruct, NEW n \in Int, NEW r, r = [q EXCEPT !.ref = @ + n, !.workers = @ + n]
  PROVE  /\ r \in PoolStruct /\ r.ref = q.ref + n /\ r.workers = q.workers + n
         /\ r.objcount = q.objcount /\ r.busy = q.busy /\ r.shutdown = q.shutdown /\ r.state = q.state
<1>1. q.ref + n \in Int /\ q.workers + n \in Int
  BY DEF PoolStruct
<1>2. r \in PoolStruct
  BY <1>1 DEF PoolStruct
<1>3. r.ref = q.ref + n /\ r.workers = q.workers + n
  BY DEF PoolStruct
<1>4. r.objcount = q.objcount /\ r.busy = q.busy /\ r.shutdown = q.shutdown /\ r.state = q.state
  BY DEF PoolStruct
<1> QED BY <1>2, <1>3, <1>4

LEMMA BusyRecord ==
  ASSUME NEW q \in PoolStruct, NEW n \in Int, NEW r, r = [q EXCEPT !.busy = @ + n]
  PROVE  /\ r \in PoolStruct /\ r.busy = q.busy + n /\ r.ref = q.ref /\ r.workers = q.workers
         /\ r.objcount = q.objcount /\ r.shutdown = q.shutdown /\ r.state = q.state
<1>1. q.busy + n \in Int
  BY DEF PoolStruct
<1>2. r \in PoolStruct
  BY <1>1 DEF PoolStruct
<1>3. r.busy = q.busy + n /\ r.ref = q.ref /\ r.workers = q.workers
  BY DEF PoolStruct
<1>4. r.objcount = q.objcount /\ r.shutdown = q.shutdown /\ r.state = q.state
  BY DEF PoolStruct
<1> QED BY <1>2, <1>3, <1>4

\* tp_threadpool_release
LEMMA ReleaseRecord ==
  ASSUME NEW q \in PoolStruct, NEW r, r = PoolRelease(q)
  PROVE  /\ r \in PoolStruct /\ r.busy = q.busy /\ r.ref = q.ref - 1 /\ r.workers = q.workers
         /\ r.objcount = q.objcount /\ r.shutdown = q.shutdown
         /\ r.state = (IF q.ref = 1 THEN "freed" ELSE q.state)
<1>1. PICK s \in {"open", "freed"} : s = (IF q.ref = 1 THEN "freed" ELSE q.state)
  BY DEF PoolStruct
<1>2. r = [q EXCEPT !.ref = @ - 1, !.state = s] /\ q.ref - 1 \in Int
  BY <1>1 DEF PoolRelease, PoolStruct
<1>3. r \in PoolStruct
  BY <1>2 DEF PoolStruct
<1>4. r.busy = q.busy /\ r.ref = q.ref - 1 /\ r.workers = q.workers
  BY <1>2 DEF PoolStruct
<1>5. r.objcount = q.objcount /\ r.shutdown = q.shutdown /\ r.state = s
  BY <1>2 DEF PoolStruct
<1> QED BY <1>1, <1>3, <1>4, <1>5

\* Which workers run.
LEMMA IdleResume ==
  ASSUME PlacesOK, NEW t \in Threads, NEW to, NEW ws \in SUBSET Idle, NEW woken \in SUBSET Sleepers,
         t \notin Workers \/ (pc[t] # "none" /\ to # "none"), Resume(t, to, ws, woken)
  PROVE  Idle' = Idle \ ws
<1>1. \A w \in Workers : pc'[w] = "none" <=> pc[w] = "none" /\ w \notin ws
  BY Kinds DEF Idle, Sleepers, Resume
<1> QED BY <1>1 DEF Idle

LEMMA IdleGoto ==
  ASSUME PlacesOK, NEW t \in Threads, NEW to, t \in Workers => pc[t] # "none" /\ to # "none", pc' = [pc EXCEPT ![t] = to]
  PROVE  Idle' = Idle
<1>1. \A w \in Workers : pc'[w] = "none" <=> pc[w] = "none"
  BY Kinds DEF PlacesOK
<1> QED BY <1>1 DEF Idle

LEMMA WorkersStart ==
  ASSUME NEW ws \in SUBSET Idle, Idle' = Idle \ ws
  PROVE  /\ Cardinality(ws) \in Nat /\ (ws # {} => Cardinality(ws) > 0) /\ (ws = {} => Cardinality(ws) = 0)
         /\ Cardinality(Workers \ Idle) \in Nat
         /\ Cardinality((Workers \ Idle)') = Cardinality(Workers \ Idle) + Cardinality(ws)
<1>1. IsFiniteSet(ws) /\ IsFiniteSet(Workers \ Idle) /\ ws \cap (Workers \ Idle) = {} /\ (Workers \ Idle)' = ws \cup (Workers \ Idle)
  <2>1. ws \in SUBSET Workers /\ Workers \ Idle \in SUBSET Workers
    BY DEF Idle
  <2>2. IsFiniteSet(ws) /\ IsFiniteSet(Workers \ Idle)
    BY <2>1, FiniteWorkers, FS_Subset, Zenon
  <2> QED BY <2>1, <2>2
<1>2. /\ Cardinality(ws) \in Nat /\ Cardinality(Workers \ Idle) \in Nat /\ (Cardinality(ws) = 0 <=> ws = {})
  BY <1>1, FS_CardinalityType, FS_EmptySet, Zenon
<1>3. Cardinality(ws \cup (Workers \ Idle)) = Cardinality(ws) + Cardinality(Workers \ Idle) - Cardinality(ws \cap (Workers \ Idle))
  BY <1>1, FS_Union, Zenon
<1>4. Cardinality(ws \cap (Workers \ Idle)) = 0
  BY <1>1, FS_EmptySet, Zenon
<1>5. Cardinality((Workers \ Idle)') = Cardinality(ws \cup (Workers \ Idle))
  BY <1>1, Zenon
<1>6. PICK n \in Nat, m \in Nat : n = Cardinality(ws) /\ m = Cardinality(Workers \ Idle)
  BY <1>2
<1>7. Cardinality((Workers \ Idle)') = n + m - 0
  BY <1>3, <1>4, <1>5, <1>6, Zenon
<1>8. n + m - 0 = m + n /\ (n # 0 => n > 0)
  OBVIOUS
<1>9. Cardinality((Workers \ Idle)') = Cardinality(Workers \ Idle) + Cardinality(ws)
  BY <1>6, <1>7, <1>8, Zenon
<1>10. (ws # {} => Cardinality(ws) > 0) /\ (ws = {} => Cardinality(ws) = 0)
  BY <1>2, <1>6, <1>8, Zenon
<1> QED BY <1>2, <1>9, <1>10, Zenon

LEMMA PoolFacts ==
  ASSUME IInv
  PROVE  /\ pool \in PoolStruct /\ pool.ref \in Int /\ pool.workers \in Int /\ pool.objcount \in Int
         /\ pool.workers >= 0 /\ pool.objcount >= 0
         /\ pool.workers = Cardinality(Workers \ Idle) /\ pool.objcount = Cardinality(Alive)
         /\ pool.ref = pool.workers + pool.objcount + (IF pool.shutdown THEN 0 ELSE 1)
         /\ ~pool.shutdown \/ pool.workers > 0 \/ pool.objcount > 0 => pool.ref > 0 /\ pool.state = "open"
         /\ \A w \in Workers : pc[w] # "none" => pool.workers > 0
         /\ \A o \in Objects : obj[o].state = "alive" => pool.objcount > 0
<1>1. /\ pool \in PoolStruct /\ pool.ref \in Int /\ pool.workers \in Int /\ pool.objcount \in Int
      /\ pool.shutdown \in BOOLEAN /\ pool.state \in {"open", "freed"}
  BY Fields DEF IInv, TypeOK
<1>2. /\ pool.workers = Cardinality(Workers \ Idle) /\ pool.objcount = Cardinality(Alive) /\ IsFiniteSet(Alive)
      /\ pool.ref = pool.workers + pool.objcount + (IF pool.shutdown THEN 0 ELSE 1)
      /\ pool.state = "freed" <=> pool.ref = 0
  BY DEF IInv, PoolExact
<1>3. Workers \ Idle \in SUBSET Workers
  BY DEF Idle
<1>4. IsFiniteSet(Workers \ Idle)
  BY <1>3, FiniteWorkers, FS_Subset, Zenon
<1>5. /\ Cardinality(Workers \ Idle) \in Nat /\ (Cardinality(Workers \ Idle) = 0 <=> Workers \ Idle = {})
      /\ Cardinality(Alive) \in Nat /\ (Cardinality(Alive) = 0 <=> Alive = {})
  BY <1>2, <1>4, FS_CardinalityType, FS_EmptySet, Zenon
<1>6. \A w \in Workers : pc[w] # "none" => pool.workers # 0
  BY <1>2, <1>5 DEF Idle
<1>7. \A o \in Objects : obj[o].state = "alive" => pool.objcount # 0
  BY <1>2, <1>5 DEF Alive
<1>8. pool.workers \in Nat /\ pool.objcount \in Nat
  BY <1>2, <1>5
<1>9. ~pool.shutdown \/ pool.workers > 0 \/ pool.objcount > 0 => pool.ref > 0
  BY <1>1, <1>2, <1>8
<1>10. pool.ref > 0 => pool.state = "open"
  BY <1>1, <1>2
<1>11. pool.workers >= 0 /\ pool.objcount >= 0 /\ (pool.workers # 0 => pool.workers > 0) /\ (pool.objcount # 0 => pool.objcount > 0)
  BY <1>8
<1> QED BY <1>1, <1>2, <1>6, <1>7, <1>9, <1>10, <1>11, Zenon

LEMMA AliveSame ==
  ASSUME \A x \in Objects : obj'[x].state = obj[x].state
  PROVE  Alive' = Alive
BY DEF Alive

LEMMA PoolStarts ==
  ASSUME IInv, NEW t, NEW ws \in SUBSET Idle, Idle' = Idle \ ws, Alive' = Alive, UsesEnd, pool' \in PoolStruct,
         pool'.ref = pool.ref + Cardinality(ws), pool'.workers = pool.workers + Cardinality(ws),
         pool'.objcount = pool.objcount, pool'.shutdown = pool.shutdown, pool'.state = pool.state, pool.ref > 0
  PROVE  PoolOK(t)
<1>1. /\ Cardinality(ws) \in Nat /\ Cardinality(Workers \ Idle) \in Nat
      /\ Cardinality((Workers \ Idle)') = Cardinality(Workers \ Idle) + Cardinality(ws)
  BY WorkersStart
<1>2. /\ pool.ref \in Int /\ pool.workers \in Int /\ pool.objcount \in Int
      /\ pool.workers = Cardinality(Workers \ Idle) /\ pool.objcount = Cardinality(Alive)
      /\ pool.ref = pool.workers + pool.objcount + (IF pool.shutdown THEN 0 ELSE 1)
  BY PoolFacts, Zenon
<1>3. IsFiniteSet(Alive) /\ (pool.state = "freed" <=> pool.ref = 0) /\ (pool.shutdown => \A o \in Objects : ~InUse(o))
  BY DEF IInv, PoolExact
<1>4. pool'.workers = Cardinality((Workers \ Idle)') /\ pool'.objcount = Cardinality(Alive') /\ IsFiniteSet(Alive')
  BY <1>1, <1>2, <1>3, Zenon
<1>5. pool'.ref = pool'.workers + pool'.objcount + (IF pool'.shutdown THEN 0 ELSE 1) /\ pool'.ref > 0 /\ pool'.workers >= pool.workers
  BY <1>1, <1>2
<1>6. pool'.state = "freed" <=> pool'.ref = 0
  BY <1>3, <1>5
<1>7. pool'.shutdown => \A o \in Objects : ~InUse(o)'
  BY <1>3 DEF UsesEnd
<1>8. PoolExact'
  BY <1>4, <1>5, <1>6, <1>7 DEF PoolExact
<1>9. pool.state # "freed" /\ ~(pool'.workers < pool.workers) /\ ~(pool'.objcount > pool.objcount)
  BY <1>1, <1>2, <1>3
<1> QED BY <1>8, <1>9 DEF PoolOK, UsesEnd

LEMMA PoolSame ==
  ASSUME IInv, NEW t, Idle' = Idle, Alive' = Alive, UsesEnd, pool' = pool
  PROVE  PoolOK(t)
<1>1. PoolExact'
  <2>1. PoolExact
    BY DEF IInv
  <2> QED BY <2>1 DEF PoolExact, UsesEnd
<1>2. ~(pool'.workers < pool.workers) /\ ~(pool'.objcount > pool.objcount) /\ pool' \in PoolStruct
  BY PoolFacts
<1> QED BY <1>1, <1>2 DEF PoolOK, UsesEnd

\* tp_object_submit: who starts or wakes.
LEMMA SubmitWorkers ==
  ASSUME IInv, NEW t \in Threads, NEW o, Submits(t, o)
  PROVE  \E to : \E ws \in SUBSET Idle, woken \in SUBSET Sleepers :
              /\ Free("pool") /\ Resume(t, to, ws, woken) /\ (t \in Workers => pc[t] = "callback" /\ to = "callback")
              /\ ws # {} \/ woken # {} \/ Sleepers = {}
              /\ pool' = IF obj[o].pending = 0 THEN Busier(Started(ws)) ELSE Started(ws)
<1>1. PICK to \in PlacesOf(t) : Submit(t, o, to) /\ pc'[t] = to
  BY SubmitUse, Zenon
<1>2. t \in Workers => pc[t] = "callback" /\ to = "callback"
  <2>1. ASSUME t \in Workers PROVE pc[t] = "callback" /\ pc'[t] = "callback"
    <3>1. CallbackPosts(t)
      BY <2>1, Kinds DEF Submits
    <3> QED BY <2>1, <3>1, CallbackMoves, Zenon DEF Moved
  <2> QED BY <1>1, <2>1
<1>3. PICK ws \in OneThread :
        /\ pool' = IF obj[o].pending = 0 THEN Busier(Started(ws)) ELSE Started(ws)
        /\ \/ ws # {} /\ Resume(t, to, ws, {})
           \/ ws = {} /\ Sleepers = {} /\ Resume(t, to, {}, {})
           \/ ws = {} /\ \E w \in Sleepers : Resume(t, to, {}, {w})
  BY <1>1 DEF Submit
<1>4. ws \in SUBSET Idle /\ {} \in SUBSET Sleepers
  BY OneThreadType
<1>5. PICK woken \in SUBSET Sleepers : Resume(t, to, ws, woken) /\ (ws # {} \/ woken # {} \/ Sleepers = {})
  <2>1. CASE ws = {} /\ \E w \in Sleepers : Resume(t, to, {}, {w})
    <3>1. PICK w \in Sleepers : Resume(t, to, {}, {w})
      BY <2>1
    <3>2. {w} \in SUBSET Sleepers /\ {w} # {}
      OBVIOUS
    <3> QED BY <2>1, <3>1, <3>2, Zenon
  <2> QED BY <1>3, <1>4, <2>1
<1>6. Free("pool")
  BY <1>1 DEF Submit
<1> QED BY <1>2, <1>3, <1>4, <1>5, <1>6, Zenon

LEMMA StartedPool ==
  ASSUME IInv, NEW ws \in SUBSET Idle, NEW q, q = Started(ws)
  PROVE  /\ q \in PoolStruct /\ q.ref = pool.ref + Cardinality(ws) /\ q.workers = pool.workers + Cardinality(ws)
         /\ q.objcount = pool.objcount /\ q.busy = pool.busy /\ q.shutdown = pool.shutdown /\ q.state = pool.state
<1>1. ws \in SUBSET Workers
  BY DEF Idle
<1>2. IsFiniteSet(ws)
  BY <1>1, FiniteWorkers, FS_Subset, Zenon
<1>3. PICK n \in Int : n = Cardinality(ws)
  BY <1>2, FS_CardinalityType
<1>4. q = [pool EXCEPT !.ref = @ + n, !.workers = @ + n] /\ pool \in PoolStruct
  BY <1>3, PoolFacts DEF Started
<1>5. /\ q \in PoolStruct /\ q.ref = pool.ref + n /\ q.workers = pool.workers + n
      /\ q.objcount = pool.objcount /\ q.busy = pool.busy /\ q.shutdown = pool.shutdown /\ q.state = pool.state
  BY <1>4, StartedRecord, ZenonT(60)
<1> QED BY <1>3, <1>5

LEMMA SubmitPool ==
  ASSUME IInv, NEW t \in Threads, NEW o, Submits(t, o)
  PROVE  /\ PoolOK(t) /\ pool.workers > 0
         /\ pool'.busy = pool.busy + (IF obj[o].pending = 0 THEN 1 ELSE 0)
         /\ ~pool.shutdown /\ Free("pool")
<1>0. PICK to : \E ws \in SUBSET Idle, woken \in SUBSET Sleepers :
                /\ Free("pool") /\ Resume(t, to, ws, woken) /\ (t \in Workers => pc[t] = "callback" /\ to = "callback")
                /\ ws # {} \/ woken # {} \/ Sleepers = {}
                /\ pool' = IF obj[o].pending = 0 THEN Busier(Started(ws)) ELSE Started(ws)
  BY SubmitWorkers, Zenon
<1>1. PICK ws \in SUBSET Idle, woken \in SUBSET Sleepers :
                /\ Free("pool") /\ Resume(t, to, ws, woken) /\ (t \in Workers => pc[t] = "callback" /\ to = "callback")
                /\ ws # {} \/ woken # {} \/ Sleepers = {}
                /\ pool' = IF obj[o].pending = 0 THEN Busier(Started(ws)) ELSE Started(ws)
  BY <1>0, Zenon
<1>2. o \in Objects /\ InUse(o) /\ handle' = handle
  BY SubmitUse, Zenon
<1>3. PICK q : q = Started(ws)
  OBVIOUS
<1>4. /\ q \in PoolStruct /\ q.ref = pool.ref + Cardinality(ws) /\ q.workers = pool.workers + Cardinality(ws)
      /\ q.objcount = pool.objcount /\ q.busy = pool.busy /\ q.shutdown = pool.shutdown /\ q.state = pool.state
  BY <1>3, StartedPool, Zenon
<1>5. /\ pool' \in PoolStruct /\ pool'.ref = q.ref /\ pool'.workers = q.workers
      /\ pool'.objcount = q.objcount /\ pool'.shutdown = q.shutdown /\ pool'.state = q.state
      /\ pool'.busy = pool.busy + (IF obj[o].pending = 0 THEN 1 ELSE 0)
  <2>1. CASE obj[o].pending = 0
    <3>1. pool' = [q EXCEPT !.busy = @ + 1] /\ 1 \in Int
      BY <1>1, <1>3, <2>1 DEF Busier
    <3>2. /\ pool' \in PoolStruct /\ pool'.busy = q.busy + 1 /\ pool'.ref = q.ref /\ pool'.workers = q.workers
          /\ pool'.objcount = q.objcount /\ pool'.shutdown = q.shutdown /\ pool'.state = q.state
      BY <1>4, <3>1, BusyRecord
    <3> QED BY <1>4, <2>1, <3>2
  <2>2. CASE obj[o].pending # 0
    <3>1. pool' = q
      BY <1>1, <1>3, <2>2
    <3>2. pool.busy + 0 = pool.busy
      BY PoolFacts DEF PoolStruct
    <3> QED BY <1>4, <2>2, <3>1, <3>2
  <2> QED BY <2>1, <2>2
<1>6. Idle' = Idle \ ws
  <2>1. t \notin Workers \/ (pc[t] # "none" /\ to # "none")
    BY <1>1
  <2> QED BY <1>1, <2>1, IdleResume, Parts, Zenon
<1>7. pool.workers > 0 /\ ~pool.shutdown
  BY <1>2 DEF IInv, ItemsAreSeen, PoolExact
<1>8. pool.ref > 0
  BY <1>7, PoolFacts, Zenon
<1>9. Alive' = Alive
  <2>1. PICK x : Submit(t, o, x)
    BY SubmitUse, Zenon
  <2>2. obj'[o].state = obj[o].state /\ \A y \in Objects \ {o} : obj'[y] = obj[y]
    <3>1. TypeOK
      BY DEF IInv
    <3> QED BY <1>2, <2>1, <3>1, SubmitObject, Zenon
  <2> QED BY <2>2, AliveSame
<1>10. UsesEnd
  BY <1>2 DEF UsesEnd, InUse
<1>11. PoolOK(t)
  <2>1. /\ pool'.ref = pool.ref + Cardinality(ws) /\ pool'.workers = pool.workers + Cardinality(ws)
        /\ pool'.objcount = pool.objcount /\ pool'.shutdown = pool.shutdown /\ pool'.state = pool.state
    BY <1>4, <1>5
  <2> QED BY <1>5, <1>6, <1>8, <1>9, <1>10, <2>1, PoolStarts, Zenon
<1> QED BY <1>1, <1>5, <1>7, <1>11

\* The limits, and threads that start to meet them.
LEMMA PoolLimits ==
  ASSUME IInv, NEW c \in Clients, NEW n \in Limits, TpSetPoolMaxThreads(c, n) \/ TpSetPoolMinThreads(c, n),
         Alive' = Alive, UsesEnd
  PROVE  PoolOK(c) /\ pool'.busy = pool.busy
<1>0. n \in Nat /\ pool \in PoolStruct /\ pool.min \in Nat /\ pool.max \in Nat /\ c \in Threads /\ c \notin Workers /\ PlacesOK
  BY ThreadPoolAssumption, Kinds, Parts, PoolFacts DEF PoolStruct
<1>1. \E ws \in SUBSET Idle :
        /\ Idle' = Idle \ ws
        /\ pool' = Started(ws) \/ \E low, high \in Nat : pool' = [Started(ws) EXCEPT !.min = low, !.max = high]
  <2>1. CASE TpSetPoolMaxThreads(c, n)
    <3>1. pc' = [pc EXCEPT ![c] = "idle"] /\ {} \in SUBSET Idle
      BY <2>1 DEF TpSetPoolMaxThreads, Goto
    <3>2. Idle' = Idle \ {}
      BY <1>0, <3>1, IdleGoto
    <3>3. PICK q : q = Started({})
      OBVIOUS
    <3>4. Cardinality({}) = 0
      BY FS_EmptySet
    <3>5. q = pool
      <4>1. q = [pool EXCEPT !.ref = @ + 0, !.workers = @ + 0]
        BY <3>3, <3>4 DEF Started
      <4>2. pool.ref + 0 = pool.ref /\ pool.workers + 0 = pool.workers
        BY <1>0 DEF PoolStruct
      <4>3. q = [pool EXCEPT !.ref = pool.ref, !.workers = pool.workers]
        BY <4>1, <4>2
      <4> QED BY <1>0, <4>3 DEF PoolStruct
    <3>6. PICK high \in Nat : high = Higher(n, 1)
      BY <1>0 DEF Higher
    <3>7. PICK low \in Nat : low = Lower(pool.min, high)
      BY <1>0 DEF Lower
    <3>8. pool' = [pool EXCEPT !.max = high, !.min = low]
      BY <2>1, <3>6, <3>7 DEF TpSetPoolMaxThreads
    <3>9. pool' = [pool EXCEPT !.min = low, !.max = high]
      BY <1>0, <3>8 DEF PoolStruct
    <3>10. pool' = [Started({}) EXCEPT !.min = low, !.max = high]
      BY <3>3, <3>5, <3>9, Zenon
    <3> QED BY <3>1, <3>2, <3>10, Zenon
  <2>2. CASE TpSetPoolMinThreads(c, n)
    <3>1. PICK ws \in SUBSET Idle :
            /\ pool' = IF pool.workers + Cardinality(ws) >= n
                       THEN [Started(ws) EXCEPT !.min = n, !.max = Higher(n, @)]
                       ELSE Started(ws)
            /\ Resume(c, "idle", ws, {})
      BY <2>2 DEF TpSetPoolMinThreads
    <3>2. Idle' = Idle \ ws
      <4>1. {} \in SUBSET Sleepers
        OBVIOUS
      <4> QED BY <1>0, <3>1, <4>1, IdleResume, Zenon
    <3>3. PICK q : q = Started(ws)
      OBVIOUS
    <3>4. q \in PoolStruct
      BY <3>3, StartedPool
    <3>5. PICK high \in Nat : high = Higher(n, q.max)
      BY <1>0, <3>4 DEF Higher, PoolStruct
    <3>6. pool' = [q EXCEPT !.min = n, !.max = high] \/ pool' = q
      BY <3>1, <3>3, <3>5
    <3> QED BY <1>0, <3>2, <3>3, <3>6
  <2> QED BY <2>1, <2>2
<1>2. PICK ws \in SUBSET Idle :
        /\ Idle' = Idle \ ws
        /\ pool' = Started(ws) \/ \E low, high \in Nat : pool' = [Started(ws) EXCEPT !.min = low, !.max = high]
  BY <1>1
<1>3. PICK q : q = Started(ws)
  OBVIOUS
<1>4. /\ q \in PoolStruct /\ q.ref = pool.ref + Cardinality(ws) /\ q.workers = pool.workers + Cardinality(ws)
      /\ q.objcount = pool.objcount /\ q.busy = pool.busy /\ q.shutdown = pool.shutdown /\ q.state = pool.state
  BY <1>3, StartedPool, Zenon
<1>5. /\ pool' \in PoolStruct /\ pool'.ref = q.ref /\ pool'.workers = q.workers /\ pool'.busy = q.busy
      /\ pool'.objcount = q.objcount /\ pool'.shutdown = q.shutdown /\ pool'.state = q.state
  <2>1. ASSUME NEW low \in Nat, NEW high \in Nat, pool' = [q EXCEPT !.min = low, !.max = high]
        PROVE  /\ pool' \in PoolStruct /\ pool'.ref = q.ref /\ pool'.workers = q.workers /\ pool'.busy = q.busy
               /\ pool'.objcount = q.objcount /\ pool'.shutdown = q.shutdown /\ pool'.state = q.state
    <3>1. PICK r : r = pool'
      OBVIOUS
    <3>2. r = [q EXCEPT !.min = low, !.max = high]
      BY <2>1, <3>1
    <3>3. q \in PoolStruct
      BY <1>4
    <3>4. r \in PoolStruct
      BY <3>2, <3>3 DEF PoolStruct
    <3>5. r.busy = q.busy /\ r.ref = q.ref /\ r.workers = q.workers
      BY <3>2, <3>3 DEF PoolStruct
    <3>6. r.objcount = q.objcount /\ r.shutdown = q.shutdown /\ r.state = q.state
      BY <3>2, <3>3 DEF PoolStruct
    <3> QED BY <3>1, <3>4, <3>5, <3>6, Zenon
  <2> QED BY <1>2, <1>3, <1>4, <2>1
<1>6. pool.ref > 0
  <2>1. ~pool.shutdown
    BY DEF TpSetPoolMaxThreads, TpSetPoolMinThreads
  <2> QED BY <2>1, PoolFacts, Zenon
<1>7. PoolOK(c)
  <2>1. /\ pool'.ref = pool.ref + Cardinality(ws) /\ pool'.workers = pool.workers + Cardinality(ws)
        /\ pool'.objcount = pool.objcount /\ pool'.shutdown = pool.shutdown /\ pool'.state = pool.state
    BY <1>4, <1>5
  <2> QED BY <1>2, <1>5, <1>6, <2>1, PoolStarts, Zenon
<1> QED BY <1>4, <1>5, <1>7

\* TpCallbackMayRunLong may start a worker.
LEMMA PoolLong ==
  ASSUME IInv, NEW w \in Workers, TpCallbackMayRunLong(w), Alive' = Alive, UsesEnd
  PROVE  PoolOK(w) /\ pool'.busy = pool.busy
<1>1. PICK ws \in OneThread : pool' = Started(ws) /\ Resume(w, "callback", ws, {})
  BY DEF TpCallbackMayRunLong
<1>2. ws \in SUBSET Idle /\ {} \in SUBSET Sleepers /\ w \in Threads /\ PlacesOK /\ pc[w] = "callback"
  BY OneThreadType, Kinds, Parts DEF TpCallbackMayRunLong
<1>3. Idle' = Idle \ ws
  <2>1. pc[w] # "none" /\ "callback" # "none"
    BY <1>2
  <2> QED BY <1>1, <1>2, <2>1, IdleResume, Zenon
<1>4. /\ pool' \in PoolStruct /\ pool'.ref = pool.ref + Cardinality(ws) /\ pool'.workers = pool.workers + Cardinality(ws)
      /\ pool'.objcount = pool.objcount /\ pool'.busy = pool.busy /\ pool'.shutdown = pool.shutdown /\ pool'.state = pool.state
  BY <1>1, <1>2, StartedPool
<1>5. pool.ref > 0
  <2>1. pool.workers > 0
    BY <1>2, PoolFacts
  <2> QED BY <2>1, PoolFacts, Zenon
<1>6. PoolOK(w)
  BY <1>2, <1>3, <1>4, <1>5, PoolStarts, Zenon
<1> QED BY <1>4, <1>6

\* TpReleasePool: no object is in use, and the program's reference goes.
LEMMA PoolShutdown ==
  ASSUME IInv, NEW c \in Clients, TpReleasePool(c), Alive' = Alive, handle' = handle
  PROVE  PoolOK(c) /\ pool'.busy = pool.busy
<1>0. /\ c \in Threads /\ c \notin Workers /\ PlacesOK /\ {} \in SUBSET Idle /\ Sleepers \in SUBSET Sleepers
      /\ Resume(c, "idle", {}, Sleepers) /\ ~pool.shutdown
  BY Kinds, Parts DEF TpReleasePool
<1>1. Idle' = Idle
  <2>1. Idle' = Idle \ {}
    BY <1>0, IdleResume, Zenon
  <2> QED BY <2>1
<1>2. /\ pool \in PoolStruct /\ pool.ref \in Int /\ pool.workers \in Int /\ pool.objcount \in Int
      /\ pool.workers = Cardinality(Workers \ Idle) /\ pool.objcount = Cardinality(Alive)
      /\ pool.ref = pool.workers + pool.objcount + (IF pool.shutdown THEN 0 ELSE 1)
      /\ pool.state = "open" /\ pool.workers >= 0 /\ pool.objcount >= 0
  BY <1>0, PoolFacts, Zenon
<1>3. PICK q : q = [pool EXCEPT !.shutdown = TRUE]
  OBVIOUS
<1>4. /\ q \in PoolStruct /\ q.ref = pool.ref /\ q.workers = pool.workers /\ q.objcount = pool.objcount
      /\ q.shutdown /\ q.state = pool.state /\ q.busy = pool.busy
  <2>1. q \in PoolStruct
    BY <1>2, <1>3 DEF PoolStruct
  <2>2. q.ref = pool.ref /\ q.workers = pool.workers /\ q.objcount = pool.objcount
    BY <1>2, <1>3 DEF PoolStruct
  <2>3. q.shutdown /\ q.state = pool.state /\ q.busy = pool.busy
    BY <1>2, <1>3 DEF PoolStruct
  <2> QED BY <2>1, <2>2, <2>3
<1>5. PICK r : r = pool' /\ r = PoolRelease(q)
  BY <1>3 DEF TpReleasePool
<1>6. /\ r \in PoolStruct /\ r.busy = q.busy /\ r.ref = q.ref - 1 /\ r.workers = q.workers
      /\ r.objcount = q.objcount /\ r.shutdown = q.shutdown /\ r.state = (IF q.ref = 1 THEN "freed" ELSE q.state)
  BY <1>4, <1>5, ReleaseRecord
<1>7. /\ r.ref = r.workers + r.objcount /\ (r.state = "freed" <=> r.ref = 0) /\ r.shutdown
      /\ ~(r.workers < pool.workers) /\ ~(r.objcount > pool.objcount)
  <2>1. r.workers = pool.workers /\ r.objcount = pool.objcount /\ r.ref = pool.ref - 1 /\ r.shutdown
    BY <1>4, <1>6
  <2>2. r.state = "freed" <=> pool.ref = 1
    BY <1>2, <1>4, <1>6
  <2>3. pool.ref = pool.workers + pool.objcount + 1
    BY <1>0, <1>2
  <2> QED BY <1>2, <2>1, <2>2, <2>3
<1>8. IsFiniteSet(Alive)
  BY DEF IInv, PoolExact
<1>9. \A o \in Objects : ~InUse(o)'
  BY DEF TpReleasePool, InUse
<1>10. PoolExact'
  <2>1. r.workers = Cardinality(Workers \ Idle') /\ r.objcount = Cardinality(Alive') /\ IsFiniteSet(Alive')
    BY <1>1, <1>2, <1>4, <1>6, <1>8
  <2>2. r.ref = r.workers + r.objcount + 0
    BY <1>7, <1>6, <1>2, <1>4
  <2> QED BY <1>5, <1>7, <1>9, <2>1, <2>2 DEF PoolExact
<1>11. pool.state # "freed" /\ pool'.busy = pool.busy
  BY <1>2, <1>4, <1>5, <1>6
<1> QED BY <1>5, <1>6, <1>7, <1>9, <1>10, <1>11 DEF PoolOK

\* A worker leaves, and drops its reference.
LEMMA PoolLeave ==
  ASSUME IInv, NEW w \in Workers, WorkerLeave(w), Alive' = Alive, UsesEnd
  PROVE  PoolOK(w) /\ pool'.busy = pool.busy
<1>0. w \in Threads /\ PlacesOK /\ pc[w] = "leave" /\ pc' = [pc EXCEPT ![w] = "none"]
  BY Kinds, Parts DEF WorkerLeave, Goto
<1>1. w \in Workers \ Idle /\ Workers \ Idle' = (Workers \ Idle) \ {w}
  <2>1. \A u \in Workers : pc'[u] = "none" <=> pc[u] = "none" \/ u = w
    BY <1>0, Kinds DEF PlacesOK
  <2> QED BY <1>0, <2>1 DEF Idle
<1>2. /\ pool \in PoolStruct /\ pool.ref \in Int /\ pool.workers \in Int /\ pool.objcount \in Int
      /\ pool.workers = Cardinality(Workers \ Idle) /\ pool.objcount = Cardinality(Alive)
      /\ pool.ref = pool.workers + pool.objcount + (IF pool.shutdown THEN 0 ELSE 1)
      /\ pool.state = "open" /\ pool.workers > 0 /\ pool.objcount >= 0
  <2>1. pool.workers > 0
    BY <1>0, PoolFacts
  <2> QED BY <2>1, PoolFacts, Zenon
<1>3. PICK q : q = [pool EXCEPT !.workers = @ - 1]
  OBVIOUS
<1>4. /\ q \in PoolStruct /\ q.ref = pool.ref /\ q.workers = pool.workers - 1 /\ q.objcount = pool.objcount
      /\ q.shutdown = pool.shutdown /\ q.state = pool.state /\ q.busy = pool.busy
  <2>1. q \in PoolStruct
    BY <1>2, <1>3 DEF PoolStruct
  <2>2. q.ref = pool.ref /\ q.workers = pool.workers - 1 /\ q.objcount = pool.objcount
    BY <1>2, <1>3 DEF PoolStruct
  <2>3. q.shutdown = pool.shutdown /\ q.state = pool.state /\ q.busy = pool.busy
    BY <1>2, <1>3 DEF PoolStruct
  <2> QED BY <2>1, <2>2, <2>3
<1>5. PICK r : r = pool' /\ r = PoolRelease(q)
  BY <1>3 DEF WorkerLeave
<1>6. /\ r \in PoolStruct /\ r.busy = q.busy /\ r.ref = q.ref - 1 /\ r.workers = q.workers
      /\ r.objcount = q.objcount /\ r.shutdown = q.shutdown /\ r.state = (IF q.ref = 1 THEN "freed" ELSE q.state)
  BY <1>4, <1>5, ReleaseRecord
<1>7. /\ r.ref = r.workers + r.objcount + (IF r.shutdown THEN 0 ELSE 1) /\ (r.state = "freed" <=> r.ref = 0)
      /\ ~(r.objcount > pool.objcount)
  BY <1>2, <1>4, <1>6
<1>8. IsFiniteSet(Alive) /\ (pool.shutdown => \A o \in Objects : ~InUse(o))
  BY DEF IInv, PoolExact
<1>9. Cardinality(Workers \ Idle') = Cardinality(Workers \ Idle) - 1
  <2>1. Workers \ Idle \in SUBSET Workers
    BY DEF Idle
  <2>2. IsFiniteSet(Workers \ Idle)
    BY <2>1, FiniteWorkers, FS_Subset, Zenon
  <2>3. Cardinality((Workers \ Idle) \ {w}) = Cardinality(Workers \ Idle) - 1
    BY <1>1, <2>2, FS_RemoveElement
  <2> QED BY <1>1, <2>3
<1>10. PoolExact'
  <2>1. r.workers = Cardinality(Workers \ Idle') /\ r.objcount = Cardinality(Alive') /\ IsFiniteSet(Alive')
    BY <1>2, <1>4, <1>6, <1>8, <1>9
  <2>2. r.shutdown => \A o \in Objects : ~InUse(o)'
    BY <1>4, <1>6, <1>8 DEF UsesEnd
  <2> QED BY <1>5, <1>7, <2>1, <2>2 DEF PoolExact
<1>11. pool.state # "freed" /\ pool'.busy = pool.busy
  BY <1>2, <1>4, <1>5, <1>6
<1> QED BY <1>0, <1>4, <1>5, <1>6, <1>7, <1>10, <1>11 DEF PoolOK, UsesEnd

LEMMA AloneIdle ==
  ASSUME IInv, NEW t \in Threads, Alone(t)
  PROVE  Idle' = Idle
<1>1. PICK to : pc' = [pc EXCEPT ![t] = to] /\ (t \in Workers => pc[t] # "none" /\ to # "none")
  BY DEF Alone
<1> QED BY <1>1, Parts, IdleGoto

LEMMA QuietAlone ==
  ASSUME IInv, NEW t \in Threads, Quiet(t)
  PROVE  \/ t \in Clients /\ \E n \in Limits : TpSetPoolMaxThreads(t, n) \/ TpSetPoolMinThreads(t, n)
         \/ t \in Clients /\ TpReleasePool(t)
         \/ t \in Workers /\ (WorkerLeave(t) \/ TpCallbackMayRunLong(t))
         \/ pool' = pool /\ Alone(t)
<1>1. CASE t \in Clients /\ QuietCall(t)
  <2>0. t \notin Workers
    BY <1>1, Kinds
  <2>1. ASSUME TpReleaseCleanupGroup(t) PROVE pool' = pool /\ Alone(t)
    BY <2>0, <2>1, Zenon DEF TpReleaseCleanupGroup, Goto, Alone, poolVars
  <2>2. ASSUME NEW o \in Objects, TpRelease(t, o) PROVE pool' = pool /\ Alone(t)
    BY <2>0, <2>2, Zenon DEF TpRelease, Goto, Alone, poolVars
  <2>3. ASSUME NEW o \in Objects, NEW later \in BOOLEAN, NEW now \in BOOLEAN, NEW period \in BOOLEAN,
               TpSetTimer(t, o, later, now, period)
        PROVE  pool' = pool /\ Alone(t)
    BY <2>0, <2>3, Zenon DEF TpSetTimer, Goto, Alone, poolVars
  <2>4. ASSUME NEW o \in Objects, TpWaitFor(t, o, FALSE) PROVE pool' = pool /\ Alone(t)
    <3>1. pool' = pool /\ Goto(t, "idle", "w_check")
      BY <2>4 DEF TpWaitFor, poolVars
    <3> QED BY <2>0, <3>1, Zenon DEF Goto, Alone
  <2>5. ASSUME AllocTimer(t) PROVE pool' = pool /\ Alone(t)
    BY <2>0, <2>5, Zenon DEF AllocTimer, Goto, Alone, poolVars
  <2>6. ASSUME ObjectWait(t) PROVE pool' = pool /\ Alone(t)
    BY <2>0, <2>6, Zenon DEF ObjectWait, Goto, Alone, poolVars
  <2>7. ASSUME MemberTimer(t) PROVE pool' = pool /\ Alone(t)
    BY <2>0, <2>7, Zenon DEF MemberTimer, Goto, Alone, poolVars
  <2>8. ASSUME MembersMoved(t) PROVE pool' = pool /\ Alone(t)
    BY <2>0, <2>8, Zenon DEF MembersMoved, Goto, Alone, poolVars
  <2>9. ASSUME MemberWait(t) PROVE pool' = pool /\ Alone(t)
    BY <2>0, <2>9, Zenon DEF MemberWait, Goto, Alone, poolVars
  <2>10. ASSUME MembersReleased(t) PROVE pool' = pool /\ Alone(t)
    BY <2>0, <2>10, Zenon DEF MembersReleased, Goto, Alone, poolVars
  <2> QED BY <1>1, <2>1, <2>2, <2>3, <2>4, <2>5, <2>6, <2>7, <2>8, <2>9, <2>10, Zenon DEF QuietCall
<1>2. CASE t \in Workers /\ QuietWork(t)
  <2>1. ASSUME WorkerNoItem(t) PROVE pool' = pool /\ Alone(t)
    <3>1. pool' = pool /\ pc' = [pc EXCEPT ![t] = NoItem] /\ pc[t] # "none" /\ NoItem # "none"
      BY <2>1 DEF WorkerNoItem, AtTop, NoItem, poolVars
    <3> QED BY <3>1, Zenon DEF Alone
  <2>2. ASSUME WorkerSleep(t) PROVE pool' = pool /\ Alone(t)
    <3>1. pool' = pool /\ pc' = [pc EXCEPT ![t] = "sleep"] /\ pc[t] # "none" /\ "sleep" # "none"
      BY <2>2 DEF WorkerSleep, Goto, poolVars
    <3> QED BY <3>1, Zenon DEF Alone
  <2>3. ASSUME WorkerTimeout(t) PROVE pool' = pool /\ Alone(t)
    <3>1. pool' = pool /\ pc' = [pc EXCEPT ![t] = "timeout"] /\ pc[t] # "none" /\ "timeout" # "none"
      BY <2>3 DEF WorkerTimeout, Goto, poolVars
    <3> QED BY <3>1, Zenon DEF Alone
  <2>4. ASSUME WorkerTimedOut(t) PROVE pool' = pool /\ Alone(t)
    <3>1. PICK to \in {"leave", "locked"} : pool' = pool /\ pc' = [pc EXCEPT ![t] = to] /\ pc[t] # "none"
      BY <2>4 DEF WorkerTimedOut, poolVars
    <3>2. to # "none"
      OBVIOUS
    <3> QED BY <3>1, <3>2, Zenon DEF Alone
  <2> QED BY <1>2, <2>1, <2>2, <2>3, <2>4, Zenon DEF QuietWork
<1>3. CASE t = TimerThread /\ QuietTimer
  <2>0. t \notin Workers /\ pc = [pc EXCEPT ![t] = pc[t]]
    BY <1>3, Kinds, Parts DEF PlacesOK
  <2>1. ASSUME NEW o \in Timers, TimerExpires(o) PROVE pool' = pool /\ Alone(t)
    BY <1>3, <2>0, <2>1, Zenon DEF TimerExpires, Alone, poolVars
  <2>2. ASSUME TimerThreadEnds PROVE pool' = pool /\ Alone(t)
    BY <1>3, <2>0, <2>2, Zenon DEF TimerThreadEnds, Alone, poolVars
  <2> QED BY <1>3, <2>1, <2>2, Zenon DEF QuietTimer
<1> QED BY <1>1, <1>2, <1>3, Zenon DEF Quiet

LEMMA PoolQuiet ==
  ASSUME IInv, NEW t \in Threads, Quiet(t)
  PROVE  PoolOK(t) /\ pool'.busy = pool.busy
<1>1. handle' = handle /\ \A x \in Objects : SameObject(x)
  BY QuietKept DEF Kept
<1>2. UsesEnd /\ Alive' = Alive
  BY <1>1, AliveSame DEF UsesEnd, InUse, SameObject
<1>3. CASE pool' = pool /\ Alone(t)
  BY <1>2, <1>3, AloneIdle, PoolSame
<1>4. CASE t \in Clients /\ \E n \in Limits : TpSetPoolMaxThreads(t, n) \/ TpSetPoolMinThreads(t, n)
  BY <1>2, <1>4, PoolLimits
<1>5. CASE t \in Clients /\ TpReleasePool(t)
  BY <1>1, <1>2, <1>5, PoolShutdown
<1>6. CASE t \in Workers /\ (WorkerLeave(t) \/ TpCallbackMayRunLong(t))
  BY <1>2, <1>6, PoolLeave, PoolLong
<1> QED BY <1>3, <1>4, <1>5, <1>6, QuietAlone

\* The pool has one more object, and a worker.
LEMMA PoolAlloc ==
  ASSUME IInv, NEW c \in Clients, NEW o \in Objects, Alloc(c, o)
  PROVE  PoolOK(c) /\ pool'.busy = pool.busy /\ pool'.workers > 0 /\ Free("pool")
<1>1. PICK ws \in OneThread, to \in Allocating :
        /\ ws = {} <=> pool.workers > 0
        /\ pool' = [Started(ws) EXCEPT !.ref = @ + 1, !.objcount = @ + 1]
        /\ Resume(c, to, ws, {})
  BY DEF Alloc, Allocating
<1>2. /\ ws \in SUBSET Idle /\ {} \in SUBSET Sleepers /\ c \in Threads /\ c \notin Workers /\ PlacesOK /\ ~pool.shutdown
      /\ handle[o] = "none" /\ Free("pool")
  BY OneThreadType, Kinds, Parts DEF Alloc
<1>3. Idle' = Idle \ ws
  BY <1>1, <1>2, IdleResume, Zenon
<1>4. /\ Cardinality(ws) \in Nat /\ (ws # {} => Cardinality(ws) > 0) /\ Cardinality(Workers \ Idle) \in Nat
      /\ Cardinality((Workers \ Idle)') = Cardinality(Workers \ Idle) + Cardinality(ws)
  BY <1>2, <1>3, WorkersStart
<1>5. PICK n \in Nat : n = Cardinality(ws)
  BY <1>4
<1>6. PICK q : q = Started(ws)
  OBVIOUS
<1>7. /\ q \in PoolStruct /\ q.ref = pool.ref + n /\ q.workers = pool.workers + n
      /\ q.objcount = pool.objcount /\ q.busy = pool.busy /\ q.shutdown = pool.shutdown /\ q.state = pool.state
  BY <1>2, <1>5, <1>6, StartedPool
<1>8. PICK r : r = pool' /\ r = [q EXCEPT !.ref = @ + 1, !.objcount = @ + 1]
  BY <1>1, <1>6
<1>9. /\ r \in PoolStruct /\ r.busy = q.busy /\ r.ref = q.ref + 1 /\ r.workers = q.workers
      /\ r.objcount = q.objcount + 1 /\ r.shutdown = q.shutdown /\ r.state = q.state
  <2>1. q \in PoolStruct
    BY <1>7
  <2>2. r \in PoolStruct
    <3>1. PICK x \in Int, y \in Int : x = q.ref + 1 /\ y = q.objcount + 1
      BY <2>1 DEF PoolStruct
    <3>2. r = [q EXCEPT !.ref = x, !.objcount = y]
      BY <1>8, <3>1
    <3> QED BY <2>1, <3>2 DEF PoolStruct
  <2>3. r.busy = q.busy /\ r.ref = q.ref + 1 /\ r.workers = q.workers
    BY <1>8, <2>1 DEF PoolStruct
  <2>4. r.objcount = q.objcount + 1 /\ r.shutdown = q.shutdown /\ r.state = q.state
    BY <1>8, <2>1 DEF PoolStruct
  <2> QED BY <2>2, <2>3, <2>4
<1>10. /\ pool.ref \in Int /\ pool.workers \in Int /\ pool.objcount \in Int /\ pool.workers >= 0 /\ pool.objcount >= 0
       /\ pool.workers = Cardinality(Workers \ Idle) /\ pool.objcount = Cardinality(Alive)
       /\ pool.ref = pool.workers + pool.objcount + (IF pool.shutdown THEN 0 ELSE 1) /\ pool.state = "open"
  BY <1>2, PoolFacts, Zenon
<1>11. IsFiniteSet(Alive') /\ Cardinality(Alive') = Cardinality(Alive) + 1
  <2>1. o \notin Alive
    BY <1>2 DEF IInv, ObjectExact, FlagsExact, Alive
  <2>2. obj'[o].state = "alive" /\ \A x \in Objects \ {o} : obj'[x] = obj[x]
    BY AllocStep, ZenonT(60) DEF Beside
  <2>3. Alive' = Alive \cup {o}
    BY <2>2 DEF Alive
  <2>4. IsFiniteSet(Alive)
    BY DEF IInv, PoolExact
  <2>5. IsFiniteSet(Alive \cup {o}) /\ Cardinality(Alive \cup {o}) = Cardinality(Alive) + 1
    BY <2>1, <2>4, FS_AddElement
  <2> QED BY <2>3, <2>5
<1>12. r.workers = pool.workers + n /\ r.objcount = pool.objcount + 1 /\ r.ref = pool.ref + n + 1 /\ ~r.shutdown /\ r.state = "open" /\ r.busy = pool.busy
  BY <1>2, <1>7, <1>9, <1>10
<1>13. r.workers > 0
  <2>1. CASE ws = {}
    BY <1>1, <1>10, <1>12, <2>1
  <2>2. CASE ws # {}
    BY <1>4, <1>5, <1>10, <1>12, <2>2
  <2> QED BY <2>1, <2>2
<1>14. r.ref = r.workers + r.objcount + 1 /\ r.ref # 0 /\ ~(r.workers < pool.workers)
  <2>1. PICK i \in Int, j \in Int : i = pool.workers /\ j = pool.objcount /\ i >= 0 /\ j >= 0
    BY <1>10
  <2>2. pool.ref = i + j + 1
    BY <1>2, <1>10, <2>1
  <2>3. r.ref = i + j + 1 + n + 1 /\ r.workers = i + n /\ r.objcount = j + 1
    BY <1>12, <2>1, <2>2
  <2>4. i + j + 1 + n + 1 = (i + n) + (j + 1) + 1 /\ i + j + 1 + n + 1 # 0 /\ ~(i + n < i)
    BY <2>1
  <2> QED BY <2>1, <2>3, <2>4
<1>15. r.workers = Cardinality((Workers \ Idle)') /\ r.objcount = Cardinality(Alive')
  BY <1>4, <1>5, <1>10, <1>11, <1>12
<1>16. PoolExact'
  BY <1>8, <1>11, <1>12, <1>14, <1>15 DEF PoolExact
<1> QED BY <1>2, <1>8, <1>9, <1>10, <1>12, <1>13, <1>14, <1>16 DEF PoolOK

\* tp_threadpool_unlock: one object less.
LEMMA PoolDestroy2 ==
  ASSUME IInv, NEW t \in Threads, Destroy2(t)
  PROVE  PoolOK(t) /\ pool'.busy = pool.busy /\ Alone(t)
<1>1. PICK o : o = arg[t]
  OBVIOUS
<1>2. /\ o \in Objects /\ handle' = handle /\ obj'[o].state = "freed" /\ pc[t] = "destroy2"
      /\ \A x \in Objects \ {o} : obj'[x] = obj[x]
  <2>1. o \in Objects /\ handle' = handle /\ obj'[o].state = "freed" /\ pc[t] = "destroy2" /\ Beside(o)
    BY <1>1, Destroy2Step, Zenon
  <2> QED BY <2>1, Zenon DEF Beside
<1>3. obj[o].state = "alive" /\ pool.objcount > 0
  <2>1. obj[o].state = "alive"
    BY <1>1, <1>2 DEF IInv, DestroyerExact, Destroying
  <2> QED BY <1>2, <2>1, PoolFacts
<1>4. Alone(t)
  <2>1. PICK to \in {"locked", "m_wait", "idle"} : pc' = [pc EXCEPT ![t] = to]
    BY DEF Destroy2, Goto
  <2>2. to # "none" /\ pc[t] # "none"
    BY <1>2
  <2> QED BY <2>1, <2>2, Zenon DEF Alone
<1>5. Idle' = Idle
  BY <1>4, AloneIdle
<1>6. PICK q : q = [pool EXCEPT !.objcount = @ - 1]
  OBVIOUS
<1>7. /\ pool \in PoolStruct /\ pool.ref \in Int /\ pool.workers \in Int /\ pool.objcount \in Int
      /\ pool.workers = Cardinality(Workers \ Idle) /\ pool.objcount = Cardinality(Alive)
      /\ pool.ref = pool.workers + pool.objcount + (IF pool.shutdown THEN 0 ELSE 1)
      /\ pool.state = "open" /\ pool.workers >= 0
  BY <1>3, PoolFacts, Zenon
<1>8. /\ q \in PoolStruct /\ q.ref = pool.ref /\ q.workers = pool.workers /\ q.objcount = pool.objcount - 1
      /\ q.shutdown = pool.shutdown /\ q.state = pool.state /\ q.busy = pool.busy
  <2>1. q \in PoolStruct
    BY <1>6, <1>7 DEF PoolStruct
  <2>2. q.ref = pool.ref /\ q.workers = pool.workers /\ q.objcount = pool.objcount - 1
    BY <1>6, <1>7 DEF PoolStruct
  <2>3. q.shutdown = pool.shutdown /\ q.state = pool.state /\ q.busy = pool.busy
    BY <1>6, <1>7 DEF PoolStruct
  <2> QED BY <2>1, <2>2, <2>3
<1>9. PICK r : r = pool' /\ r = PoolRelease(q)
  BY <1>6 DEF Destroy2
<1>10. /\ r \in PoolStruct /\ r.busy = q.busy /\ r.ref = q.ref - 1 /\ r.workers = q.workers
       /\ r.objcount = q.objcount /\ r.shutdown = q.shutdown /\ r.state = (IF q.ref = 1 THEN "freed" ELSE q.state)
  BY <1>8, <1>9, ReleaseRecord
<1>11. /\ r.ref = r.workers + r.objcount + (IF r.shutdown THEN 0 ELSE 1) /\ (r.state = "freed" <=> r.ref = 0)
       /\ ~(r.objcount > pool.objcount) /\ ~(r.workers < pool.workers)
  <2>1. r.workers = pool.workers /\ r.objcount = pool.objcount - 1 /\ r.ref = pool.ref - 1 /\ r.shutdown = pool.shutdown
    BY <1>8, <1>10
  <2>2. r.state = "freed" <=> pool.ref = 1
    BY <1>7, <1>8, <1>10
  <2> QED BY <1>7, <2>1, <2>2
<1>12. IsFiniteSet(Alive') /\ Cardinality(Alive') = Cardinality(Alive) - 1
  <2>1. o \in Alive /\ IsFiniteSet(Alive)
    BY <1>2, <1>3 DEF IInv, PoolExact, Alive
  <2>2. Alive' = Alive \ {o}
    BY <1>2 DEF Alive
  <2>3. IsFiniteSet(Alive \ {o}) /\ Cardinality(Alive \ {o}) = Cardinality(Alive) - 1
    BY <2>1, FS_RemoveElement
  <2> QED BY <2>2, <2>3
<1>13. PoolExact'
  <2>1. r.workers = Cardinality(Workers \ Idle') /\ r.objcount = Cardinality(Alive')
    BY <1>5, <1>7, <1>8, <1>10, <1>12
  <2>2. r.shutdown => \A x \in Objects : ~InUse(x)'
    BY <1>2, <1>8, <1>10 DEF IInv, PoolExact, InUse
  <2> QED BY <1>9, <1>11, <1>12, <2>1, <2>2 DEF PoolExact
<1>14. pool.state # "freed" /\ pool'.busy = pool.busy
  BY <1>7, <1>8, <1>9, <1>10
<1>15. UsesEnd
  BY <1>2 DEF UsesEnd, InUse
<1> QED BY <1>4, <1>8, <1>9, <1>10, <1>11, <1>13, <1>14, <1>15 DEF PoolOK, UsesEnd

\* Steps of the clients that leave the pool alone.
LEMMA ClientsAlone ==
  ASSUME IInv, NEW c \in Clients,
         \/ TpReleaseCleanupGroupMembers(c) \/ AllocTimerFails(c) \/ AllocGroup(c) \/ Unref(c) \/ MemberEach(c) \/ MemberRelease(c)
         \/ \E o : Cancels(c, o)
  PROVE  pool' = pool /\ Alone(c)
<1>0. c \notin Workers
  BY Kinds
<1>1. ASSUME TpReleaseCleanupGroupMembers(c) PROVE pool' = pool /\ Alone(c)
  BY <1>0, <1>1, Zenon DEF TpReleaseCleanupGroupMembers, Goto, Alone, poolVars
<1>2. ASSUME AllocTimerFails(c) PROVE pool' = pool /\ Alone(c)
  BY <1>0, <1>2, Zenon DEF AllocTimerFails, Goto, Alone, poolVars
<1>3. ASSUME AllocGroup(c) PROVE pool' = pool /\ Alone(c)
  BY <1>0, <1>3, Zenon DEF AllocGroup, Goto, Alone, poolVars
<1>4. ASSUME Unref(c) PROVE pool' = pool /\ Alone(c)
  BY <1>0, <1>4, Zenon DEF Unref, Goto, Alone, poolVars
<1>5. ASSUME MemberRelease(c) PROVE pool' = pool /\ Alone(c)
  BY <1>0, <1>5, Zenon DEF MemberRelease, Goto, Alone, poolVars
<1>6. ASSUME MemberEach(c) PROVE pool' = pool /\ Alone(c)
  <2>1. pc = [pc EXCEPT ![c] = pc[c]]
    BY Parts, Kinds DEF PlacesOK
  <2>2. pool' = pool /\ (pc' = pc \/ \E to : pc' = [pc EXCEPT ![c] = to])
    BY <1>6, Zenon DEF MemberEach, poolVars
  <2> QED BY <1>0, <2>1, <2>2, Zenon DEF Alone
<1>7. ASSUME NEW o, Cancels(c, o) PROVE pool' = pool /\ Alone(c)
  <2>1. ASSUME TpWaitFor(c, o, TRUE) PROVE pool' = pool /\ Alone(c)
    <3>1. pool' = pool /\ Goto(c, "idle", "w_check")
      BY <2>1 DEF TpWaitFor
    <3> QED BY <1>0, <3>1, Zenon DEF Goto, Alone
  <2>2. ASSUME MemberCancel(c) PROVE pool' = pool /\ Alone(c)
    BY <1>0, <2>2, Zenon DEF MemberCancel, Goto, Alone
  <2> QED BY <1>7, <2>1, <2>2, Zenon DEF Cancels
<1> QED BY <1>1, <1>2, <1>3, <1>4, <1>5, <1>6, <1>7, Zenon

\* What those steps do to the use and the life of the objects.
LEMMA ClientsUse ==
  ASSUME IInv, NEW c \in Clients,
         \/ TpReleaseCleanupGroupMembers(c) \/ AllocTimerFails(c) \/ AllocGroup(c) \/ Unref(c) \/ MemberEach(c) \/ MemberRelease(c)
         \/ \E o : Cancels(c, o)
  PROVE  UsesEnd /\ Alive' = Alive
<1>0. TypeOK
  BY DEF IInv
<1>1. ASSUME NEW o \in Objects, \A x \in Objects \ {o} : obj'[x] = obj[x] /\ handle'[x] = handle[x], obj'[o].state = obj[o].state,
             handle'[o] = "closed" \/ handle'[o] = handle[o] \/ InUse(o)
      PROVE  UsesEnd /\ Alive' = Alive
  <2>1. \A x \in Objects : obj'[x].state = obj[x].state
    BY <1>1
  <2>2. UsesEnd
    BY <1>1 DEF UsesEnd, InUse
  <2> QED BY <2>1, <2>2, AliveSame
<1>2. ASSUME TpReleaseCleanupGroupMembers(c) PROVE UsesEnd /\ Alive' = Alive
  <2>1. obj' = obj /\ \A x \in Objects : handle'[x] = IF x \in Grouped /\ handle[x] = "live" THEN "closing" ELSE handle[x]
    BY <1>2, ReleaseMembersStep
  <2>2. UsesEnd
    BY <2>1 DEF UsesEnd, InUse
  <2> QED BY <2>1, <2>2, AliveSame
<1>3. PICK o : o = arg[c]
  OBVIOUS
<1>4. ASSUME AllocTimerFails(c) PROVE UsesEnd /\ Alive' = Alive
  <2>1. o \in Objects /\ Beside(o)
    BY <1>3, <1>4, AllocFailsStep, Zenon
  <2>2. handle'[o] = "closed" /\ obj'[o].state = obj[o].state
    BY <1>3, <1>4, AllocFailsStep
  <2> QED BY <1>1, <2>1, <2>2, Zenon DEF Beside
<1>5. ASSUME AllocGroup(c) PROVE UsesEnd /\ Alive' = Alive
  <2>1. o \in Objects /\ Beside(o) /\ handle[o] = "alloc" /\ obj' = obj
    BY <1>3, <1>5, AllocGroupStep, Zenon
  <2>2. InUse(o) /\ obj'[o].state = obj[o].state
    BY <2>1 DEF InUse
  <2> QED BY <1>1, <2>1, <2>2, Zenon DEF Beside
<1>6. ASSUME Unref(c) PROVE UsesEnd /\ Alive' = Alive
  <2>1. o \in Objects /\ Beside(o) /\ handle'[o] = "closed" /\ obj'[o].state = obj[o].state
    BY <1>3, <1>6, UnrefStep, ZenonT(60)
  <2> QED BY <1>1, <2>1, Zenon DEF Beside
<1>7. ASSUME MemberRelease(c) PROVE UsesEnd /\ Alive' = Alive
  <2>1. o \in Objects /\ Beside(o)
    BY <1>3, <1>7, MemberReleaseStep, Zenon
  <2>2. (handle'[o] = "closed" \/ handle'[o] = handle[o]) /\ obj'[o].state = obj[o].state
    BY <1>3, <1>7, MemberReleaseStep
  <2> QED BY <1>1, <2>1, <2>2, Zenon DEF Beside
<1>8. ASSUME MemberEach(c) PROVE UsesEnd /\ Alive' = Alive
  <2>1. PICK m : m = Head(members)
    OBVIOUS
  <2>2. m \in Objects /\ handle' = handle /\ \A x \in Objects \ {m} : obj'[x] = obj[x]
    BY <1>8, <2>1, MemberEachStep, Zenon
  <2>3. obj'[m].state = obj[m].state
    <3>1. CASE Dying(m)
      BY <1>8, <2>1, <3>1, MemberEachStep
    <3>2. CASE ~Dying(m)
      BY <1>8, <2>1, <3>2, MemberEachStep, Zenon
    <3> QED BY <3>1, <3>2
  <2> QED BY <1>1, <2>2, <2>3, Zenon
<1>9. ASSUME NEW x, Cancels(c, x) PROVE UsesEnd /\ Alive' = Alive
  <2>1. x \in Objects /\ Cancel(x) /\ handle' = handle
    BY <1>9, CancelStep, Zenon
  <2>2. obj'[x].state = obj[x].state /\ \A y \in Objects \ {x} : obj'[y] = obj[y]
    BY <1>0, <2>1, CancelObject, Zenon
  <2> QED BY <1>1, <2>1, <2>2, Zenon
<1> QED BY <1>2, <1>4, <1>5, <1>6, <1>7, <1>8, <1>9, Zenon

LEMMA PoolBusy ==
  ASSUME IInv, NEW w \in Workers, pc[w] # "none", Idle' = Idle, Alive' = Alive, UsesEnd, NEW n \in Int, pool' = [pool EXCEPT !.busy = @ + n]
  PROVE  PoolOK(w) /\ pool'.busy = pool.busy + n
<1>1. pool \in PoolStruct /\ pool.workers > 0 /\ pool.ref \in Int /\ pool.workers \in Int
  BY PoolFacts
<1>2. pool.ref > 0
  BY <1>1, PoolFacts, Zenon
<1>3. /\ pool' \in PoolStruct /\ pool'.busy = pool.busy + n /\ pool'.ref = pool.ref /\ pool'.workers = pool.workers
      /\ pool'.objcount = pool.objcount /\ pool'.shutdown = pool.shutdown /\ pool'.state = pool.state
  BY <1>1, BusyRecord
<1>4. {} \in SUBSET Idle /\ Idle' = Idle \ {}
  OBVIOUS
<1>5. Cardinality({}) = 0
  BY FS_EmptySet
<1>6. pool'.ref = pool.ref + Cardinality({}) /\ pool'.workers = pool.workers + Cardinality({})
  BY <1>1, <1>3, <1>5
<1>7. PoolOK(w)
  BY <1>2, <1>3, <1>4, <1>6, PoolStarts, Zenon
<1> QED BY <1>3, <1>7

\* A worker takes an object, and comes back.
LEMMA PoolTake ==
  ASSUME IInv, NEW w \in Workers, WorkerTake(w), NEW o, o = NextItem
  PROVE  PoolOK(w) /\ pool'.busy = pool.busy + (IF obj[o].pending > 1 THEN 1 ELSE 0)
<1>0. TypeOK /\ QueuesExact /\ w \in Threads
  BY Kinds DEF IInv
<1>1. handle' = handle /\ pc[w] \in {"start", "wake", "locked"}
  BY TakeStep, Zenon
<1>2. o \in Objects /\ obj'[o].state = obj[o].state /\ \A x \in Objects \ {o} : obj'[x] = obj[x]
  BY <1>0, TakeObject, Zenon
<1>3. UsesEnd /\ Alive' = Alive
  BY <1>1, <1>2, AliveSame DEF UsesEnd, InUse
<1>4. pc' = [pc EXCEPT ![w] = "callback"] /\ pc[w] # "none" /\ "callback" # "none"
  BY <1>1 DEF WorkerTake
<1>5. Idle' = Idle
  BY <1>0, <1>4, IdleGoto, Parts, Zenon
<1>6. PICK n \in {0, 1} : n = (IF obj[o].pending > 1 THEN 1 ELSE 0)
  OBVIOUS
<1>7. CASE n = 1
  <2>1. pool' = [pool EXCEPT !.busy = @ + 1] /\ 1 \in Int
    BY <1>6, <1>7 DEF WorkerTake, Busier
  <2>2. PoolOK(w) /\ pool'.busy = pool.busy + 1
    BY <1>3, <1>4, <1>5, <2>1, PoolBusy, Zenon
  <2> QED BY <1>6, <1>7, <2>2
<1>8. CASE n = 0
  <2>1. pool' = pool
    BY <1>6, <1>8 DEF WorkerTake
  <2>2. PoolOK(w)
    BY <1>3, <1>5, <2>1, PoolSame, Zenon
  <2>3. pool.busy + 0 = pool.busy
    BY PoolFacts DEF PoolStruct
  <2> QED BY <1>6, <1>8, <2>1, <2>2, <2>3
<1> QED BY <1>7, <1>8

\* Who waits for an object is a client.
LEMMA WokenClients ==
  ASSUME NEW o
  PROVE  ObjectWoken(o) \subseteq Clients /\ GroupWoken(o) \subseteq Clients
BY DEF ObjectWoken, GroupWoken, Woken

LEMMA PoolReturn ==
  ASSUME IInv, NEW w \in Workers, CallbackReturns(w)
  PROVE  PoolOK(w) /\ pool'.busy = pool.busy - 1
<1>1. PICK o : o = arg[w]
  OBVIOUS
<1>2. o \in Objects /\ handle' = handle /\ pc[w] = "callback"
  BY <1>1, ReturnStep, Zenon
<1>3. obj'[o].state = obj[o].state /\ \A x \in Objects \ {o} : obj'[x] = obj[x]
  <2>1. TypeOK
    BY DEF IInv
  <2> QED BY <1>1, <1>2, <2>1, ReturnObject, Zenon
<1>4. UsesEnd /\ Alive' = Alive
  BY <1>2, <1>3, AliveSame DEF UsesEnd, InUse
<1>5. pc'[w] \in {"destroy", "locked"} /\ Others(w)
  <2>1. pc'[w] = (IF obj[o].ref = 1 THEN "destroy" ELSE "locked") /\ Others(w)
    BY <1>1, ReturnStep, Zenon
  <2> QED BY <2>1
<1>6. \A u \in Workers \ {w} : pc'[u] = pc[u]
  <2> SUFFICES ASSUME NEW u \in Workers \ {w} PROVE pc'[u] = pc[u]
    OBVIOUS
  <2>1. u \notin GroupWoken(o) /\ u \notin ObjectWoken(o) /\ u \in Threads
    BY WokenClients, Kinds
  <2>2. pc' = [t \in Threads |->
              CASE t = w -> IF obj[o].ref = 1 THEN "destroy" ELSE "locked"
                [] t \in GroupWoken(o) -> "m_wait"
                [] inst[w].associated /\ t \in ObjectWoken(o) -> "w_check"
                [] OTHER -> pc[t]]
    BY <1>1 DEF CallbackReturns
  <2> QED BY <2>1, <2>2
<1>7. Idle' = Idle
  BY <1>2, <1>5, <1>6 DEF Idle
<1>8. pool' = [pool EXCEPT !.busy = @ + (-1)] /\ -1 \in Int /\ pc[w] # "none"
  <2>1. pool' = [pool EXCEPT !.busy = @ - 1]
    BY DEF CallbackReturns
  <2>2. pool.busy - 1 = pool.busy + (-1)
    BY PoolFacts DEF PoolStruct
  <2> QED BY <1>2, <2>1, <2>2
<1>9. PoolOK(w) /\ pool'.busy = pool.busy + (-1)
  BY <1>4, <1>7, <1>8, PoolBusy, Zenon
<1>10. pool.busy + (-1) = pool.busy - 1
  BY PoolFacts DEF PoolStruct
<1> QED BY <1>9, <1>10

LEMMA PoolDisassociate ==
  ASSUME IInv, NEW w \in Workers, TpDisassociateCallback(w)
  PROVE  PoolOK(w) /\ pool' = pool
<1>1. PICK o : o = arg[w]
  OBVIOUS
<1>2. o \in Objects /\ handle' = handle /\ pool' = pool
  BY <1>1, DisassociateStep, Zenon
<1>3. obj'[o].state = obj[o].state /\ \A x \in Objects \ {o} : obj'[x] = obj[x]
  <2>1. TypeOK
    BY DEF IInv
  <2> QED BY <1>1, <1>2, <2>1, DisassociateObject, Zenon
<1>4. UsesEnd /\ Alive' = Alive
  BY <1>2, <1>3, AliveSame DEF UsesEnd, InUse
<1>5. \A u \in Workers : pc'[u] = pc[u]
  <2>1. pc' = [c \in Threads |-> IF c \in ObjectWoken(o) THEN "w_check" ELSE pc[c]]
    BY <1>1 DEF TpDisassociateCallback
  <2>2. \A u \in Workers : u \in Threads /\ u \notin ObjectWoken(o)
    BY WokenClients, Kinds
  <2> QED BY <2>1, <2>2
<1>6. Idle' = Idle
  BY <1>5 DEF Idle
<1> QED BY <1>2, <1>4, <1>6, PoolSame

LEMMA PoolReleases ==
  ASSUME IInv, NEW w \in Workers, CallbackReleases(w)
  PROVE  PoolOK(w)
<1>1. PICK o : o = arg[w]
  OBVIOUS
<1>2. o \in Objects /\ Beside(o) /\ handle'[o] = "closed" /\ obj'[o].state = obj[o].state /\ pool' = pool /\ pc' = pc
  BY <1>1, CallbackReleasesStep, Zenon
<1>3. UsesEnd /\ Alive' = Alive /\ Idle' = Idle
  BY <1>2, AliveSame DEF UsesEnd, InUse, Beside, Idle
<1> QED BY <1>2, <1>3, PoolSame

----------------------------------------
(* The workers, and the items that they see *)

LEMMA CalmClient ==
  ASSUME NEW t \in Threads \ Workers, Others(t), PoolOK(t), queue' = queue \/ Free("pool"),
         \A o \in Objects : obj'[o].pending > 0 => obj[o].pending > 0
  PROVE  Calm(t)
BY DEF Calm

LEMMA CalmWorkers ==
  ASSUME IInv, NEW w \in Workers, QuietWork(w)
  PROVE  /\ WorkerExact(w)'
         /\ Queued # <<>> => pc'[w] \notin Asleep \/ pc[w] \in Asleep
<1>0. Quiet(w) /\ w \in Threads
  BY Kinds DEF Quiet
<1>1. queue' = queue /\ Queued' = Queued
  BY <1>0, QuietKept DEF Kept, Queued
<1>2. WorkerExact(w)
  BY DEF IInv
<1>3. ASSUME WorkerNoItem(w)
      PROVE  WorkerExact(w)' /\ (Queued # <<>> => pc'[w] \notin Asleep \/ pc[w] \in Asleep)
  <2>1. pc'[w] = NoItem /\ pool' = pool /\ Queued = <<>>
    BY <1>3, WorkerMoves DEF WorkerNoItem, poolVars, Moved
  <2>2. pc'[w] # "callback" /\ (pc'[w] = "leave" => pool'.shutdown)
    BY <2>1 DEF NoItem
  <2> QED BY <1>1, <2>1, <2>2 DEF WorkerExact
<1>4. ASSUME WorkerSleep(w)
      PROVE  WorkerExact(w)' /\ (Queued # <<>> => pc'[w] \notin Asleep \/ pc[w] \in Asleep)
  <2>1. pc'[w] = "sleep" /\ pc[w] = "to_sleep"
    BY <1>4, WorkerMoves DEF Moved
  <2> QED BY <1>2, <2>1 DEF WorkerExact
<1>5. ASSUME WorkerTimeout(w)
      PROVE  WorkerExact(w)' /\ (Queued # <<>> => pc'[w] \notin Asleep \/ pc[w] \in Asleep)
  <2>1. pc'[w] = "timeout"
    BY <1>5, WorkerMoves DEF Moved
  <2> QED BY <2>1 DEF WorkerExact, Asleep
<1>6. ASSUME WorkerTimedOut(w)
      PROVE  WorkerExact(w)' /\ (Queued # <<>> => pc'[w] \notin Asleep \/ pc[w] \in Asleep)
  <2>1. pc'[w] = (IF MayTerminate THEN "leave" ELSE "locked") /\ pool' = pool
    BY <1>6, WorkerMoves DEF WorkerTimedOut, poolVars, Moved
  <2>2. CASE MayTerminate
    <3>1. Queued = <<>> /\ (pool.workers > 1 \/ pool.objcount = 0)
      <4>1. pool.workers \in Int /\ pool.min \in Nat
        BY Fields DEF IInv
      <4> QED BY <2>2, <4>1 DEF MayTerminate, Higher
    <3> QED BY <1>1, <2>1, <2>2, <3>1 DEF WorkerExact
  <2>3. CASE ~MayTerminate
    BY <2>1, <2>3 DEF WorkerExact, Asleep
  <2> QED BY <2>2, <2>3
<1>7. ASSUME WorkerLeave(w)
      PROVE  WorkerExact(w)' /\ (Queued # <<>> => pc'[w] \notin Asleep \/ pc[w] \in Asleep)
  <2>1. pc'[w] = "none" /\ pc[w] = "leave"
    BY <1>7, WorkerMoves DEF Moved
  <2> QED BY <2>1 DEF WorkerExact, Asleep
<1>8. ASSUME TpCallbackMayRunLong(w)
      PROVE  WorkerExact(w)' /\ (Queued # <<>> => pc'[w] \notin Asleep \/ pc[w] \in Asleep)
  <2>1. pc'[w] = "callback" /\ pc[w] = "callback" /\ arg'[w] = arg[w]
    BY <1>8, CallbackMoves DEF Moved
  <2> QED BY <1>2, <2>1 DEF WorkerExact, Asleep
<1> QED BY <1>3, <1>4, <1>5, <1>6, <1>7, <1>8, Zenon DEF QuietWork

LEMMA CalmQuiet ==
  ASSUME IInv, NEW t \in Threads, Quiet(t)
  PROVE  Calm(t)
<1>1. Others(t) /\ PoolOK(t)
  BY QuietMoves, PoolQuiet, Zenon
<1>2. queue' = queue /\ \A o \in Objects : obj'[o].pending = obj[o].pending
  BY QuietKept DEF Kept, SameObject
<1>3. t \in Workers => QuietWork(t)
  BY Kinds, Zenon DEF Quiet
<1>4. t \in Workers => WorkerExact(t)' /\ (Queued # <<>> => pc'[t] \notin Asleep \/ pc[t] \in Asleep)
  BY <1>3, CalmWorkers, Zenon
<1> QED BY <1>1, <1>2, <1>4 DEF Calm

LEMMA CalmDestroy ==
  ASSUME IInv, NEW t \in Threads, Destroy(t) \/ Destroy2(t)
  PROVE  Calm(t)
<1>1. PICK o : o = arg[t]
  OBVIOUS
<1>2. CASE Destroy(t)
  <2>1. obj' = obj /\ handle' = handle /\ pool' = pool /\ queue' = queue /\ Others(t) /\ pc'[t] = "destroy2"
    BY <1>1, <1>2, DestroyStep, Zenon
  <2>2. UsesEnd /\ Alive' = Alive
    BY <2>1, AliveSame DEF UsesEnd, InUse
  <2>3. pc' = [pc EXCEPT ![t] = "destroy2"] /\ pc[t] # "none" /\ "destroy2" # "none"
    BY <1>2 DEF Destroy, Goto
  <2>4. Idle' = Idle
    BY <2>3, IdleGoto, Parts, Zenon
  <2>5. PoolOK(t)
    BY <2>1, <2>2, <2>4, PoolSame, Zenon
  <2> QED BY <2>1, <2>5 DEF Calm, WorkerExact, Asleep
<1>3. CASE Destroy2(t)
  <2>1. PoolOK(t)
    BY <1>3, PoolDestroy2, Zenon
  <2>2. o \in Objects /\ Beside(o) /\ Others(t)
    BY <1>1, <1>3, Destroy2Step, Zenon
  <2>3. obj'[o].pending = obj[o].pending /\ pc'[t] \in {"locked", "m_wait", "idle"}
    BY <1>1, <1>3, Destroy2Step
  <2>4. \A x \in Objects : obj'[x].pending > 0 => obj[x].pending > 0
    BY <2>2, <2>3 DEF Beside
  <2>5. queue' = queue
    BY <2>2 DEF Beside
  <2> QED BY <2>1, <2>2, <2>3, <2>4, <2>5 DEF Calm, WorkerExact, Asleep
<1> QED BY <1>2, <1>3

LEMMA CalmClients ==
  ASSUME IInv, NEW c \in Clients,
         \/ TpReleaseCleanupGroupMembers(c) \/ AllocTimerFails(c) \/ AllocGroup(c) \/ Unref(c) \/ MemberEach(c) \/ MemberRelease(c)
         \/ \E o : Cancels(c, o)
  PROVE  Calm(c)
<1>0. c \in Threads \ Workers /\ c \in Threads /\ TypeOK /\ QueuesExact
  BY Kinds DEF IInv
<1>1. PoolOK(c)
  <2>1. pool' = pool /\ Alone(c)
    BY ClientsAlone, Zenon
  <2>2. UsesEnd /\ Alive' = Alive
    BY ClientsUse, Zenon
  <2>3. Idle' = Idle
    BY <1>0, <2>1, AloneIdle, Zenon
  <2> QED BY <2>1, <2>2, <2>3, PoolSame, Zenon
<1>2. ASSUME NEW o \in Objects, Beside(o), obj'[o].pending = obj[o].pending, Others(c) PROVE Calm(c)
  <2>1. queue' = queue /\ \A x \in Objects : obj'[x].pending > 0 => obj[x].pending > 0
    BY <1>2 DEF Beside
  <2> QED BY <1>0, <1>1, <1>2, <2>1, CalmClient, Zenon
<1>3. ASSUME TpReleaseCleanupGroupMembers(c) PROVE Calm(c)
  <2>1. obj' = obj /\ queue' = queue /\ Others(c)
    BY <1>3, ReleaseMembersStep
  <2> QED BY <1>0, <1>1, <2>1, CalmClient
<1>4. PICK a : a = arg[c]
  OBVIOUS
<1>5. ASSUME AllocTimerFails(c) PROVE Calm(c)
  <2>1. a \in Objects /\ Beside(a)
    BY <1>4, <1>5, AllocFailsStep, Zenon
  <2>2. obj'[a].pending = obj[a].pending /\ Others(c)
    BY <1>4, <1>5, AllocFailsStep
  <2> QED BY <1>2, <2>1, <2>2, Zenon
<1>6. ASSUME AllocGroup(c) PROVE Calm(c)
  <2>1. a \in Objects /\ Beside(a) /\ obj' = obj /\ Others(c)
    BY <1>4, <1>6, AllocGroupStep, Zenon
  <2>2. obj'[a].pending = obj[a].pending
    BY <2>1
  <2> QED BY <1>2, <2>1, <2>2, Zenon
<1>7. ASSUME Unref(c) PROVE Calm(c)
  <2>1. a \in Objects /\ Beside(a) /\ obj'[a].pending = obj[a].pending /\ Others(c)
    BY <1>4, <1>7, UnrefStep, Zenon
  <2> QED BY <1>2, <2>1, Zenon
<1>8. ASSUME MemberRelease(c) PROVE Calm(c)
  <2>1. a \in Objects /\ Beside(a) /\ obj'[a].pending = obj[a].pending /\ Others(c)
    BY <1>4, <1>8, MemberReleaseStep, ZenonT(60)
  <2> QED BY <1>2, <2>1, Zenon
<1>9. ASSUME MemberEach(c) PROVE Calm(c)
  <2>1. queue' = queue /\ Others(c) /\ \A x \in Objects : obj'[x].pending = obj[x].pending
    BY <1>9, MemberEachStep
  <2> QED BY <1>0, <1>1, <2>1, CalmClient
<1>10. ASSUME NEW o, Cancels(c, o) PROVE Calm(c)
  <2>1. o \in Objects /\ Cancel(o) /\ Others(c)
    BY <1>10, CancelStep, Zenon
  <2>2. Free("pool")
    BY <2>1 DEF Cancel
  <2>3. obj'[o].pending = 0 /\ \A x \in Objects \ {o} : obj'[x] = obj[x]
    BY <1>0, <2>1, CancelObject, Zenon
  <2>4. \A x \in Objects : obj'[x].pending > 0 => obj[x].pending > 0
    BY <2>3
  <2> QED BY <1>0, <1>1, <2>1, <2>2, <2>4, CalmClient, Zenon
<1> QED BY <1>3, <1>5, <1>6, <1>7, <1>8, <1>9, <1>10, Zenon

LEMMA CalmAlloc ==
  ASSUME IInv, NEW c \in Clients, NEW o \in Objects, Alloc(c, o)
  PROVE  Calm(c)
<1>1. c \in Threads \ Workers /\ PoolOK(c)
  BY Kinds, PoolAlloc
<1>2. Beside(o) /\ obj'[o].pending = obj[o].pending /\ Others(c)
  BY AllocStep, Zenon
<1>3. queue' = queue /\ \A x \in Objects : obj'[x].pending > 0 => obj[x].pending > 0
  BY <1>2 DEF Beside
<1> QED BY <1>1, <1>2, <1>3, CalmClient, Zenon

LEMMA CalmCallbacks ==
  ASSUME IInv, NEW w \in Workers, WorkerTake(w) \/ CallbackReturns(w) \/ TpDisassociateCallback(w) \/ CallbackReleases(w)
  PROVE  Calm(w)
<1>0. TypeOK /\ QueuesExact
  BY DEF IInv
<1>1. CASE WorkerTake(w)
  <2>1. PICK o : o = NextItem
    OBVIOUS
  <2>2. PoolOK(w)
    BY <1>1, <2>1, PoolTake, Zenon
  <2>3. pc'[w] = "callback" /\ arg'[w] = o /\ Others(w)
    BY <1>1, <2>1, TakeStep, Zenon
  <2>4. /\ o \in Objects /\ obj[o].pending > 0 /\ \A x \in Objects \ {o} : obj'[x] = obj[x]
    BY <1>0, <1>1, <2>1, TakeObject, Zenon
  <2>5. \A x \in Objects : obj'[x].pending > 0 => obj[x].pending > 0
    BY <2>4
  <2>6. Free("pool") \/ pc[w] = "locked"
    BY <1>1 DEF WorkerTake, AtTop
  <2> QED BY <2>2, <2>3, <2>4, <2>5, <2>6 DEF Calm, WorkerExact, Asleep
<1>2. PICK o : o = arg[w]
  OBVIOUS
<1>3. CASE CallbackReturns(w)
  <2>1. PoolOK(w)
    BY <1>3, PoolReturn, Zenon
  <2>2. o \in Objects /\ queue' = queue /\ Others(w) /\ pc'[w] = (IF obj[o].ref = 1 THEN "destroy" ELSE "locked")
    BY <1>2, <1>3, ReturnStep, Zenon
  <2>3. obj'[o].pending = obj[o].pending /\ \A x \in Objects \ {o} : obj'[x] = obj[x]
    BY <1>0, <1>2, <1>3, <2>2, ReturnObject, Zenon
  <2> QED BY <2>1, <2>2, <2>3 DEF Calm, WorkerExact, Asleep
<1>4. CASE TpDisassociateCallback(w)
  <2>1. PoolOK(w)
    BY <1>4, PoolDisassociate, Zenon
  <2>2. o \in Objects /\ queue' = queue /\ Others(w) /\ pc'[w] = "callback" /\ arg'[w] = o
    BY <1>2, <1>4, DisassociateStep, Zenon
  <2>3. obj'[o].pending = obj[o].pending /\ \A x \in Objects \ {o} : obj'[x] = obj[x]
    BY <1>0, <1>2, <1>4, <2>2, DisassociateObject, Zenon
  <2> QED BY <2>1, <2>2, <2>3 DEF Calm, WorkerExact, Asleep
<1>5. CASE CallbackReleases(w)
  <2>1. PoolOK(w)
    BY <1>5, PoolReleases, Zenon
  <2>2. o \in Objects /\ Beside(o) /\ Others(w) /\ pc' = pc /\ pc[w] = "callback" /\ arg' = arg /\ obj'[o].pending = obj[o].pending
    BY <1>2, <1>5, CallbackReleasesStep, Zenon
  <2> QED BY <1>2, <2>1, <2>2 DEF Calm, WorkerExact, Asleep, Beside
<1> QED BY <1>1, <1>3, <1>4, <1>5

LEMMA CalmStep ==
  ASSUME IInv, Next
  PROVE  \E t \in Threads : Calm(t) \/ \E o : Submits(t, o)
<1>0. Clients \subseteq Threads /\ Workers \subseteq Threads
  BY Kinds
<1>1. ASSUME NEW t \in Threads, Quiet(t) \/ Destroy(t) \/ Destroy2(t) PROVE Calm(t)
  BY <1>1, CalmQuiet, CalmDestroy, Zenon
<1>2. ASSUME NEW c \in Clients,
             \/ TpReleaseCleanupGroupMembers(c) \/ AllocTimerFails(c) \/ AllocGroup(c) \/ Unref(c) \/ MemberEach(c) \/ MemberRelease(c)
             \/ (\E o : Cancels(c, o)) \/ (\E o \in Objects : Alloc(c, o))
      PROVE  Calm(c)
  BY <1>2, CalmClients, CalmAlloc, Zenon
<1>3. ASSUME NEW w \in Workers, WorkerTake(w) \/ CallbackReturns(w) \/ TpDisassociateCallback(w) \/ CallbackReleases(w) PROVE Calm(w)
  BY <1>3, CalmCallbacks, Zenon
<1>4. \/ \E t \in Threads : (\E o : Submits(t, o)) \/ Quiet(t) \/ Destroy(t) \/ Destroy2(t)
      \/ \E c \in Clients :
             \/ TpReleaseCleanupGroupMembers(c) \/ AllocTimerFails(c) \/ AllocGroup(c) \/ Unref(c) \/ MemberEach(c) \/ MemberRelease(c)
             \/ (\E o : Cancels(c, o)) \/ (\E o \in Objects : Alloc(c, o))
      \/ \E w \in Workers : WorkerTake(w) \/ CallbackReturns(w) \/ TpDisassociateCallback(w) \/ CallbackReleases(w)
  BY Cases, Zenon
<1> QED BY <1>0, <1>1, <1>2, <1>3, <1>4, Zenon

\* The thread that asks for a callback is not a worker that turns away.
LEMMA SubmitsWorker ==
  ASSUME IInv, NEW t \in Workers, NEW o, Submits(t, o)
  PROVE  pc[t] = "callback" /\ pc'[t] = "callback" /\ arg'[t] = arg[t]
<1>1. CallbackPosts(t)
  BY Kinds DEF Submits
<1> QED BY <1>1, CallbackMoves, Zenon DEF Moved

\* Who holds the pool's lock is not disturbed.
LEMMA WorkerStays ==
  ASSUME IInv, NEW t \in Threads, Calm(t), NEW w \in Workers \ {t}
  PROVE  WorkerExact(w)'
<1>1. WorkerExact(w) /\ w \in Threads \ {t} /\ w # None
  BY Kinds DEF IInv
<1>2. /\ pc'[w] \in {"callback", "to_sleep", "leave"} => pc'[w] = pc[w] /\ arg'[w] = arg[w]
  BY <1>1 DEF Calm, Others
<1>3. CASE pc'[w] \in {"to_sleep", "leave"}
  <2>1. lock["pool"] = w
    BY <1>2, <1>3 DEF IInv, LocksHeld
  <2>2. ~Free("pool") /\ ~(t \in Workers /\ pc[t] \in {"locked", "leave"})
    BY <1>1, <2>1 DEF IInv, LocksHeld, Free
  <2>3. queue' = queue
    BY <2>2 DEF Calm
  <2>4. Queued' = <<>>
    BY <1>1, <1>2, <1>3, <2>3 DEF WorkerExact, Queued
  <2>5. pc'[w] = "leave" => pool'.shutdown \/ pool'.workers > 1 \/ pool'.objcount = 0
    <3>1. /\ pool.shutdown => pool'.shutdown
          /\ ~(pool'.workers < pool.workers) /\ ~(pool'.objcount > pool.objcount)
          /\ pool' \in PoolStruct /\ PoolExact'
      BY <2>2 DEF Calm, PoolOK
    <3>2. pool'.objcount \in Nat
      BY <3>1, FS_CardinalityType DEF PoolExact
    <3>3. pool.workers \in Int /\ pool.objcount \in Int /\ pool'.workers \in Int
      BY <3>1, PoolFacts DEF PoolStruct
    <3>4. pc[w] = "leave" => pool.shutdown \/ pool.workers > 1 \/ pool.objcount = 0
      BY <1>1 DEF WorkerExact
    <3> QED BY <1>2, <3>1, <3>2, <3>3, <3>4
  <2> QED BY <1>3, <2>4, <2>5 DEF WorkerExact
<1>4. CASE pc'[w] \notin {"to_sleep", "leave"}
  BY <1>1, <1>2, <1>4 DEF WorkerExact
<1> QED BY <1>3, <1>4

LEMMA WorkerStep ==
  ASSUME IInv, Next, NEW w \in Workers
  PROVE  WorkerExact(w)'
<1>1. ASSUME NEW t \in Threads, Calm(t) PROVE WorkerExact(w)'
  <2>1. CASE t = w
    BY <1>1, <2>1 DEF Calm
  <2>2. CASE t # w
    BY <1>1, <2>2, WorkerStays
  <2> QED BY <2>1, <2>2
<1>2. ASSUME NEW t \in Threads, NEW o, Submits(t, o) PROVE WorkerExact(w)'
  <2>0. WorkerExact(w) /\ w \in Threads /\ w # None
    BY Kinds DEF IInv
  <2>1. pc[w] \notin {"to_sleep", "leave"}
    <3>1. Free("pool")
      BY <1>2, SubmitPool, Zenon
    <3> QED BY <2>0, <3>1 DEF Free, IInv, LocksHeld
  <2>2. Others(t)
    BY <1>2, SubmitsMoves, Zenon
  <2>3. pc'[w] \notin {"to_sleep", "leave"} /\ (pc'[w] = "callback" => pc[w] = "callback" /\ arg'[w] = arg[w])
    <3>1. CASE t = w
      <4>1. pc[w] = "callback" /\ pc'[w] = "callback" /\ arg'[w] = arg[w]
        BY <1>2, <3>1, SubmitsWorker, Zenon
      <4> QED BY <4>1
    <3>2. CASE t # w
      BY <2>0, <2>1, <2>2, <3>2 DEF Others
    <3> QED BY <3>1, <3>2
  <2> QED BY <2>0, <2>3 DEF WorkerExact
<1> QED BY <1>1, <1>2, CalmStep

\* An object that is used has a worker ...
LEMMA UsedHasWorker ==
  ASSUME IInv, NEW t \in Threads, PoolOK(t), NEW o \in Objects, InUse(o)'
  PROVE  pool'.workers > 0
<1>1. InUse(o) \/ pool'.workers > 0
  BY DEF PoolOK
<1>2. ASSUME InUse(o) PROVE pool'.workers > 0
  <2>1. /\ pool.workers > 0 /\ pool.workers \in Int /\ pool.objcount \in Int /\ pool'.workers \in Int
    BY <1>2, PoolFacts DEF IInv, ItemsAreSeen, PoolOK, PoolStruct
  <2>2. CASE pool'.workers < pool.workers
    <3>1. t \in Workers /\ pc[t] = "leave" /\ pool'.workers = pool.workers - 1
      BY <2>2 DEF PoolOK
    <3>2. pool.shutdown \/ pool.workers > 1 \/ pool.objcount = 0
      BY <3>1 DEF IInv, WorkerExact
    <3>3. ~pool.shutdown
      BY <1>2 DEF IInv, PoolExact
    <3>4. obj[o].state = "alive"
      BY <1>2, Referenced
    <3>5. pool.objcount > 0
      BY <3>4, PoolFacts, Zenon
    <3> QED BY <2>1, <3>1, <3>2, <3>3, <3>5
  <2> QED BY <2>1, <2>2
<1> QED BY <1>1, <1>2

\* ... and one that is awake sees the items.
LEMMA AwakeStays ==
  ASSUME IInv, NEW t \in Threads, Calm(t), NEW o \in Objects, obj'[o].pending > 0
  PROVE  \E w \in Workers : pc'[w] \notin Asleep
<1>1. obj[o].pending > 0 /\ Others(t)
  BY DEF Calm
<1>2. PICK w \in Workers : pc[w] \notin Asleep
  BY <1>1 DEF IInv, ItemsAreSeen, Asleep
<1>3. Queued # <<>>
  BY <1>1, QueuedPending DEF IInv
<1>4. CASE w = t
  BY <1>2, <1>3, <1>4 DEF Calm
<1>5. CASE w # t
  <2>1. w \in Threads \ {t}
    BY <1>5, Kinds
  <2>2. pc'[w] = pc[w] \/ pc'[w] \in {"start", "wake"}
    BY <1>1, <2>1, Kinds DEF Others
  <2> QED BY <1>2, <2>2 DEF Asleep
<1> QED BY <1>4, <1>5

\* tp_object_submit leaves one awake.
LEMMA SubmitAwake ==
  ASSUME IInv, NEW t \in Threads, NEW o, Submits(t, o)
  PROVE  \E w \in Workers : pc'[w] \notin Asleep
<1>0. PICK to : \E ws \in SUBSET Idle, woken \in SUBSET Sleepers :
                /\ Free("pool") /\ Resume(t, to, ws, woken) /\ (t \in Workers => pc[t] = "callback" /\ to = "callback")
                /\ ws # {} \/ woken # {} \/ Sleepers = {}
                /\ pool' = IF obj[o].pending = 0 THEN Busier(Started(ws)) ELSE Started(ws)
  BY SubmitWorkers, Zenon
<1>1. PICK ws \in SUBSET Idle, woken \in SUBSET Sleepers :
                /\ Free("pool") /\ Resume(t, to, ws, woken) /\ (t \in Workers => pc[t] = "callback" /\ to = "callback")
                /\ ws # {} \/ woken # {} \/ Sleepers = {}
                /\ pool' = IF obj[o].pending = 0 THEN Busier(Started(ws)) ELSE Started(ws)
  BY <1>0, Zenon
<1>2. /\ \A w \in ws : w \in Workers /\ w \in Threads /\ w # t
      /\ \A w \in woken : w \in Workers /\ w \in Threads /\ w # t /\ w \notin ws
  BY <1>1, Kinds DEF Idle, Sleepers
<1>3. pc' = [u \in Threads |-> IF u = t THEN to ELSE IF u \in ws THEN "start"
                               ELSE IF u \in woken THEN "wake" ELSE pc[u]]
  BY <1>1 DEF Resume
<1>4. CASE ws # {}
  <2>1. PICK w \in ws : TRUE
    BY <1>4
  <2>2. w \in Workers /\ pc'[w] = "start"
    BY <1>2, <1>3
  <2> QED BY <2>2 DEF Asleep
<1>5. CASE woken # {}
  <2>1. PICK w \in woken : TRUE
    BY <1>5
  <2>2. w \in Workers /\ pc'[w] = "wake"
    BY <1>2, <1>3
  <2> QED BY <2>2 DEF Asleep
<1>6. CASE ws = {} /\ woken = {} /\ Sleepers = {}
  <2>1. PICK w \in Workers : pc[w] # "none"
    <3>1. pool.workers > 0
      BY SubmitPool, Zenon
    <3>2. pool.workers = Cardinality(Workers \ Idle)
      BY PoolFacts, Zenon
    <3>3. Workers \ Idle # {}
      BY <3>1, <3>2, FS_EmptySet
    <3> QED BY <3>3 DEF Idle
  <2>2. pc[w] # "sleep" /\ pc[w] # "leave"
    BY <1>1, <1>6, Kinds DEF Sleepers, Free, IInv, LocksHeld
  <2>3. pc'[w] \in {pc[w], "callback"}
    BY <1>1, <1>3, <1>6, Kinds
  <2> QED BY <2>1, <2>2, <2>3 DEF Asleep
<1> QED BY <1>1, <1>4, <1>5, <1>6

LEMMA SeenStep ==
  ASSUME IInv, Next
  PROVE  ItemsAreSeen'
<1>1. ASSUME NEW t \in Threads, Calm(t) PROVE ItemsAreSeen'
  <2>1. PoolOK(t)
    BY <1>1 DEF Calm
  <2>2. \A o \in Objects : InUse(o)' => pool'.workers > 0
    BY <2>1, UsedHasWorker
  <2>3. \A o \in Objects : obj'[o].pending > 0 => \E w \in Workers : pc'[w] \notin Asleep
    BY <1>1, AwakeStays
  <2> QED BY <2>2, <2>3 DEF ItemsAreSeen, Asleep
<1>2. ASSUME NEW t \in Threads, NEW o, Submits(t, o) PROVE ItemsAreSeen'
  <2>1. PoolOK(t)
    BY <1>2, SubmitPool, Zenon
  <2>2. \A x \in Objects : InUse(x)' => pool'.workers > 0
    BY <2>1, UsedHasWorker
  <2>3. \E w \in Workers : pc'[w] \notin Asleep
    BY <1>2, SubmitAwake
  <2> QED BY <2>2, <2>3 DEF ItemsAreSeen, Asleep
<1> QED BY <1>1, <1>2, CalmStep

----------------------------------------
(* num_busy_workers *)

LEMMA CallingCounted ==
  /\ IsFiniteSet(Calling) /\ Cardinality(Calling) \in Nat
<1>1. Calling \in SUBSET Workers
  BY DEF Calling
<1> QED BY <1>1, FiniteWorkers, FS_Subset, FS_CardinalityType, Zenon

LEMMA BusyNow ==
  ASSUME IInv
  PROVE  /\ pool.busy \in Int /\ Len(Queued) \in Nat /\ Cardinality(Calling) \in Nat
         /\ pool.busy >= Len(Queued) + Cardinality(Calling)
<1>1. pool.busy \in Int
  BY PoolFacts DEF PoolStruct
<1>2. Len(Queued) \in Nat
  BY QueueNow DEF IInv
<1> QED BY <1>1, <1>2, CallingCounted DEF IInv, BusyCounts, Calling

\* The counter goes with the queue and the callbacks.
LEMMA BusyShift ==
  ASSUME IInv, NEW m \in Nat, m = Len(Queued'), NEW n \in Nat, n = Cardinality(Calling'),
         NEW d \in Int, m <= Len(Queued) + d, NEW e \in Int, n = Cardinality(Calling) + e,
         pool'.busy = pool.busy + (d + e)
  PROVE  BusyCounts'
<1>1. pool'.busy >= m + n
  BY BusyNow, SMTT(20)
<1>2. Calling' = {w \in Workers : pc'[w] = "callback"}
  BY DEF Calling
<1> QED BY <1>1, <1>2 DEF BusyCounts

LEMMA BusySame ==
  ASSUME IInv, Queued' = Queued, Calling' = Calling, pool'.busy = pool.busy
  PROVE  BusyCounts'
BY BusyNow DEF BusyCounts, Calling

LEMMA CallingSame ==
  ASSUME SameRunners
  PROVE  Calling' = Calling
BY DEF SameRunners, Calling

LEMMA SubmitsRunners ==
  ASSUME IInv, NEW t \in Threads, NEW o, Submits(t, o)
  PROVE  SameRunners
<1>1. PlacesOK /\ PlacesOK' /\ Others(t)
  BY SubmitsMoves, Parts, Zenon
<1>2. inst' = inst
  BY SubmitUse, Zenon
<1>3. CASE t \notin Workers
  BY <1>1, <1>2, <1>3, OutsideCallbacks
<1>4. CASE t \in Workers
  <2>1. pc[t] = "callback" /\ pc'[t] = "callback" /\ arg'[t] = arg[t]
    BY <1>4, SubmitsWorker, Zenon
  <2> QED BY <1>1, <1>2, <2>1, Kinds DEF SameRunners, Others
<1> QED BY <1>3, <1>4

LEMMA BusySubmits ==
  ASSUME IInv, NEW t \in Threads, NEW o, Submits(t, o)
  PROVE  BusyCounts'
<1>0. TypeOK /\ QueuesExact
  BY DEF IInv
<1>1. PICK to \in PlacesOf(t) : Submit(t, o, to)
  BY SubmitUse, Zenon
<1>2. o \in Objects
  BY SubmitUse, Zenon
<1>3. PICK d \in {0, 1} : d = (IF obj[o].pending = 0 THEN 1 ELSE 0)
  OBVIOUS
<1>4. Len(Queued') \in Nat /\ Len(Queued') = Len(Queued) + d
  BY <1>0, <1>1, <1>2, <1>3, SubmitQueue
<1>5. Calling' = Calling
  BY SubmitsRunners, CallingSame, Zenon
<1>6. pool'.busy = pool.busy + d
  BY <1>3, SubmitPool
<1>7. Len(Queued') <= Len(Queued) + d /\ d \in Int /\ 0 \in Int /\ d + 0 = d
  BY <1>4, BusyNow
<1>8. Cardinality(Calling') \in Nat /\ Cardinality(Calling') = Cardinality(Calling) + 0
  BY <1>5, BusyNow
<1>9. pool'.busy = pool.busy + (d + 0)
  BY <1>6, <1>7
<1> QED BY <1>4, <1>7, <1>8, <1>9, BusyShift, Zenon

LEMMA BusyCancels ==
  ASSUME IInv, NEW c \in Clients, NEW o, Cancels(c, o)
  PROVE  BusyCounts'
<1>0. TypeOK /\ QueuesExact
  BY DEF IInv
<1>1. o \in Objects /\ Cancel(o) /\ pool' = pool /\ SameRunners
  BY CancelStep, Zenon
<1>2. Len(Queued') \in Nat /\ Len(Queued) \in Nat /\ Len(Queued') <= Len(Queued)
  BY <1>0, <1>1, CancelQueue, Zenon
<1>3. Calling' = Calling
  BY <1>1, CallingSame, Zenon
<1>4. Len(Queued') <= Len(Queued) + 0 /\ 0 \in Int
  BY <1>2
<1>5. Cardinality(Calling') \in Nat /\ Cardinality(Calling') = Cardinality(Calling) + 0 /\ pool'.busy = pool.busy + (0 + 0)
  BY <1>1, <1>3, BusyNow
<1> QED BY <1>2, <1>4, <1>5, BusyShift, Zenon

LEMMA BusyTake ==
  ASSUME IInv, NEW w \in Workers, WorkerTake(w)
  PROVE  BusyCounts'
<1>0. TypeOK /\ QueuesExact
  BY DEF IInv
<1>1. PICK o : o = NextItem
  OBVIOUS
<1>2. pc[w] # "callback" /\ pc'[w] = "callback" /\ OtherRunners(w)
  <2>1. pc[w] \in {"start", "wake", "locked"} /\ pc'[w] = "callback" /\ OtherRunners(w)
    BY <1>1, TakeStep, Zenon
  <2> QED BY <2>1
<1>3. Calling' = Calling \cup {w} /\ w \notin Calling
  BY <1>2 DEF Calling, OtherRunners
<1>4. Cardinality(Calling') = Cardinality(Calling) + 1 /\ Cardinality(Calling') \in Nat
  BY <1>3, CallingCounted, FS_AddElement
<1>5. PICK d \in {-1, 0} : d = (IF obj[o].pending > 1 THEN 0 ELSE -1)
  OBVIOUS
<1>6. Len(Queued') \in Nat /\ Len(Queued') = Len(Queued) + d
  BY <1>0, <1>1, <1>5, TakeQueue
<1>7. pool'.busy = pool.busy + (d + 1)
  BY <1>1, <1>5, PoolTake
<1>8. Len(Queued') <= Len(Queued) + d /\ d \in Int /\ 1 \in Int
  BY <1>6, BusyNow
<1> QED BY <1>4, <1>6, <1>7, <1>8, BusyShift, Zenon

LEMMA BusyReturn ==
  ASSUME IInv, NEW w \in Workers, CallbackReturns(w)
  PROVE  BusyCounts'
<1>1. PICK o : o = arg[w]
  OBVIOUS
<1>2. pc[w] = "callback" /\ pc'[w] # "callback" /\ OtherRunners(w) /\ queue' = queue
  <2>1. pc[w] = "callback" /\ pc'[w] = (IF obj[o].ref = 1 THEN "destroy" ELSE "locked") /\ OtherRunners(w) /\ queue' = queue
    BY <1>1, ReturnStep, Zenon
  <2> QED BY <2>1
<1>3. Calling' = Calling \ {w} /\ w \in Calling
  BY <1>2 DEF Calling, OtherRunners
<1>4. Cardinality(Calling') = Cardinality(Calling) + (-1) /\ Cardinality(Calling') \in Nat
  <2>1. Cardinality(Calling \ {w}) = Cardinality(Calling) - 1 /\ IsFiniteSet(Calling \ {w})
    BY <1>3, CallingCounted, FS_RemoveElement, Zenon
  <2>2. Cardinality(Calling \ {w}) \in Nat
    BY <2>1, FS_CardinalityType, Zenon
  <2> QED BY <1>3, <2>1, <2>2, CallingCounted
<1>5. pool'.busy = pool.busy - 1
  BY PoolReturn, Zenon
<1>6. pool'.busy = pool.busy + (0 + (-1)) /\ 0 \in Int /\ -1 \in Int
  BY <1>5, BusyNow
<1>7. Queued' = Queued
  BY <1>2 DEF Queued
<1>8. Len(Queued') \in Nat /\ Len(Queued') <= Len(Queued) + 0
  BY <1>7, BusyNow
<1> QED BY <1>4, <1>6, <1>8, BusyShift, Zenon

LEMMA BusyStep ==
  ASSUME IInv, Next
  PROVE  BusyCounts'
<1>0. ASSUME queue' = queue, SameRunners, pool'.busy = pool.busy PROVE BusyCounts'
  <2>1. Queued' = Queued
    BY <1>0 DEF Queued
  <2> QED BY <1>0, <2>1, CallingSame, BusySame, Zenon
<1>1. ASSUME NEW t \in Threads, Quiet(t) PROVE BusyCounts'
  <2>1. queue' = queue
    BY <1>1, QuietKept DEF Kept
  <2> QED BY <1>0, <1>1, <2>1, QuietRunners, PoolQuiet, Zenon
<1>2. ASSUME NEW t \in Threads, Destroy(t) PROVE BusyCounts'
  <2>1. queue' = queue /\ pool' = pool /\ SameRunners
    BY <1>2, DestroyStep, Zenon
  <2>2. pool'.busy = pool.busy
    BY <2>1
  <2> QED BY <1>0, <2>1, <2>2, Zenon
<1>3. ASSUME NEW t \in Threads, Destroy2(t) PROVE BusyCounts'
  <2>1. Beside(arg[t]) /\ SameRunners
    BY <1>3, Destroy2Step, Zenon
  <2>2. queue' = queue
    BY <2>1 DEF Beside
  <2>3. pool'.busy = pool.busy
    BY <1>3, PoolDestroy2, Zenon
  <2> QED BY <1>0, <2>1, <2>2, <2>3, Zenon
<1>4. ASSUME NEW c \in Clients, NEW o \in Objects, Alloc(c, o) PROVE BusyCounts'
  <2>1. Beside(o) /\ SameRunners
    BY <1>4, AllocStep, Zenon
  <2>2. queue' = queue
    BY <2>1 DEF Beside
  <2>3. pool'.busy = pool.busy
    BY <1>4, PoolAlloc, Zenon
  <2> QED BY <1>0, <2>1, <2>2, <2>3, Zenon
<1>5. ASSUME NEW c \in Clients,
             TpReleaseCleanupGroupMembers(c) \/ AllocTimerFails(c) \/ AllocGroup(c) \/ Unref(c) \/ MemberEach(c) \/ MemberRelease(c)
      PROVE  BusyCounts'
  <2>1. pool' = pool
    BY <1>5, ClientsAlone, Zenon
  <2>2. pool'.busy = pool.busy
    BY <2>1
  <2>3. PICK a : a = arg[c]
    OBVIOUS
  <2>4. ASSUME TpReleaseCleanupGroupMembers(c) PROVE queue' = queue /\ SameRunners
    BY <2>4, ReleaseMembersStep
  <2>5. ASSUME AllocTimerFails(c) PROVE queue' = queue /\ SameRunners
    <3>1. Beside(a)
      BY <2>3, <2>5, AllocFailsStep, Zenon
    <3> QED BY <2>3, <2>5, <3>1, AllocFailsStep DEF Beside
  <2>6. ASSUME AllocGroup(c) PROVE queue' = queue /\ SameRunners
    <3>1. Beside(a) /\ SameRunners
      BY <2>3, <2>6, AllocGroupStep, Zenon
    <3> QED BY <3>1 DEF Beside
  <2>7. ASSUME Unref(c) PROVE queue' = queue /\ SameRunners
    <3>1. Beside(a) /\ SameRunners
      BY <2>3, <2>7, UnrefStep, Zenon
    <3> QED BY <3>1 DEF Beside
  <2>8. ASSUME MemberEach(c) PROVE queue' = queue /\ SameRunners
    BY <2>8, MemberEachStep
  <2>9. ASSUME MemberRelease(c) PROVE queue' = queue /\ SameRunners
    <3>1. Beside(a) /\ SameRunners
      BY <2>3, <2>9, MemberReleaseStep, Zenon
    <3> QED BY <3>1 DEF Beside
  <2>10. queue' = queue /\ SameRunners
    BY <1>5, <2>4, <2>5, <2>6, <2>7, <2>8, <2>9, Zenon
  <2> QED BY <1>0, <2>2, <2>10, Zenon
<1>6. ASSUME NEW w \in Workers, TpDisassociateCallback(w) PROVE BusyCounts'
  <2>1. queue' = queue /\ pool' = pool /\ pc[w] = "callback" /\ pc'[w] = "callback" /\ OtherRunners(w)
    BY <1>6, DisassociateStep, Zenon
  <2>2. Queued' = Queued /\ Calling' = Calling /\ pool'.busy = pool.busy
    BY <2>1 DEF Queued, Calling, OtherRunners
  <2> QED BY <2>2, BusySame, Zenon
<1>7. ASSUME NEW t \in Threads, NEW o, Submits(t, o) PROVE BusyCounts'
  BY <1>7, BusySubmits, Zenon
<1>8. ASSUME NEW c \in Clients, NEW o, Cancels(c, o) PROVE BusyCounts'
  BY <1>8, BusyCancels, Zenon
<1>9. ASSUME NEW w \in Workers, WorkerTake(w) \/ CallbackReturns(w) PROVE BusyCounts'
  BY <1>9, BusyTake, BusyReturn, Zenon
<1>10. ASSUME NEW w \in Workers, CallbackReleases(w) PROVE BusyCounts'
  <2>1. Beside(arg[w]) /\ SameRunners /\ pool' = pool
    BY <1>10, CallbackReleasesStep, Zenon
  <2>2. queue' = queue /\ pool'.busy = pool.busy
    BY <2>1 DEF Beside
  <2> QED BY <1>0, <2>1, <2>2, Zenon
<1> QED BY <1>1, <1>2, <1>3, <1>4, <1>5, <1>6, <1>7, <1>8, <1>9, <1>10, Cases, Zenon

----------------------------------------
(* The objects *)

LEMMA ObjectNow ==
  ASSUME IInv, NEW o \in Objects
  PROVE  CountsExact(o) /\ FlagsExact(o) /\ SimpleExact(o)
BY DEF IInv, ObjectExact

LEMMA ObjectNext ==
  ASSUME NEW o \in Objects, CountsExact(o)', FlagsExact(o)', SimpleExact(o)'
  PROVE  ObjectExact(o)'
BY DEF ObjectExact

LEMMA RunnersKept ==
  ASSUME SameRunners
  PROVE  \A x : Running(x)' = Running(x) /\ Associates(x)' = Associates(x)
BY DEF SameRunners, Running, Associates

LEMMA OtherRunnersKept ==
  ASSUME NEW w \in Workers, OtherRunners(w), NEW x, ~(pc[w] = "callback" /\ arg[w] = x), ~(pc'[w] = "callback" /\ arg'[w] = x)
  PROVE  Running(x)' = Running(x) /\ Associates(x)' = Associates(x)
BY DEF OtherRunners, Running, Associates

LEMMA ReleasingKept ==
  ASSUME gone' = gone
  PROVE  \A x : Releasing(x)' = Releasing(x)
BY DEF Releasing

LEMMA SubmitterStays ==
  ASSUME NEW t \in Threads, Others(t), NEW x, t \in Clients /\ pc[t] = "a_submit" => arg[t] # x
  PROVE  SubmittersStay(x)
BY Stays DEF SubmittersStay

LEMMA UsersKept ==
  ASSUME SameRunners, gone' = gone
  PROVE  \A x : SameUsers(x)
BY RunnersKept, ReleasingKept DEF SameUsers

LEMMA SimpleStays ==
  ASSUME NEW x \in Objects, SimpleExact(x), obj'[x].pending = obj[x].pending, obj'[x].state = obj[x].state,
         obj[x].shutdown => obj'[x].shutdown, SameUsers(x), SubmittersStay(x),
         handle'[x] = handle[x] \/ handle'[x] \in {"none", "alloc", "closed"}
  PROVE  SimpleExact(x)'
BY DEF SimpleExact, SameUsers, SubmittersStay

LEMMA CountsStay ==
  ASSUME NEW x \in Objects, CountsExact(x), SameUsers(x), InUse(x)' <=> InUse(x), obj'[x].ref = obj[x].ref,
         obj'[x].pending = obj[x].pending, obj'[x].running = obj[x].running, obj'[x].associated = obj[x].associated
  PROVE  CountsExact(x)'
BY DEF CountsExact, SameUsers

LEMMA ObjectStays ==
  ASSUME IInv, NEW x \in Objects, SameObject(x), handle'[x] = handle[x], SameUsers(x), SubmittersStay(x),
         Contains(members', x) => Contains(members, x)
  PROVE  ObjectExact(x)'
<1>1. CountsExact(x) /\ FlagsExact(x) /\ SimpleExact(x)
  BY ObjectNow, Zenon
<1>2. InUse(x)' <=> InUse(x)
  BY DEF InUse
<1>3. CountsExact(x)'
  BY <1>1, <1>2, CountsStay, Zenon DEF SameObject
<1>4. FlagsExact(x)'
  BY <1>1 DEF FlagsExact, SameObject
<1>5. SimpleExact(x)'
  <2>1. obj'[x].pending = obj[x].pending /\ obj'[x].state = obj[x].state /\ (obj[x].shutdown => obj'[x].shutdown)
    BY DEF SameObject
  <2> QED BY <1>1, <2>1, SimpleStays, Zenon
<1> QED BY <1>3, <1>4, <1>5, ObjectNext, Zenon

LEMMA UnchangedObject ==
  ASSUME NEW x, obj'[x] = obj[x]
  PROVE  SameObject(x)
BY DEF SameObject

LEMMA QuietSubmitter ==
  ASSUME IInv, NEW t \in Clients, Quiet(t)
  PROVE  pc[t] # "a_submit"
<1>1. QuietCall(t)
  BY Kinds, Zenon DEF Quiet
<1>2. (\E n \in Limits : TpSetPoolMaxThreads(t, n) \/ TpSetPoolMinThreads(t, n)) \/ TpReleasePool(t)
         \/ TpReleaseCleanupGroup(t) => pc[t] = "idle"
  BY CallMoves, Zenon DEF Moved
<1>3. \A o \in Objects : TpRelease(t, o) \/ TpWaitFor(t, o, FALSE) => pc[t] = "idle"
  BY CallMoves, Zenon DEF Moved
<1>4. \A o \in Objects, later, now, period \in BOOLEAN :
        TpSetTimer(t, o, later, now, period) => pc[t] = "idle"
  BY CallMoves DEF Moved
<1>5. (AllocTimer(t) => pc[t] = "a_timer") /\ (ObjectWait(t) => pc[t] = "w_check")
  BY DEF AllocTimer, ObjectWait, Goto
<1>6. /\ MemberTimer(t) => pc[t] = "m_timer"
      /\ MembersMoved(t) => pc[t] = "m_each"
      /\ MemberWait(t) \/ MembersReleased(t) => pc[t] = "m_wait"
  BY DEF MemberTimer, MembersMoved, MemberWait, MembersReleased, Goto
<1>7. pc[t] \in {"idle", "a_timer", "w_check", "m_timer", "m_each", "m_wait"}
  BY <1>1, <1>2, <1>3, <1>4, <1>5, <1>6 DEF QuietCall
<1> QED BY <1>7

LEMMA ObjectQuiet ==
  ASSUME IInv, NEW t \in Threads, Quiet(t), NEW x \in Objects
  PROVE  ObjectExact(x)'
<1>1. SameObject(x) /\ members' = members /\ handle' = handle /\ gone' = gone
  BY QuietKept, Zenon DEF Kept
<1>2. SameRunners /\ Others(t)
  BY QuietRunners, QuietMoves, Zenon
<1>3. SameUsers(x)
  BY <1>1, <1>2, UsersKept, Zenon
<1>4. SubmittersStay(x)
  BY <1>2, QuietSubmitter, SubmitterStays
<1>5. handle'[x] = handle[x] /\ (Contains(members', x) => Contains(members, x))
  BY <1>1
<1> QED BY <1>1, <1>3, <1>4, <1>5, ObjectStays, Zenon

\* What the counters of one object are.
LEMMA CountsNow ==
  ASSUME IInv, NEW o \in Objects
  PROVE  /\ obj[o].ref \in Nat /\ obj[o].pending \in Nat
         /\ Cardinality(Running(o)) \in Nat /\ Cardinality(Releasing(o)) \in {0, 1}
         /\ obj[o].ref = (IF InUse(o) THEN 1 ELSE 0) + obj[o].pending + Cardinality(Running(o)) + Cardinality(Releasing(o))
         /\ obj[o].running = Cardinality(Running(o))
         /\ obj[o].associated = Cardinality(Associates(o)) /\ obj[o].associated \in Nat
         /\ Cardinality(Running(o)) = 0 <=> Running(o) = {}
         /\ Cardinality(Releasing(o)) = 0 <=> Releasing(o) = {}
<1>1. /\ Cardinality(Running(o)) \in Nat /\ (Cardinality(Running(o)) = 0 <=> Running(o) = {}) /\ IsFiniteSet(Running(o))
      /\ Cardinality(Releasing(o)) = IF Releasing(o) = {} THEN 0 ELSE 1
  BY Counted DEF IInv
<1>2. obj[o].ref \in Int /\ obj[o].pending \in Nat
  BY Fields DEF IInv
<1>3. CountsExact(o)
  BY ObjectNow, Zenon
<1>4. Associates(o) \in SUBSET Running(o)
  BY DEF Associates
<1>5. Cardinality(Associates(o)) \in Nat
  BY <1>1, <1>4, FS_Subset, FS_CardinalityType, Zenon
<1>6. Cardinality(Releasing(o)) \in {0, 1} /\ (Cardinality(Releasing(o)) = 0 <=> Releasing(o) = {})
  BY <1>1
<1>7. /\ obj[o].ref = (IF InUse(o) THEN 1 ELSE 0) + obj[o].pending + Cardinality(Running(o)) + Cardinality(Releasing(o))
      /\ obj[o].running = Cardinality(Running(o)) /\ obj[o].associated = Cardinality(Associates(o))
  BY <1>3 DEF CountsExact
<1>8. obj[o].ref \in Nat
  BY <1>1, <1>2, <1>6, <1>7
<1> QED BY <1>1, <1>2, <1>5, <1>6, <1>7, <1>8

\* The references of an object, with a name for each number.
LEMMA Summands ==
  ASSUME IInv, NEW o \in Objects
  PROVE  \E r \in Nat, p \in Nat, q \in Nat, l \in {0, 1}, u \in {0, 1} :
          /\ r = obj[o].ref /\ p = obj[o].pending /\ q = Cardinality(Running(o)) /\ l = Cardinality(Releasing(o))
          /\ u = (IF InUse(o) THEN 1 ELSE 0) /\ r = u + p + q + l /\ obj[o].running = q
<1>1. PICK u \in {0, 1} : u = IF InUse(o) THEN 1 ELSE 0
  OBVIOUS
<1>2. /\ obj[o].ref \in Nat /\ obj[o].pending \in Nat /\ Cardinality(Running(o)) \in Nat /\ Cardinality(Releasing(o)) \in {0, 1}
      /\ obj[o].ref = u + obj[o].pending + Cardinality(Running(o)) + Cardinality(Releasing(o))
      /\ obj[o].running = Cardinality(Running(o))
  BY <1>1, CountsNow
<1> QED BY <1>1, <1>2, Zenon

\* They change together.
LEMMA CountsMove ==
  ASSUME IInv, NEW o \in Objects, NEW i \in Int, NEW m \in Int, NEW n \in Int, NEW k \in Int,
         (IF InUse(o)' THEN 1 ELSE 0) = (IF InUse(o) THEN 1 ELSE 0) + i, obj'[o].pending = obj[o].pending + m,
         Cardinality(Running(o)') = Cardinality(Running(o)) + n, Cardinality(Releasing(o)') = Cardinality(Releasing(o)) + k,
         obj'[o].ref = obj[o].ref + (i + m + n + k), obj'[o].running = obj[o].running + n,
         obj'[o].associated = Cardinality(Associates(o)')
  PROVE  CountsExact(o)'
<1>1. PICK r \in Nat, p \in Nat, q \in Nat, l \in {0, 1}, u \in {0, 1} :
            /\ r = obj[o].ref /\ p = obj[o].pending /\ q = Cardinality(Running(o)) /\ l = Cardinality(Releasing(o))
            /\ u = (IF InUse(o) THEN 1 ELSE 0) /\ r = u + p + q + l /\ obj[o].running = q
  BY Summands, Zenon
<1>2. obj'[o].ref = (u + p + q + l) + (i + m + n + k)
  BY <1>1
<1>3. (u + p + q + l) + (i + m + n + k) = (u + i) + (p + m) + (q + n) + (l + k)
  OBVIOUS
<1>4. obj'[o].ref = (IF InUse(o)' THEN 1 ELSE 0) + obj'[o].pending + Cardinality(Running(o)') + Cardinality(Releasing(o)')
  BY <1>1, <1>2, <1>3
<1>5. obj'[o].running = Cardinality(Running(o)')
  BY <1>1
<1> QED BY <1>4, <1>5 DEF CountsExact

LEMMA ObjectBeside ==
  ASSUME IInv, NEW t \in Threads, NEW o \in Objects, NEW x \in Objects \ {o}, obj'[x] = obj[x], handle'[x] = handle[x],
         SameRunners, Releasing(x)' = Releasing(x), Contains(members', x) => Contains(members, x), Others(t),
         t \in Clients /\ pc[t] = "a_submit" => arg[t] # x
  PROVE  ObjectExact(x)'
<1>1. SameUsers(x)
  BY RunnersKept DEF SameUsers
<1>2. SubmittersStay(x) /\ SameObject(x)
  BY SubmitterStays, UnchangedObject
<1> QED BY <1>1, <1>2, ObjectStays

LEMMA SubmitHandle ==
  ASSUME IInv, NEW t \in Threads, NEW o, Submits(t, o)
  PROVE  o \notin Simples => handle[o] # "alloc"
<1>1. CASE t \in Clients /\ TpPostWork(t, o)
  BY <1>1 DEF TpPostWork
<1>2. CASE t \in Clients /\ AllocSubmit(t) /\ o = arg[t]
  BY <1>2 DEF AllocSubmit, IInv, ClientExact
<1>3. CASE t \in Clients /\ SetTimerSubmit(t) /\ o = arg[t]
  <2>1. pc[t] \in Using
    BY <1>3 DEF SetTimerSubmit, Using
  <2> QED BY <1>3, <2>1 DEF IInv, ClientExact
<1>4. CASE t \in Workers /\ CallbackPosts(t) /\ o = arg[t]
  BY <1>4 DEF CallbackPosts
<1>5. CASE t = TimerThread /\ TimerSubmit /\ o = arg[t]
  BY <1>5 DEF TimerSubmit, IInv, TimersExact
<1> QED BY <1>1, <1>2, <1>3, <1>4, <1>5, Zenon DEF Submits

LEMMA ObjectSubmits ==
  ASSUME IInv, NEW t \in Threads, NEW o, Submits(t, o), NEW x \in Objects
  PROVE  ObjectExact(x)'
<1>0. TypeOK
  BY DEF IInv
<1>1. o \in Objects /\ InUse(o) /\ handle' = handle /\ members' = members /\ gone' = gone
  BY SubmitUse, Zenon
<1>2. ~obj[o].shutdown /\ (t \in Clients /\ pc[t] = "a_submit" => arg[t] = o)
  BY SubmitUse
<1>3. PICK to \in PlacesOf(t) : Submit(t, o, to)
  BY SubmitUse, Zenon
<1>4. SameRunners /\ Others(t)
  BY SubmitsRunners, SubmitsMoves, Zenon
<1>5. /\ obj'[o].ref = obj[o].ref + 1 /\ obj'[o].pending = obj[o].pending + 1
      /\ obj'[o].running = obj[o].running /\ obj'[o].associated = obj[o].associated
      /\ obj'[o].state = obj[o].state /\ obj'[o].shutdown = obj[o].shutdown
      /\ \A y \in Objects \ {o} : obj'[y] = obj[y]
  BY <1>0, <1>1, <1>3, SubmitObject, Zenon
<1>6. \A y : SameUsers(y)
  BY <1>1, <1>4, UsersKept, Zenon
<1>7. CASE x # o
  <2>1. obj'[x] = obj[x] /\ handle'[x] = handle[x] /\ Releasing(x)' = Releasing(x) /\ (Contains(members', x) => Contains(members, x))
    BY <1>1, <1>5, <1>6, <1>7 DEF SameUsers
  <2>2. t \in Clients /\ pc[t] = "a_submit" => arg[t] # x
    BY <1>2, <1>7
  <2>3. x \in Objects \ {o}
    BY <1>7
  <2> QED BY <1>1, <1>4, <2>1, <2>2, <2>3, ObjectBeside, Zenon
<1>8. ObjectExact(o)'
  <2>1. CountsExact(o) /\ FlagsExact(o) /\ SimpleExact(o)
    BY <1>1, ObjectNow, Zenon
  <2>2. obj[o].state = "alive" /\ obj[o].pending \in Nat /\ handle[o] # "closed" /\ handle[o] # "none"
    BY <1>0, <1>1, Referenced, Fields DEF InUse
  <2>3. CountsExact(o)'
    <3>1. /\ InUse(o)' <=> InUse(o)
          /\ Running(o)' = Running(o) /\ Associates(o)' = Associates(o) /\ Releasing(o)' = Releasing(o)
      BY <1>1, <1>6 DEF InUse, SameUsers
    <3>2. /\ Cardinality(Running(o)) \in Int /\ Cardinality(Releasing(o)) \in Int /\ obj[o].running \in Int
          /\ obj[o].associated = Cardinality(Associates(o))
      BY <1>0, <1>1, <2>1, CountsNow, Fields DEF CountsExact
    <3>3. /\ Cardinality(Running(o)') = Cardinality(Running(o)) + 0 /\ Cardinality(Releasing(o)') = Cardinality(Releasing(o)) + 0
          /\ (IF InUse(o)' THEN 1 ELSE 0) = (IF InUse(o) THEN 1 ELSE 0) + 0
          /\ obj'[o].running = obj[o].running + 0 /\ 0 + 1 + 0 + 0 = 1
      BY <1>5, <3>1, <3>2
    <3>4. obj'[o].ref = obj[o].ref + (0 + 1 + 0 + 0)
      BY <1>5, <3>3
    <3>5. obj'[o].associated = Cardinality(Associates(o)') /\ 0 \in Int /\ 1 \in Int
      BY <1>5, <3>1, <3>2
    <3> QED BY <1>1, <1>5, <3>3, <3>4, <3>5, CountsMove
  <2>4. FlagsExact(o)'
    <3>1. o \notin Simples => handle[o] # "alloc"
      BY SubmitHandle
    <3> QED BY <1>1, <1>2, <1>5, <2>1, <2>2, <3>1 DEF FlagsExact
  <2>5. SimpleExact(o)'
    BY <1>1, <1>5, <2>1, <2>2 DEF SimpleExact
  <2> QED BY <1>1, <2>3, <2>4, <2>5, ObjectNext, Zenon
<1> QED BY <1>7, <1>8

\* The step is about o alone.
LEMMA ObjectAlone ==
  ASSUME IInv, NEW t \in Threads, NEW o \in Objects, Beside(o), SameRunners, Others(t),
         \A x \in Objects \ {o} : Releasing(x)' = Releasing(x) /\ (Contains(members', x) => Contains(members, x)),
         pc[t] # "a_submit", ObjectExact(o)'
  PROVE  \A x \in Objects : ObjectExact(x)'
<1> SUFFICES ASSUME NEW x \in Objects \ {o} PROVE ObjectExact(x)'
  OBVIOUS
<1>1. obj'[x] = obj[x] /\ handle'[x] = handle[x]
  BY DEF Beside
<1>2. Releasing(x)' = Releasing(x) /\ (Contains(members', x) => Contains(members, x))
  OBVIOUS
<1> QED BY <1>1, <1>2, ObjectBeside, Zenon

\* The program's reference goes.
LEMMA CountsClose ==
  ASSUME IInv, NEW o \in Objects, SameUsers(o), InUse(o), ~InUse(o)', obj'[o].ref = obj[o].ref - 1,
         obj'[o].pending = obj[o].pending, obj'[o].running = obj[o].running, obj'[o].associated = obj[o].associated
  PROVE  CountsExact(o)'
<1>1. CountsExact(o)
  BY ObjectNow, Zenon
<1>2. obj[o].ref \in Int /\ obj[o].pending \in Nat /\ Cardinality(Running(o)) \in Int /\ Cardinality(Releasing(o)) \in Int
  BY CountsNow
<1>3. obj[o].ref = 1 + obj[o].pending + Cardinality(Running(o)) + Cardinality(Releasing(o))
  BY <1>1 DEF CountsExact
<1>4. obj'[o].ref = 0 + obj'[o].pending + Cardinality(Running(o)) + Cardinality(Releasing(o))
  BY <1>2, <1>3
<1> QED BY <1>1, <1>4 DEF CountsExact, SameUsers

LEMMA ObjectAlloc ==
  ASSUME IInv, NEW c \in Clients, NEW o \in Objects, Alloc(c, o)
  PROVE  \A x \in Objects : ObjectExact(x)'
<1>0. TypeOK /\ c \in Threads
  BY Kinds DEF IInv
<1>1. /\ Beside(o) /\ members' = members /\ gone' = gone /\ SameRunners /\ Others(c)
  BY AllocStep, Zenon
<1>2. /\ handle[o] = "none" /\ handle'[o] = "alloc" /\ obj'[o].ref = 1 /\ obj'[o].state = "alive"
      /\ obj'[o].pending = obj[o].pending /\ obj'[o].running = obj[o].running
      /\ obj'[o].associated = obj[o].associated /\ obj'[o].shutdown = obj[o].shutdown
  BY AllocStep
<1>3. pc[c] = "idle" /\ (o \in Simples => pc'[c] = "a_submit") /\ arg'[c] = o
  <2>1. pc[c] = "idle" /\ \E to \in Allocating : Moved(c, "idle", to, o)
    BY CallMoves, Zenon DEF Alloc
  <2>2. PICK ws \in OneThread :
          Resume(c, IF o \in Timers THEN "a_timer" ELSE IF o \in Simples THEN "a_submit" ELSE "a_group", ws, {})
    BY DEF Alloc
  <2>3. pc'[c] = IF o \in Timers THEN "a_timer" ELSE IF o \in Simples THEN "a_submit" ELSE "a_group"
    BY <1>0, <2>2 DEF Resume
  <2>4. o \in Simples => o \notin Timers
    BY ThreadPoolAssumption
  <2> QED BY <2>1, <2>3, <2>4 DEF Moved
<1>4. \A x : SameUsers(x)
  BY <1>1, UsersKept, Zenon
<1>5. /\ obj[o].state = "none" /\ obj[o].ref = 0 /\ ~obj[o].shutdown /\ obj[o].pending = 0 /\ Running(o) = {} /\ Releasing(o) = {}
  <2>1. obj[o].state = "none" /\ obj[o].ref = 0 /\ ~obj[o].shutdown
    BY <1>2, ObjectNow DEF FlagsExact
  <2>2. PICK r \in Nat, p \in Nat, q \in Nat, l \in {0, 1}, u \in {0, 1} :
          /\ r = obj[o].ref /\ p = obj[o].pending /\ q = Cardinality(Running(o)) /\ l = Cardinality(Releasing(o))
          /\ u = (IF InUse(o) THEN 1 ELSE 0) /\ r = u + p + q + l /\ obj[o].running = q
    BY Summands, Zenon
  <2>3. p = 0 /\ q = 0 /\ l = 0
    BY <2>1, <2>2
  <2>4. Running(o) = {} /\ Releasing(o) = {}
    BY <2>2, <2>3, CountsNow
  <2> QED BY <2>1, <2>2, <2>3, <2>4
<1>6. CountsExact(o)'
  <2>1. CountsExact(o) /\ Cardinality({}) = 0
    BY ObjectNow, FS_EmptySet
  <2>2. Running(o)' = {} /\ Releasing(o)' = {} /\ Associates(o)' = Associates(o)
    BY <1>4, <1>5 DEF SameUsers
  <2>3. InUse(o)'
    BY <1>2 DEF InUse
  <2> QED BY <1>2, <1>5, <2>1, <2>2, <2>3 DEF CountsExact
<1>7. FlagsExact(o)'
  BY <1>2, <1>5 DEF FlagsExact
<1>8. SimpleExact(o)'
  BY <1>2, <1>3 DEF SimpleExact
<1>9. ObjectExact(o)'
  BY <1>6, <1>7, <1>8, ObjectNext, Zenon
<1>10. \A x \in Objects \ {o} : Releasing(x)' = Releasing(x) /\ (Contains(members', x) => Contains(members, x))
  BY <1>1, <1>4 DEF SameUsers
<1>11. pc[c] # "a_submit"
  BY <1>3
<1> QED BY <1>0, <1>1, <1>9, <1>10, <1>11, ObjectAlone, Zenon

LEMMA ObjectAllocFails ==
  ASSUME IInv, NEW c \in Clients, AllocTimerFails(c)
  PROVE  \A x \in Objects : ObjectExact(x)'
<1>0. TypeOK /\ c \in Threads
  BY Kinds DEF IInv
<1>1. PICK o : o = arg[c]
  OBVIOUS
<1>2. o \in Objects /\ Beside(o)
  BY <1>1, AllocFailsStep, Zenon
<1>3. /\ handle[o] = "alloc" /\ handle'[o] = "closed" /\ obj'[o].ref = 0 /\ obj'[o].state = obj[o].state
      /\ obj'[o].pending = obj[o].pending /\ obj'[o].running = obj[o].running
      /\ obj'[o].associated = obj[o].associated /\ obj'[o].shutdown = obj[o].shutdown
      /\ members' = members /\ gone' = gone /\ pc[c] = "a_timer"
  BY <1>1, AllocFailsStep
<1>4. SameRunners /\ Others(c)
  BY <1>1, AllocFailsStep
<1>5. o \notin Simples
  BY <1>1, <1>3, ThreadPoolAssumption DEF IInv, ClientExact
<1>6. CountsExact(o) /\ FlagsExact(o)
  BY <1>2, ObjectNow, Zenon
<1>7. obj[o].ref = 1 /\ InUse(o) /\ ~InUse(o)'
  BY <1>3, <1>5, <1>6 DEF FlagsExact, InUse
<1>8. \A x : SameUsers(x)
  BY <1>3, <1>4, UsersKept
<1>9. CountsExact(o)'
  <2>1. obj'[o].ref = obj[o].ref - 1
    BY <1>3, <1>7
  <2> QED BY <1>2, <1>3, <1>7, <1>8, <2>1, CountsClose
<1>10. FlagsExact(o)'
  BY <1>3, <1>5, <1>6 DEF FlagsExact
<1>11. SimpleExact(o)'
  BY <1>5 DEF SimpleExact
<1>12. ObjectExact(o)'
  BY <1>2, <1>9, <1>10, <1>11, ObjectNext, Zenon
<1>13. \A x \in Objects \ {o} : Releasing(x)' = Releasing(x) /\ (Contains(members', x) => Contains(members, x))
  BY <1>3, <1>8 DEF SameUsers
<1>14. pc[c] # "a_submit"
  BY <1>3
<1> QED BY <1>0, <1>2, <1>4, <1>12, <1>13, <1>14, ObjectAlone, Zenon

LEMMA ObjectAllocGroup ==
  ASSUME IInv, NEW c \in Clients, AllocGroup(c)
  PROVE  \A x \in Objects : ObjectExact(x)'
<1>0. TypeOK /\ c \in Threads
  BY Kinds DEF IInv
<1>1. PICK o : o = arg[c]
  OBVIOUS
<1>2. o \in Objects /\ Beside(o) /\ obj' = obj /\ gone' = gone /\ SameRunners /\ Others(c) /\ handle[o] = "alloc" /\ pc[c] = "a_group"
  BY <1>1, AllocGroupStep, Zenon
<1>3. /\ handle'[o] = (IF o \in Simples THEN "alloc" ELSE "live")
      /\ \A x : Contains(members', x) <=> Contains(members, x) \/ (x = o /\ o \in Grouped)
  BY <1>1, AllocGroupStep
<1>4. CountsExact(o) /\ FlagsExact(o) /\ SimpleExact(o)
  BY <1>2, ObjectNow, Zenon
<1>5. \A x : SameUsers(x)
  BY <1>2, UsersKept, Zenon
<1>6. InUse(o) /\ InUse(o)' /\ SameObject(o)
  BY <1>2, <1>3, UnchangedObject DEF InUse
<1>7. obj[o].state = "alive"
  BY <1>2, <1>6, Referenced
<1>8. CountsExact(o)'
  BY <1>2, <1>4, <1>5, <1>6, CountsStay DEF SameObject
<1>9. FlagsExact(o)'
  BY <1>2, <1>3, <1>4, <1>7 DEF FlagsExact
<1>14. pc[c] # "a_submit"
  BY <1>2
<1>10. SimpleExact(o)'
  <2>1. SubmittersStay(o)
    BY <1>0, <1>2, <1>14, SubmitterStays
  <2>2. /\ obj'[o].pending = obj[o].pending /\ obj'[o].state = obj[o].state
        /\ obj[o].shutdown => obj'[o].shutdown
    BY <1>6 DEF SameObject
  <2>3. CASE o \in Simples
    <3>1. handle'[o] = handle[o] \/ handle'[o] \in {"none", "alloc", "closed"}
      BY <1>3, <2>3
    <3> QED BY <1>2, <1>4, <1>5, <2>1, <2>2, <3>1, SimpleStays, Zenon
  <2>4. CASE o \notin Simples
    BY <2>4 DEF SimpleExact
  <2> QED BY <2>3, <2>4
<1>12. ObjectExact(o)'
  BY <1>2, <1>8, <1>9, <1>10, ObjectNext, Zenon
<1>13. \A x \in Objects \ {o} : Releasing(x)' = Releasing(x) /\ (Contains(members', x) => Contains(members, x))
  BY <1>3, <1>5 DEF SameUsers
<1> QED BY <1>0, <1>2, <1>12, <1>13, <1>14, ObjectAlone, Zenon

LEMMA ObjectUnref ==
  ASSUME IInv, NEW c \in Clients, Unref(c)
  PROVE  \A x \in Objects : ObjectExact(x)'
<1>0. TypeOK /\ c \in Threads
  BY Kinds DEF IInv
<1>1. PICK o : o = arg[c]
  OBVIOUS
<1>2. o \in Objects /\ Beside(o) /\ gone' = gone /\ members' = members /\ SameRunners /\ Others(c) /\ pc[c] = "unref"
  BY <1>1, UnrefStep, Zenon
<1>3. /\ handle[o] \in {"alloc", "live"} /\ handle'[o] = "closed"
      /\ obj'[o].ref = obj[o].ref - 1 /\ obj'[o].state = obj[o].state
      /\ obj'[o].pending = obj[o].pending /\ obj'[o].running = obj[o].running
      /\ obj'[o].associated = obj[o].associated /\ (obj'[o].shutdown <=> obj[o].shutdown \/ o \notin Simples)
  BY <1>1, UnrefStep
<1>4. CountsExact(o) /\ FlagsExact(o) /\ SimpleExact(o)
  BY <1>2, ObjectNow, Zenon
<1>5. \A x : SameUsers(x)
  BY <1>2, UsersKept, Zenon
<1>6. InUse(o) /\ ~InUse(o)'
  BY <1>3 DEF InUse
<1>7. obj[o].state = "alive"
  BY <1>2, <1>6, Referenced
<1>8. CountsExact(o)'
  BY <1>2, <1>3, <1>5, <1>6, CountsClose
<1>9. FlagsExact(o)'
  BY <1>3, <1>7 DEF FlagsExact
<1>14. pc[c] # "a_submit"
  BY <1>2
<1>10. SimpleExact(o)'
  <2>1. SubmittersStay(o)
    BY <1>0, <1>2, <1>14, SubmitterStays
  <2>2. (obj[o].shutdown => obj'[o].shutdown) /\ handle'[o] \in {"none", "alloc", "closed"}
    BY <1>3
  <2> QED BY <1>2, <1>3, <1>4, <1>5, <2>1, <2>2, SimpleStays
<1>12. ObjectExact(o)'
  BY <1>2, <1>8, <1>9, <1>10, ObjectNext, Zenon
<1>13. \A x \in Objects \ {o} : Releasing(x)' = Releasing(x) /\ (Contains(members', x) => Contains(members, x))
  BY <1>2, <1>5 DEF SameUsers
<1> QED BY <1>0, <1>2, <1>12, <1>13, <1>14, ObjectAlone, Zenon

LEMMA ObjectDestroy ==
  ASSUME IInv, NEW t \in Threads, Destroy(t), NEW x \in Objects
  PROVE  ObjectExact(x)'
<1>1. PICK o : o = arg[t]
  OBVIOUS
<1>2. obj' = obj /\ handle' = handle /\ gone' = gone /\ SameRunners /\ Others(t) /\ pc[t] = "destroy"
  BY <1>1, DestroyStep, Zenon
<1>3. Contains(members', x) => Contains(members, x)
  BY <1>1, DestroyStep
<1>4. SameUsers(x)
  BY <1>2, UsersKept, Zenon
<1>5. SubmittersStay(x)
  BY <1>2, SubmitterStays
<1>6. SameObject(x) /\ handle'[x] = handle[x]
  BY <1>2, UnchangedObject
<1> QED BY <1>3, <1>4, <1>5, <1>6, ObjectStays, Zenon

LEMMA ObjectDestroy2 ==
  ASSUME IInv, NEW t \in Threads, Destroy2(t)
  PROVE  \A x \in Objects : ObjectExact(x)'
<1>1. PICK o : o = arg[t]
  OBVIOUS
<1>2. o \in Objects /\ Beside(o) /\ handle' = handle /\ gone' = gone /\ members' = members /\ SameRunners /\ Others(t) /\ pc[t] = "destroy2"
  BY <1>1, Destroy2Step, Zenon
<1>3. /\ obj'[o].ref = obj[o].ref /\ obj'[o].state = "freed"
      /\ obj'[o].pending = obj[o].pending /\ obj'[o].running = obj[o].running
      /\ obj'[o].associated = obj[o].associated /\ obj'[o].shutdown = obj[o].shutdown
  BY <1>1, Destroy2Step
<1>4. obj[o].ref = 0 /\ obj[o].state = "alive" /\ ~Contains(members, o)
  BY <1>1, <1>2 DEF IInv, DestroyerExact, Destroying
<1>5. CountsExact(o) /\ FlagsExact(o) /\ SimpleExact(o)
  BY <1>2, ObjectNow, Zenon
<1>6. \A x : SameUsers(x)
  BY <1>2, UsersKept, Zenon
<1>7. CountsExact(o)'
  <2>1. InUse(o)' <=> InUse(o)
    BY <1>2 DEF InUse
  <2> QED BY <1>2, <1>3, <1>5, <1>6, <2>1, CountsStay
<1>8. FlagsExact(o)'
  BY <1>2, <1>3, <1>4, <1>5 DEF FlagsExact
<1>9. SimpleExact(o)'
  BY <1>2, <1>3, <1>5 DEF SimpleExact
<1>10. ObjectExact(o)'
  BY <1>2, <1>7, <1>8, <1>9, ObjectNext, Zenon
<1>11. \A x \in Objects \ {o} : Releasing(x)' = Releasing(x) /\ (Contains(members', x) => Contains(members, x))
  BY <1>2, <1>6 DEF SameUsers
<1>12. pc[t] # "a_submit"
  BY <1>2
<1> QED BY <1>2, <1>10, <1>11, <1>12, ObjectAlone, Zenon

LEMMA ObjectReleaseMembers ==
  ASSUME IInv, NEW c \in Clients, TpReleaseCleanupGroupMembers(c), NEW x \in Objects
  PROVE  ObjectExact(x)'
<1>0. c \in Threads
  BY Kinds
<1>1. obj' = obj /\ members' = members /\ gone' = gone /\ SameRunners /\ Others(c) /\ pc[c] = "idle"
  BY ReleaseMembersStep
<1>2. handle'[x] = IF x \in Grouped /\ handle[x] = "live" THEN "closing" ELSE handle[x]
  BY ReleaseMembersStep
<1>3. CountsExact(x) /\ FlagsExact(x) /\ SimpleExact(x)
  BY ObjectNow, Zenon
<1>4. SameUsers(x) /\ SubmittersStay(x) /\ SameObject(x)
  BY <1>0, <1>1, UsersKept, SubmitterStays, UnchangedObject
<1>5. CASE handle'[x] = handle[x]
  BY <1>1, <1>4, <1>5, ObjectStays
<1>6. CASE handle[x] = "live" /\ handle'[x] = "closing"
  <2>1. x \notin Simples
    BY <1>3, <1>6 DEF SimpleExact
  <2>2. InUse(x) <=> InUse(x)'
    BY <1>6 DEF InUse
  <2>3. CountsExact(x)'
    BY <1>3, <1>4, <2>2, CountsStay DEF SameObject
  <2>4. FlagsExact(x)'
    BY <1>1, <1>3, <1>6 DEF FlagsExact
  <2>5. SimpleExact(x)'
    BY <2>1 DEF SimpleExact
  <2> QED BY <2>3, <2>4, <2>5, ObjectNext, Zenon
<1> QED BY <1>2, <1>5, <1>6

\* The lists of the threads that release the group's members.
LEMMA MemberEachLists ==
  ASSUME IInv, NEW c \in Clients, NEW o, o = Head(members), MemberEach(c), ~Dying(o)
  PROVE  /\ o \in Objects /\ gone' \in [Clients -> Seq(Objects)] /\ IsInjective(gone'[c])
         /\ \A d \in Clients \ {c} : gone'[d] = gone[d]
         /\ \A x : Contains(gone'[c], x) <=> Contains(gone[c], x) \/ x = o
         /\ Releasing(o) = {} /\ Releasing(o)' = {c}
         /\ \A x \in Objects \ {o} : Releasing(x)' = Releasing(x)
<1>1. o \in Objects /\ Contains(members, o)
  BY MemberEachStep, Zenon
<1>2. gone' = [gone EXCEPT ![c] = Append(@, o)]
  BY DEF MemberEach
<1>3. Releasing(o) = {}
  BY <1>1 DEF IInv, GroupExact, MemberExact
<1>4. gone[c] \in Seq(Objects) /\ IsInjective(gone[c]) /\ ~Contains(gone[c], o)
  BY <1>3, Parts DEF Releasing
<1>5. /\ Append(gone[c], o) \in Seq(Objects) /\ IsInjective(Append(gone[c], o))
      /\ \A x : Contains(Append(gone[c], o), x) <=> Contains(gone[c], x) \/ x = o
  BY <1>1, <1>4, Appended
<1>6. /\ gone' \in [Clients -> Seq(Objects)] /\ gone'[c] = Append(gone[c], o)
      /\ \A d \in Clients \ {c} : gone'[d] = gone[d]
  BY <1>2, <1>5 DEF IInv, TypeOK
<1>7. \A x : Contains(gone'[c], x) <=> Contains(gone[c], x) \/ x = o
  BY <1>5, <1>6
<1>8. Releasing(o)' = {c} /\ \A x \in Objects \ {o} : Releasing(x)' = Releasing(x)
  BY <1>3, <1>6, <1>7 DEF Releasing
<1> QED BY <1>1, <1>3, <1>5, <1>6, <1>7, <1>8

LEMMA ObjectMemberEach ==
  ASSUME IInv, NEW c \in Clients, MemberEach(c)
  PROVE  \A x \in Objects : ObjectExact(x)'
<1>0. c \in Threads /\ TypeOK
  BY Kinds DEF IInv
<1>1. PICK o : o = Head(members)
  OBVIOUS
<1>2. o \in Objects /\ Contains(members, o) /\ handle' = handle /\ queue' = queue /\ SameRunners /\ Others(c) /\ pc[c] = "m_each"
  BY <1>1, MemberEachStep, Zenon
<1>3. \A x : Contains(members', x) <=> Contains(members, x) /\ x # o
  BY <1>1, MemberEachStep
<1>4. obj' \in [Objects -> ObjectStruct] /\ \A x \in Objects \ {o} : obj'[x] = obj[x]
  BY <1>1, MemberEachStep, Zenon
<1>5. CASE Dying(o)
  <2>1. obj' = obj /\ gone' = gone
    BY <1>1, <1>5, MemberEachStep
  <2> SUFFICES ASSUME NEW x \in Objects PROVE ObjectExact(x)'
    OBVIOUS
  <2>2. SameUsers(x) /\ SubmittersStay(x) /\ SameObject(x)
    BY <1>0, <1>2, <2>1, UsersKept, SubmitterStays, UnchangedObject
  <2> QED BY <1>2, <1>3, <2>2, ObjectStays
<1>6. CASE ~Dying(o)
  <2>1. /\ obj'[o].ref = obj[o].ref + 1 /\ obj'[o].state = obj[o].state
        /\ obj'[o].pending = obj[o].pending /\ obj'[o].running = obj[o].running
        /\ obj'[o].associated = obj[o].associated /\ obj'[o].shutdown = obj[o].shutdown
    BY <1>1, <1>6, MemberEachStep
  <2>2. /\ Releasing(o) = {} /\ Releasing(o)' = {c}
        /\ \A x \in Objects \ {o} : Releasing(x)' = Releasing(x)
    BY <1>1, <1>6, MemberEachLists
  <2>3. CountsExact(o) /\ FlagsExact(o) /\ SimpleExact(o)
    BY <1>2, ObjectNow, Zenon
  <2>4. obj[o].state = "alive" /\ (o \notin Simples => handle[o] # "alloc") /\ obj[o].ref \in Int /\ obj[o].ref > 0
    <3>1. obj[o].state = "alive"
      BY <1>2, <2>3 DEF FlagsExact
    <3>2. o \notin Simples => handle[o] # "alloc"
      BY <1>2 DEF IInv, GroupExact, MemberExact
    <3>3. obj[o].ref \in Int /\ obj[o].ref >= 0
      BY <1>0, <1>2, Fields, Referenced
    <3> QED BY <1>6, <3>1, <3>2, <3>3 DEF Dying
  <2>5. CountsExact(o)'
    <3>1. /\ InUse(o)' <=> InUse(o)
          /\ Running(o)' = Running(o) /\ Associates(o)' = Associates(o)
      BY <1>2, RunnersKept DEF InUse
    <3>2. Cardinality(Releasing(o)) = 0 /\ Cardinality(Releasing(o)') = 1
      BY <2>2, FS_EmptySet, FS_Singleton
    <3>3. /\ Cardinality(Running(o)) \in Int /\ obj[o].pending \in Int
      BY <1>2, CountsNow
    <3>4. obj[o].ref = (IF InUse(o) THEN 1 ELSE 0) + obj[o].pending + Cardinality(Running(o)) + 0
      BY <2>3, <3>2 DEF CountsExact
    <3>5. obj'[o].ref = (IF InUse(o) THEN 1 ELSE 0) + obj[o].pending + Cardinality(Running(o)) + 1
      BY <2>1, <2>4, <3>3, <3>4
    <3>6. obj'[o].ref = (IF InUse(o)' THEN 1 ELSE 0) + obj'[o].pending + Cardinality(Running(o)') + Cardinality(Releasing(o)')
      BY <2>1, <3>1, <3>2, <3>5
    <3> QED BY <2>1, <2>3, <3>1, <3>6 DEF CountsExact
  <2>6. FlagsExact(o)'
    BY <1>2, <2>1, <2>3, <2>4 DEF FlagsExact
  <2>7. SimpleExact(o)'
    BY <1>2, <2>1, <2>2, <2>3 DEF SimpleExact
  <2>8. ObjectExact(o)'
    BY <1>2, <2>5, <2>6, <2>7, ObjectNext, Zenon
  <2>9. \A x \in Objects \ {o} : Releasing(x)' = Releasing(x) /\ (Contains(members', x) => Contains(members, x))
    BY <1>3, <2>2
  <2>10. Beside(o) /\ pc[c] # "a_submit"
    BY <1>0, <1>2, <1>4 DEF Beside, TypeOK
  <2> QED BY <1>0, <1>2, <2>8, <2>9, <2>10, ObjectAlone, Zenon
<1> QED BY <1>5, <1>6

\* What the thread that releases a member drops: the group's reference, and the
\* program's if the program has it still.
LEMMA DropUse ==
  ASSUME IInv, NEW c \in Clients, NEW o \in Objects, Contains(gone[c], o)
  PROVE  /\ o \notin Simples => (handle[o] = "closing" /\ ~obj[o].shutdown) \/ (handle[o] = "closed" /\ obj[o].shutdown)
         /\ obj[o].state = "alive" /\ obj[o].ref > 0 /\ Releasing(o) = {c}
<1>1. c \in Releasing(o)
  BY DEF Releasing
<1>2. Releasing(o) = {c} /\ (o \notin Simples => handle[o] \in {"closing", "closed"})
  BY <1>1 DEF IInv, GroupExact, MemberExact
<1>3. obj[o].ref >= 1 /\ obj[o].state = "alive" /\ obj[o].ref \in Int
  BY <1>1, Referenced, Fields DEF IInv
<1>4. obj[o].ref > 0
  BY <1>3
<1>5. FlagsExact(o)
  BY ObjectNow, Zenon
<1> QED BY <1>2, <1>3, <1>4, <1>5 DEF FlagsExact

LEMMA ObjectMemberRelease ==
  ASSUME IInv, NEW c \in Clients, MemberRelease(c)
  PROVE  \A x \in Objects : ObjectExact(x)'
<1>0. c \in Threads /\ TypeOK
  BY Kinds DEF IInv
<1>1. PICK o : o = arg[c]
  OBVIOUS
<1>2. o \in Objects /\ Contains(gone[c], o) /\ Beside(o) /\ members' = members /\ SameRunners /\ Others(c) /\ pc[c] = "m_release"
  BY <1>1, MemberReleaseStep, Zenon
<1>3. /\ handle'[o] = (IF o \in Simples THEN handle[o] ELSE "closed")
      /\ obj'[o].ref = obj[o].ref - Drop(o) /\ obj'[o].state = obj[o].state
      /\ obj'[o].pending = obj[o].pending /\ obj'[o].running = obj[o].running
      /\ obj'[o].associated = obj[o].associated /\ obj'[o].shutdown
  BY <1>1, MemberReleaseStep
<1>4. /\ \A d \in Clients \ {c} : gone'[d] = gone[d]
      /\ \A x : Contains(gone'[c], x) <=> Contains(gone[c], x) /\ x # o
  BY <1>1, MemberReleaseLists
<1>5. /\ o \notin Simples => (handle[o] = "closing" /\ ~obj[o].shutdown) \/ (handle[o] = "closed" /\ obj[o].shutdown)
      /\ obj[o].state = "alive" /\ obj[o].ref > 0 /\ Releasing(o) = {c}
  BY <1>2, DropUse
<1>6. Releasing(o)' = {} /\ \A x \in Objects \ {o} : Releasing(x)' = Releasing(x)
  BY <1>4, <1>5 DEF Releasing
<1>7. CountsExact(o) /\ FlagsExact(o) /\ SimpleExact(o)
  BY <1>2, ObjectNow, Zenon
<1>8. CountsExact(o)'
  <2>1. Running(o)' = Running(o) /\ Associates(o)' = Associates(o)
    BY <1>2, RunnersKept, Zenon
  <2>2. Cardinality(Releasing(o)) = 1 /\ Cardinality(Releasing(o)') = 0
    BY <1>5, <1>6, FS_EmptySet, FS_Singleton
  <2>3. PICK p \in Nat, q \in Nat : p = obj[o].pending /\ q = Cardinality(Running(o))
    BY <1>2, CountsNow
  <2>4. obj[o].ref = (IF InUse(o) THEN 1 ELSE 0) + p + q + 1
    BY <1>7, <2>2, <2>3 DEF CountsExact
  <2>5. obj'[o].ref = (IF InUse(o)' THEN 1 ELSE 0) + p + q
    <3>1. CASE o \in Simples
      <4>1. Drop(o) = 1 /\ (InUse(o)' <=> InUse(o))
        BY <1>3, <3>1 DEF Drop, InUse
      <4>2. PICK u \in {0, 1} : u = (IF InUse(o) THEN 1 ELSE 0) /\ u = (IF InUse(o)' THEN 1 ELSE 0)
        BY <4>1
      <4>3. obj'[o].ref = (u + p + q + 1) - 1
        BY <1>3, <2>4, <4>1, <4>2
      <4> QED BY <4>2, <4>3
    <3>2. CASE o \notin Simples /\ obj[o].shutdown
      <4>1. Drop(o) = 1 /\ ~InUse(o)' /\ ~InUse(o)
        BY <1>3, <1>5, <3>2 DEF Drop, InUse
      <4>3. obj'[o].ref = (0 + p + q + 1) - 1
        BY <1>3, <2>4, <4>1
      <4> QED BY <4>1, <4>3
    <3>3. CASE o \notin Simples /\ ~obj[o].shutdown
      <4>1. Drop(o) = 2 /\ ~InUse(o)' /\ InUse(o)
        BY <1>3, <1>5, <3>3 DEF Drop, InUse
      <4>3. obj'[o].ref = (1 + p + q + 1) - 2
        BY <1>3, <2>4, <4>1
      <4> QED BY <4>1, <4>3
    <3> QED BY <3>1, <3>2, <3>3
  <2>6. obj'[o].ref = (IF InUse(o)' THEN 1 ELSE 0) + obj'[o].pending + Cardinality(Running(o)') + Cardinality(Releasing(o)')
    BY <1>3, <2>1, <2>2, <2>3, <2>5
  <2> QED BY <1>3, <1>7, <2>1, <2>6 DEF CountsExact
<1>9. FlagsExact(o)'
  BY <1>3, <1>5, <1>7 DEF FlagsExact
<1>10. SimpleExact(o)'
  BY <1>3, <1>7 DEF SimpleExact
<1>11. ObjectExact(o)'
  BY <1>2, <1>8, <1>9, <1>10, ObjectNext, Zenon
<1>12. \A x \in Objects \ {o} : Releasing(x)' = Releasing(x) /\ (Contains(members', x) => Contains(members, x))
  BY <1>2, <1>6
<1>13. pc[c] # "a_submit"
  BY <1>2
<1> QED BY <1>0, <1>2, <1>11, <1>12, <1>13, ObjectAlone, Zenon

LEMMA ObjectCancels ==
  ASSUME IInv, NEW c \in Clients, NEW o, Cancels(c, o), NEW x \in Objects
  PROVE  ObjectExact(x)'
<1>0. c \in Threads /\ TypeOK
  BY Kinds DEF IInv
<1>1. o \in Objects /\ Cancel(o) /\ handle' = handle /\ members' = members /\ gone' = gone /\ SameRunners /\ Others(c)
  BY CancelStep, Zenon
<1>2. (handle[o] = "live" \/ Contains(gone[c], o)) /\ pc[c] # "a_submit"
  BY CancelStep
<1>3. /\ obj'[o].ref = obj[o].ref - obj[o].pending /\ obj'[o].pending = 0
      /\ obj'[o].running = obj[o].running /\ obj'[o].associated = obj[o].associated
      /\ obj'[o].state = obj[o].state /\ obj'[o].shutdown = obj[o].shutdown
      /\ \A y \in Objects \ {o} : obj'[y] = obj[y]
  BY <1>0, <1>1, CancelObject, Zenon
<1>4. \A y : SameUsers(y)
  BY <1>1, UsersKept, Zenon
<1>5. CASE x # o
  <2>1. SameObject(x) /\ handle'[x] = handle[x] /\ SubmittersStay(x) /\ (Contains(members', x) => Contains(members, x))
    BY <1>0, <1>1, <1>2, <1>3, <1>5, SubmitterStays, UnchangedObject
  <2> QED BY <1>4, <2>1, ObjectStays, Zenon
<1>6. ObjectExact(o)'
  <2>1. CountsExact(o) /\ FlagsExact(o) /\ SimpleExact(o)
    BY <1>1, ObjectNow, Zenon
  <2>2. /\ InUse(o)' <=> InUse(o)
        /\ Running(o)' = Running(o) /\ Associates(o)' = Associates(o) /\ Releasing(o)' = Releasing(o)
    BY <1>1, <1>4 DEF InUse, SameUsers
  <2>3. PICK r \in Nat, p \in Nat, q \in Nat, l \in {0, 1}, u \in {0, 1} :
          /\ r = obj[o].ref /\ p = obj[o].pending /\ q = Cardinality(Running(o)) /\ l = Cardinality(Releasing(o))
          /\ u = (IF InUse(o) THEN 1 ELSE 0) /\ r = u + p + q + l /\ obj[o].running = q
    BY <1>1, Summands, Zenon
  <2>4. obj'[o].ref = u + 0 + q + l /\ obj'[o].ref <= obj[o].ref /\ obj[o].ref \in Int
    BY <1>3, <2>3
  <2>5. CountsExact(o)'
    BY <1>3, <2>1, <2>2, <2>3, <2>4 DEF CountsExact
  <2>6. InUse(o) \/ Releasing(o) # {}
    BY <1>2 DEF InUse, Releasing
  <2>7. obj[o].state = "alive"
    BY <1>1, <2>6, Referenced
  <2>8. FlagsExact(o)'
    <3>1. handle[o] = "closed" /\ obj'[o].ref > 0 => obj[o].ref > 0
      BY <2>3, <2>4
    <3>2. handle[o] = "alloc" /\ obj[o].ref = 1 => obj'[o].ref = 1
      <4>1. handle[o] = "alloc" => u = 1
        BY <2>3 DEF InUse
      <4>2. l \in Nat /\ (u = 1 /\ r = 1 => q = 0 /\ l = 0)
        BY <2>3
      <4>3. u = 1 /\ r = 1 => u + 0 + q + l = 1
        BY <4>2
      <4> QED BY <2>3, <2>4, <4>1, <4>3
    <3> QED BY <1>1, <1>3, <2>1, <2>7, <3>1, <3>2 DEF FlagsExact
  <2>9. SimpleExact(o)'
    <3>1. o \in Simples => Releasing(o) # {}
      BY <1>2, <2>1 DEF SimpleExact, Releasing
    <3> QED BY <1>1, <1>3, <2>1, <2>2, <3>1 DEF SimpleExact
  <2> QED BY <1>1, <2>5, <2>8, <2>9, ObjectNext, Zenon
<1> QED BY <1>5, <1>6

\* A worker w deals with o: for the other objects nothing changes.
LEMMA ObjectOther ==
  ASSUME IInv, NEW w \in Workers, OtherRunners(w), Others(w), NEW x \in Objects, obj'[x] = obj[x],
         ~(pc[w] = "callback" /\ arg[w] = x), ~(pc'[w] = "callback" /\ arg'[w] = x),
         handle' = handle, members' = members, gone' = gone
  PROVE  ObjectExact(x)'
<1>1. w \in Threads /\ w \notin Clients
  BY Kinds
<1>2. Running(x)' = Running(x) /\ Associates(x)' = Associates(x)
  BY OtherRunnersKept, Zenon
<1>3. SameUsers(x)
  BY <1>2, ReleasingKept DEF SameUsers
<1>4. SubmittersStay(x)
  BY <1>1, SubmitterStays
<1>5. SameObject(x)
  BY UnchangedObject, Zenon
<1>6. handle'[x] = handle[x] /\ (Contains(members', x) => Contains(members, x))
  OBVIOUS
<1> QED BY <1>3, <1>4, <1>5, <1>6, ObjectStays, Zenon

LEMMA AssociatesFinite ==
  ASSUME IInv, NEW o \in Objects
  PROVE  /\ IsFiniteSet(Running(o)) /\ IsFiniteSet(Associates(o)) /\ Cardinality(Associates(o)) \in Nat
         /\ obj[o].associated = Cardinality(Associates(o))
<1>1. IsFiniteSet(Running(o))
  BY Counted, Zenon DEF IInv
<1>2. Associates(o) \in SUBSET Running(o)
  BY DEF Associates
<1>3. IsFiniteSet(Associates(o))
  BY <1>1, <1>2, FS_Subset, Zenon
<1>4. Cardinality(Associates(o)) \in Nat
  BY <1>3, FS_CardinalityType, Zenon
<1>5. obj[o].associated = Cardinality(Associates(o))
  BY ObjectNow DEF CountsExact
<1> QED BY <1>1, <1>3, <1>4, <1>5

LEMMA ObjectTake ==
  ASSUME IInv, NEW w \in Workers, WorkerTake(w), NEW x \in Objects
  PROVE  ObjectExact(x)'
<1>0. TypeOK /\ QueuesExact
  BY DEF IInv
<1>1. PICK o : o = NextItem
  OBVIOUS
<1>2. /\ handle' = handle /\ members' = members /\ gone' = gone /\ OtherRunners(w) /\ Others(w)
      /\ pc'[w] = "callback" /\ arg'[w] = o /\ inst'[w].associated
  BY <1>1, TakeStep, Zenon
<1>3. pc[w] # "callback"
  <2>1. pc[w] \in {"start", "wake", "locked"}
    BY <1>1, TakeStep, Zenon
  <2> QED BY <2>1
<1>4. /\ o \in Objects /\ obj[o].pending > 0
      /\ obj'[o].ref = obj[o].ref /\ obj'[o].pending = obj[o].pending - 1
      /\ obj'[o].running = obj[o].running + 1 /\ obj'[o].associated = obj[o].associated + 1
      /\ obj'[o].state = obj[o].state /\ obj'[o].shutdown = obj[o].shutdown
      /\ \A y \in Objects \ {o} : obj'[y] = obj[y]
  BY <1>0, <1>1, TakeObject, Zenon
<1>5. CASE x # o
  <2>1. obj'[x] = obj[x] /\ ~(pc[w] = "callback" /\ arg[w] = x) /\ ~(pc'[w] = "callback" /\ arg'[w] = x)
    BY <1>2, <1>3, <1>4, <1>5
  <2> QED BY <1>2, <2>1, ObjectOther, Zenon
<1>6. ObjectExact(o)'
  <2>1. CountsExact(o) /\ FlagsExact(o) /\ SimpleExact(o)
    BY <1>4, ObjectNow, Zenon
  <2>2. /\ Running(o)' = Running(o) \cup {w} /\ w \notin Running(o)
        /\ Associates(o)' = Associates(o) \cup {w} /\ w \notin Associates(o)
    BY <1>2, <1>3 DEF Running, Associates, OtherRunners
  <2>3. /\ IsFiniteSet(Running(o)) /\ IsFiniteSet(Associates(o)) /\ obj[o].associated = Cardinality(Associates(o))
    BY <1>4, AssociatesFinite
  <2>4. Cardinality(Running(o)') = Cardinality(Running(o)) + 1 /\ Cardinality(Associates(o)') = Cardinality(Associates(o)) + 1
    BY <2>2, <2>3, FS_AddElement
  <2>5. PICK r \in Nat, p \in Nat, q \in Nat, l \in {0, 1}, u \in {0, 1} :
          /\ r = obj[o].ref /\ p = obj[o].pending /\ q = Cardinality(Running(o)) /\ l = Cardinality(Releasing(o))
          /\ u = (IF InUse(o) THEN 1 ELSE 0) /\ r = u + p + q + l /\ obj[o].running = q
    BY <1>4, Summands, Zenon
  <2>6. (InUse(o)' <=> InUse(o)) /\ Releasing(o)' = Releasing(o)
    BY <1>2, ReleasingKept DEF InUse
  <2>7. u + p + q + l = u + (p - 1) + (q + 1) + l
    BY <2>5
  <2>8. obj'[o].ref = (IF InUse(o)' THEN 1 ELSE 0) + obj'[o].pending + Cardinality(Running(o)') + Cardinality(Releasing(o)')
    BY <1>4, <2>4, <2>5, <2>6, <2>7
  <2>9. CountsExact(o)'
    BY <1>4, <2>3, <2>4, <2>5, <2>8 DEF CountsExact
  <2>10. FlagsExact(o)'
    BY <1>2, <1>4, <2>1 DEF FlagsExact
  <2>11. SimpleExact(o)'
    BY <1>2, <1>4, <2>1, <2>2 DEF SimpleExact
  <2> QED BY <1>4, <2>9, <2>10, <2>11, ObjectNext, Zenon
<1> QED BY <1>5, <1>6

LEMMA ObjectReturn ==
  ASSUME IInv, NEW w \in Workers, CallbackReturns(w), NEW x \in Objects
  PROVE  ObjectExact(x)'
<1>0. TypeOK
  BY DEF IInv
<1>1. PICK o : o = arg[w]
  OBVIOUS
<1>2. /\ o \in Objects /\ handle' = handle /\ members' = members /\ gone' = gone /\ OtherRunners(w) /\ Others(w)
      /\ pc[w] = "callback"
  BY <1>1, ReturnStep, Zenon
<1>3. pc'[w] # "callback"
  <2>1. pc'[w] = (IF obj[o].ref = 1 THEN "destroy" ELSE "locked")
    BY <1>1, ReturnStep, Zenon
  <2> QED BY <2>1
<1>4. /\ obj'[o].ref = obj[o].ref - 1 /\ obj'[o].pending = obj[o].pending /\ obj'[o].running = obj[o].running - 1
      /\ obj'[o].associated = (IF inst[w].associated THEN obj[o].associated - 1 ELSE obj[o].associated)
      /\ obj'[o].state = obj[o].state /\ (obj'[o].shutdown <=> obj[o].shutdown \/ o \in Simples)
      /\ \A y \in Objects \ {o} : obj'[y] = obj[y]
  BY <1>0, <1>1, <1>2, ReturnObject
<1>5. CASE x # o
  <2>1. obj'[x] = obj[x] /\ ~(pc[w] = "callback" /\ arg[w] = x) /\ ~(pc'[w] = "callback" /\ arg'[w] = x)
    BY <1>1, <1>3, <1>4, <1>5
  <2> QED BY <1>2, <2>1, ObjectOther, Zenon
<1>6. ObjectExact(o)'
  <2>1. CountsExact(o) /\ FlagsExact(o) /\ SimpleExact(o)
    BY <1>2, ObjectNow, Zenon
  <2>2. /\ Running(o)' = Running(o) \ {w} /\ w \in Running(o)
        /\ Associates(o)' = Associates(o) \ {w} /\ (w \in Associates(o) <=> inst[w].associated)
    BY <1>1, <1>2, <1>3 DEF Running, Associates, OtherRunners
  <2>3. /\ IsFiniteSet(Running(o)) /\ IsFiniteSet(Associates(o)) /\ obj[o].associated = Cardinality(Associates(o))
        /\ Cardinality(Associates(o)) \in Nat
    BY <1>2, AssociatesFinite
  <2>4. /\ Cardinality(Running(o)') = Cardinality(Running(o)) - 1
        /\ Cardinality(Associates(o)') = IF inst[w].associated THEN Cardinality(Associates(o)) - 1 ELSE Cardinality(Associates(o))
    BY <2>2, <2>3, FS_RemoveElement, ZenonT(40)
  <2>5. PICK r \in Nat, p \in Nat, q \in Nat, l \in {0, 1}, u \in {0, 1} :
          /\ r = obj[o].ref /\ p = obj[o].pending /\ q = Cardinality(Running(o)) /\ l = Cardinality(Releasing(o))
          /\ u = (IF InUse(o) THEN 1 ELSE 0) /\ r = u + p + q + l /\ obj[o].running = q
    BY <1>2, Summands, Zenon
  <2>6. (InUse(o)' <=> InUse(o)) /\ Releasing(o)' = Releasing(o)
    BY <1>2, ReleasingKept DEF InUse
  <2>7. (u + p + q + l) - 1 = u + p + (q - 1) + l
    BY <2>5
  <2>8. obj'[o].ref = (IF InUse(o)' THEN 1 ELSE 0) + obj'[o].pending + Cardinality(Running(o)') + Cardinality(Releasing(o)')
    BY <1>4, <2>4, <2>5, <2>6, <2>7
  <2>9. CountsExact(o)'
    BY <1>4, <2>3, <2>4, <2>5, <2>8 DEF CountsExact
  <2>10. obj[o].state = "alive" /\ (InUse(o) => obj[o].ref # 1)
    BY <1>2, <2>2, Referenced
  <2>11. FlagsExact(o)'
    <3>1. handle[o] = "alloc" => obj[o].ref # 1
      BY <2>10 DEF InUse
    <3>2. obj'[o].ref > 0 => obj[o].ref > 0
      BY <1>4, <2>5
    <3> QED BY <1>2, <1>4, <2>1, <2>10, <3>1, <3>2 DEF FlagsExact
  <2>12. SimpleExact(o)'
    BY <1>2, <1>4, <2>1 DEF SimpleExact
  <2> QED BY <1>2, <2>9, <2>11, <2>12, ObjectNext, Zenon
<1> QED BY <1>5, <1>6

LEMMA ObjectDisassociate ==
  ASSUME IInv, NEW w \in Workers, TpDisassociateCallback(w), NEW x \in Objects
  PROVE  ObjectExact(x)'
<1>0. TypeOK
  BY DEF IInv
<1>1. PICK o : o = arg[w]
  OBVIOUS
<1>2. /\ o \in Objects /\ handle' = handle /\ members' = members /\ gone' = gone /\ OtherRunners(w) /\ Others(w)
      /\ pc[w] = "callback" /\ pc'[w] = "callback" /\ arg'[w] = o /\ inst[w].associated /\ ~inst'[w].associated
  BY <1>1, DisassociateStep, Zenon
<1>4. /\ obj'[o].ref = obj[o].ref /\ obj'[o].pending = obj[o].pending /\ obj'[o].running = obj[o].running
      /\ obj'[o].associated = obj[o].associated - 1 /\ obj'[o].state = obj[o].state /\ obj'[o].shutdown = obj[o].shutdown
      /\ \A y \in Objects \ {o} : obj'[y] = obj[y]
  BY <1>0, <1>1, <1>2, DisassociateObject
<1>5. CASE x # o
  <2>1. obj'[x] = obj[x] /\ ~(pc[w] = "callback" /\ arg[w] = x) /\ ~(pc'[w] = "callback" /\ arg'[w] = x)
    BY <1>1, <1>2, <1>4, <1>5
  <2> QED BY <1>2, <2>1, ObjectOther, Zenon
<1>6. ObjectExact(o)'
  <2>1. CountsExact(o) /\ FlagsExact(o) /\ SimpleExact(o)
    BY <1>2, ObjectNow, Zenon
  <2>2. Running(o)' = Running(o) /\ Associates(o)' = Associates(o) \ {w} /\ w \in Associates(o)
    BY <1>1, <1>2 DEF Running, Associates, OtherRunners
  <2>3. IsFiniteSet(Associates(o)) /\ obj[o].associated = Cardinality(Associates(o))
    BY <1>2, AssociatesFinite
  <2>4. Cardinality(Associates(o)') = Cardinality(Associates(o)) - 1
    BY <2>2, <2>3, FS_RemoveElement
  <2>5. (InUse(o)' <=> InUse(o)) /\ Releasing(o)' = Releasing(o)
    BY <1>2, ReleasingKept DEF InUse
  <2>6. CountsExact(o)'
    BY <1>4, <2>1, <2>2, <2>3, <2>4, <2>5 DEF CountsExact
  <2>7. FlagsExact(o)'
    BY <1>2, <1>4, <2>1 DEF FlagsExact
  <2>8. SimpleExact(o)'
    <3>1. w \in Running(o)'
      BY <2>2 DEF Associates
    <3> QED BY <1>2, <2>1, <3>1 DEF SimpleExact
  <2> QED BY <1>2, <2>6, <2>7, <2>8, ObjectNext, Zenon
<1> QED BY <1>5, <1>6

LEMMA ObjectReleases ==
  ASSUME IInv, NEW w \in Workers, CallbackReleases(w)
  PROVE  \A x \in Objects : ObjectExact(x)'
<1>1. PICK o : o = arg[w]
  OBVIOUS
<1>2. /\ o \in Objects /\ o \notin Simples /\ Beside(o) /\ gone' = gone /\ members' = members /\ SameRunners /\ Others(w)
      /\ pc[w] = "callback" /\ obj[o].state = "alive"
  BY <1>1, CallbackReleasesStep, Zenon
<1>3. handle[o] \in {"live", "closing"} /\ handle'[o] = "closed"
  BY <1>1, CallbackReleasesStep, Zenon
<1>4. obj'[o].state = obj[o].state
  BY <1>1, CallbackReleasesStep, Zenon
<1>5. obj'[o].ref = obj[o].ref - 1
  BY <1>1, CallbackReleasesStep, ZenonT(60)
<1>6. obj'[o].pending = obj[o].pending /\ obj'[o].running = obj[o].running
  BY <1>1, CallbackReleasesStep, Zenon
<1>7. obj'[o].associated = obj[o].associated /\ obj'[o].shutdown
  BY <1>1, CallbackReleasesStep, Zenon
<1>8. \A x : SameUsers(x)
  BY <1>2, UsersKept, Zenon
<1>9. CountsExact(o)'
  BY <1>2, <1>3, <1>4, <1>5, <1>6, <1>7, <1>8, CountsClose DEF InUse
<1>10. FlagsExact(o)' /\ SimpleExact(o)'
  BY <1>2, <1>3, <1>4, <1>6, <1>7 DEF FlagsExact, SimpleExact
<1>11. ObjectExact(o)'
  BY <1>2, <1>9, <1>10, ObjectNext, Zenon
<1>12. \A x \in Objects \ {o} : Releasing(x)' = Releasing(x) /\ (Contains(members', x) => Contains(members, x))
  BY <1>2, <1>8 DEF SameUsers
<1>13. w \in Threads /\ pc[w] # "a_submit"
  BY <1>2, Kinds
<1> QED BY <1>2, <1>11, <1>12, <1>13, ObjectAlone, Zenon

LEMMA ObjectStep ==
  ASSUME IInv, Next
  PROVE  \A x \in Objects : ObjectExact(x)'
<1>1. ASSUME NEW t \in Threads, Quiet(t) \/ (\E o : Submits(t, o)) \/ Destroy(t) \/ Destroy2(t)
      PROVE  \A x \in Objects : ObjectExact(x)'
  BY <1>1, ObjectQuiet, ObjectSubmits, ObjectDestroy, ObjectDestroy2, Zenon
<1>2. ASSUME NEW c \in Clients, (\E o : Cancels(c, o)) \/ (\E o \in Objects : Alloc(c, o)) \/ TpReleaseCleanupGroupMembers(c)
      PROVE  \A x \in Objects : ObjectExact(x)'
  BY <1>2, ObjectCancels, ObjectAlloc, ObjectReleaseMembers, Zenon
<1>3. ASSUME NEW c \in Clients, AllocTimerFails(c) \/ AllocGroup(c) \/ Unref(c) \/ MemberEach(c) \/ MemberRelease(c)
      PROVE  \A x \in Objects : ObjectExact(x)'
  BY <1>3, ObjectAllocFails, ObjectAllocGroup, ObjectUnref, ObjectMemberEach, ObjectMemberRelease, Zenon
<1>4. ASSUME NEW w \in Workers, WorkerTake(w) \/ CallbackReturns(w) \/ TpDisassociateCallback(w) \/ CallbackReleases(w)
      PROVE  \A x \in Objects : ObjectExact(x)'
  BY <1>4, ObjectTake, ObjectReturn, ObjectDisassociate, ObjectReleases, Zenon
<1> QED BY <1>1, <1>2, <1>3, <1>4, Cases, Zenon

----------------------------------------
(* The cleanup group *)

LEMMA GroupNow ==
  ASSUME IInv
  PROVE  IsInjective(members) /\ (\A c \in Clients : IsInjective(gone[c])) /\ \A o \in Objects : MemberExact(o)
BY DEF IInv, GroupExact

LEMMA GroupNext ==
  ASSUME IsInjective(members'), \A c \in Clients : IsInjective(gone'[c]), \A o \in Objects : MemberExact(o)'
  PROVE  GroupExact'
BY DEF GroupExact

\* An object stays, leaves the lists, or is closed.
LEMMA MemberStays ==
  ASSUME NEW o \in Objects, MemberExact(o), Releasing(o)' = Releasing(o), Contains(members', o) => Contains(members, o),
         handle'[o] = handle[o] \/ handle'[o] \in {"closing", "closed"} \/ (~Contains(members, o) /\ Releasing(o) = {}),
         GroupNotLocked
  PROVE  MemberExact(o)'
BY DEF MemberExact, GroupNotLocked

LEMMA GroupStays ==
  ASSUME IInv, gone' = gone, IsInjective(members'), \A x : Contains(members', x) => Contains(members, x), GroupNotLocked,
         \A x \in Objects : handle'[x] = handle[x] \/ handle'[x] \in {"closing", "closed"} \/ (~Contains(members, x) /\ Releasing(x) = {})
  PROVE  GroupExact'
<1>1. \A x \in Objects : MemberExact(x)'
  BY GroupNow, ReleasingKept, MemberStays
<1>2. \A c \in Clients : IsInjective(gone'[c])
  BY GroupNow
<1> QED BY <1>1, <1>2, GroupNext, Zenon

\* The lock of the pool or of the timers changes hands.
LEMMA OtherLock ==
  ASSUME TypeOK, NEW l \in {"pool", "timers"}, NEW u, lock' = lock \/ lock' = [lock EXCEPT ![l] = u]
  PROVE  GroupNotLocked
<1>1. lock'["group"] = lock["group"]
  BY DEF TypeOK, Locks
<1> QED BY <1>1 DEF GroupNotLocked, Free

LEMMA QuietLock ==
  ASSUME IInv, NEW t \in Threads, Quiet(t)
  PROVE  GroupNotLocked
<1>0. TypeOK
  BY DEF IInv
<1>1. CASE t \in Clients /\ QuietCall(t)
  <2>1. ASSUME MembersMoved(t) PROVE GroupNotLocked
    <3>1. lock' = [lock EXCEPT !["group"] = None]
      BY <2>1 DEF MembersMoved
    <3>2. lock'["group"] = None
      BY <1>0, <3>1 DEF TypeOK, Locks
    <3> QED BY <3>2 DEF GroupNotLocked, Free
  <2>2. ASSUME ~MembersMoved(t) PROVE GroupNotLocked
    <3>1. lock' = lock
      BY <1>1, <2>2, Zenon DEF QuietCall, TpSetPoolMaxThreads, TpSetPoolMinThreads, TpReleasePool, TpReleaseCleanupGroup,
              TpRelease, TpSetTimer, TpWaitFor, AllocTimer, ObjectWait, MemberWait, MembersReleased, MemberTimer
    <3> QED BY <3>1 DEF GroupNotLocked, Free
  <2> QED BY <2>1, <2>2
<1>2. CASE t \in Workers /\ QuietWork(t)
  <2>1. lock' = lock \/ lock' = [lock EXCEPT !["pool"] = t] \/ lock' = [lock EXCEPT !["pool"] = None]
    BY <1>2, Zenon DEF QuietWork, WorkerNoItem, WorkerSleep, WorkerTimeout, WorkerTimedOut, WorkerLeave, TpCallbackMayRunLong
  <2> QED BY <1>0, <2>1, OtherLock
<1>3. CASE t = TimerThread /\ QuietTimer
  <2>1. lock' = lock \/ lock' = [lock EXCEPT !["timers"] = TimerThread]
    BY <1>3, Zenon DEF QuietTimer, TimerExpires, TimerThreadEnds
  <2> QED BY <1>0, <2>1, OtherLock
<1> QED BY <1>1, <1>2, <1>3 DEF Quiet

LEMMA SubmitsLock ==
  ASSUME IInv, NEW t \in Threads, NEW o, Submits(t, o)
  PROVE  GroupNotLocked
<1>0. TypeOK
  BY DEF IInv
<1>1. lock' = lock \/ lock' = [lock EXCEPT !["timers"] = None]
  BY Zenon DEF Submits, TpPostWork, AllocSubmit, SetTimerSubmit, CallbackPosts, TimerSubmit
<1> QED BY <1>0, <1>1, OtherLock

LEMMA GroupQuiet ==
  ASSUME IInv, NEW t \in Threads, Quiet(t) \/ (\E o : Submits(t, o)) \/ Destroy(t) \/ Destroy2(t)
  PROVE  GroupExact'
<1>0. IsInjective(members)
  BY GroupNow, Zenon
<1>1. ASSUME members' = members, gone' = gone, handle' = handle, GroupNotLocked PROVE GroupExact'
  BY <1>0, <1>1, GroupStays
<1>2. CASE Quiet(t)
  <2>1. members' = members /\ gone' = gone /\ handle' = handle
    BY <1>2, QuietKept, Zenon DEF Kept
  <2> QED BY <1>1, <1>2, <2>1, QuietLock, Zenon
<1>3. ASSUME NEW o, Submits(t, o) PROVE GroupExact'
  <2>1. members' = members /\ gone' = gone /\ handle' = handle
    BY <1>3, SubmitUse, Zenon
  <2> QED BY <1>1, <1>3, <2>1, SubmitsLock, Zenon
<1>4. CASE Destroy(t) \/ Destroy2(t)
  <2>1. lock' = lock
    BY <1>4, Zenon DEF Destroy, Destroy2
  <2>2. GroupNotLocked
    BY <2>1 DEF GroupNotLocked, Free
  <2>3. CASE Destroy2(t)
    <3>1. members' = members /\ gone' = gone /\ handle' = handle
      BY <2>3, Destroy2Step, Zenon
    <3> QED BY <1>1, <2>2, <3>1, Zenon
  <2>4. CASE Destroy(t)
    <3>1. gone' = gone /\ handle' = handle /\ IsInjective(members') 
      BY <2>4, DestroyStep, Zenon
    <3>2. \A x : Contains(members', x) => Contains(members, x)
      BY <2>4, DestroyStep
    <3> QED BY <2>2, <3>1, <3>2, GroupStays
  <2> QED BY <1>4, <2>3, <2>4
<1> QED BY <1>2, <1>3, <1>4

LEMMA GroupClients ==
  ASSUME IInv, NEW c \in Clients, (\E o : Cancels(c, o)) \/ (\E o \in Objects : Alloc(c, o)) \/ AllocTimerFails(c) \/ Unref(c)
  PROVE  GroupExact'
<1>0. IsInjective(members)
  BY GroupNow, Zenon
<1>1. lock' = lock /\ members' = members /\ gone' = gone
  BY Zenon DEF Cancels, TpWaitFor, MemberCancel, Alloc, AllocTimerFails, Unref, groupVars
<1>2. GroupNotLocked
  BY <1>1 DEF GroupNotLocked, Free
<1>3. ASSUME NEW o \in Objects, \A x \in Objects \ {o} : handle'[x] = handle[x],
             handle'[o] \in {"closing", "closed"} \/ (~Contains(members, o) /\ Releasing(o) = {})
      PROVE  GroupExact'
  <2>1. \A x \in Objects : handle'[x] = handle[x] \/ handle'[x] \in {"closing", "closed"} \/ (~Contains(members, x) /\ Releasing(x) = {})
    BY <1>3
  <2>2. \A x : Contains(members', x) => Contains(members, x)
    BY <1>1
  <2> QED BY <1>0, <1>1, <1>2, <2>1, <2>2, GroupStays
<1>4. ASSUME NEW o, Cancels(c, o) PROVE GroupExact'
  <2>1. handle' = handle
    BY <1>4, CancelStep, Zenon
  <2> QED BY <1>0, <1>1, <1>2, <2>1, GroupStays
<1>5. ASSUME NEW o \in Objects, Alloc(c, o) PROVE GroupExact'
  <2>1. Beside(o) /\ handle[o] = "none"
    BY <1>5, AllocStep, Zenon
  <2>2. obj[o].state = "none" /\ ~Contains(members, o)
    BY <2>1, ObjectNow DEF FlagsExact
  <2>3. Releasing(o) = {}
    BY <2>2, Referenced
  <2> QED BY <1>3, <2>1, <2>2, <2>3 DEF Beside
<1>6. PICK a : a = arg[c]
  OBVIOUS
<1>7. CASE AllocTimerFails(c)
  <2>1. a \in Objects /\ Beside(a)
    BY <1>6, <1>7, AllocFailsStep, Zenon
  <2>2. handle'[a] = "closed"
    BY <1>6, <1>7, AllocFailsStep
  <2> QED BY <1>3, <2>1, <2>2 DEF Beside
<1>8. CASE Unref(c)
  <2>1. a \in Objects /\ Beside(a) /\ handle'[a] = "closed"
    BY <1>6, <1>8, UnrefStep, ZenonT(60)
  <2> QED BY <1>3, <2>1 DEF Beside
<1> QED BY <1>4, <1>5, <1>7, <1>8

LEMMA GroupReleaseMembers ==
  ASSUME IInv, NEW c \in Clients, TpReleaseCleanupGroupMembers(c)
  PROVE  GroupExact'
<1>1. members' = members /\ gone' = gone
  BY ReleaseMembersStep, Zenon
<1>2. \A x \in Objects : handle'[x] = IF x \in Grouped /\ handle[x] = "live" THEN "closing" ELSE handle[x]
  BY ReleaseMembersStep
<1>3. ASSUME NEW x \in Objects PROVE MemberExact(x)'
  <2>1. MemberExact(x) /\ Releasing(x)' = Releasing(x) /\ (Contains(members', x) <=> Contains(members, x))
    BY <1>1, GroupNow, ReleasingKept
  <2>2. x \in Grouped => handle'[x] # "live" /\ (handle[x] \in {"live", "closing", "closed"} => handle'[x] \in {"closing", "closed"})
    BY <1>2
  <2> QED BY <2>1, <2>2 DEF MemberExact
<1>4. IsInjective(members') /\ \A d \in Clients : IsInjective(gone'[d])
  BY <1>1, GroupNow
<1> QED BY <1>3, <1>4, GroupNext, Zenon

LEMMA GroupAllocGroup ==
  ASSUME IInv, NEW c \in Clients, AllocGroup(c)
  PROVE  GroupExact'
<1>1. PICK o : o = arg[c]
  OBVIOUS
<1>2. o \in Objects /\ Beside(o) /\ gone' = gone /\ IsInjective(members') /\ pc[c] = "a_group"
  BY <1>1, AllocGroupStep, Zenon
<1>3. /\ handle'[o] = (IF o \in Simples THEN "alloc" ELSE "live")
      /\ \A x : Contains(members', x) <=> Contains(members, x) \/ (x = o /\ o \in Grouped)
  BY <1>1, AllocGroupStep
<1>4. lock' = lock /\ (o \in Grouped => Free("group"))
  BY <1>1 DEF AllocGroup
<1>5. Releasing(o) = {} /\ ~Contains(members, o)
  BY <1>1, <1>2 DEF IInv, ClientExact, Allocating
<1>6. GroupNotLocked
  BY <1>4 DEF GroupNotLocked, Free
<1>7. ASSUME NEW x \in Objects \ {o} PROVE MemberExact(x)'
  <2>1. MemberExact(x) /\ Releasing(x)' = Releasing(x)
    BY <1>2, GroupNow, ReleasingKept
  <2>2. (Contains(members', x) => Contains(members, x)) /\ handle'[x] = handle[x]
    BY <1>2, <1>3 DEF Beside
  <2> QED BY <1>6, <2>1, <2>2, MemberStays
<1>8. MemberExact(o)'
  <2>1. Releasing(o)' = {}
    BY <1>2, <1>5, ReleasingKept
  <2>2. Contains(members', o) => o \in Grouped /\ Free("group")'
    BY <1>3, <1>4, <1>5 DEF Free
  <2> QED BY <1>3, <2>1, <2>2 DEF MemberExact
<1>9. \A d \in Clients : IsInjective(gone'[d])
  BY <1>2, GroupNow
<1> QED BY <1>2, <1>7, <1>8, <1>9, GroupNext

LEMMA GroupMemberEach ==
  ASSUME IInv, NEW c \in Clients, MemberEach(c)
  PROVE  GroupExact'
<1>1. PICK o : o = Head(members)
  OBVIOUS
<1>2. /\ o \in Objects /\ Contains(members, o) /\ handle' = handle /\ IsInjective(members') /\ lock' = lock /\ pc[c] = "m_each"
  BY <1>1, MemberEachStep, Zenon
<1>3. \A x : Contains(members', x) <=> Contains(members, x) /\ x # o
  BY <1>1, MemberEachStep
<1>4. GroupNotLocked /\ ~Free("group")
  BY <1>2, Kinds DEF GroupNotLocked, Free, IInv, LocksHeld
<1>5. CASE Dying(o)
  <2>1. gone' = gone
    BY <1>1, <1>5, MemberEachStep
  <2> QED BY <1>2, <1>3, <1>4, <2>1, GroupStays
<1>6. CASE ~Dying(o)
  <2>1. /\ IsInjective(gone'[c]) /\ \A d \in Clients \ {c} : gone'[d] = gone[d]
    BY <1>1, <1>6, MemberEachLists, Zenon
  <2>2. Releasing(o)' = {c} /\ \A x \in Objects \ {o} : Releasing(x)' = Releasing(x)
    BY <1>1, <1>6, MemberEachLists
  <2>3. \A d \in Clients : IsInjective(gone'[d])
    BY <2>1, GroupNow
  <2>4. ASSUME NEW x \in Objects \ {o} PROVE MemberExact(x)'
    <3>1. MemberExact(x) /\ Releasing(x)' = Releasing(x) /\ (Contains(members', x) => Contains(members, x))
      BY <1>3, <2>2, GroupNow
    <3> QED BY <1>2, <1>4, <3>1, MemberStays
  <2>5. MemberExact(o)'
    <3>1. MemberExact(o) /\ ~Contains(members', o)
      BY <1>2, <1>3, GroupNow
    <3> QED BY <1>2, <1>4, <2>2, <3>1 DEF MemberExact
  <2> QED BY <1>2, <2>3, <2>4, <2>5, GroupNext
<1> QED BY <1>5, <1>6

LEMMA GroupMemberRelease ==
  ASSUME IInv, NEW c \in Clients, MemberRelease(c)
  PROVE  GroupExact'
<1>1. PICK o : o = arg[c]
  OBVIOUS
<1>2. o \in Objects /\ Beside(o) /\ Contains(gone[c], o) /\ members' = members
  BY <1>1, MemberReleaseStep, Zenon
<1>3. /\ gone' \in [Clients -> Seq(Objects)] /\ IsInjective(gone'[c]) /\ \A d \in Clients \ {c} : gone'[d] = gone[d]
  BY <1>1, MemberReleaseLists, Zenon
<1>4. \A x : Contains(gone'[c], x) <=> Contains(gone[c], x) /\ x # o
  BY <1>1, MemberReleaseLists
<1>5. lock' = lock
  BY DEF MemberRelease
<1>6. GroupNotLocked
  BY <1>5 DEF GroupNotLocked, Free
<1>7. Releasing(o) = {c}
  BY <1>2, DropUse
<1>8. Releasing(o)' = {} /\ \A x \in Objects \ {o} : Releasing(x)' = Releasing(x)
  BY <1>3, <1>4, <1>7 DEF Releasing
<1>9. ASSUME NEW x \in Objects \ {o} PROVE MemberExact(x)'
  <2>1. MemberExact(x) /\ Releasing(x)' = Releasing(x) /\ (Contains(members', x) => Contains(members, x))
    BY <1>2, <1>8, GroupNow
  <2>2. handle'[x] = handle[x]
    BY <1>2 DEF Beside
  <2> QED BY <1>6, <2>1, <2>2, MemberStays
<1>10. MemberExact(o)'
  <2>1. ~Contains(members', o)
    BY <1>2, <1>7, GroupNow DEF MemberExact
  <2> QED BY <1>8, <2>1 DEF MemberExact
<1>11. IsInjective(members') /\ \A d \in Clients : IsInjective(gone'[d])
  BY <1>2, <1>3, GroupNow
<1> QED BY <1>9, <1>10, <1>11, GroupNext

LEMMA GroupWorkers ==
  ASSUME IInv, NEW w \in Workers, WorkerTake(w) \/ CallbackReturns(w) \/ TpDisassociateCallback(w)
  PROVE  GroupExact'
<1>0. TypeOK /\ IsInjective(members)
  BY GroupNow DEF IInv
<1>1. lock' = lock \/ lock' = [lock EXCEPT !["pool"] = w] \/ lock' = [lock EXCEPT !["pool"] = None]
  BY Zenon DEF WorkerTake, CallbackReturns, TpDisassociateCallback
<1>2. members' = members /\ gone' = gone /\ handle' = handle
  BY Zenon DEF WorkerTake, CallbackReturns, TpDisassociateCallback, groupVars, userVars
<1>3. GroupNotLocked
  BY <1>0, <1>1, OtherLock
<1> QED BY <1>0, <1>2, <1>3, GroupStays

LEMMA GroupReleases ==
  ASSUME IInv, NEW w \in Workers, CallbackReleases(w)
  PROVE  GroupExact'
<1>1. PICK o : o = arg[w]
  OBVIOUS
<1>2. Beside(o) /\ handle'[o] = "closed" /\ members' = members /\ gone' = gone /\ lock' = lock
  BY <1>1, CallbackReleasesStep, Zenon
<1>3. GroupNotLocked /\ \A x \in Objects : handle'[x] = handle[x] \/ handle'[x] = "closed"
  BY <1>2 DEF GroupNotLocked, Free, Beside
<1> QED BY <1>2, <1>3, GroupNow, GroupStays

LEMMA GroupStep ==
  ASSUME IInv, Next
  PROVE  GroupExact'
<1>1. ASSUME NEW t \in Threads, Quiet(t) \/ (\E o : Submits(t, o)) \/ Destroy(t) \/ Destroy2(t)
      PROVE  GroupExact'
  BY <1>1, GroupQuiet, Zenon
<1>2. ASSUME NEW c \in Clients, (\E o : Cancels(c, o)) \/ (\E o \in Objects : Alloc(c, o)) \/ AllocTimerFails(c) \/ Unref(c)
      PROVE  GroupExact'
  BY <1>2, GroupClients, Zenon
<1>3. ASSUME NEW c \in Clients, TpReleaseCleanupGroupMembers(c) \/ AllocGroup(c) \/ MemberEach(c) \/ MemberRelease(c)
      PROVE  GroupExact'
  BY <1>3, GroupReleaseMembers, GroupAllocGroup, GroupMemberEach, GroupMemberRelease, Zenon
<1>4. ASSUME NEW w \in Workers, WorkerTake(w) \/ CallbackReturns(w) \/ TpDisassociateCallback(w) \/ CallbackReleases(w)
      PROVE  GroupExact'
  BY <1>4, GroupWorkers, GroupReleases, Zenon
<1> QED BY <1>1, <1>2, <1>3, <1>4, Cases, Zenon

----------------------------------------
(* The timers that the timer queue counts *)

\* A step of t that does not put x on the timer queue or take it off.
LEMMA CountedBeside ==
  ASSUME NEW t \in Threads, Others(t), \A c \in Clients \ {t} : gone'[c] = gone[c], NEW x, InUse(x)' <=> InUse(x),
         t \in Clients =>
              /\ Contains(gone'[t], x) <=> Contains(gone[t], x)
              /\ (pc[t] \in OffPlaces => arg[t] # x) /\ (pc'[t] \in OffPlaces => arg'[t] # x)
  PROVE  TimerCounted(x)' <=> TimerCounted(x)
<1>1. ASSUME NEW c \in Clients \ {t} PROVE OffQueue(c, x)' <=> OffQueue(c, x)
  <2>1. arg'[c] = arg[c] /\ \A p \in OffPlaces : pc'[c] = p <=> pc[c] = p
    BY Kinds DEF Others, OffPlaces
  <2> QED BY <2>1 DEF OffQueue, OffPlaces
<1>2. t \in Clients => (OffQueue(t, x)' <=> OffQueue(t, x))
  BY DEF OffQueue, OffPlaces
<1> QED BY <1>1, <1>2 DEF TimerCounted

LEMMA CountStays ==
  ASSUME IInv, timerq'.initialized = timerq.initialized, timerq'.objcount = timerq.objcount,
         \A x \in Timers : TimerCounted(x)' <=> TimerCounted(x)
  PROVE  TimersCounted'
BY DEF IInv, TimersCounted

LEMMA CountDrops ==
  ASSUME IInv, NEW o, TimerqueueUnlock(o), ~TimerCounted(o)', \A x \in Timers \ {o} : TimerCounted(x)' <=> TimerCounted(x)
  PROVE  TimersCounted'
<1>1. /\ timerq'.initialized = timerq.initialized \ {o}
      /\ timerq'.objcount = IF o \in timerq.initialized THEN timerq.objcount - 1 ELSE timerq.objcount
  BY Unlocked
<1>2. /\ IsFiniteSet(timerq.initialized) /\ timerq.objcount = Cardinality(timerq.initialized)
      /\ \A x \in Timers : x \in timerq.initialized <=> TimerCounted(x)
  BY DEF IInv, TimersCounted
<1>3. IsFiniteSet(timerq'.initialized) /\ timerq'.objcount = Cardinality(timerq'.initialized)
  <2>1. CASE o \in timerq.initialized
    BY <1>1, <1>2, <2>1, FS_RemoveElement
  <2>2. CASE o \notin timerq.initialized
    <3>1. timerq.initialized \ {o} = timerq.initialized
      BY <2>2
    <3> QED BY <1>1, <1>2, <2>2, <3>1
  <2> QED BY <2>1, <2>2
<1> QED BY <1>1, <1>2, <1>3 DEF TimersCounted

LEMMA CountedQuiet ==
  ASSUME IInv, NEW t \in Threads, Quiet(t)
  PROVE  TimersCounted'
<1>0. /\ Others(t) /\ gone' = gone /\ (\A x : InUse(x)' <=> InUse(x)) /\ Clients \cap Workers = {} /\ TimerThread \notin Clients
      /\ timerq \in TimerStruct
  BY QuietMoves, QuietKept, Kinds DEF Kept, InUse, IInv, TypeOK, TimerStruct
<1>1. ASSUME NEW x, t \in Clients => (pc[t] \in OffPlaces => arg[t] # x) /\ (pc'[t] \in OffPlaces => arg'[t] # x)
      PROVE  TimerCounted(x)' <=> TimerCounted(x)
  BY <1>0, <1>1, CountedBeside
<1>2. ASSUME t \in Clients, NEW o \in Objects, TpRelease(t, o) PROVE TimersCounted'
  <2>1. pc[t] = "idle" /\ pc'[t] = "unref" /\ arg'[t] = o
    BY <1>2, CallMoves DEF Moved
  <2>2. (\A x \in Timers \ {o} : TimerCounted(x)' <=> TimerCounted(x)) /\ ~TimerCounted(o)'
    BY <1>1, <1>2, <2>1 DEF TimerCounted, OffQueue, OffPlaces
  <2>3. IF o \in Timers THEN TimerqueueUnlock(o) ELSE timerq' = timerq
    BY <1>2 DEF TpRelease
  <2> QED BY <2>2, <2>3, CountDrops, CountStays
<1>3. ASSUME t \in Clients, MemberTimer(t) PROVE TimersCounted'
  <2>1. pc[t] = "m_timer" /\ pc'[t] = "m_each" /\ Contains(gone[t], arg[t])
    BY <1>3, MemberMoves, Dealt DEF Moved
  <2>2. (\A x \in Timers \ {arg[t]} : TimerCounted(x)' <=> TimerCounted(x)) /\ ~TimerCounted(arg[t])'
    <3>1. arg' = arg
      BY <1>3 DEF MemberTimer
    <3> QED BY <1>0, <1>1, <1>3, <2>1, <3>1 DEF TimerCounted, OffQueue, OffPlaces
  <2> QED BY <1>3, <2>2, CountDrops DEF MemberTimer
<1>4. ASSUME t \in Clients, AllocTimer(t) PROVE TimersCounted'
  <2>1. PICK o : o = arg[t]
    OBVIOUS
  <2>2. pc[t] = "a_timer" /\ pc'[t] = "a_group" /\ arg'[t] = o
    BY <1>4, <2>1, ObjectMoves DEF Moved
  <2>3. /\ o \in Timers /\ handle[o] = "alloc" /\ Releasing(o) = {}
        /\ \A d \in Clients \ {t} : pc[d] \in {"a_timer", "unref"} => arg[d] # o
    BY <1>4, <2>1, <2>2 DEF IInv, ClientExact, Allocating
  <2>4. \A x \in Timers \ {o} : TimerCounted(x)' <=> TimerCounted(x)
    BY <1>1, <2>1, <2>2 DEF OffPlaces
  <2>5. ~TimerCounted(o) /\ InUse(o)'
    BY <1>0, <1>4, <2>1, <2>2, <2>3 DEF TimerCounted, OffQueue, InUse
  <2>6. ASSUME NEW d \in Clients PROVE ~OffQueue(d, o)'
    <3>1. ~Contains(gone'[d], o)
      BY <1>0, <2>3 DEF Releasing
    <3>2. ~(pc'[d] \in {"a_timer", "unref"} /\ arg'[d] = o)
      BY <1>0, <2>2, <2>3, Kinds DEF Others
    <3> QED BY <3>1, <3>2 DEF OffQueue
  <2>7. timerq'.objcount = timerq.objcount + 1 /\ timerq'.initialized = timerq.initialized \cup {o}
    <3>1. timerq' = [timerq EXCEPT !.objcount = @ + 1, !.running = TRUE, !.initialized = @ \cup {o}]
      BY <1>4, <2>1 DEF AllocTimer
    <3> QED BY <1>0, <2>3, <3>1, TimerRecord
  <2>8. /\ IsFiniteSet(timerq.initialized) /\ timerq.objcount = Cardinality(timerq.initialized)
        /\ \A x \in Timers : x \in timerq.initialized <=> TimerCounted(x)
    BY DEF IInv, TimersCounted
  <2>9. IsFiniteSet(timerq'.initialized) /\ timerq'.objcount = Cardinality(timerq'.initialized)
    BY <2>3, <2>5, <2>7, <2>8, FS_AddElement
  <2> QED BY <2>4, <2>5, <2>6, <2>7, <2>8, <2>9 DEF TimersCounted, TimerCounted
<1>5. ASSUME timerq' = timerq \/ (\E S : timerq' = [timerq EXCEPT !.pending = S]) \/ timerq' = [timerq EXCEPT !.running = FALSE],
             t \in Clients => pc[t] \notin OffPlaces /\ pc'[t] \notin OffPlaces
      PROVE  TimersCounted'
  <2>1. timerq'.initialized = timerq.initialized /\ timerq'.objcount = timerq.objcount
    BY <1>0, <1>5 DEF TimerStruct
  <2> QED BY <1>1, <1>5, <2>1, CountStays
<1>6. CASE t \in Clients /\ QuietCall(t)
  <2>1. (\E n \in Limits : TpSetPoolMaxThreads(t, n) \/ TpSetPoolMinThreads(t, n)) \/ TpReleasePool(t) \/ TpReleaseCleanupGroup(t)
           => pc[t] = "idle" /\ pc'[t] = "idle" /\ timerq' = timerq
    BY <1>6, CallMoves, Zenon DEF Moved, TpSetPoolMaxThreads, TpSetPoolMinThreads, TpReleasePool, TpReleaseCleanupGroup
  <2>2. \A o \in Objects : TpWaitFor(t, o, FALSE) => pc[t] = "idle" /\ pc'[t] = "w_check" /\ timerq' = timerq
    BY <1>6, CallMoves, Zenon DEF Moved, TpWaitFor
  <2>3. \A o \in Objects, later, now, period \in BOOLEAN : TpSetTimer(t, o, later, now, period) =>
            pc[t] = "idle" /\ pc'[t] \in {"s_submit", "idle"} /\ \E S : timerq' = [timerq EXCEPT !.pending = S]
    BY <1>6, CallMoves DEF Moved, TpSetTimer
  <2>4. ObjectWait(t) => pc[t] = "w_check" /\ pc'[t] \in {"idle", "w_sleep"} /\ timerq' = timerq
    BY <1>6, ObjectMoves DEF Moved, ObjectWait
  <2>5. MembersMoved(t) \/ MemberWait(t) \/ MembersReleased(t) =>
            /\ pc[t] \in {"m_each", "m_wait"} /\ pc'[t] \in {"m_wait", "m_cancel", "m_release", "m_sleep", "idle"}
            /\ timerq' = timerq
    BY <1>6, MemberMoves DEF Moved, MembersMoved, MemberWait, MembersReleased
  <2> QED BY <1>2, <1>3, <1>4, <1>5, <1>6, <2>1, <2>2, <2>3, <2>4, <2>5 DEF QuietCall, OffPlaces
<1>7. CASE t \in Workers /\ QuietWork(t)
  <2>1. timerq' = timerq
    BY <1>7, Zenon DEF QuietWork, WorkerNoItem, WorkerSleep, WorkerTimeout, WorkerTimedOut, WorkerLeave, TpCallbackMayRunLong
  <2> QED BY <1>0, <1>5, <1>7, <2>1
<1>8. CASE t = TimerThread /\ QuietTimer
  BY <1>0, <1>5, <1>8 DEF QuietTimer, TimerExpires, TimerThreadEnds
<1> QED BY <1>6, <1>7, <1>8 DEF Quiet

LEMMA CountedStep ==
  ASSUME IInv, Next
  PROVE  TimersCounted'
<1>0. Clients \subseteq Threads /\ Workers \subseteq Threads /\ Clients \cap Workers = {} /\ TimerThread \notin Clients \cup Workers
      /\ timerq \in TimerStruct /\ Simples \cap Timers = {}
  BY Kinds, ThreadPoolAssumption DEF IInv, TypeOK, TimerStruct
<1>1. ASSUME NEW t \in Threads, Others(t), gone' = gone, \A x \in Timers : InUse(x)' <=> InUse(x), timerq' = timerq,
             t \in Clients => pc[t] \notin OffPlaces /\ (pc'[t] \in OffPlaces => arg'[t] \notin Timers)
      PROVE  TimersCounted'
  BY <1>1, CountedBeside, CountStays
<1>2. ASSUME NEW c \in Clients, NEW o, Others(c), Beside(o), \A d \in Clients \ {c} : gone'[d] = gone[d], timerq' = timerq,
             \A x \in Timers \ {o} : Contains(gone'[c], x) <=> Contains(gone[c], x),
             pc[c] \in OffPlaces => arg[c] = o, pc'[c] \in OffPlaces => arg'[c] = o,
             o \in Timers => ~TimerCounted(o)' /\ ~TimerCounted(o)
      PROVE  TimersCounted'
  <2>1. \A x \in Timers \ {o} : InUse(x)' <=> InUse(x)
    BY <1>2 DEF Beside, InUse, Objects
  <2>2. \A x \in Timers \ {o} : TimerCounted(x)' <=> TimerCounted(x)
    BY <1>0, <1>2, <2>1, CountedBeside
  <2> QED BY <1>2, <2>2, CountStays
<1>3. ASSUME NEW t \in Threads, NEW o, Submits(t, o) PROVE TimersCounted'
  <2>1. Others(t) /\ gone' = gone /\ handle' = handle /\ o \in Objects
    BY <1>3, SubmitsMoves, SubmitUse, Zenon
  <2>2. t \in Clients => pc[t] \notin OffPlaces /\ pc'[t] \notin OffPlaces
    BY <1>0, <1>3, <2>1, CallMoves, ObjectMoves DEF Submits, Moved, OffPlaces
  <2>3. timerq'.initialized = timerq.initialized /\ timerq'.objcount = timerq.objcount
    BY <1>0, <1>3 DEF Submits, TpPostWork, AllocSubmit, SetTimerSubmit, CallbackPosts, TimerSubmit, TimerStruct
  <2>4. \A x \in Timers : TimerCounted(x)' <=> TimerCounted(x)
    BY <2>1, <2>2, CountedBeside DEF InUse
  <2> QED BY <2>3, <2>4, CountStays
<1>4. ASSUME NEW t \in Threads, Destroy(t) \/ Destroy2(t) PROVE TimersCounted'
  <2>1. Others(t) /\ gone' = gone /\ handle' = handle /\ pc[t] \in Destroying /\ pc'[t] \in {"destroy2", "locked", "m_wait", "idle"}
    BY <1>4, DestroyStep, Destroy2Step DEF Destroying
  <2>2. timerq' = timerq
    BY <1>4, Zenon DEF Destroy, Destroy2
  <2> QED BY <1>1, <2>1, <2>2 DEF InUse, OffPlaces, Destroying
<1>5. ASSUME NEW c \in Clients, NEW o, Cancels(c, o) PROVE TimersCounted'
  <2>1. /\ Others(c) /\ gone' = gone /\ handle' = handle /\ timerq' = timerq /\ pc[c] \in {"idle", "m_cancel"}
        /\ pc'[c] \in {"w_check", "m_wait", "m_cancel"}
    BY <1>5, CancelStep
  <2> QED BY <1>0, <1>1, <2>1 DEF InUse, OffPlaces
<1>6. ASSUME NEW c \in Clients, TpReleaseCleanupGroupMembers(c) PROVE TimersCounted'
  <2>1. /\ Others(c) /\ gone' = gone /\ pc[c] = "idle" /\ pc'[c] = "m_each"
        /\ \A x \in Objects : handle'[x] = IF x \in Grouped /\ handle[x] = "live" THEN "closing" ELSE handle[x]
    BY <1>6, ReleaseMembersStep, Zenon
  <2>2. timerq' = timerq
    BY <1>6 DEF TpReleaseCleanupGroupMembers
  <2>3. \A x \in Timers : InUse(x)' <=> InUse(x)
    BY <2>1 DEF InUse, Objects
  <2> QED BY <1>0, <1>1, <2>1, <2>2, <2>3 DEF OffPlaces
<1>7. ASSUME NEW c \in Clients, AllocGroup(c) PROVE TimersCounted'
  <2>1. PICK o : o = arg[c]
    OBVIOUS
  <2>2. /\ Beside(o) /\ handle[o] = "alloc" /\ handle'[o] \in {"alloc", "live"} /\ gone' = gone /\ Others(c)
        /\ pc[c] = "a_group" /\ pc'[c] = (IF o \in Simples THEN "unref" ELSE "idle") /\ (o \in Simples => arg'[c] = o)
    BY <1>7, <2>1, AllocGroupStep
  <2>3. timerq' = timerq /\ \A x \in Timers : InUse(x)' <=> InUse(x)
    BY <1>7, <2>2 DEF AllocGroup, InUse, Objects, Beside
  <2> QED BY <1>0, <1>1, <2>2, <2>3 DEF OffPlaces
<1>8. ASSUME NEW c \in Clients, NEW o \in Objects, Alloc(c, o) PROVE TimersCounted'
  <2>1. /\ Beside(o) /\ handle[o] = "none" /\ gone' = gone /\ Others(c) /\ pc[c] = "idle" /\ arg'[c] = o
        /\ (o \in Timers => pc'[c] = "a_timer")
    BY <1>8, AllocStep, CallMoves DEF Moved
  <2>2. timerq' = timerq /\ ~TimerCounted(o) /\ (o \in Timers => ~TimerCounted(o)')
    BY <1>8, <2>1 DEF Alloc, TimerCounted, InUse, OffQueue
  <2> QED BY <1>2, <1>8, <2>1, <2>2 DEF OffPlaces
<1>9. ASSUME NEW c \in Clients, AllocTimerFails(c) \/ Unref(c) \/ MemberRelease(c) PROVE TimersCounted'
  <2>1. PICK o : o = arg[c]
    OBVIOUS
  <2>2. Beside(o) /\ Others(c) /\ pc[c] \in {"a_timer", "unref", "m_release"} /\ pc'[c] \in {"destroy", "destroy2", "idle", "m_wait"}
    BY <1>9, <2>1, AllocFailsStep, UnrefStep, MemberReleaseStep
  <2>3. pc[c] = "m_release" => Contains(gone[c], o)
    BY <2>1, Dealt
  <2>4. o \in Timers => handle'[o] = "closed"
    BY <1>0, <1>9, <2>1, AllocFailsStep, UnrefStep, MemberReleaseStep
  <2>5. /\ \A d \in Clients \ {c} : gone'[d] = gone[d]
        /\ \A x \in Timers \ {o} : Contains(gone'[c], x) <=> Contains(gone[c], x)
    BY <1>9, <2>1, AllocFailsStep, UnrefStep, MemberReleaseLists
  <2>6. timerq' = timerq /\ (o \in Timers => ~TimerCounted(o)' /\ ~TimerCounted(o))
    <3>1. timerq' = timerq
      BY <1>9, Zenon DEF AllocTimerFails, Unref, MemberRelease
    <3> QED BY <2>1, <2>2, <2>3, <2>4, <3>1 DEF TimerCounted, OffQueue, InUse
  <2> QED BY <1>2, <2>1, <2>2, <2>5, <2>6 DEF OffPlaces
<1>10. ASSUME NEW c \in Clients, MemberEach(c) PROVE TimersCounted'
  <2>1. PICK o : o = Head(members)
    OBVIOUS
  <2>2. Others(c) /\ handle' = handle /\ pc[c] = "m_each" /\ timerq' = timerq
    BY <1>10, <2>1, MemberEachStep DEF MemberEach
  <2>3. CASE Dying(o)
    <3>1. gone' = gone /\ pc'[c] = "m_each"
      BY <1>10, <2>1, <2>3, MemberEachStep
    <3> QED BY <1>0, <1>1, <2>2, <3>1 DEF InUse, OffPlaces
  <2>4. CASE ~Dying(o)
    <3>1. arg'[c] = o /\ pc'[c] = (IF o \in Timers THEN "m_timer" ELSE "m_each")
      BY <1>10, <2>1, <2>4, MemberEachStep
    <3>2. /\ \A d \in Clients \ {c} : gone'[d] = gone[d]
          /\ \A x : Contains(gone'[c], x) <=> Contains(gone[c], x) \/ x = o
          /\ Releasing(o) = {}
      BY <1>10, <2>1, <2>4, MemberEachLists, Zenon
    <3>3. \A x \in Timers \ {o} : TimerCounted(x)' <=> TimerCounted(x)
      BY <1>0, <2>2, <3>1, <3>2, CountedBeside DEF InUse, OffPlaces
    <3>4. o \in Timers => \A d \in Clients : OffQueue(d, o)' <=> OffQueue(d, o)
      BY <1>0, <2>2, <3>1, <3>2, Kinds DEF OffQueue, Releasing, Others
    <3>5. o \in Timers => (TimerCounted(o)' <=> TimerCounted(o))
      BY <2>2, <3>4 DEF TimerCounted, InUse
    <3> QED BY <2>2, <3>3, <3>5, CountStays
  <2> QED BY <2>3, <2>4
<1>11. ASSUME NEW w \in Workers, WorkerTake(w) \/ CallbackReturns(w) \/ TpDisassociateCallback(w) PROVE TimersCounted'
  <2>1. Others(w) /\ gone' = gone /\ handle' = handle /\ timerq' = timerq
    BY <1>11, TakeStep, ReturnStep, DisassociateStep, Zenon
  <2> QED BY <1>0, <1>1, <2>1 DEF InUse
<1>12. ASSUME NEW w \in Workers, CallbackReleases(w) PROVE TimersCounted'
  <2>1. PICK o : o = arg[w]
    OBVIOUS
  <2>2. Others(w) /\ gone' = gone /\ Beside(o) /\ handle'[o] = "closed"
    BY <1>12, <2>1, CallbackReleasesStep, Zenon
  <2>3. \A x \in Timers \ {o} : TimerCounted(x)' <=> TimerCounted(x)
    BY <1>0, <2>2, CountedBeside DEF Beside, InUse, Objects
  <2>4. IF o \in Timers THEN TimerqueueUnlock(o) ELSE timerq' = timerq
    BY <1>12, <2>1 DEF CallbackReleases
  <2> QED BY <2>2, <2>3, <2>4, CountDrops, CountStays DEF TimerCounted, InUse
<1> QED BY <1>3, <1>4, <1>5, <1>6, <1>7, <1>8, <1>9, <1>10, <1>11, <1>12, CountedQuiet, Cases, Zenon

----------------------------------------
(* The invariant *)

LEMMA InvInit ==
  ASSUME Init
  PROVE  IInv
<1>0. /\ Clients \subseteq Threads /\ Workers \subseteq Threads /\ TimerThread \in Threads /\ Clients \cap Workers = {}
      /\ TimerThread \notin Clients \cup Workers
  BY Kinds
<1>1. /\ \A c \in Clients : pc[c] = "idle" /\ gone[c] = <<>>
      /\ \A t \in Threads \ Clients : pc[t] = "none"
      /\ \A t \in Threads : arg[t] = None
      /\ members = <<>> /\ queue["high"] = <<>> /\ queue["normal"] = <<>> /\ timerq.pending = {}
      /\ \A o \in Objects : obj[o] = Unallocated /\ handle[o] = "none"
  BY <1>0 DEF Init
<1>2. TypeOK
  <2>1. PlacesOK
    BY <1>0, <1>1, ClientPlace, WorkerPlace DEF Init, PlacesOK
  <2>2. pool \in PoolStruct
    BY ThreadPoolAssumption DEF Init, PoolStruct
  <2>3. queue \in [Priorities -> Seq(Objects)] /\ members \in Seq(Objects) /\ gone \in [Clients -> Seq(Objects)]
    BY DEF Init, Priorities
  <2>4. obj \in [Objects -> ObjectStruct]
    BY DEF Init, ObjectStruct, Unallocated
  <2>5. /\ group \in [ref : Int, shutdown : BOOLEAN]
        /\ timerq \in [objcount : Int, running : BOOLEAN, pending : SUBSET Timers, initialized : SUBSET Timers]
        /\ lock \in [Locks -> Threads \cup {None}]
    BY DEF Init
  <2>6. /\ inst \in [Workers -> [associated : BOOLEAN, long : BOOLEAN]]
        /\ handle \in [Objects -> {"none", "alloc", "live", "closing", "closed"}] /\ posts \in [Objects -> Nat]
    BY DEF Init, NoInstance
  <2> QED BY <2>1, <2>2, <2>3, <2>4, <2>5, <2>6 DEF TypeOK
<1>3. LocksHeld
  BY <1>0, <1>1 DEF LocksHeld
<1>4. \A x : ~Contains(<<>>, x)
  BY DEF Contains
<1>5. IsInjective(<<>>)
  BY DEF IsInjective
<1>6. QueuesExact
  BY <1>1, <1>4, <1>5 DEF QueuesExact, Priorities, Unallocated
<1>7. \A o : Running(o) = {} /\ Releasing(o) = {}
  BY <1>0, <1>1, <1>4 DEF Running, Releasing
<1>8. GroupExact
  BY <1>1, <1>4, <1>5, <1>7 DEF GroupExact, MemberExact
<1>9. TimersExact
  BY <1>0, <1>1 DEF TimersExact
<1>10. Cardinality({}) = 0 /\ IsFiniteSet({})
  BY FS_EmptySet
<1>11. PoolExact
  <2>1. Workers \ Idle = {} /\ Alive = {}
    BY <1>0, <1>1 DEF Idle, Alive, Unallocated
  <2>2. Cardinality(Workers \ Idle) = 0 /\ Cardinality(Alive) = 0 /\ IsFiniteSet(Alive)
    BY <1>10, <2>1
  <2>3. pool.ref = 1 /\ pool.objcount = 0 /\ pool.workers = 0 /\ pool.shutdown = FALSE /\ pool.state = "open"
    BY DEF Init
  <2> QED BY <2>2, <2>3 DEF PoolExact
<1>12. ASSUME NEW o \in Objects PROVE ObjectExact(o)
  <2>1. {w \in Running(o) : inst[w].associated} = {} /\ ~InUse(o)
    BY <1>1, <1>7 DEF InUse
  <2>2. Cardinality(Running(o)) = 0 /\ Cardinality(Releasing(o)) = 0 /\ Cardinality({w \in Running(o) : inst[w].associated}) = 0
    BY <1>7, <1>10, <2>1
  <2>3. /\ obj[o].ref = 0 /\ obj[o].pending = 0 /\ obj[o].running = 0 /\ obj[o].associated = 0
        /\ obj[o].shutdown = FALSE /\ obj[o].state = "none" /\ handle[o] = "none" /\ ~Contains(members, o)
    BY <1>1, <1>4 DEF Unallocated
  <2> QED BY <2>1, <2>2, <2>3 DEF ObjectExact, CountsExact, FlagsExact, SimpleExact, Associates
<1>13. ASSUME NEW c \in Clients PROVE ClientExact(c)
  BY <1>1 DEF ClientExact, Allocating, Using
<1>14. ASSUME NEW t \in Threads PROVE DestroyerExact(t)
  BY <1>1 DEF DestroyerExact, Destroying
<1>15. ASSUME NEW w \in Workers PROVE WorkerExact(w)
  BY <1>0, <1>1 DEF WorkerExact
<1>16. BusyCounts
  <2>1. {w \in Workers : pc[w] = "callback"} = {} /\ Len(Queued) = 0 /\ pool.busy = 0
    BY <1>0, <1>1 DEF Init, Queued
  <2> QED BY <1>10, <2>1 DEF BusyCounts
<1>17. ItemsAreSeen
  BY <1>1 DEF ItemsAreSeen, InUse, Unallocated
<1>18. TimersCounted
  <2>1. timerq.objcount = 0 /\ timerq.initialized = {} /\ \A o \in Timers : ~InUse(o)
    BY <1>1 DEF Init, InUse, Objects
  <2> QED BY <1>10, <2>1 DEF TimersCounted, TimerCounted
<1> QED BY <1>2, <1>3, <1>6, <1>8, <1>9, <1>11, <1>12, <1>13, <1>14, <1>15, <1>16, <1>17, <1>18 DEF IInv

LEMMA PoolStep ==
  ASSUME IInv, Next
  PROVE  \E t \in Threads : PoolOK(t)
BY CalmStep, SubmitPool DEF Calm

LEMMA TypeStep ==
  ASSUME IInv, Next
  PROVE  TypeOK'
<1>1. pool' \in PoolStruct
  BY PoolStep DEF PoolOK
<1>2. PlacesOK' /\ ListsTyped /\ RestTyped /\ lock' \in [Locks -> Threads \cup {None}]
  BY PlacesStep, ListsStep, RestStep, LockStep, Zenon
<1> QED BY <1>1, <1>2 DEF TypeOK, ListsTyped, RestTyped, Handles, Instances, TimerStruct, GroupStruct

LEMMA InvNext ==
  ASSUME IInv, Next
  PROVE  IInv'
<1>1. TypeOK' /\ LocksHeld' /\ QueuesExact' /\ GroupExact' /\ TimersExact' /\ TimersCounted'
  BY TypeStep, LockStep, QueuesStep, GroupStep, TimersStep, CountedStep, Zenon
<1>2. PoolExact'
  BY PoolStep DEF PoolOK
<1>3. (\A o \in Objects : ObjectExact(o)') /\ (\A c \in Clients : ClientExact(c)')
  BY ObjectStep, ClientStep, Zenon
<1>4. (\A t \in Threads : DestroyerExact(t)') /\ (\A w \in Workers : WorkerExact(w)')
  BY DestroyerStep, WorkerStep, Zenon
<1>5. BusyCounts' /\ ItemsAreSeen'
  BY BusyStep, SeenStep, Zenon
<1> QED BY <1>1, <1>2, <1>3, <1>4, <1>5 DEF IInv

LEMMA InvStutter ==
  ASSUME IInv, UNCHANGED vars
  PROVE  IInv'
<1>0. /\ pool' = pool /\ queue' = queue /\ obj' = obj /\ group' = group /\ members' = members /\ timerq' = timerq /\ lock' = lock
      /\ pc' = pc /\ arg' = arg /\ gone' = gone /\ inst' = inst /\ handle' = handle /\ posts' = posts
  BY DEF vars
<1>1. TypeOK' /\ LocksHeld'
  BY <1>0 DEF IInv, TypeOK, PlacesOK, LocksHeld
<1>2. /\ \A o : Running(o)' = Running(o) /\ Releasing(o)' = Releasing(o) /\ (InUse(o)' <=> InUse(o))
      /\ Queued' = Queued /\ Alive' = Alive /\ Idle' = Idle
  BY <1>0 DEF Running, Releasing, InUse, Queued, Alive, Idle
<1>3. QueuesExact' /\ GroupExact' /\ TimersExact'
  BY <1>0, <1>2 DEF IInv, QueuesExact, GroupExact, MemberExact, TimersExact, Free
<1>4. PoolExact'
  BY <1>0, <1>2 DEF IInv, PoolExact
<1>5. \A o \in Objects : ObjectExact(o)'
  BY <1>0, <1>2 DEF IInv, ObjectExact, CountsExact, FlagsExact, SimpleExact, Associates
<1>6. \A c \in Clients : ClientExact(c)'
  BY <1>0, <1>2 DEF IInv, ClientExact
<1>7. (\A t \in Threads : DestroyerExact(t)') /\ (\A w \in Workers : WorkerExact(w)')
  BY <1>0, <1>2 DEF IInv, DestroyerExact, WorkerExact
<1>8. BusyCounts' /\ ItemsAreSeen' /\ TimersCounted'
  BY <1>0, <1>2 DEF IInv, BusyCounts, ItemsAreSeen, TimersCounted, TimerCounted, OffQueue
<1> QED BY <1>1, <1>3, <1>4, <1>5, <1>6, <1>7, <1>8 DEF IInv

\* The inductive invariant: it holds at the start, and every step of the
\* clients, the workers and the timer thread keeps it.
THEOREM Invariant == Spec => []IInv
<1>1. Init => IInv
  BY InvInit
<1>2. IInv /\ [Next]_vars => IInv'
  BY InvNext, InvStutter
<1> QED BY <1>1, <1>2, PTL DEF Spec

----------------------------------------
(* What the invariant says *)

\* Every variable keeps its type, every thread is at a place of its kind, and no
\* counter of an object, the pool or the timer queue goes below zero, whoever
\* releases an object (NonNegative: threadpool.c subtracts without looking).
THEOREM TypeCorrect == Spec => [](TypeOK /\ NonNegative)
<1>1. ASSUME IInv PROVE TypeOK /\ NonNegative
  <2>1. \A o \in Objects : obj[o].ref \in Nat /\ obj[o].running \in Nat /\ obj[o].associated \in Nat
    BY <1>1, CountsNow
  <2>2. pool.workers \in Nat /\ pool.objcount \in Nat /\ pool.ref \in Nat
    BY <1>1, PoolFacts
  <2>3. pool.busy \in Nat
    BY <1>1, BusyNow
  <2>4. timerq.objcount \in Nat
    BY <1>1, FS_CardinalityType DEF IInv, TimersCounted
  <2> QED BY <1>1, <2>1, <2>2, <2>3, <2>4 DEF IInv, NonNegative
<1> QED BY <1>1, Invariant, PTL

\* What is freed is on no list and no timer's.
LEMMA FreedIsNowhere ==
  ASSUME IInv, NEW o \in Objects, obj[o].state = "freed"
  PROVE  /\ obj[o].ref = 0
         /\ o \notin timerq.pending
         /\ ~Contains(members, o) /\ ~Contains(Queued, o)
         /\ pc[TimerThread] = "t_submit" => arg[TimerThread] # o
<1>1. ~InUse(o) /\ ~(obj[o].pending > 0)
  BY Referenced
<1>2. obj[o].ref = 0 /\ ~Contains(members, o)
  BY ObjectNow DEF FlagsExact
<1>3. ~Contains(Queued, o)
  BY <1>1, QueuedPending DEF IInv
<1>4. ~(o \in Timers /\ Ticks(o))
  BY <1>1 DEF IInv, TimersExact, Ticks, InUse
<1>5. timerq.pending \subseteq Timers /\ (pc[TimerThread] = "t_submit" => arg[TimerThread] \in Timers)
  BY Fields DEF IInv, TimersExact
<1> QED BY <1>2, <1>3, <1>4, <1>5 DEF Ticks

\* Reference counts are exact (RefsExact): tp_object_release frees an object
\* with the last handle, callback or group release that uses it and not before,
\* tp_threadpool_release the pool with its last object and worker, and what is
\* freed is on no list any more, in whatever order the threads get there.
THEOREM RefsAreExact == Spec => []RefsExact
<1>1. ASSUME IInv PROVE RefsExact
  <2>1. ASSUME NEW o \in Objects
        PROVE  /\ obj[o].ref = (IF InUse(o) THEN 1 ELSE 0)
                                + obj[o].pending + Cardinality(Running(o)) + Cardinality(Releasing(o))
               /\ obj[o].running = Cardinality(Running(o))
    BY <1>1 DEF IInv, ObjectExact, CountsExact
  <2>2. /\ pool.workers = Cardinality(Workers \ Idle)
        /\ pool.objcount = Cardinality(Alive)
        /\ pool.ref = pool.workers + pool.objcount + (IF pool.shutdown THEN 0 ELSE 1)
    BY <1>1 DEF IInv, PoolExact
  <2>3. timerq.objcount = Cardinality({o \in Timers : TimerCounted(o)})
    <3>1. timerq.initialized \subseteq Timers
      BY <1>1 DEF IInv, TypeOK
    <3>2. timerq.initialized = {o \in Timers : TimerCounted(o)}
      BY <1>1, <3>1 DEF IInv, TimersCounted
    <3> QED BY <1>1, <3>2 DEF IInv, TimersCounted
  <2> QED BY <1>1, <2>1, <2>2, <2>3, FreedIsNowhere, Zenon DEF RefsExact
<1> QED BY <1>1, Invariant, PTL

\* While an object is in use the pool has a worker, and a callback that is
\* pending has one that will look at the queue (ItemsAreSeen): whatever the
\* timeouts of threadpool_worker_proc, the limits, and failing thread creation.
THEOREM WorkersSeeItems == Spec => []ItemsAreSeen
<1>1. IInv => ItemsAreSeen
  BY DEF IInv
<1> QED BY <1>1, Invariant, PTL

\* num_busy_workers counts at least the queued objects and the callbacks that
\* run (BusyCounts): the decrement of tp_object_execute never meets 0.
THEOREM BusyIsEnough == Spec => []BusyCounts
<1>1. IInv => BusyCounts
  BY DEF IInv
<1> QED BY <1>1, Invariant, PTL

LEMMA OneHarmless ==
  ASSUME IInv, NEW o \in Objects, \A x \in Objects \ {o} : obj'[x] = obj[x], obj[o].state # "freed",
         obj'[o].pending = obj[o].pending \/ (~obj[o].shutdown /\ ~pool.shutdown)
  PROVE  \A x \in Objects : Harmless(x)
<1>1. obj[o].pending \in Int
  BY Fields DEF IInv
<1> QED BY <1>1 DEF Harmless

LEMMA UsedNotFreed ==
  ASSUME IInv, NEW o \in Objects,
         InUse(o) \/ obj[o].pending > 0 \/ Running(o) # {} \/ Releasing(o) # {} \/ (\E t \in Threads : pc[t] \in Destroying /\ arg[t] = o)
  PROVE  obj[o].state = "alive"
<1>1. CASE \E t \in Threads : pc[t] \in Destroying /\ arg[t] = o
  BY <1>1 DEF IInv, DestroyerExact
<1> QED BY <1>1, Referenced

LEMMA HarmlessQuiet ==
  ASSUME IInv, NEW t \in Threads, Quiet(t)
  PROVE  \A x \in Objects : Harmless(x)
<1>1. ASSUME NEW o \in Objects, NEW later \in BOOLEAN, NEW now \in BOOLEAN, NEW period \in BOOLEAN,
             TpSetTimer(t, o, later, now, period)
      PROVE  \A x \in Objects : Harmless(x)
  <2>1. handle[o] = "live" /\ obj' = [obj EXCEPT ![o].period = later /\ period]
    BY <1>1 DEF TpSetTimer
  <2>2. \A x \in Objects \ {o} : obj'[x] = obj[x]
    BY <2>1 DEF IInv, TypeOK
  <2>3. obj'[o].pending = obj[o].pending
    BY QuietKept DEF Kept, SameObject
  <2>4. obj[o].state # "freed"
    BY <2>1, UsedNotFreed DEF InUse
  <2> QED BY <2>2, <2>3, <2>4, OneHarmless
<1>2. ASSUME obj' = obj PROVE \A x \in Objects : Harmless(x)
  BY <1>2 DEF Harmless
<1>3. CASE t \in Clients /\ QuietCall(t)
  <2>1. obj' = obj \/ \E o \in Objects, later, now, period \in BOOLEAN : TpSetTimer(t, o, later, now, period)
    BY <1>3 DEF QuietCall, TpSetPoolMaxThreads, TpSetPoolMinThreads, TpReleasePool, TpReleaseCleanupGroup,
                TpRelease, TpWaitFor, AllocTimer, ObjectWait, MemberWait, MembersReleased, MemberTimer, MembersMoved
  <2> QED BY <1>1, <1>2, <2>1, Zenon
<1>4. CASE t \in Workers /\ QuietWork(t)
  BY <1>2, <1>4, Zenon DEF QuietWork, WorkerNoItem, WorkerSleep, WorkerTimeout, WorkerTimedOut, WorkerLeave, TpCallbackMayRunLong
<1>5. CASE t = TimerThread /\ QuietTimer
  BY <1>2, <1>5, Zenon DEF QuietTimer, TimerExpires, TimerThreadEnds
<1> QED BY <1>3, <1>4, <1>5, Zenon DEF Quiet

LEMMA HarmlessThreads ==
  ASSUME IInv, NEW t \in Threads, (\E o : Submits(t, o)) \/ Destroy(t) \/ Destroy2(t)
  PROVE  \A x \in Objects : Harmless(x)
<1>0. TypeOK
  BY DEF IInv
<1>1. ASSUME NEW o, Submits(t, o) PROVE \A x \in Objects : Harmless(x)
  <2>1. o \in Objects /\ InUse(o) /\ ~obj[o].shutdown
    BY <1>1, SubmitUse, Zenon
  <2>2. ~pool.shutdown
    BY <1>1, SubmitPool
  <2>3. PICK to : Submit(t, o, to)
    BY <1>1, SubmitUse, Zenon
  <2>4. \A x \in Objects \ {o} : obj'[x] = obj[x]
    BY <1>0, <2>1, <2>3, SubmitObject, Zenon
  <2>5. obj[o].state # "freed"
    BY <2>1, UsedNotFreed
  <2> QED BY <2>1, <2>2, <2>4, <2>5, OneHarmless
<1>2. CASE Destroy(t)
  <2>1. obj' = obj
    BY <1>2 DEF Destroy
  <2> QED BY <2>1 DEF Harmless
<1>3. CASE Destroy2(t)
  <2>1. PICK o : o = arg[t]
    OBVIOUS
  <2>2. o \in Objects /\ Beside(o) /\ obj'[o].pending = obj[o].pending /\ pc[t] = "destroy2"
    BY <1>3, <2>1, Destroy2Step, Zenon
  <2>3. obj[o].state # "freed"
    BY <2>1, <2>2, UsedNotFreed DEF Destroying
  <2>4. \A x \in Objects \ {o} : obj'[x] = obj[x]
    BY <2>2 DEF Beside
  <2> QED BY <2>2, <2>3, <2>4, OneHarmless
<1> QED BY <1>1, <1>2, <1>3

LEMMA HarmlessClients ==
  ASSUME IInv, NEW c \in Clients,
         TpReleaseCleanupGroupMembers(c) \/ AllocTimerFails(c) \/ AllocGroup(c) \/ Unref(c) \/ MemberEach(c) \/ MemberRelease(c)
  PROVE  \A x \in Objects : Harmless(x)
<1>1. PICK o : o = arg[c]
  OBVIOUS
<1>2. ASSUME obj' = obj PROVE \A x \in Objects : Harmless(x)
  BY <1>2 DEF Harmless
<1>3. ASSUME o \in Objects, Beside(o), obj'[o].pending = obj[o].pending, obj[o].state # "freed" PROVE \A x \in Objects : Harmless(x)
  <2>1. \A x \in Objects \ {o} : obj'[x] = obj[x]
    BY <1>3 DEF Beside
  <2> QED BY <1>3, <2>1, OneHarmless
<1>4. CASE TpReleaseCleanupGroupMembers(c) \/ AllocGroup(c)
  BY <1>2, <1>4, Zenon DEF TpReleaseCleanupGroupMembers, AllocGroup
<1>5. CASE AllocTimerFails(c)
  <2>1. o \in Objects /\ Beside(o)
    BY <1>1, <1>5, AllocFailsStep, Zenon
  <2>2. obj'[o].pending = obj[o].pending /\ handle[o] = "alloc"
    BY <1>1, <1>5, AllocFailsStep
  <2>3. obj[o].state # "freed"
    BY <2>1, <2>2, UsedNotFreed DEF InUse
  <2> QED BY <1>3, <2>1, <2>2, <2>3
<1>6. CASE Unref(c)
  <2>1. o \in Objects /\ Beside(o) /\ obj'[o].pending = obj[o].pending /\ handle[o] \in {"alloc", "live"}
    BY <1>1, <1>6, UnrefStep, Zenon
  <2>2. obj[o].state # "freed"
    BY <2>1, UsedNotFreed DEF InUse
  <2> QED BY <1>3, <2>1, <2>2
<1>7. CASE MemberRelease(c)
  <2>1. o \in Objects /\ Beside(o) /\ obj'[o].pending = obj[o].pending /\ Contains(gone[c], o)
    BY <1>1, <1>7, MemberReleaseStep, ZenonT(60)
  <2>2. obj[o].state # "freed"
    BY <2>1, DropUse
  <2> QED BY <1>3, <2>1, <2>2
<1>8. CASE MemberEach(c)
  <2>1. PICK m : m = Head(members)
    OBVIOUS
  <2>2. m \in Objects /\ Contains(members, m) /\ \A x \in Objects \ {m} : obj'[x] = obj[x]
    BY <1>8, <2>1, MemberEachStep, Zenon
  <2>3. obj[m].state # "freed"
    BY <2>2, ObjectNow DEF FlagsExact
  <2>4. CASE Dying(m)
    BY <1>2, <1>8, <2>1, <2>4, MemberEachStep
  <2>5. CASE ~Dying(m)
    <3>1. obj'[m].pending = obj[m].pending
      BY <1>8, <2>1, <2>5, MemberEachStep
    <3> QED BY <2>2, <2>3, <3>1, OneHarmless
  <2> QED BY <2>4, <2>5
<1> QED BY <1>4, <1>5, <1>6, <1>7, <1>8

LEMMA HarmlessCancels ==
  ASSUME IInv, NEW c \in Clients, NEW o, Cancels(c, o)
  PROVE  \A x \in Objects : Harmless(x)
<1>0. TypeOK
  BY DEF IInv
<1>1. o \in Objects /\ Cancel(o) /\ (handle[o] = "live" \/ Contains(gone[c], o))
  BY CancelStep, Zenon
<1>2. obj'[o].pending = 0 /\ (\A x \in Objects \ {o} : obj'[x] = obj[x]) /\ obj[o].pending \in Nat
  BY <1>0, <1>1, CancelObject, Fields
<1>3. InUse(o) \/ Releasing(o) # {}
  BY <1>1 DEF InUse, Releasing
<1>4. obj[o].state # "freed"
  BY <1>1, <1>3, UsedNotFreed
<1>5. ~(obj'[o].pending > obj[o].pending)
  BY <1>2
<1> QED BY <1>2, <1>4, <1>5 DEF Harmless

LEMMA HarmlessAlloc ==
  ASSUME IInv, NEW c \in Clients, NEW o \in Objects, Alloc(c, o)
  PROVE  \A x \in Objects : Harmless(x)
<1>1. Beside(o) /\ handle[o] = "none" /\ obj'[o].pending = obj[o].pending
  BY AllocStep, Zenon
<1>2. obj[o].state # "freed"
  BY <1>1, ObjectNow DEF FlagsExact
<1>3. \A x \in Objects \ {o} : obj'[x] = obj[x]
  BY <1>1 DEF Beside
<1> QED BY <1>1, <1>2, <1>3, OneHarmless

LEMMA HarmlessWorkers ==
  ASSUME IInv, NEW w \in Workers, WorkerTake(w) \/ CallbackReturns(w) \/ TpDisassociateCallback(w) \/ CallbackReleases(w)
  PROVE  \A x \in Objects : Harmless(x)
<1>0. TypeOK /\ QueuesExact
  BY DEF IInv
<1>1. CASE WorkerTake(w)
  <2>1. PICK o : o = NextItem
    OBVIOUS
  <2>2. /\ o \in Objects /\ obj[o].pending > 0 /\ obj'[o].pending = obj[o].pending - 1
        /\ \A x \in Objects \ {o} : obj'[x] = obj[x]
    BY <1>0, <1>1, <2>1, TakeObject, Zenon
  <2>3. obj[o].state # "freed" /\ obj[o].pending \in Nat
    BY <1>0, <2>2, UsedNotFreed, Fields
  <2>4. ~(obj'[o].pending > obj[o].pending)
    BY <2>2, <2>3
  <2> QED BY <2>2, <2>3, <2>4 DEF Harmless
<1>2. ASSUME NEW o, o = arg[w], pc[w] = "callback", o \in Objects, obj'[o].pending = obj[o].pending, \A x \in Objects \ {o} : obj'[x] = obj[x]
      PROVE  \A x \in Objects : Harmless(x)
  <2>1. w \in Running(o)
    BY <1>2 DEF Running
  <2>2. obj[o].state # "freed"
    BY <1>2, <2>1, UsedNotFreed
  <2> QED BY <1>2, <2>2, OneHarmless
<1>3. CASE CallbackReturns(w)
  <2>1. PICK o : o = arg[w]
    OBVIOUS
  <2>2. o \in Objects /\ pc[w] = "callback"
    BY <1>3, <2>1, ReturnStep, Zenon
  <2>3. obj'[o].pending = obj[o].pending /\ \A x \in Objects \ {o} : obj'[x] = obj[x]
    BY <1>0, <1>3, <2>1, <2>2, ReturnObject
  <2> QED BY <1>2, <2>1, <2>2, <2>3
<1>4. CASE TpDisassociateCallback(w)
  <2>1. PICK o : o = arg[w]
    OBVIOUS
  <2>2. o \in Objects /\ pc[w] = "callback"
    BY <1>4, <2>1, DisassociateStep, Zenon
  <2>3. obj'[o].pending = obj[o].pending /\ \A x \in Objects \ {o} : obj'[x] = obj[x]
    BY <1>0, <1>4, <2>1, <2>2, DisassociateObject
  <2> QED BY <1>2, <2>1, <2>2, <2>3
<1>5. CASE CallbackReleases(w)
  <2>1. PICK o : o = arg[w]
    OBVIOUS
  <2>2. o \in Objects /\ pc[w] = "callback" /\ Beside(o) /\ obj'[o].pending = obj[o].pending
    BY <1>5, <2>1, CallbackReleasesStep, Zenon
  <2> QED BY <1>2, <2>1, <2>2 DEF Beside
<1> QED BY <1>1, <1>3, <1>4, <1>5

LEMMA HarmlessStep ==
  ASSUME IInv, Next
  PROVE  \A x \in Objects : Harmless(x)
<1>1. ASSUME NEW t \in Threads, Quiet(t) \/ (\E o : Submits(t, o)) \/ Destroy(t) \/ Destroy2(t)
      PROVE  \A x \in Objects : Harmless(x)
  BY <1>1, HarmlessQuiet, HarmlessThreads, Zenon
<1>2. ASSUME NEW c \in Clients,
             \/ TpReleaseCleanupGroupMembers(c) \/ AllocTimerFails(c) \/ AllocGroup(c) \/ Unref(c) \/ MemberEach(c) \/ MemberRelease(c)
             \/ (\E o : Cancels(c, o)) \/ (\E o \in Objects : Alloc(c, o))
      PROVE  \A x \in Objects : Harmless(x)
  BY <1>2, HarmlessClients, HarmlessCancels, HarmlessAlloc, Zenon
<1>3. ASSUME NEW w \in Workers, WorkerTake(w) \/ CallbackReturns(w) \/ TpDisassociateCallback(w) \/ CallbackReleases(w)
      PROVE  \A x \in Objects : Harmless(x)
  BY <1>3, HarmlessWorkers, Zenon
<1> QED BY <1>1, <1>2, <1>3, Cases, Zenon

\* The asserts of tp_object_submit hold: no callback is requested for an object
\* or of a pool that is shut down (SubmitAsserts).  The callers look at neither
\* flag, so this rests on who still has a handle or a reference.
THEOREM SubmitsAreOpen == Spec => SubmitAsserts
<1> DEFINE A == \A o \in Objects : obj'[o].pending > obj[o].pending => ~obj[o].shutdown /\ ~pool.shutdown
<1>1. ASSUME IInv, Next PROVE A
  <2>1. ASSUME NEW o \in Objects, obj'[o].pending > obj[o].pending PROVE ~obj[o].shutdown /\ ~pool.shutdown
    <3>1. obj[o].pending \in Nat
      BY <1>1, Fields DEF IInv
    <3>2. obj'[o] # obj[o]
      BY <2>1, <3>1
    <3> QED BY <1>1, <2>1, <3>2, HarmlessStep DEF Harmless
  <2> QED BY <2>1
<1>2. IInv /\ [Next]_vars => [A]_vars
  BY <1>1
<1>3. Spec => [][A]_vars
  BY <1>2, Invariant, PTL DEF Spec
<1> QED BY <1>3 DEF SubmitAsserts

\* An object that tp_object_release has freed, and a pool that
\* tp_threadpool_release has freed, are changed by nobody (FreedIsLeftAlone).
THEOREM NoUseAfterFree == Spec => FreedIsLeftAlone
<1> DEFINE A == /\ \A o \in Objects : obj[o].state = "freed" => obj'[o] = obj[o]
                /\ pool.state = "freed" => pool' = pool
<1>1. ASSUME IInv, Next PROVE A
  <2>1. ASSUME NEW o \in Objects, obj[o].state = "freed" PROVE obj'[o] = obj[o]
    BY <1>1, <2>1, HarmlessStep DEF Harmless
  <2>2. pool.state = "freed" => pool' = pool
    BY <1>1, PoolStep DEF PoolOK
  <2> QED BY <2>1, <2>2
<1>2. IInv /\ [Next]_vars => [A]_vars
  BY <1>1
<1>3. Spec => [][A]_vars
  BY <1>2, Invariant, PTL DEF Spec
<1> QED BY <1>3 DEF FreedIsLeftAlone
=============================================================================
