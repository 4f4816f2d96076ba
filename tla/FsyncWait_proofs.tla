-------------------------- MODULE FsyncWait_proofs --------------------------
(***************************************************************************)
(* Machine-checked proofs about FsyncWait, for any number of threads and   *)
(* objects and for waits with lists of any length.                         *)
(***************************************************************************)
EXTENDS FsyncWait, FiniteSetTheorems, TLAPS

USE FsyncWaitAssumption, ProgramsAssumption

-----------------------------------------------------------------------------
(* Types *)

LEMMA NextCases ==
    ASSUME TypeOK, Next
    PROVE  UNCHANGED program /\ \E t \in Threads : ThreadStep(t)
BY DEF TypeOK, Next

\* A list of handles and the object that a loop is at.
LEMMA AtObjectType ==
    ASSUME TypeOK, NEW t \in Threads
    PROVE  /\ DOMAIN objs[t] = 1..Len(objs[t]) /\ Len(objs[t]) \in Nat
           /\ ToSet(objs[t]) \subseteq Objects /\ i[t] \in Nat
           /\ AtObject(t) => i[t] \in 1..Len(objs[t]) /\ Obj(t) \in Objects /\ Obj(t) \in ToSet(objs[t])
<1>1. objs[t] \in Seq(Objects) /\ i[t] \in Nat
    BY DEF TypeOK
<1>2. DOMAIN objs[t] = 1..Len(objs[t]) /\ Len(objs[t]) \in Nat /\ \A k \in DOMAIN objs[t] : objs[t][k] \in Objects
    BY <1>1
<1> QED  BY <1>1, <1>2 DEF AtObject, Obj, ToSet

LEMMA PlaceType ==
    ASSUME TypeOK, NEW t \in Threads, NEW from, NEW to, Goto(t, from, to)
    PROVE  /\ pc[t] = from /\ pc'[t] = to /\ \A u \in Threads \ {t} : pc'[u] = pc[u]
           /\ to \in Places => pc' \in [Threads -> Places]
BY DEF TypeOK, Goto

\* The parts of TypeOK: what a call of a thread is about, ...
LocalType ==
    /\ objs \in [Threads -> Seq(Objects)] /\ i \in [Threads -> Nat]
    /\ all \in [Threads -> BOOLEAN] /\ alertable \in [Threads -> BOOLEAN]
    /\ seen \in [Threads -> [Mutexes -> Tids]]
\* ... the words of the objects, ...
WordsType ==
    /\ count \in [Objects \ Mutexes -> Nat]
    /\ tid \in [Mutexes -> Tids] /\ recursion \in [Mutexes -> Int]
\* ... and the rest.
OtherType ==
    /\ signals \in Nat /\ apc \in [Threads -> {0, 1}]
    /\ asleep \in [Threads -> SUBSET (Objects \cup {ApcFutex})]
    /\ pc \in [Threads -> Places] /\ cur \in [Threads -> Objects \cup {ApcFutex}]
    /\ owned \in [Threads -> [Mutexes -> Int]] /\ credit \in [Tokens -> Int]
    /\ unannounced \subseteq Objects /\ spoiled \subseteq Mutexes

LEMMA TypeParts == TypeOK <=> program \in Programs /\ LocalType /\ WordsType /\ OtherType
BY DEF TypeOK, LocalType, WordsType, OtherType

LEMMA ReturnType ==
    ASSUME TypeOK, NEW t \in Threads, Return(t)
    PROVE  /\ LocalType' /\ ~all'[t]
           /\ \A u \in Threads \ {t} : /\ objs'[u] = objs[u] /\ all'[u] = all[u] /\ alertable'[u] = alertable[u]
                                       /\ i'[u] = i[u] /\ seen'[u] = seen[u]
<1>1. <<>> \in Seq(Objects) /\ [m \in Mutexes |-> NoThread] \in [Mutexes -> Tids]
    BY DEF Tids
<1> QED  BY <1>1 DEF TypeOK, Return, LocalType

LEMMA ContinueType ==
    ASSUME TypeOK, NEW t \in Threads, NEW n \in Nat, Continue(t, n)
    PROVE  /\ objs' = objs /\ all' = all /\ alertable' = alertable
           /\ i' \in [Threads -> Nat] /\ i'[t] = n /\ \A u \in Threads \ {t} : i'[u] = i[u]
BY DEF TypeOK, Continue, callVars

\* What a thread has seen in a mutex.
LEMMA SeenType ==
    ASSUME TypeOK, NEW t \in Threads, NEW m \in Mutexes, seen' = [seen EXCEPT ![t][m] = tid[m]]
    PROVE  /\ seen' \in [Threads -> [Mutexes -> Tids]] /\ seen'[t][m] = tid[m]
           /\ \A u \in Threads \ {t} : seen'[u] = seen[u]
<1>1. tid[m] \in Tids /\ seen \in [Threads -> [Mutexes -> Tids]] /\ seen[t] \in [Mutexes -> Tids]
    BY DEF TypeOK
<1> QED  BY <1>1

\* A step of t leaves the other threads where they are; at most it wakes them.
Others(t) ==
    \A u \in Threads \ {t} :
        /\ pc'[u] = pc[u] /\ objs'[u] = objs[u] /\ all'[u] = all[u] /\ alertable'[u] = alertable[u]
        /\ i'[u] = i[u] /\ seen'[u] = seen[u] /\ cur'[u] = cur[u] /\ owned'[u] = owned[u]
        /\ asleep'[u] \in {asleep[u], {}}

\* The loops of a wait that neither grab nor put back anything.
LEMMA ScanType ==
    ASSUME TypeOK, NEW t \in Threads, WaitState(t),
           \/ StartScan(t) \/ ScanEnds(t) \/ FutexSleep(t) \/ FutexAgain(t) \/ FutexWoken(t) \/ UserApc(t)
           \/ WaitInSequence(t) \/ CheckAgain(t) \/ NextLoop(t) \/ StartOver(t) \/ TryManualEvent(t)
           \/ WaitTimeout(t) \/ ThreadEnds(t)
    PROVE  LocalType' /\ WordsType' /\ OtherType' /\ Others(t)
<1> USE DEF callVars, objectVars, ghostVars
<1>0. LocalType /\ WordsType /\ OtherType
    BY TypeParts
<1>1. i[t] \in Nat /\ i[t] + 1 \in Nat /\ 1 \in Nat
    BY <1>0 DEF LocalType
<1>2. CASE StartScan(t) \/ NextLoop(t) \/ StartOver(t) \/ CheckAgain(t)
    <2>1. PICK n \in Nat : Continue(t, n)
        BY <1>1, <1>2 DEF StartScan, NextLoop, StartOver, CheckAgain
    <2>2. pc' \in [Threads -> Places] /\ \A u \in Threads \ {t} : pc'[u] = pc[u]
        BY <1>0, <1>2 DEF StartScan, NextLoop, StartOver, CheckAgain, Goto, OtherType, Places, Ended
    <2>3. UNCHANGED <<objectVars, apc, asleep, seen, cur, ghostVars, signals>>
        BY <1>2 DEF StartScan, NextLoop, StartOver, CheckAgain
    <2> QED  BY <1>0, <2>1, <2>2, <2>3, ContinueType DEF LocalType, WordsType, OtherType, Others
<1>3. CASE ScanEnds(t) \/ ThreadEnds(t)
    <2>1. pc' \in [Threads -> Places] /\ \A u \in Threads \ {t} : pc'[u] = pc[u]
        BY <1>0, <1>3 DEF ScanEnds, ThreadEnds, Goto, OtherType, Places, Ended
    <2>2. UNCHANGED <<objectVars, apc, asleep, callVars, i, seen, cur, ghostVars, signals>>
        BY <1>3 DEF ScanEnds, ThreadEnds
    <2> QED  BY <1>0, <2>1, <2>2 DEF LocalType, WordsType, OtherType, Others
<1>4. CASE FutexSleep(t)
    <2>1. Addresses(t) \in SUBSET (Objects \cup {ApcFutex})
        <3>1. pc[t] = "wait"
            BY <1>4 DEF FutexSleep, Goto
        <3>2. all[t] => Obj(t) \in Objects
            BY <3>1, AtObjectType DEF WaitState
        <3>3. ToSet(objs[t]) \subseteq Objects
            BY AtObjectType
        <3> QED  BY <3>2, <3>3 DEF Addresses
    <2>2. asleep' = [asleep EXCEPT ![t] = Addresses(t)]
        BY <1>4 DEF FutexSleep
    <2>3. asleep' \in [Threads -> SUBSET (Objects \cup {ApcFutex})] /\ \A u \in Threads \ {t} : asleep'[u] = asleep[u]
        BY <1>0, <2>1, <2>2 DEF OtherType
    <2>4. UNCHANGED <<objectVars, apc, callVars, i, seen, cur, ghostVars, signals>> /\ Goto(t, "wait", "asleep")
        BY <1>4 DEF FutexSleep
    <2> QED  BY <1>0, <2>3, <2>4 DEF LocalType, WordsType, OtherType, Others, Goto, Places, Ended
<1>5. CASE FutexAgain(t)
    <2>1. PICK to \in Places : Goto(t, pc[t], to)
        BY <1>5 DEF FutexAgain, Places, Ended
    <2>2. UNCHANGED <<objectVars, apc, callVars, i, seen, cur, ghostVars, signals>> /\ asleep' = [asleep EXCEPT ![t] = {}]
        BY <1>5 DEF FutexAgain
    <2> QED  BY <1>0, <2>1, <2>2 DEF LocalType, WordsType, OtherType, Others, Goto
<1>6. CASE FutexWoken(t)
    <2>1. PICK n \in Nat : Continue(t, n)
        BY <1>1, <1>6 DEF FutexWoken
    <2>2. PICK to \in Places : Goto(t, "asleep", to)
        BY <1>6 DEF FutexWoken, Places, Ended
    <2>3. UNCHANGED <<objectVars, apc, asleep, seen, cur, ghostVars, signals>>
        BY <1>6 DEF FutexWoken
    <2> QED  BY <1>0, <2>1, <2>2, <2>3, ContinueType DEF LocalType, WordsType, OtherType, Others, Goto
<1>7. CASE UserApc(t) \/ WaitTimeout(t)
    <2>1. Return(t) /\ UNCHANGED <<objectVars, cur, ghostVars, signals>>
        BY <1>7 DEF UserApc, WaitTimeout
    <2>2. pc' \in [Threads -> Places] /\ \A u \in Threads \ {t} : pc'[u] = pc[u]
        <3>1. "idle" \in Places /\ pc' = [pc EXCEPT ![t] = "idle"]
            BY <1>7 DEF UserApc, WaitTimeout, Goto, Places, Ended
        <3> QED  BY <1>0, <3>1 DEF OtherType
    <2>3. /\ apc' \in [Threads -> {0, 1}] /\ asleep' \in [Threads -> SUBSET (Objects \cup {ApcFutex})]
          /\ \A u \in Threads \ {t} : asleep'[u] = asleep[u]
        BY <1>0, <1>7 DEF UserApc, WaitTimeout, OtherType
    <2>4. LocalType' /\ \A u \in Threads \ {t} : /\ objs'[u] = objs[u] /\ all'[u] = all[u] /\ i'[u] = i[u]
                                                 /\ alertable'[u] = alertable[u] /\ seen'[u] = seen[u]
        BY <2>1, ReturnType
    <2> QED  BY <1>0, <2>1, <2>2, <2>3, <2>4 DEF WordsType, OtherType, Others
<1>8. CASE WaitInSequence(t)
    <2>1. pc' \in [Threads -> Places] /\ \A u \in Threads \ {t} : pc'[u] = pc[u]
        BY <1>0, <1>8 DEF WaitInSequence, Goto, OtherType, Places, Ended
    <2>2. UNCHANGED <<objectVars, apc, asleep, cur, ghostVars, signals>>
        BY <1>8 DEF WaitInSequence
    <2>3. CASE Continue(t, i[t] + 1) /\ UNCHANGED seen
        BY <1>0, <1>1, <2>1, <2>2, <2>3, ContinueType DEF LocalType, WordsType, OtherType, Others
    <2>4. CASE /\ seen' = IF Obj(t) \in Mutexes THEN [seen EXCEPT ![t][Obj(t)] = tid[Obj(t)]] ELSE seen
               /\ UNCHANGED <<callVars, i>>
        <3>1. seen' \in [Threads -> [Mutexes -> Tids]] /\ \A u \in Threads \ {t} : seen'[u] = seen[u]
            <4>1. CASE Obj(t) \in Mutexes
                BY <2>4, <4>1, SeenType
            <4>2. CASE Obj(t) \notin Mutexes
                BY <1>0, <2>4, <4>2 DEF LocalType
            <4> QED  BY <4>1, <4>2
        <3> QED  BY <1>0, <2>1, <2>2, <2>4, <3>1 DEF LocalType, WordsType, OtherType, Others
    <2> QED  BY <1>8, <2>3, <2>4 DEF WaitInSequence
<1>9. CASE TryManualEvent(t)
    <2>1. pc' \in [Threads -> Places] /\ \A u \in Threads \ {t} : pc'[u] = pc[u]
        BY <1>0, <1>9 DEF TryManualEvent, Goto, OtherType, Places, Ended
    <2>2. UNCHANGED <<objectVars, apc, asleep, cur, ghostVars, signals>>
        BY <1>9 DEF TryManualEvent
    <2>3. CASE Continue(t, i[t] + 1) /\ UNCHANGED seen
        BY <1>0, <1>1, <2>1, <2>2, <2>3, ContinueType DEF LocalType, WordsType, OtherType, Others
    <2>4. CASE Return(t)
        <3>1. LocalType' /\ \A u \in Threads \ {t} : /\ objs'[u] = objs[u] /\ all'[u] = all[u] /\ i'[u] = i[u]
                                                     /\ alertable'[u] = alertable[u] /\ seen'[u] = seen[u]
            BY <2>4, ReturnType
        <3> QED  BY <1>0, <2>1, <2>2, <3>1 DEF WordsType, OtherType, Others
    <2> QED  BY <1>9, <2>3, <2>4 DEF TryManualEvent
<1> QED  BY <1>2, <1>3, <1>4, <1>5, <1>6, <1>7, <1>8, <1>9

\* Taking one from the count of an object.
LEMMA TakeType ==
    ASSUME TypeOK, NEW o \in Tokens, Take(o)
    PROVE  WordsType'
<1>1. o \in Objects \ Mutexes /\ count[o] \in Nat /\ count[o] > 0
    BY DEF Tokens, Objects, Take, TypeOK
<1>2. count' \in [Objects \ Mutexes -> Nat]
    BY <1>1 DEF Take, TypeOK
<1> QED  BY <1>2 DEF Take, TypeOK, WordsType

\* The steps that take an object, grab it or put it back.
LEMMA GrabType ==
    ASSUME TypeOK, NEW t \in Threads, WaitState(t),
           \/ TryToken(t) \/ TryMutex(t) \/ TryAbandonedMutex(t)
           \/ GrabToken(t) \/ GrabManualEvent(t) \/ GrabMutex(t) \/ ExchangeMutex(t) \/ AllGrabbed(t) \/ PutBack(t)
    PROVE  LocalType' /\ WordsType' /\ OtherType' /\ Others(t)
<1> USE DEF callVars, objectVars, ghostVars
<1>0. LocalType /\ WordsType /\ OtherType
    BY TypeParts
<1>1. i[t] \in Nat /\ i[t] + 1 \in Nat /\ (AtObject(t) => i[t] - 1 \in Nat /\ Obj(t) \in Objects)
    BY AtObjectType
<1>2. ASSUME Return(t)
      PROVE  LocalType' /\ \A u \in Threads \ {t} : /\ objs'[u] = objs[u] /\ all'[u] = all[u] /\ i'[u] = i[u]
                                                    /\ alertable'[u] = alertable[u] /\ seen'[u] = seen[u]
    BY <1>2, ReturnType
<1>3. ASSUME NEW n \in Nat, Continue(t, n), seen' \in [Threads -> [Mutexes -> Tids]],
             \A u \in Threads \ {t} : seen'[u] = seen[u]
      PROVE  LocalType' /\ \A u \in Threads \ {t} : /\ objs'[u] = objs[u] /\ all'[u] = all[u] /\ i'[u] = i[u]
                                                    /\ alertable'[u] = alertable[u] /\ seen'[u] = seen[u]
    BY <1>0, <1>3, ContinueType DEF LocalType
<1>4. ASSUME UNCHANGED seen
      PROVE  seen' \in [Threads -> [Mutexes -> Tids]] /\ \A u \in Threads \ {t} : seen'[u] = seen[u]
    BY <1>0, <1>4 DEF LocalType
<1>5. ASSUME NEW m \in Mutexes, OwnMutex(t, m)
      PROVE  WordsType' /\ owned' \in [Threads -> [Mutexes -> Int]] /\ \A u \in Threads \ {t} : owned'[u] = owned[u]
    <2>1. owned[t][m] \in Int /\ owned[t] \in [Mutexes -> Int] /\ recursion[m] \in Int /\ t \in Tids
        BY <1>0 DEF OtherType, WordsType, Tids
    <2>2. owned' \in [Threads -> [Mutexes -> Int]] /\ \A u \in Threads \ {t} : owned'[u] = owned[u]
        BY <1>0, <1>5, <2>1 DEF OwnMutex, OtherType
    <2>3. WordsType'
        BY <1>0, <1>5, <2>1 DEF OwnMutex, WordsType
    <2> QED  BY <2>2, <2>3
<1>6. CASE TryToken(t)
    <2>1. /\ pc' \in [Threads -> Places] /\ \A u \in Threads \ {t} : pc'[u] = pc[u]
          /\ UNCHANGED <<apc, asleep, cur, owned, unannounced, spoiled, signals>>
        BY <1>0, <1>6 DEF TryToken, Goto, OtherType, Places, Ended
    <2>2. CASE Take(Obj(t)) /\ credit' = [credit EXCEPT ![Obj(t)] = @ - 1] /\ Return(t)
        <3>1. WordsType' /\ credit' \in [Tokens -> Int]
            BY <1>0, <1>6, <2>2, TakeType DEF TryToken, OtherType
        <3> QED  BY <1>0, <1>2, <2>1, <2>2, <3>1 DEF OtherType, Others
    <2>3. CASE Continue(t, i[t] + 1) /\ UNCHANGED <<objectVars, seen, credit>>
        <3>1. LocalType' /\ \A u \in Threads \ {t} : /\ objs'[u] = objs[u] /\ all'[u] = all[u] /\ i'[u] = i[u]
                                                     /\ alertable'[u] = alertable[u] /\ seen'[u] = seen[u]
            BY <1>1, <1>3, <1>4, <2>3
        <3> QED  BY <1>0, <2>1, <2>3, <3>1 DEF WordsType, OtherType, Others
    <2> QED  BY <1>6, <2>2, <2>3 DEF TryToken
<1>7. CASE TryMutex(t) \/ TryAbandonedMutex(t)
    <2>1. /\ pc' \in [Threads -> Places] /\ \A u \in Threads \ {t} : pc'[u] = pc[u]
          /\ UNCHANGED <<apc, asleep, cur, credit, unannounced, spoiled, signals>>
        BY <1>0, <1>7 DEF TryMutex, TryAbandonedMutex, Goto, OtherType, Places, Ended
    <2>2. Obj(t) \in Mutexes
        BY <1>7 DEF TryMutex, TryAbandonedMutex, WaitState
    <2>3. CASE OwnMutex(t, Obj(t))
        <3>1. Return(t)
            BY <2>3 DEF OwnMutex
        <3>2. WordsType' /\ owned' \in [Threads -> [Mutexes -> Int]] /\ \A u \in Threads \ {t} : owned'[u] = owned[u]
            BY <1>5, <2>2, <2>3
        <3> QED  BY <1>0, <1>2, <2>1, <3>1, <3>2 DEF OtherType, Others
    <2>4. CASE SkipMutex(t, Obj(t))
        <3>1. seen' \in [Threads -> [Mutexes -> Tids]] /\ \A u \in Threads \ {t} : seen'[u] = seen[u]
            BY <2>2, <2>4, SeenType DEF SkipMutex
        <3>2. LocalType' /\ \A u \in Threads \ {t} : /\ objs'[u] = objs[u] /\ all'[u] = all[u] /\ i'[u] = i[u]
                                                     /\ alertable'[u] = alertable[u] /\ seen'[u] = seen[u]
            BY <1>1, <1>3, <2>4, <3>1 DEF SkipMutex
        <3>3. UNCHANGED <<objectVars, owned>>
            BY <2>4 DEF SkipMutex
        <3> QED  BY <1>0, <2>1, <3>2, <3>3 DEF WordsType, OtherType, Others
    <2>5. CASE UNCHANGED <<objectVars, callVars, i, seen, owned>>
        BY <1>0, <2>1, <2>5 DEF LocalType, WordsType, OtherType, Others
    <2> QED  BY <1>7, <2>3, <2>4, <2>5 DEF TryMutex, TryAbandonedMutex
<1>8. CASE GrabToken(t) \/ GrabManualEvent(t) \/ GrabMutex(t) \/ ExchangeMutex(t)
    <2>1. /\ pc' \in [Threads -> Places] /\ \A u \in Threads \ {t} : pc'[u] = pc[u]
          /\ UNCHANGED <<apc, asleep, cur, ghostVars, signals>>
        BY <1>0, <1>8 DEF GrabToken, GrabManualEvent, GrabMutex, ExchangeMutex, TooSlow, Goto, OtherType, Places, Ended
    <2>2. AtObject(t) /\ (pc[t] = "exchange" => Obj(t) \in Mutexes)
        BY <1>8 DEF GrabToken, GrabManualEvent, GrabMutex, ExchangeMutex, WaitState
    <2>3. WordsType'
        <3>1. CASE GrabToken(t)
            BY <1>0, <3>1, TakeType DEF GrabToken, TooSlow, WordsType
        <3>2. CASE GrabManualEvent(t) \/ GrabMutex(t)
            BY <1>0, <3>2 DEF GrabManualEvent, GrabMutex, TooSlow, WordsType
        <3>3. CASE ExchangeMutex(t)
            BY <1>0, <3>3 DEF ExchangeMutex, TooSlow, WordsType, Tids
        <3> QED  BY <1>8, <3>1, <3>2, <3>3
    <2>4. seen' \in [Threads -> [Mutexes -> Tids]] /\ \A u \in Threads \ {t} : seen'[u] = seen[u]
        <3>1. CASE GrabToken(t) \/ GrabManualEvent(t) \/ ExchangeMutex(t)
            BY <1>4, <3>1 DEF GrabToken, GrabManualEvent, ExchangeMutex
        <3>2. CASE GrabMutex(t)
            BY <3>2, SeenType DEF GrabMutex
        <3> QED  BY <1>8, <3>1, <3>2
    <2>5. \/ Continue(t, i[t] + 1) \/ Continue(t, i[t] - 1) \/ UNCHANGED <<callVars, i>>
        BY <1>8 DEF GrabToken, GrabManualEvent, GrabMutex, ExchangeMutex, TooSlow
    <2>6. LocalType' /\ \A u \in Threads \ {t} : /\ objs'[u] = objs[u] /\ all'[u] = all[u] /\ i'[u] = i[u]
                                                 /\ alertable'[u] = alertable[u] /\ seen'[u] = seen[u]
        <3>1. CASE UNCHANGED <<callVars, i>>
            BY <1>0, <2>4, <3>1 DEF LocalType
        <3> QED  BY <1>1, <1>3, <2>2, <2>4, <2>5, <3>1
    <2> QED  BY <1>0, <2>1, <2>3, <2>6 DEF OtherType, Others
<1>9. CASE AllGrabbed(t)
    <2>1. /\ pc' \in [Threads -> Places] /\ \A u \in Threads \ {t} : pc'[u] = pc[u]
          /\ UNCHANGED <<count, tid, apc, asleep, cur, unannounced, signals>> /\ Return(t) /\ spoiled' \subseteq Mutexes
        BY <1>0, <1>9 DEF AllGrabbed, Goto, OtherType, Places, Ended
    <2>2. recursion' \in [Mutexes -> Int] /\ credit' \in [Tokens -> Int]
        BY <1>0, <1>9 DEF AllGrabbed, WordsType, OtherType
    <2>3. owned' \in [Threads -> [Mutexes -> Int]] /\ \A u \in Threads \ {t} : owned'[u] = owned[u]
        <3>1. \A m \in Mutexes : owned[t][m] \in Int
            BY <1>0 DEF OtherType
        <3>2. [m \in Mutexes |-> owned[t][m] + (IF m \in ToSet(objs[t]) THEN 1 ELSE 0)] \in [Mutexes -> Int]
            BY <3>1
        <3> QED  BY <1>0, <1>9, <3>2 DEF AllGrabbed, OtherType
    <2> QED  BY <1>0, <1>2, <2>1, <2>2, <2>3 DEF WordsType, OtherType, Others
<1>10. CASE PutBack(t)
    <2>1. /\ pc' \in [Threads -> Places] /\ \A u \in Threads \ {t} : pc'[u] = pc[u]
          /\ UNCHANGED <<recursion, apc, asleep, seen, cur, owned, credit, signals>> /\ Continue(t, i[t] - 1)
        BY <1>0, <1>10 DEF PutBack, Goto, OtherType, Places, Ended
    <2>2. i[t] - 1 \in Nat /\ Obj(t) \in Objects
        <3>1. AtObject(t)
            BY <1>1, <1>10, AtObjectType DEF PutBack, Goto, WaitState, AtObject
        <3> QED  BY <1>1, <3>1
    <2>3. unannounced' \subseteq Objects /\ spoiled' \subseteq Mutexes
        BY <1>0, <1>10, <2>2 DEF PutBack, OtherType
    <2>4. tid' \in [Mutexes -> Tids]
        BY <1>0, <1>10 DEF PutBack, WordsType, Tids
    <2>5. count' \in [Objects \ Mutexes -> Nat]
        <3>1. Semaphores \cup AutoEvents \subseteq Objects \ Mutexes
            BY DEF Objects, Tokens
        <3> QED  BY <1>0, <1>10, <3>1 DEF PutBack, WordsType
    <2>6. LocalType' /\ \A u \in Threads \ {t} : /\ objs'[u] = objs[u] /\ all'[u] = all[u] /\ i'[u] = i[u]
                                                 /\ alertable'[u] = alertable[u] /\ seen'[u] = seen[u]
        BY <1>3, <1>4, <2>1, <2>2
    <2> QED  BY <1>0, <2>1, <2>3, <2>4, <2>5, <2>6 DEF WordsType, OtherType, Others
<1> QED  BY <1>6, <1>7, <1>8, <1>9, <1>10

\* The signalling calls, the server, and the beginning of a wait.
LEMMA SignalType ==
    ASSUME TypeOK, NEW t \in Threads, WaitState(t),
           \/ (\E e \in Events : fsync_set_event(t, e) \/ fsync_reset_event(t, e) \/ fsync_pulse_event(t, e))
           \/ PulseClear(t) \/ (\E s \in Semaphores, n \in 1..MaxCount : fsync_release_semaphore(t, s, n))
           \/ (\E m \in Mutexes : fsync_release_mutex(t, m) \/ AbandonMutex(t, m)) \/ AbandonCount(t) \/ Wake(t) \/ QueueApc(t)
           \/ (\E list \in program.any : CallWait(t, list, FALSE, program.alertable))
           \/ (\E list \in program.all : CallWait(t, list, TRUE, program.alertable))
    PROVE  LocalType' /\ WordsType' /\ OtherType' /\ Others(t)
<1> USE DEF callVars, objectVars, ghostVars
<1>0. LocalType /\ WordsType /\ OtherType
    BY TypeParts
<1>1. \A e \in Events : e \in Objects \ Mutexes
    BY DEF Events, Objects, Tokens
<1>2. ASSUME NEW o, NEW n \in Int, AddCredit(o, n) PROVE credit' \in [Tokens -> Int]
    BY <1>0, <1>2 DEF AddCredit, OtherType
<1>3. ASSUME NEW o \in Objects, NEW to \in Places, Signal(t, o, to)
      PROVE  /\ pc' \in [Threads -> Places] /\ cur' \in [Threads -> Objects \cup {ApcFutex}] /\ signals' \in Nat
             /\ UNCHANGED <<tid, recursion, apc, asleep, callVars, i, seen, owned, unannounced, spoiled>>
             /\ \A u \in Threads \ {t} : pc'[u] = pc[u] /\ cur'[u] = cur[u]
    BY <1>0, <1>3 DEF Signal, Goto, OtherType
<1>4. CASE \E e \in Events : fsync_set_event(t, e) \/ fsync_reset_event(t, e) \/ fsync_pulse_event(t, e)
    <2>1. PICK e \in Events : fsync_set_event(t, e) \/ fsync_reset_event(t, e) \/ fsync_pulse_event(t, e)
        BY <1>4
    <2>2. PICK to \in Places : Signal(t, e, to)
        BY <2>1 DEF fsync_set_event, fsync_reset_event, fsync_pulse_event, Places, Ended
    <2>3. count[e] \in Nat /\ e \in Objects
        BY <1>0, <1>1 DEF WordsType
    <2>4. credit' \in [Tokens -> Int] /\ count' \in [Objects \ Mutexes -> Nat]
        BY <1>0, <1>2, <2>1, <2>3 DEF fsync_set_event, fsync_reset_event, fsync_pulse_event, WordsType
    <2> QED  BY <1>0, <1>3, <2>2, <2>3, <2>4 DEF LocalType, WordsType, OtherType, Others
<1>5. CASE PulseClear(t)
    <2>1. pc[t] = "pulse_clear" /\ cur[t] \in Events
        BY <1>5 DEF PulseClear, Goto, WaitState
    <2>2. count[cur[t]] \in Nat
        BY <1>0, <1>1, <2>1 DEF WordsType
    <2>3. credit' \in [Tokens -> Int] /\ count' \in [Objects \ Mutexes -> Nat]
        <3>1. AddCredit(cur[t], -count[cur[t]]) /\ count' = [count EXCEPT ![cur[t]] = 0] /\ -count[cur[t]] \in Int
            BY <1>5, <2>2 DEF PulseClear
        <3>2. credit' \in [Tokens -> Int]
            BY <1>2, <3>1
        <3> QED  BY <1>0, <3>1, <3>2 DEF WordsType
    <2> QED  BY <1>0, <1>5, <2>3 DEF PulseClear, Goto, LocalType, WordsType, OtherType, Others, Places, Ended
<1>6. CASE \E s \in Semaphores, n \in 1..MaxCount : fsync_release_semaphore(t, s, n)
    <2>1. PICK s \in Semaphores, n \in 1..MaxCount : fsync_release_semaphore(t, s, n)
        BY <1>6
    <2>2. Signal(t, s, "wake") /\ "wake" \in Places /\ s \in Objects \ Mutexes /\ n \in Nat
        BY <2>1 DEF fsync_release_semaphore, Places, Objects, Tokens
    <2>3. count[s] \in Nat
        BY <1>0, <2>2 DEF WordsType
    <2>4. credit' \in [Tokens -> Int] /\ count' \in [Objects \ Mutexes -> Nat]
        BY <1>0, <1>2, <2>1, <2>2, <2>3 DEF fsync_release_semaphore, WordsType
    <2> QED  BY <1>0, <1>3, <2>2, <2>4 DEF LocalType, WordsType, OtherType, Others
<1>7. CASE \E m \in Mutexes : fsync_release_mutex(t, m) \/ AbandonMutex(t, m)
    <2>1. PICK m \in Mutexes : fsync_release_mutex(t, m) \/ AbandonMutex(t, m)
        BY <1>7
    <2>2. /\ owned[t] \in [Mutexes -> Int] /\ owned[t][m] \in Int /\ recursion[m] \in Int /\ m \in Objects
          /\ t \in Tids /\ NoThread \in Tids /\ Abandoned \in Tids
        BY <1>0 DEF OtherType, WordsType, Objects, Tids
    <2>3. /\ owned' \in [Threads -> [Mutexes -> Int]] /\ \A u \in Threads \ {t} : owned'[u] = owned[u]
        <3>1. PICK n \in Int : owned' = [owned EXCEPT ![t][m] = n]
            <4>1. owned[t][m] - 1 \in Int /\ 0 \in Int
                BY <2>2
            <4>2. \/ owned' = [owned EXCEPT ![t][m] = owned[t][m] - 1]
                  \/ owned' = [owned EXCEPT ![t][m] = 0]
                BY <2>1 DEF fsync_release_mutex, AbandonMutex
            <4> QED  BY <4>1, <4>2
        <3> QED  BY <1>0, <2>2, <3>1 DEF OtherType
    <2>4. WordsType'
        BY <1>0, <2>1, <2>2 DEF fsync_release_mutex, AbandonMutex, WordsType
    <2>5. /\ pc' \in [Threads -> Places] /\ cur' \in [Threads -> Objects \cup {ApcFutex}]
          /\ UNCHANGED <<apc, asleep, callVars, i, seen, credit, unannounced, spoiled, signals>>
          /\ \A u \in Threads \ {t} : pc'[u] = pc[u] /\ cur'[u] = cur[u]
        <3>1. PICK from, to \in Places : Goto(t, from, to)
            BY <2>1 DEF fsync_release_mutex, AbandonMutex, Places, Ended
        <3>2. PICK c \in Objects \cup {ApcFutex} : cur' = [cur EXCEPT ![t] = c]
            BY <2>1, <2>2 DEF fsync_release_mutex, AbandonMutex
        <3>3. UNCHANGED <<apc, asleep, callVars, i, seen, credit, unannounced, spoiled, signals>>
            BY <2>1 DEF fsync_release_mutex, AbandonMutex
        <3> QED  BY <1>0, <3>1, <3>2, <3>3 DEF Goto, OtherType
    <2> QED  BY <1>0, <2>3, <2>4, <2>5 DEF LocalType, OtherType, Others
<1>8. CASE Wake(t)
    <2>1. /\ pc' \in [Threads -> Places] /\ cur' \in [Threads -> Objects \cup {ApcFutex}]
          /\ UNCHANGED <<objectVars, apc, callVars, i, seen, owned, credit, spoiled, signals>>
          /\ \A u \in Threads \ {t} : pc'[u] = pc[u] /\ cur'[u] = cur[u]
        <3>1. PICK to \in Places : pc' = [pc EXCEPT ![t] = to]
            BY <1>8 DEF Wake, Goto, Places, Ended
        <3>2. PICK c \in Objects \cup {ApcFutex} : cur' = [cur EXCEPT ![t] = c]
            <4>1. cur[t] \in Objects \cup {ApcFutex} /\ cur = [cur EXCEPT ![t] = cur[t]]
                BY <1>0 DEF OtherType
            <4>2. cur' = cur \/ cur' = [cur EXCEPT ![t] = ApcFutex]
                BY <1>8 DEF Wake
            <4> QED  BY <4>1, <4>2
        <3>3. UNCHANGED <<objectVars, apc, callVars, i, seen, owned, credit, spoiled, signals>>
            BY <1>8 DEF Wake
        <3> QED  BY <1>0, <3>1, <3>2, <3>3 DEF OtherType
    <2>2. /\ asleep' \in [Threads -> SUBSET (Objects \cup {ApcFutex})] /\ unannounced' \subseteq Objects
          /\ \A u \in Threads : asleep'[u] \in {asleep[u], {}}
        BY <1>0, <1>8 DEF Wake, futex_wake, OtherType
    <2> QED  BY <1>0, <2>1, <2>2 DEF LocalType, WordsType, OtherType, Others
<1>9. CASE QueueApc(t)
    <2>1. /\ apc' \in [Threads -> {0, 1}] /\ asleep' \in [Threads -> SUBSET (Objects \cup {ApcFutex})]
          /\ signals' \in Nat /\ \A u \in Threads \ {t} : asleep'[u] = asleep[u]
        BY <1>0, <1>9 DEF QueueApc, OtherType
    <2>2. UNCHANGED <<objectVars, pc, callVars, i, seen, cur, ghostVars>>
        BY <1>9 DEF QueueApc
    <2> QED  BY <1>0, <2>1, <2>2 DEF LocalType, WordsType, OtherType, Others
<1>11. CASE AbandonCount(t)
    <2>1. /\ pc' \in [Threads -> Places] /\ \A u \in Threads \ {t} : pc'[u] = pc[u]
          /\ UNCHANGED <<count, tid, apc, asleep, callVars, i, seen, cur, owned, credit, unannounced, signals>>
        BY <1>0, <1>11 DEF AbandonCount, Goto, OtherType, Places, Ended
    <2>2. recursion' \in [Mutexes -> Int] /\ spoiled' \subseteq Mutexes
        <3>1. recursion' \in [Mutexes -> Int]
            <4>1. PICK x \in Mutexes : x = cur[t]
                BY <1>11 DEF AbandonCount, Goto, WaitState
            <4>2. recursion' = [recursion EXCEPT ![x] = 0] /\ recursion \in [Mutexes -> Int]
                BY <1>0, <1>11, <4>1 DEF AbandonCount, WordsType
            <4> QED  BY <4>2
        <3>2. spoiled' \subseteq Mutexes
            BY <1>0, <1>11 DEF AbandonCount, OtherType
        <3> QED  BY <3>1, <3>2
    <2> QED  BY <1>0, <2>1, <2>2 DEF LocalType, WordsType, OtherType, Others
<1>10. CASE \/ \E list \in program.any : CallWait(t, list, FALSE, program.alertable)
            \/ \E list \in program.all : CallWait(t, list, TRUE, program.alertable)
    <2>1. PICK list \in Seq(Objects), b \in BOOLEAN, a \in BOOLEAN : CallWait(t, list, b, a)
        <3>1. program \in Programs
            BY DEF TypeOK
        <3>2. program.any \subseteq Seq(Objects) /\ program.all \subseteq Seq(Objects) /\ program.alertable \in BOOLEAN
            BY <3>1
        <3> QED  BY <1>10, <3>2
    <2>2. /\ pc' \in [Threads -> Places] /\ \A u \in Threads \ {t} : pc'[u] = pc[u]
          /\ UNCHANGED <<objectVars, apc, asleep, i, seen, cur, ghostVars, signals>>
        BY <1>0, <2>1 DEF CallWait, Goto, OtherType, Places, Ended
    <2>3. /\ objs' = [objs EXCEPT ![t] = list] /\ all' = [all EXCEPT ![t] = b]
          /\ alertable' = [alertable EXCEPT ![t] = a]
        BY <2>1 DEF CallWait
    <2> QED  BY <1>0, <2>2, <2>3 DEF LocalType, WordsType, OtherType, Others
<1> QED  BY <1>4, <1>5, <1>6, <1>7, <1>8, <1>9, <1>10, <1>11

\* Every step keeps the types, and moves no other thread.
LEMMA TypeStep ==
    ASSUME TypeOK, NEW t \in Threads, WaitState(t), ThreadStep(t), UNCHANGED program
    PROVE  TypeOK' /\ Others(t)
<1>1. \/ (\/ StartScan(t) \/ ScanEnds(t) \/ FutexSleep(t) \/ FutexAgain(t) \/ FutexWoken(t) \/ UserApc(t)
          \/ WaitInSequence(t) \/ CheckAgain(t) \/ NextLoop(t) \/ StartOver(t) \/ TryManualEvent(t)
          \/ WaitTimeout(t) \/ ThreadEnds(t))
      \/ (\/ TryToken(t) \/ TryMutex(t) \/ TryAbandonedMutex(t)
          \/ GrabToken(t) \/ GrabManualEvent(t) \/ GrabMutex(t) \/ ExchangeMutex(t) \/ AllGrabbed(t) \/ PutBack(t))
      \/ (\/ (\E e \in Events : fsync_set_event(t, e) \/ fsync_reset_event(t, e) \/ fsync_pulse_event(t, e))
          \/ PulseClear(t) \/ (\E s \in Semaphores, n \in 1..MaxCount : fsync_release_semaphore(t, s, n))
          \/ (\E m \in Mutexes : fsync_release_mutex(t, m) \/ AbandonMutex(t, m)) \/ AbandonCount(t) \/ Wake(t) \/ QueueApc(t)
          \/ (\E list \in program.any : CallWait(t, list, FALSE, program.alertable))
          \/ (\E list \in program.all : CallWait(t, list, TRUE, program.alertable)))
    BY DEF ThreadStep, Call, Step
<1>2. LocalType' /\ WordsType' /\ OtherType' /\ Others(t)
    BY <1>1, ScanType, GrabType, SignalType
<1>3. program' \in Programs
    BY DEF TypeOK
<1> QED  BY <1>2, <1>3 DEF TypeOK, LocalType, WordsType, OtherType

-----------------------------------------------------------------------------
(* The place of a thread *)

\* The loops that neither grab nor put back anything.
LEMMA ScanState ==
    ASSUME TypeOK, NEW t \in Threads, WaitState(t), TypeOK',
           \/ StartScan(t) \/ ScanEnds(t) \/ FutexSleep(t) \/ FutexAgain(t) \/ FutexWoken(t) \/ UserApc(t)
           \/ WaitInSequence(t) \/ CheckAgain(t) \/ NextLoop(t) \/ StartOver(t) \/ TryManualEvent(t)
           \/ WaitTimeout(t) \/ ThreadEnds(t)
    PROVE  WaitState(t)'
<1> USE DEF callVars, objectVars, ghostVars
<1>0. pc \in [Threads -> Places] /\ asleep \in [Threads -> SUBSET (Objects \cup {ApcFutex})]
    BY DEF TypeOK
<1>1. all[t] \in BOOLEAN /\ alertable[t] \in BOOLEAN
    BY DEF TypeOK
<1>2. CASE UserApc(t) \/ WaitTimeout(t)
    <2>1. pc'[t] = "idle" /\ asleep'[t] = {} /\ Return(t)
        BY <1>0, <1>2 DEF UserApc, WaitTimeout, Goto, WaitState
    <2> QED  BY <2>1, ReturnType DEF WaitState
<1>3. CASE ThreadEnds(t) \/ ScanEnds(t)
    <2>1. /\ pc'[t] = "ended" \/ (pc'[t] = "wait" /\ ~all[t])
          /\ asleep'[t] = {} /\ objs' = objs /\ all' = all
        BY <1>0, <1>3 DEF ThreadEnds, ScanEnds, Goto, WaitState
    <2> QED  BY <2>1 DEF WaitState
<1>4. CASE StartScan(t)
    <2>1. pc[t] = "start" /\ pc'[t] \in {"apc", "scan"} /\ asleep'[t] = {} /\ objs' = objs /\ all' = all
        BY <1>0, <1>4 DEF StartScan, Goto, Continue, WaitState
    <2> QED  BY <2>1 DEF WaitState
<1>5. CASE CheckAgain(t) \/ NextLoop(t) \/ StartOver(t)
    <2>1. /\ pc[t] \in {"seq", "check", "undo"} /\ pc'[t] \in {"seq", "check", "grab"}
          /\ asleep'[t] = {} /\ objs' = objs /\ all' = all
          /\ pc'[t] = "grab" => i'[t] = 1
        BY <1>0, <1>5 DEF CheckAgain, NextLoop, StartOver, Goto, Continue, WaitState, TypeOK
    <2> QED  BY <2>1 DEF WaitState
<1>6. CASE FutexSleep(t)
    <2>1. pc[t] = "wait" /\ pc'[t] = "asleep" /\ objs' = objs /\ all' = all
        BY <1>0, <1>6 DEF FutexSleep, Goto
    <2> QED  BY <2>1 DEF WaitState
<1>7. CASE FutexAgain(t) \/ FutexWoken(t)
    <2>1. /\ pc'[t] \in {"start", "apc", "seq"} /\ asleep'[t] = {} /\ objs' = objs /\ all' = all
          /\ (pc'[t] = "start" => ~all[t]) /\ (pc'[t] = "seq" => all[t])
        BY <1>0, <1>1, <1>7 DEF FutexAgain, FutexWoken, Goto, Continue
    <2> QED  BY <2>1 DEF WaitState
<1>8. CASE WaitInSequence(t)
    <2>1. /\ pc[t] = "seq" /\ pc'[t] \in {"seq", "apc", "wait"} /\ asleep'[t] = {} /\ objs' = objs /\ all' = all
          /\ pc'[t] = "wait" => i' = i /\ AtObject(t)
        BY <1>0, <1>8 DEF WaitInSequence, Goto, Continue, WaitState
    <2> QED  BY <2>1 DEF WaitState, AtObject
<1>9. CASE TryManualEvent(t)
    <2>1. pc[t] = "scan" /\ asleep'[t] = {}
        BY <1>0, <1>9 DEF TryManualEvent, Goto, WaitState
    <2>2. CASE pc'[t] = "idle" /\ Return(t)
        BY <2>1, <2>2, ReturnType DEF WaitState
    <2>3. CASE pc'[t] = "scan" /\ objs' = objs /\ all' = all
        BY <2>1, <2>3 DEF WaitState
    <2> QED  BY <1>0, <1>9, <2>2, <2>3 DEF TryManualEvent, Goto, Continue
<1> QED  BY <1>2, <1>3, <1>4, <1>5, <1>6, <1>7, <1>8, <1>9

\* The steps that take an object, grab it or put it back.
LEMMA GrabState ==
    ASSUME TypeOK, NEW t \in Threads, WaitState(t), TypeOK',
           \/ TryToken(t) \/ TryMutex(t) \/ TryAbandonedMutex(t)
           \/ GrabToken(t) \/ GrabManualEvent(t) \/ GrabMutex(t) \/ ExchangeMutex(t) \/ AllGrabbed(t) \/ PutBack(t)
    PROVE  WaitState(t)'
<1> USE DEF callVars, objectVars, ghostVars
<1>0. pc \in [Threads -> Places] /\ i \in [Threads -> Nat] /\ i[t] \in Nat
    BY DEF TypeOK
<1>1. AtObject(t) => i[t] \in 1..Len(objs[t]) /\ Len(objs[t]) \in Nat
    BY AtObjectType
<1>2. pc[t] \in {"scan", "abandoned", "grab", "exchange", "undo"} /\ asleep' = asleep /\ asleep'[t] = {}
    BY DEF TryToken, TryMutex, TryAbandonedMutex, GrabToken, GrabManualEvent, GrabMutex, ExchangeMutex,
           TooSlow, AllGrabbed, PutBack, Goto, WaitState
<1>3. ASSUME pc'[t] = "idle", Return(t) PROVE WaitState(t)'
    BY <1>2, <1>3, ReturnType DEF WaitState
<1>4. ASSUME pc[t] \in {"scan", "abandoned"}, pc'[t] = "scan", objs' = objs, all' = all PROVE WaitState(t)'
    BY <1>2, <1>4 DEF WaitState
<1>5. ASSUME pc[t] \in {"grab", "exchange"}, pc'[t] = "grab", Continue(t, i[t] + 1) PROVE WaitState(t)'
    <2>1. objs' = objs /\ all' = all /\ i'[t] = i[t] + 1
        BY <1>0, <1>5 DEF Continue
    <2> QED  BY <1>0, <1>2, <1>5, <2>1 DEF WaitState
<1>6. ASSUME pc[t] \in {"grab", "exchange"}, TooSlow(t, pc[t]), AtObject(t) PROVE WaitState(t)'
    <2>1. pc'[t] = "undo" /\ objs' = objs /\ all' = all /\ i'[t] = i[t] - 1
        BY <1>0, <1>6 DEF TooSlow, Goto, Continue
    <2> QED  BY <1>1, <1>2, <1>6, <2>1 DEF WaitState
<1>7. CASE TryToken(t)
    BY <1>0, <1>3, <1>4, <1>7 DEF TryToken, Goto, Continue
<1>8. CASE TryMutex(t) \/ TryAbandonedMutex(t)
    <2>1. CASE pc'[t] = "idle" /\ Return(t)
        BY <1>3, <2>1
    <2>2. CASE pc'[t] = "scan" /\ objs' = objs /\ all' = all /\ pc[t] \in {"scan", "abandoned"}
        BY <1>4, <2>2
    <2>3. CASE /\ pc[t] = "scan" /\ pc'[t] = "abandoned" /\ objs' = objs /\ all' = all /\ i' = i
               /\ AtObject(t) /\ Obj(t) \in Mutexes
        BY <1>2, <2>3 DEF WaitState, AtObject, Obj
    <2> QED  BY <1>0, <1>8, <2>1, <2>2, <2>3 DEF TryMutex, TryAbandonedMutex, OwnMutex, SkipMutex, Goto, Continue
<1>9. CASE GrabToken(t) \/ GrabManualEvent(t)
    BY <1>0, <1>5, <1>6, <1>9 DEF GrabToken, GrabManualEvent, TooSlow, Goto
<1>10. CASE GrabMutex(t)
    <2>1. AtObject(t) /\ Obj(t) \in Mutexes /\ seen'[t][Obj(t)] = tid[Obj(t)]
        BY <1>10, SeenType DEF GrabMutex
    <2>2. CASE pc[t] = "grab" /\ pc'[t] = "grab" /\ Continue(t, i[t] + 1)
        BY <1>5, <2>2
    <2>3. CASE /\ pc[t] = "grab" /\ pc'[t] = "exchange" /\ objs' = objs /\ all' = all /\ i' = i
               /\ tid[Obj(t)] \in {NoThread, Abandoned}
        <3>1. AtObject(t)' /\ Obj(t)' = Obj(t)
            BY <2>1, <2>3 DEF AtObject, Obj
        <3>2. seen'[t][Obj(t)'] \in {NoThread, Abandoned}
            BY <2>1, <2>3, <3>1
        <3> QED  BY <1>2, <2>1, <2>3, <3>1, <3>2 DEF WaitState
    <2>4. CASE pc[t] = "grab" /\ TooSlow(t, "grab")
        BY <1>6, <2>1, <2>4
    <2> QED  BY <1>0, <1>10, <2>2, <2>3, <2>4 DEF GrabMutex, TooSlow, Goto
<1>11. CASE ExchangeMutex(t)
    <2>1. pc[t] = "exchange" /\ AtObject(t)
        BY <1>11 DEF ExchangeMutex, WaitState
    <2> QED  BY <1>0, <1>5, <1>6, <1>11, <2>1 DEF ExchangeMutex, TooSlow, Goto
<1>12. CASE AllGrabbed(t)
    BY <1>0, <1>3, <1>12 DEF AllGrabbed, Goto
<1>13. CASE PutBack(t)
    <2>1. pc[t] = "undo" /\ pc'[t] = "undo" /\ objs' = objs /\ all' = all /\ i'[t] = i[t] - 1 /\ i[t] > 0
        BY <1>0, <1>13 DEF PutBack, Goto, Continue
    <2>2. i[t] - 1 \in 0..Len(objs[t])
        BY <1>0, <2>1, AtObjectType DEF WaitState
    <2> QED  BY <1>2, <2>1, <2>2 DEF WaitState
<1> QED  BY <1>7, <1>8, <1>9, <1>10, <1>11, <1>12, <1>13

\* The signalling calls, the server, and the beginning of a wait.
LEMMA SignalState ==
    ASSUME TypeOK, NEW t \in Threads, WaitState(t), TypeOK',
           \/ (\E e \in Events : fsync_set_event(t, e) \/ fsync_reset_event(t, e) \/ fsync_pulse_event(t, e))
           \/ PulseClear(t) \/ (\E s \in Semaphores, n \in 1..MaxCount : fsync_release_semaphore(t, s, n))
           \/ (\E m \in Mutexes : fsync_release_mutex(t, m) \/ AbandonMutex(t, m)) \/ AbandonCount(t) \/ Wake(t) \/ QueueApc(t)
           \/ (\E list \in program.any : CallWait(t, list, FALSE, program.alertable))
           \/ (\E list \in program.all : CallWait(t, list, TRUE, program.alertable))
    PROVE  WaitState(t)'
<1> USE DEF callVars, objectVars, ghostVars
<1>0. /\ pc \in [Threads -> Places] /\ cur \in [Threads -> Objects \cup {ApcFutex}]
      /\ asleep \in [Threads -> SUBSET (Objects \cup {ApcFutex})]
    BY DEF TypeOK
<1>1. ASSUME pc'[t] \in {"idle", "wake", "pulse_wake", "pulse_clear", "abandon_count", "abandon_wake", "ended"},
             pc'[t] \in {"pulse_wake", "pulse_clear"} => cur'[t] \in Events,
             pc'[t] = "abandon_count" => cur'[t] \in Mutexes,
             asleep'[t] = {}, objs' = objs, all' = all
      PROVE  WaitState(t)'
    BY <1>1 DEF WaitState
<1>2. ASSUME NEW o, NEW to, Signal(t, o, to)
      PROVE  /\ pc'[t] = to /\ asleep'[t] = {} /\ objs' = objs /\ all' = all
             /\ to # "idle" => cur'[t] = o
    BY <1>0, <1>2 DEF Signal, Goto, WaitState
<1>3. CASE \E e \in Events : fsync_set_event(t, e) \/ fsync_reset_event(t, e) \/ fsync_pulse_event(t, e)
    <2>1. PICK e \in Events : fsync_set_event(t, e) \/ fsync_reset_event(t, e) \/ fsync_pulse_event(t, e)
        BY <1>3
    <2>2. PICK to \in {"idle", "wake", "pulse_wake", "pulse_clear"} : Signal(t, e, to)
        BY <2>1 DEF fsync_set_event, fsync_reset_event, fsync_pulse_event
    <2> QED  BY <1>1, <1>2, <2>2
<1>4. CASE \E s \in Semaphores, n \in 1..MaxCount : fsync_release_semaphore(t, s, n)
    BY <1>1, <1>2, <1>4 DEF fsync_release_semaphore
<1>5. CASE PulseClear(t)
    <2>1. pc'[t] = "idle" /\ asleep'[t] = {} /\ objs' = objs /\ all' = all
        BY <1>0, <1>5 DEF PulseClear, Goto, WaitState
    <2> QED  BY <1>1, <2>1
<1>6. CASE \E m \in Mutexes : fsync_release_mutex(t, m) \/ AbandonMutex(t, m)
    <2>1. pc'[t] \in {"idle", "wake", "abandon_count"} /\ asleep'[t] = {} /\ objs' = objs /\ all' = all
        BY <1>0, <1>6 DEF fsync_release_mutex, AbandonMutex, Goto, WaitState
    <2>2. pc'[t] = "abandon_count" => cur'[t] \in Mutexes
        BY <1>0, <1>6 DEF fsync_release_mutex, AbandonMutex, Goto
    <2> QED  BY <1>1, <2>1, <2>2
<1>11. CASE AbandonCount(t)
    <2>1. pc'[t] = "abandon_wake" /\ asleep'[t] = {} /\ objs' = objs /\ all' = all
        BY <1>0, <1>11 DEF AbandonCount, Goto, WaitState
    <2> QED  BY <1>1, <2>1
<1>7. CASE Wake(t)
    <2>1. /\ pc[t] \in {"wake", "pulse_wake", "abandon_wake"} /\ pc'[t] \in {"idle", "pulse_clear", "ended"}
          /\ pc'[t] = "pulse_clear" => pc[t] = "pulse_wake"
        BY <1>0, <1>7 DEF Wake, Goto
    <2>2. objs' = objs /\ all' = all /\ (pc[t] = "pulse_wake" => cur' = cur)
        BY <1>7 DEF Wake
    <2>3. asleep'[t] = {}
        BY <1>0, <1>7, <2>1 DEF Wake, futex_wake, WaitState
    <2> QED  BY <1>1, <2>1, <2>2, <2>3 DEF WaitState
<1>8. CASE QueueApc(t)
    <2>1. UNCHANGED <<pc, objs, all, i, seen, cur>> /\ asleep'[t] \in {asleep[t], {}}
        BY <1>0, <1>8 DEF QueueApc
    <2> QED  BY <2>1 DEF WaitState, AtObject, Obj
<1>9. ASSUME NEW list, NEW b \in BOOLEAN, NEW a, CallWait(t, list, b, a), b => NoDuplicates(list)
      PROVE  WaitState(t)'
    <2>1. /\ pc'[t] = (IF b THEN "seq" ELSE "start") /\ asleep'[t] = {} /\ pc[t] = "idle"
        BY <1>0, <1>9 DEF CallWait, Goto, WaitState
    <2>2. objs'[t] = list /\ all'[t] = b
        BY <1>9 DEF CallWait, TypeOK
    <2> QED  BY <1>9, <2>1, <2>2 DEF WaitState
<1>10. \A list \in program.all : NoDuplicates(list)
    <2>1. program \in Programs
        BY DEF TypeOK
    <2> QED  BY <2>1
<1> QED  BY <1>3, <1>4, <1>5, <1>6, <1>7, <1>8, <1>9, <1>10, <1>11

LEMMA WaitStep ==
    ASSUME TypeOK, \A u \in Threads : WaitState(u), NEW t \in Threads, ThreadStep(t), UNCHANGED program
    PROVE  \A u \in Threads : WaitState(u)'
<1>0. TypeOK' /\ Others(t)
    BY TypeStep
<1>1. WaitState(t)'
    <2>1. \/ (\/ StartScan(t) \/ ScanEnds(t) \/ FutexSleep(t) \/ FutexAgain(t) \/ FutexWoken(t) \/ UserApc(t)
              \/ WaitInSequence(t) \/ CheckAgain(t) \/ NextLoop(t) \/ StartOver(t) \/ TryManualEvent(t)
              \/ WaitTimeout(t) \/ ThreadEnds(t))
          \/ (\/ TryToken(t) \/ TryMutex(t) \/ TryAbandonedMutex(t)
              \/ GrabToken(t) \/ GrabManualEvent(t) \/ GrabMutex(t) \/ ExchangeMutex(t) \/ AllGrabbed(t) \/ PutBack(t))
          \/ (\/ (\E e \in Events : fsync_set_event(t, e) \/ fsync_reset_event(t, e) \/ fsync_pulse_event(t, e))
              \/ PulseClear(t) \/ (\E s \in Semaphores, n \in 1..MaxCount : fsync_release_semaphore(t, s, n))
              \/ (\E m \in Mutexes : fsync_release_mutex(t, m) \/ AbandonMutex(t, m)) \/ AbandonCount(t) \/ Wake(t) \/ QueueApc(t)
              \/ (\E list \in program.any : CallWait(t, list, FALSE, program.alertable))
              \/ (\E list \in program.all : CallWait(t, list, TRUE, program.alertable)))
        BY DEF ThreadStep, Call, Step
    <2> QED  BY <1>0, <2>1, ScanState, GrabState, SignalState
<1>2. ASSUME NEW u \in Threads \ {t} PROVE WaitState(u)'
    <2>1. /\ pc'[u] = pc[u] /\ objs'[u] = objs[u] /\ all'[u] = all[u] /\ i'[u] = i[u]
          /\ seen'[u] = seen[u] /\ cur'[u] = cur[u] /\ asleep'[u] \in {asleep[u], {}}
        BY <1>0 DEF Others
    <2> QED  BY <2>1 DEF WaitState, AtObject, Obj
<1> QED  BY <1>1, <1>2

-----------------------------------------------------------------------------
(* What a step does to the objects *)

\* The objects that can be grabbed.
Grabbable == Tokens \cup Mutexes

\* t has grabbed what it had grabbed before, and o as well.
SameGrabs(t) == \A x \in Grabbable : HasGrabbed(t, x)' <=> HasGrabbed(t, x)
Grabs(t, o) ==
    ~HasGrabbed(t, o) /\ \A x \in Grabbable : HasGrabbed(t, x)' <=> HasGrabbed(t, x) \/ x = o
NoGrabs(t) == \A x \in Grabbable : ~HasGrabbed(t, x)

\* A thread that is in none of the last loops of a wait for all has grabbed nothing.
LEMMA NothingGrabbed ==
    ASSUME NEW t \in Threads
    PROVE  /\ pc[t] \notin {"grab", "exchange", "undo"} => NoGrabs(t)
           /\ pc'[t] \notin {"grab", "exchange", "undo"} => NoGrabs(t)'
           /\ NoGrabs(t) /\ NoGrabs(t)' => SameGrabs(t)
BY DEF NoGrabs, HasGrabbed, SameGrabs, Grabbable

\* The loop goes on: one more object is grabbed.
LEMMA GrabNext ==
    ASSUME TypeOK, NEW t \in Threads, WaitState(t), AtObject(t),
           pc[t] \in {"grab", "exchange"}, pc'[t] = "grab", Continue(t, i[t] + 1)
    PROVE  Grabs(t, Obj(t))
<1>1. objs' = objs /\ i'[t] = i[t] + 1 /\ i[t] \in Nat /\ i[t] \in DOMAIN objs[t] /\ DOMAIN objs[t] \subseteq Nat
    BY AtObjectType DEF Continue, callVars, TypeOK, AtObject
<1>2. NoDuplicates(objs[t])
    BY DEF WaitState
<1>3. ~HasGrabbed(t, Obj(t))
    BY <1>1, <1>2 DEF HasGrabbed, NoDuplicates, Obj
<1>4. ASSUME NEW x PROVE HasGrabbed(t, x)' <=> HasGrabbed(t, x) \/ x = Obj(t)
    <2>1. HasGrabbed(t, x)' <=> \E k \in DOMAIN objs[t] : k < i[t] + 1 /\ objs[t][k] = x
        BY <1>1 DEF HasGrabbed
    <2>2. HasGrabbed(t, x) <=> \E k \in DOMAIN objs[t] : k < i[t] /\ objs[t][k] = x
        BY DEF HasGrabbed
    <2>3. \A k \in DOMAIN objs[t] : k < i[t] + 1 <=> k < i[t] \/ k = i[t]
        BY <1>1
    <2> QED  BY <1>1, <2>1, <2>2, <2>3 DEF Obj
<1> QED  BY <1>3, <1>4 DEF Grabs

\* goto tooslow: what is to be put back is what was grabbed.
LEMMA TooSlowGrabs ==
    ASSUME TypeOK, NEW t \in Threads, AtObject(t), pc[t] \in {"grab", "exchange"}, TooSlow(t, pc[t])
    PROVE  SameGrabs(t)
<1>1. objs' = objs /\ i'[t] = i[t] - 1 /\ i[t] \in Nat /\ DOMAIN objs[t] \subseteq Nat /\ pc'[t] = "undo"
    BY AtObjectType DEF TooSlow, Goto, Continue, callVars, TypeOK
<1>2. \A k \in DOMAIN objs[t] : k <= i[t] - 1 <=> k < i[t]
    BY <1>1
<1>3. ASSUME NEW x PROVE HasGrabbed(t, x)' <=> HasGrabbed(t, x)
    BY <1>1, <1>2 DEF HasGrabbed
<1> QED  BY <1>3 DEF SameGrabs

\* What a step of t can do to the objects and to the program's view of them:
\* nothing, ...
Quiet(t) == UNCHANGED <<objectVars, owned, credit, spoiled>> /\ SameGrabs(t)
\* ... take a token or a mutex in a wait for any, ...
TakesToken(t) ==
    \E o \in Tokens :
        /\ count[o] > 0 /\ count' = [count EXCEPT ![o] = @ - 1] /\ credit' = [credit EXCEPT ![o] = @ - 1]
        /\ UNCHANGED <<tid, recursion, owned, spoiled>> /\ SameGrabs(t)
TakesMutex(t) ==
    \E m \in Mutexes :
        /\ tid[m] \in {t, NoThread, Abandoned} /\ tid' = [tid EXCEPT ![m] = t]
        /\ recursion' = [recursion EXCEPT ![m] = IF tid[m] = t THEN @ + 1 ELSE 1]
        /\ owned' = [owned EXCEPT ![t][m] = @ + 1]
        /\ UNCHANGED <<count, credit, spoiled>> /\ NoGrabs(t) /\ NoGrabs(t)'
\* ... grab one in a wait for all, have grabbed all, put one back, ...
GrabsToken(t) ==
    \E o \in Tokens :
        /\ count[o] > 0 /\ count' = [count EXCEPT ![o] = @ - 1]
        /\ UNCHANGED <<tid, recursion, owned, credit, spoiled>> /\ Grabs(t, o)
GrabsMutex(t) ==
    \E m \in Mutexes :
        /\ tid[m] \in {t, NoThread, Abandoned} /\ tid' = [tid EXCEPT ![m] = t]
        /\ UNCHANGED <<count, recursion, owned, credit, spoiled>> /\ Grabs(t, m)
Finishes(t) ==
    /\ \A x \in Grabbable : HasGrabbed(t, x) <=> x \in ToSet(objs[t])
    /\ recursion' = [m \in Mutexes |-> recursion[m] + (IF m \in ToSet(objs[t]) THEN 1 ELSE 0)]
    /\ owned' = [owned EXCEPT ![t] = [m \in Mutexes |-> @[m] + (IF m \in ToSet(objs[t]) THEN 1 ELSE 0)]]
    /\ credit' = [o \in Tokens |-> credit[o] - (IF o \in ToSet(objs[t]) THEN 1 ELSE 0)]
    /\ spoiled' = spoiled \cup {m \in Mutexes \cap ToSet(objs[t]) : Clearing(m)}
    /\ UNCHANGED <<count, tid>> /\ NoGrabs(t)'
PutsBack(t) ==
    \E o \in Objects :
        /\ HasGrabbed(t, o) /\ \A x \in Grabbable : HasGrabbed(t, x)' <=> HasGrabbed(t, x) /\ x # o
        /\ tid' = IF o \in Mutexes THEN [tid EXCEPT ![o] = NoThread] ELSE tid
        /\ count' = CASE o \in Semaphores -> [count EXCEPT ![o] = @ + 1]
                      [] o \in AutoEvents -> [count EXCEPT ![o] = 1]
                      [] OTHER -> count
        /\ unannounced' = unannounced \cup ({o} \ ManualEvents)
        /\ spoiled' = spoiled \cup {m \in Mutexes \cap {o} : owned[t][m] > 0}
        /\ UNCHANGED <<recursion, owned, credit>>
\* ... or signal, release or abandon one.
SetsEvent(t) ==
    \E e \in Events, v \in {0, 1} :
        /\ count' = [count EXCEPT ![e] = v] /\ AddCredit(e, v - count[e])
        /\ UNCHANGED <<tid, recursion, owned, spoiled>> /\ SameGrabs(t)
Releases(t) ==
    \E s \in Semaphores, n \in 1..MaxCount :
        /\ count' = [count EXCEPT ![s] = @ + n] /\ AddCredit(s, n)
        /\ UNCHANGED <<tid, recursion, owned, spoiled>> /\ SameGrabs(t)
ReleasesMutex(t) ==
    \E m \in Mutexes :
        /\ tid[m] = t
        /\ recursion' = [recursion EXCEPT ![m] = @ - 1]
        /\ tid' = [tid EXCEPT ![m] = IF recursion[m] = 1 THEN NoThread ELSE t]
        /\ owned' = [owned EXCEPT ![t][m] = @ - 1]
        /\ UNCHANGED <<count, credit, spoiled>> /\ NoGrabs(t) /\ NoGrabs(t)'
Abandons(t) ==
    \E m \in Mutexes :
        /\ tid[m] = t /\ tid' = [tid EXCEPT ![m] = Abandoned] /\ owned' = [owned EXCEPT ![t][m] = 0]
        /\ pc'[t] = "abandon_count" /\ cur'[t] = m
        /\ UNCHANGED <<count, recursion, credit, spoiled>> /\ NoGrabs(t) /\ NoGrabs(t)'
\* The second half of that.
Clears(t) ==
    \E m \in Mutexes :
        /\ cur[t] = m /\ recursion' = [recursion EXCEPT ![m] = 0]
        /\ spoiled' = spoiled \cup {x \in Mutexes \cap {m} : \E u \in Threads : owned[u][x] > 0}
        /\ UNCHANGED <<count, tid, owned, credit>> /\ SameGrabs(t)

LEMMA ScanEffect ==
    ASSUME TypeOK, NEW t \in Threads, WaitState(t),
           \/ StartScan(t) \/ ScanEnds(t) \/ FutexSleep(t) \/ FutexAgain(t) \/ FutexWoken(t) \/ UserApc(t)
           \/ WaitInSequence(t) \/ CheckAgain(t) \/ NextLoop(t) \/ StartOver(t) \/ TryManualEvent(t)
           \/ WaitTimeout(t) \/ ThreadEnds(t)
    PROVE  Quiet(t)
<1> USE DEF callVars, objectVars, ghostVars, Goto
<1>0. pc \in [Threads -> Places] /\ i \in [Threads -> Nat]
    BY DEF TypeOK
<1>1. UNCHANGED <<objectVars, owned, credit, spoiled>>
    BY DEF StartScan, ScanEnds, FutexSleep, FutexAgain, FutexWoken, UserApc, WaitInSequence, CheckAgain, NextLoop,
           StartOver, TryManualEvent, WaitTimeout, ThreadEnds
<1>2. CASE \/ StartScan(t) \/ ScanEnds(t) \/ FutexSleep(t) \/ FutexAgain(t) \/ FutexWoken(t) \/ UserApc(t)
           \/ WaitInSequence(t) \/ CheckAgain(t) \/ TryManualEvent(t) \/ WaitTimeout(t) \/ ThreadEnds(t)
    <2>1. pc[t] \notin {"grab", "exchange", "undo"} /\ pc'[t] \notin {"grab", "exchange", "undo"}
        BY <1>0, <1>2 DEF StartScan, ScanEnds, FutexSleep, FutexAgain, FutexWoken, UserApc, WaitInSequence,
                          CheckAgain, TryManualEvent, WaitTimeout, ThreadEnds
    <2> QED  BY <1>1, <2>1, NothingGrabbed DEF Quiet
<1>3. CASE NextLoop(t)
    <2>1. pc[t] \in {"seq", "check"} /\ pc'[t] \in {"check", "grab"} /\ i'[t] = 1 /\ objs' = objs
        BY <1>0, <1>3 DEF NextLoop, Continue
    <2>2. NoGrabs(t)'
        <3>1. \A k \in DOMAIN objs[t] : ~(k < 1)
            BY AtObjectType
        <3> QED  BY <2>1, <3>1 DEF NoGrabs, HasGrabbed
    <2> QED  BY <1>1, <2>1, <2>2, NothingGrabbed DEF Quiet
<1>4. CASE StartOver(t)
    <2>1. pc[t] = "undo" /\ pc'[t] = "seq" /\ i[t] = 0
        BY <1>0, <1>4 DEF StartOver
    <2>2. NoGrabs(t)
        <3>1. \A k \in DOMAIN objs[t] : ~(k <= 0)
            BY AtObjectType
        <3> QED  BY <2>1, <3>1 DEF NoGrabs, HasGrabbed
    <2> QED  BY <1>1, <2>1, <2>2, NothingGrabbed DEF Quiet
<1> QED  BY <1>2, <1>3, <1>4

LEMMA GrabEffect ==
    ASSUME TypeOK, NEW t \in Threads, WaitState(t),
           \/ TryToken(t) \/ TryMutex(t) \/ TryAbandonedMutex(t)
           \/ GrabToken(t) \/ GrabManualEvent(t) \/ GrabMutex(t) \/ ExchangeMutex(t) \/ AllGrabbed(t) \/ PutBack(t)
    PROVE  \/ Quiet(t) \/ TakesToken(t) \/ TakesMutex(t)
           \/ GrabsToken(t) \/ GrabsMutex(t) \/ Finishes(t) \/ PutsBack(t)
<1> USE DEF callVars, objectVars, ghostVars
<1>0. pc \in [Threads -> Places] /\ i \in [Threads -> Nat] /\ tid \in [Mutexes -> Tids]
    BY DEF TypeOK
<1>1. CASE TryToken(t)
    <2>1. pc[t] = "scan" /\ pc'[t] \in {"idle", "scan"} /\ UNCHANGED <<owned, spoiled>> /\ Obj(t) \in Tokens
        BY <1>0, <1>1 DEF TryToken, Goto
    <2>2. SameGrabs(t)
        BY <2>1, NothingGrabbed
    <2>3. CASE Take(Obj(t)) /\ credit' = [credit EXCEPT ![Obj(t)] = @ - 1]
        BY <2>1, <2>2, <2>3 DEF Take, TakesToken
    <2>4. CASE UNCHANGED <<objectVars, credit>>
        BY <2>1, <2>2, <2>4 DEF Quiet
    <2> QED  BY <1>1, <2>3, <2>4 DEF TryToken
<1>2. CASE TryMutex(t) \/ TryAbandonedMutex(t)
    <2>1. /\ pc[t] \in {"scan", "abandoned"} /\ pc'[t] \in {"idle", "scan", "abandoned"}
          /\ UNCHANGED <<credit, spoiled>> /\ Obj(t) \in Mutexes
        BY <1>0, <1>2 DEF TryMutex, TryAbandonedMutex, Goto, WaitState
    <2>2. NoGrabs(t) /\ NoGrabs(t)' /\ SameGrabs(t)
        BY <2>1, NothingGrabbed
    <2>3. CASE OwnMutex(t, Obj(t)) /\ tid[Obj(t)] \in {t, NoThread, Abandoned}
        BY <2>1, <2>2, <2>3 DEF OwnMutex, TakesMutex
    <2>4. CASE UNCHANGED <<objectVars, owned>>
        BY <2>1, <2>2, <2>4 DEF Quiet
    <2> QED  BY <1>2, <2>3, <2>4 DEF TryMutex, TryAbandonedMutex, SkipMutex
<1>3. CASE GrabToken(t)
    <2>1. AtObject(t) /\ Obj(t) \in Tokens /\ UNCHANGED <<owned, credit, spoiled>>
        BY <1>3 DEF GrabToken
    <2>2. CASE Goto(t, "grab", "grab") /\ Take(Obj(t)) /\ Continue(t, i[t] + 1)
        <3>1. Grabs(t, Obj(t))
            BY <2>1, <2>2, PlaceType, GrabNext
        <3>2. PICK o \in Tokens : o = Obj(t)
            BY <2>1
        <3> QED  BY <2>1, <2>2, <3>1, <3>2 DEF Take, GrabsToken
    <2>3. CASE TooSlow(t, "grab")
        BY <2>1, <2>3, TooSlowGrabs DEF TooSlow, Quiet, Goto
    <2> QED  BY <1>3, <2>2, <2>3 DEF GrabToken
<1>4. CASE GrabManualEvent(t)
    <2>1. /\ AtObject(t) /\ Obj(t) \in ManualEvents /\ UNCHANGED <<objectVars, owned, credit, spoiled>>
          /\ Goto(t, "grab", "grab") /\ Continue(t, i[t] + 1)
        BY <1>4 DEF GrabManualEvent
    <2>2. Grabs(t, Obj(t)) /\ Obj(t) \notin Grabbable
        BY <2>1, PlaceType, GrabNext DEF Grabbable
    <2> QED  BY <2>1, <2>2 DEF Grabs, SameGrabs, Quiet
<1>5. CASE GrabMutex(t)
    <2>1. AtObject(t) /\ Obj(t) \in Mutexes /\ UNCHANGED <<owned, credit, spoiled>>
        BY <1>5 DEF GrabMutex
    <2>2. CASE Goto(t, "grab", "grab") /\ tid[Obj(t)] = t /\ Continue(t, i[t] + 1) /\ UNCHANGED objectVars
        <3>1. Grabs(t, Obj(t))
            BY <2>1, <2>2, PlaceType, GrabNext
        <3>2. PICK m \in Mutexes : m = Obj(t)
            BY <2>1
        <3>3. tid' = [tid EXCEPT ![m] = t]
            BY <1>0, <2>2, <3>2
        <3> QED  BY <2>1, <2>2, <3>1, <3>2, <3>3 DEF GrabsMutex
    <2>3. CASE Goto(t, "grab", "exchange") /\ UNCHANGED <<objectVars, callVars, i>>
        <3>1. SameGrabs(t)
            BY <2>3, PlaceType DEF SameGrabs, HasGrabbed
        <3> QED  BY <2>1, <2>3, <3>1 DEF Quiet
    <2>4. CASE TooSlow(t, "grab")
        BY <2>1, <2>4, TooSlowGrabs DEF TooSlow, Quiet, Goto
    <2> QED  BY <1>5, <2>2, <2>3, <2>4 DEF GrabMutex
<1>6. CASE ExchangeMutex(t)
    <2>1. /\ AtObject(t) /\ Obj(t) \in Mutexes /\ UNCHANGED <<owned, credit, spoiled>> /\ pc[t] = "exchange"
          /\ seen[t][Obj(t)] \in {NoThread, Abandoned}
        BY <1>6 DEF ExchangeMutex, WaitState
    <2>2. CASE /\ Goto(t, "exchange", "grab") /\ tid[Obj(t)] = seen[t][Obj(t)] /\ tid' = [tid EXCEPT ![Obj(t)] = t]
               /\ Continue(t, i[t] + 1) /\ UNCHANGED <<count, recursion>>
        <3>1. Grabs(t, Obj(t))
            BY <2>1, <2>2, PlaceType, GrabNext
        <3>2. PICK m \in Mutexes : m = Obj(t)
            BY <2>1
        <3> QED  BY <2>1, <2>2, <3>1, <3>2 DEF GrabsMutex
    <2>3. CASE TooSlow(t, "exchange")
        BY <2>1, <2>3, TooSlowGrabs DEF TooSlow, Quiet
    <2> QED  BY <1>6, <2>2, <2>3 DEF ExchangeMutex
<1>7. CASE AllGrabbed(t)
    <2>1. pc[t] = "grab" /\ pc'[t] = "idle" /\ ~AtObject(t)
        BY <1>0, <1>7 DEF AllGrabbed, Goto
    <2>2. NoGrabs(t)'
        BY <2>1, NothingGrabbed
    <2>3. ASSUME NEW x PROVE HasGrabbed(t, x) <=> x \in ToSet(objs[t])
        <3>1. \A k \in DOMAIN objs[t] : k < i[t]
            BY <2>1, AtObjectType DEF AtObject, WaitState
        <3> QED  BY <2>1, <3>1 DEF HasGrabbed, ToSet
    <2> QED  BY <1>7, <2>2, <2>3 DEF AllGrabbed, Finishes
<1>8. CASE PutBack(t)
    <2>1. /\ pc[t] = "undo" /\ pc'[t] = "undo" /\ objs' = objs /\ i'[t] = i[t] - 1 /\ i[t] > 0 /\ i[t] \in Nat
          /\ i[t] \in DOMAIN objs[t] /\ DOMAIN objs[t] \subseteq Nat /\ Obj(t) \in Objects
        <3>1. pc[t] = "undo" /\ pc'[t] = "undo" /\ objs' = objs /\ i'[t] = i[t] - 1 /\ i[t] > 0 /\ i[t] \in Nat
            BY <1>0, <1>8 DEF PutBack, Goto, Continue
        <3>2. AtObject(t)
            BY <3>1, AtObjectType DEF WaitState, AtObject
        <3> QED  BY <3>1, <3>2, AtObjectType DEF AtObject
    <2>2. PICK o \in Objects : o = Obj(t)
        BY <2>1
    <2>3. NoDuplicates(objs[t])
        BY <2>1 DEF WaitState
    <2>4. HasGrabbed(t, o)
        BY <2>1, <2>2 DEF HasGrabbed, Obj
    <2>5. ASSUME NEW x PROVE HasGrabbed(t, x)' <=> HasGrabbed(t, x) /\ x # o
        <3>1. HasGrabbed(t, x)' <=> \E k \in DOMAIN objs[t] : k <= i[t] - 1 /\ objs[t][k] = x
            BY <2>1 DEF HasGrabbed
        <3>2. HasGrabbed(t, x) <=> \E k \in DOMAIN objs[t] : k <= i[t] /\ objs[t][k] = x
            BY <2>1 DEF HasGrabbed
        <3>3. \A k \in DOMAIN objs[t] : k <= i[t] - 1 <=> k <= i[t] /\ k # i[t]
            BY <2>1
        <3> QED  BY <2>1, <2>2, <2>3, <3>1, <3>2, <3>3 DEF Obj, NoDuplicates
    <2>6. /\ tid' = IF o \in Mutexes THEN [tid EXCEPT ![o] = NoThread] ELSE tid
          /\ count' = CASE o \in Semaphores -> [count EXCEPT ![o] = @ + 1]
                        [] o \in AutoEvents -> [count EXCEPT ![o] = 1]
                        [] OTHER -> count
          /\ unannounced' = unannounced \cup ({o} \ ManualEvents)
          /\ spoiled' = spoiled \cup {m \in Mutexes \cap {o} : owned[t][m] > 0}
          /\ UNCHANGED <<recursion, owned, credit>>
        BY <1>8, <2>2 DEF PutBack
    <2> QED  BY <2>4, <2>5, <2>6 DEF PutsBack
<1> QED  BY <1>1, <1>2, <1>3, <1>4, <1>5, <1>6, <1>7, <1>8

LEMMA CountEffect ==
    ASSUME TypeOK, NEW t \in Threads, WaitState(t), AbandonCount(t)
    PROVE  Clears(t)
<1>1. pc[t] = "abandon_count" /\ pc'[t] = "abandon_wake" /\ cur[t] \in Mutexes
    BY DEF AbandonCount, Goto, WaitState, TypeOK
<1>2. SameGrabs(t)
    BY <1>1, NothingGrabbed
<1> QED  BY <1>1, <1>2 DEF AbandonCount, Clears

LEMMA SignalEffect ==
    ASSUME TypeOK, NEW t \in Threads, WaitState(t),
           \/ (\E e \in Events : fsync_set_event(t, e) \/ fsync_reset_event(t, e) \/ fsync_pulse_event(t, e))
           \/ PulseClear(t) \/ (\E s \in Semaphores, n \in 1..MaxCount : fsync_release_semaphore(t, s, n))
           \/ (\E m \in Mutexes : fsync_release_mutex(t, m) \/ AbandonMutex(t, m)) \/ AbandonCount(t) \/ Wake(t) \/ QueueApc(t)
           \/ (\E list \in program.any : CallWait(t, list, FALSE, program.alertable))
           \/ (\E list \in program.all : CallWait(t, list, TRUE, program.alertable))
    PROVE  \/ Quiet(t) \/ SetsEvent(t) \/ Releases(t) \/ ReleasesMutex(t) \/ Abandons(t)
           \/ AbandonCount(t) /\ Clears(t)
<1> USE DEF callVars, objectVars, ghostVars
<1>0. pc \in [Threads -> Places]
    BY DEF TypeOK
<1>1. ASSUME pc[t] \notin {"grab", "exchange", "undo"}, pc'[t] \notin {"grab", "exchange", "undo"}
      PROVE  NoGrabs(t) /\ NoGrabs(t)' /\ SameGrabs(t)
    BY <1>1, NothingGrabbed
<1>2. CASE \E e \in Events : fsync_set_event(t, e) \/ fsync_reset_event(t, e) \/ fsync_pulse_event(t, e)
    <2>1. PICK e \in Events : fsync_set_event(t, e) \/ fsync_reset_event(t, e) \/ fsync_pulse_event(t, e)
        BY <1>2
    <2>2. SameGrabs(t)
        BY <1>0, <1>1, <2>1 DEF fsync_set_event, fsync_reset_event, fsync_pulse_event, Signal, Goto
    <2>3. UNCHANGED <<tid, recursion, owned, spoiled>>
        BY <2>1 DEF fsync_set_event, fsync_reset_event, fsync_pulse_event, Signal
    <2>4. count[e] \in Nat
        BY DEF TypeOK, Events, Objects, Tokens
    <2>5. PICK v \in {0, 1} : count' = [count EXCEPT ![e] = v] /\ AddCredit(e, v - count[e])
        <3>1. 0 - count[e] = -count[e]
            BY <2>4
        <3> QED  BY <2>1, <3>1 DEF fsync_set_event, fsync_reset_event, fsync_pulse_event
    <2> QED  BY <2>2, <2>3, <2>5 DEF SetsEvent
<1>3. CASE PulseClear(t)
    <2>1. SameGrabs(t) /\ cur[t] \in Events
        BY <1>0, <1>1, <1>3 DEF PulseClear, Goto, WaitState
    <2>2. PICK e \in Events : e = cur[t]
        BY <2>1
    <2>3. 0 - count[e] = -count[e]
        BY DEF TypeOK, Events, Objects, Tokens
    <2>4. /\ count' = [count EXCEPT ![e] = 0] /\ AddCredit(e, 0 - count[e])
          /\ UNCHANGED <<tid, recursion, owned, spoiled>>
        BY <1>3, <2>2, <2>3 DEF PulseClear
    <2> QED  BY <2>1, <2>4 DEF SetsEvent
<1>4. CASE \E s \in Semaphores, n \in 1..MaxCount : fsync_release_semaphore(t, s, n)
    <2>1. PICK s \in Semaphores, n \in 1..MaxCount : fsync_release_semaphore(t, s, n)
        BY <1>4
    <2>2. SameGrabs(t)
        BY <1>0, <1>1, <2>1 DEF fsync_release_semaphore, Signal, Goto
    <2> QED  BY <2>1, <2>2 DEF fsync_release_semaphore, Signal, Releases
<1>5. CASE \E m \in Mutexes : fsync_release_mutex(t, m)
    <2>1. PICK m \in Mutexes : fsync_release_mutex(t, m)
        BY <1>5
    <2>2. NoGrabs(t) /\ NoGrabs(t)'
        BY <1>0, <1>1, <2>1 DEF fsync_release_mutex, Goto
    <2> QED  BY <2>1, <2>2 DEF fsync_release_mutex, ReleasesMutex
<1>6. CASE \E m \in Mutexes : AbandonMutex(t, m)
    <2>1. PICK m \in Mutexes : AbandonMutex(t, m)
        BY <1>6
    <2>2. NoGrabs(t) /\ NoGrabs(t)'
        BY <1>0, <1>1, <2>1 DEF AbandonMutex, Goto
    <2>3. pc'[t] = "abandon_count" /\ cur'[t] = m
        BY <1>0, <2>1 DEF AbandonMutex, Goto, TypeOK
    <2> QED  BY <2>1, <2>2, <2>3 DEF AbandonMutex, Abandons
<1>10. CASE AbandonCount(t)
    BY <1>10, CountEffect
<1>7. CASE Wake(t)
    <2>1. SameGrabs(t)
        BY <1>0, <1>1, <1>7 DEF Wake, Goto
    <2> QED  BY <1>7, <2>1 DEF Wake, Quiet
<1>8. CASE QueueApc(t)
    <2>1. SameGrabs(t)
        BY <1>8 DEF QueueApc, SameGrabs, HasGrabbed
    <2> QED  BY <1>8, <2>1 DEF QueueApc, Quiet
<1>9. CASE \/ \E list \in program.any : CallWait(t, list, FALSE, program.alertable)
           \/ \E list \in program.all : CallWait(t, list, TRUE, program.alertable)
    <2>1. PICK list, b, a : CallWait(t, list, b, a)
        BY <1>9
    <2>2. SameGrabs(t)
        BY <1>0, <1>1, <2>1 DEF CallWait, Goto
    <2> QED  BY <2>1, <2>2 DEF CallWait, Quiet
<1> QED  BY <1>2, <1>3, <1>4, <1>5, <1>6, <1>7, <1>8, <1>9, <1>10

\* Whatever a thread does is one of these.
LEMMA Effects ==
    ASSUME TypeOK, NEW t \in Threads, WaitState(t), ThreadStep(t)
    PROVE  \/ Quiet(t) \/ TakesToken(t) \/ TakesMutex(t)
           \/ GrabsToken(t) \/ GrabsMutex(t) \/ Finishes(t) \/ PutsBack(t)
           \/ SetsEvent(t) \/ Releases(t) \/ ReleasesMutex(t) \/ Abandons(t) \/ (AbandonCount(t) /\ Clears(t))
<1>1. \/ (\/ StartScan(t) \/ ScanEnds(t) \/ FutexSleep(t) \/ FutexAgain(t) \/ FutexWoken(t) \/ UserApc(t)
          \/ WaitInSequence(t) \/ CheckAgain(t) \/ NextLoop(t) \/ StartOver(t) \/ TryManualEvent(t)
          \/ WaitTimeout(t) \/ ThreadEnds(t))
      \/ (\/ TryToken(t) \/ TryMutex(t) \/ TryAbandonedMutex(t)
          \/ GrabToken(t) \/ GrabManualEvent(t) \/ GrabMutex(t) \/ ExchangeMutex(t) \/ AllGrabbed(t) \/ PutBack(t))
      \/ (\/ (\E e \in Events : fsync_set_event(t, e) \/ fsync_reset_event(t, e) \/ fsync_pulse_event(t, e))
          \/ PulseClear(t) \/ (\E s \in Semaphores, n \in 1..MaxCount : fsync_release_semaphore(t, s, n))
          \/ (\E m \in Mutexes : fsync_release_mutex(t, m) \/ AbandonMutex(t, m)) \/ AbandonCount(t) \/ Wake(t) \/ QueueApc(t)
          \/ (\E list \in program.any : CallWait(t, list, FALSE, program.alertable))
          \/ (\E list \in program.all : CallWait(t, list, TRUE, program.alertable)))
    BY DEF ThreadStep, Call, Step
<1> QED  BY <1>1, ScanEffect, GrabEffect, SignalEffect

-----------------------------------------------------------------------------
(* The mutexes *)

\* A step of t changes nothing about what the other threads have grabbed.
LEMMA OthersGrabs ==
    ASSUME NEW t \in Threads, Others(t), NEW u \in Threads \ {t}, NEW x
    PROVE  HasGrabbed(u, x)' <=> HasGrabbed(u, x)
BY DEF Others, HasGrabbed

\* The server goes on with the mutex it abandons, whatever threads do.
LEMMA ClearingKept ==
    ASSUME NEW t \in Threads, Others(t), ThreadStep(t), ~AbandonCount(t), NEW m
    PROVE  Clearing(m) => Clearing(m)'
<1>1. ASSUME pc[t] = "abandon_count" PROVE FALSE
    BY <1>1 DEF ThreadStep, Call, Step, StartScan, TryToken, TryManualEvent, TryMutex, TryAbandonedMutex, ScanEnds,
                FutexSleep, FutexAgain, FutexWoken, UserApc, WaitInSequence, CheckAgain, NextLoop, GrabToken,
                GrabManualEvent, GrabMutex, ExchangeMutex, TooSlow, AllGrabbed, PutBack, StartOver, PulseClear, Wake,
                AbandonMutex, CallWait, fsync_set_event, fsync_reset_event, fsync_pulse_event,
                fsync_release_semaphore, fsync_release_mutex, Signal, ThreadEnds, WaitTimeout, QueueApc, Ended, Goto
<1> QED  BY <1>1 DEF Clearing, Others

\* The part of MutexState(m) that is about t.
MutexShare(t, m) ==
    /\ owned[t][m] >= 0 /\ (owned[t][m] > 0 => tid[m] = t)
    /\ tid[m] = t =>
        /\ recursion[m] = owned[t][m] \/ (owned[t][m] = 0 /\ Clearing(m))
        /\ owned[t][m] = 0 => HasGrabbed(t, m)
    /\ HasGrabbed(t, m) => tid[m] = t

LEMMA MutexShares ==
    ASSUME NEW m
    PROVE  MutexState(m) <=> /\ tid[m] \notin Threads => recursion[m] = 0 \/ Clearing(m)
                             /\ \A t \in Threads : MutexShare(t, m)
BY DEF MutexState, MutexShare

\* What remains to be shown of a mutex when t changes at most its own part.
LEMMA MutexPart ==
    ASSUME TypeOK, TypeOK', NEW t \in Threads, Others(t), NEW m \in Mutexes, MutexState(m),
           Clearing(m) => Clearing(m)',
           tid'[m] = tid[m] \/ (tid[m] \in {t, NoThread, Abandoned} /\ tid'[m] \in {t, NoThread, Abandoned}),
           tid'[m] \in Threads \ {t} => recursion'[m] = recursion[m],
           tid'[m] \notin Threads => recursion'[m] = 0 \/ Clearing(m)',
           MutexShare(t, m)'
    PROVE  MutexState(m)'
<1>1. ASSUME NEW u \in Threads \ {t} PROVE MutexShare(u, m)'
    <2>1. owned'[u][m] = owned[u][m] /\ (HasGrabbed(u, m)' <=> HasGrabbed(u, m))
        BY OthersGrabs DEF Others
    <2>2. u # NoThread /\ u # Abandoned /\ u # t
        OBVIOUS
    <2>3. MutexShare(u, m)
        BY MutexShares
    <2>4. tid'[m] = u <=> tid[m] = u
        BY <2>2
    <2> QED  BY <2>1, <2>2, <2>3, <2>4 DEF MutexShare
<1>2. \A u \in Threads : MutexShare(u, m)'
    BY <1>1
<1> QED  BY <1>2 DEF MutexState, MutexShare

LEMMA MutexStep ==
    ASSUME TypeOK, TypeOK', NEW t \in Threads, Others(t), NEW m \in Mutexes \ spoiled', MutexState(m),
           Clears(t) \/ (Clearing(m) => Clearing(m)'),
           \/ Quiet(t) \/ TakesToken(t) \/ TakesMutex(t)
           \/ GrabsToken(t) \/ GrabsMutex(t) \/ Finishes(t) \/ PutsBack(t)
           \/ SetsEvent(t) \/ Releases(t) \/ ReleasesMutex(t) \/ Abandons(t) \/ Clears(t)
    PROVE  MutexState(m)'
<1>0. /\ tid \in [Mutexes -> Tids] /\ recursion \in [Mutexes -> Int] /\ owned \in [Threads -> [Mutexes -> Int]]
      /\ owned[t] \in [Mutexes -> Int] /\ owned[t][m] \in Int /\ recursion[m] \in Int
      /\ m \in Grabbable /\ m \in Mutexes /\ m \notin Tokens /\ t # NoThread /\ t # Abandoned
    BY DEF TypeOK, Grabbable
<1>1. /\ tid[m] \notin Threads => recursion[m] = 0 \/ Clearing(m)
      /\ owned[t][m] >= 0 /\ (owned[t][m] > 0 => tid[m] = t)
      /\ tid[m] = t => /\ recursion[m] = owned[t][m] \/ (owned[t][m] = 0 /\ Clearing(m))
                       /\ owned[t][m] = 0 => HasGrabbed(t, m)
      /\ HasGrabbed(t, m) => tid[m] = t
    BY DEF MutexState
<1>10. CASE Clears(t)
    <2>1. PICK x \in Mutexes :
              /\ cur[t] = x /\ recursion' = [recursion EXCEPT ![x] = 0]
              /\ spoiled' = spoiled \cup {y \in Mutexes \cap {x} : \E u \in Threads : owned[u][y] > 0}
        BY <1>10 DEF Clears
    <2>2. UNCHANGED <<tid, owned>>
        BY <1>10 DEF Clears
    <2>3. ASSUME NEW u \in Threads PROVE (HasGrabbed(u, m)' <=> HasGrabbed(u, m)) /\ MutexShare(u, m)
        <3>1. MutexShare(u, m)
            BY MutexShares
        <3>2. CASE u = t
            BY <1>0, <1>10, <3>1, <3>2 DEF Clears, SameGrabs
        <3>3. CASE u \in Threads \ {t}
            BY <3>1, <3>3, OthersGrabs
        <3> QED  BY <3>2, <3>3
    <2>4. CASE x # m
        <3>1. recursion'[m] = recursion[m] /\ (Clearing(m) => Clearing(m)')
            BY <1>0, <2>1, <2>4 DEF Clearing, Others
        <3>2. ASSUME NEW u \in Threads PROVE MutexShare(u, m)'
            BY <2>2, <2>3, <3>1 DEF MutexShare
        <3> QED  BY <1>1, <2>2, <3>1, <3>2 DEF MutexState, MutexShare
    <2>5. CASE x = m
        <3>1. recursion'[m] = 0 /\ \A u \in Threads : ~(owned[u][m] > 0)
            BY <1>0, <2>1, <2>5
        <3>2. ASSUME NEW u \in Threads PROVE owned'[u][m] = 0 /\ MutexShare(u, m)'
            <4>1. owned[u][m] \in Int /\ ~(owned[u][m] > 0) /\ owned[u][m] >= 0
                BY <1>0, <2>3, <3>1 DEF MutexShare
            <4> QED  BY <2>2, <2>3, <3>1, <4>1 DEF MutexShare
        <3> QED  BY <3>1, <3>2 DEF MutexState, MutexShare
    <2> QED  BY <2>4, <2>5
<1> SUFFICES ASSUME Clearing(m) => Clearing(m)', ~Clears(t) PROVE MutexState(m)'
    BY <1>10
<1> USE DEF MutexShare
<1>2. ASSUME tid'[m] = tid[m], recursion'[m] = recursion[m], owned'[t][m] = owned[t][m],
             HasGrabbed(t, m)' <=> HasGrabbed(t, m)
      PROVE  MutexState(m)'
    BY <1>0, <1>1, <1>2, MutexPart
<1>3. CASE Quiet(t) \/ TakesToken(t) \/ GrabsToken(t) \/ SetsEvent(t) \/ Releases(t)
    <2>1. tid' = tid /\ recursion' = recursion /\ owned' = owned
        BY <1>3 DEF Quiet, TakesToken, GrabsToken, SetsEvent, Releases, objectVars
    <2>2. HasGrabbed(t, m)' <=> HasGrabbed(t, m)
        BY <1>0, <1>3 DEF Quiet, TakesToken, GrabsToken, SetsEvent, Releases, Grabs, SameGrabs
    <2> QED  BY <1>2, <2>1, <2>2
<1>4. CASE TakesMutex(t)
    <2>1. PICK x \in Mutexes :
              /\ tid[x] \in {t, NoThread, Abandoned} /\ tid' = [tid EXCEPT ![x] = t]
              /\ recursion' = [recursion EXCEPT ![x] = IF tid[x] = t THEN @ + 1 ELSE 1]
              /\ owned' = [owned EXCEPT ![t][x] = @ + 1]
        BY <1>4 DEF TakesMutex
    <2>2. ~HasGrabbed(t, m) /\ ~HasGrabbed(t, m)'
        BY <1>0, <1>4 DEF TakesMutex, NoGrabs
    <2>3. CASE x # m
        BY <1>0, <1>2, <2>1, <2>2, <2>3
    <2>4. CASE x = m
        <3>1. /\ tid[m] \in {t, NoThread, Abandoned} /\ tid'[m] = t /\ owned'[t][m] = owned[t][m] + 1
              /\ recursion'[m] = IF tid[m] = t THEN recursion[m] + 1 ELSE 1
            BY <1>0, <2>1, <2>4
        <3>2. tid[m] # t => owned[t][m] = 0
            BY <1>0, <1>1
        <3>3. recursion'[m] = owned'[t][m] /\ owned'[t][m] > 0
            BY <1>0, <1>1, <2>2, <3>1, <3>2
        <3>4. MutexShare(t, m)'
            BY <1>0, <2>2, <3>1, <3>3
        <3> QED  BY <1>0, <3>1, <3>4, MutexPart
    <2> QED  BY <2>3, <2>4
<1>5. CASE GrabsMutex(t)
    <2>1. PICK x \in Mutexes :
              tid[x] \in {t, NoThread, Abandoned} /\ tid' = [tid EXCEPT ![x] = t] /\ Grabs(t, x)
        BY <1>5 DEF GrabsMutex
    <2>2. UNCHANGED <<recursion, owned>>
        BY <1>5 DEF GrabsMutex
    <2>3. CASE x # m
        BY <1>0, <1>2, <2>1, <2>2, <2>3 DEF Grabs
    <2>4. CASE x = m
        <3>1. tid[m] \in {t, NoThread, Abandoned} /\ tid'[m] = t /\ HasGrabbed(t, m)' /\ ~HasGrabbed(t, m)
            BY <1>0, <2>1, <2>4 DEF Grabs
        <3>2. recursion[m] = owned[t][m] \/ (owned[t][m] = 0 /\ Clearing(m))
            BY <1>0, <1>1, <3>1
        <3> QED  BY <1>0, <1>1, <2>2, <3>1, <3>2, MutexPart
    <2> QED  BY <2>3, <2>4
<1>6. CASE Finishes(t)
    <2>1. /\ HasGrabbed(t, m) <=> m \in ToSet(objs[t])
          /\ recursion'[m] = recursion[m] + (IF m \in ToSet(objs[t]) THEN 1 ELSE 0)
          /\ owned'[t][m] = owned[t][m] + (IF m \in ToSet(objs[t]) THEN 1 ELSE 0)
          /\ tid' = tid /\ ~HasGrabbed(t, m)'
        BY <1>0, <1>6 DEF Finishes, NoGrabs
    <2>2. CASE HasGrabbed(t, m)
        <3>0. ~Clearing(m)
            BY <1>0, <1>6, <2>1, <2>2 DEF Finishes
        <3>1. recursion[m] = owned[t][m]
            BY <1>1, <2>2, <3>0
        <3>2. MutexShare(t, m)' /\ tid[m] = t /\ tid'[m] = t
            BY <1>0, <1>1, <2>1, <2>2, <3>1
        <3> QED  BY <3>2, MutexPart
    <2>3. CASE ~HasGrabbed(t, m)
        BY <1>0, <1>2, <2>1, <2>3
    <2> QED  BY <2>2, <2>3
<1>7. CASE PutsBack(t)
    <2>1. PICK o \in Objects :
              /\ HasGrabbed(t, o) /\ \A x \in Grabbable : HasGrabbed(t, x)' <=> HasGrabbed(t, x) /\ x # o
              /\ tid' = IF o \in Mutexes THEN [tid EXCEPT ![o] = NoThread] ELSE tid
              /\ spoiled' = spoiled \cup {y \in Mutexes \cap {o} : owned[t][y] > 0}
              /\ UNCHANGED <<recursion, owned>>
        BY <1>7 DEF PutsBack
    <2>2. CASE o # m
        BY <1>0, <1>2, <2>1, <2>2
    <2>3. CASE o = m
        <3>1. tid[m] = t /\ tid'[m] = NoThread /\ ~HasGrabbed(t, m)' /\ HasGrabbed(t, m)
            BY <1>0, <1>1, <2>1, <2>3
        <3>2. ~(owned[t][m] > 0)
            BY <1>0, <2>1, <2>3
        <3>3. owned[t][m] = 0 /\ (recursion[m] = 0 \/ Clearing(m))
            BY <1>0, <1>1, <3>1, <3>2
        <3> QED  BY <1>0, <2>1, <3>1, <3>3, MutexPart
    <2> QED  BY <2>2, <2>3
<1>8. CASE ReleasesMutex(t)
    <2>1. PICK x \in Mutexes :
              /\ tid[x] = t /\ recursion' = [recursion EXCEPT ![x] = @ - 1]
              /\ tid' = [tid EXCEPT ![x] = IF recursion[x] = 1 THEN NoThread ELSE t]
              /\ owned' = [owned EXCEPT ![t][x] = @ - 1]
        BY <1>8 DEF ReleasesMutex
    <2>2. ~HasGrabbed(t, m) /\ ~HasGrabbed(t, m)'
        BY <1>0, <1>8 DEF ReleasesMutex, NoGrabs
    <2>3. CASE x # m
        BY <1>0, <1>2, <2>1, <2>2, <2>3
    <2>4. CASE x = m
        <3>1. /\ tid[m] = t /\ recursion'[m] = recursion[m] - 1 /\ owned'[t][m] = owned[t][m] - 1
              /\ tid'[m] = IF recursion[m] = 1 THEN NoThread ELSE t
            BY <1>0, <2>1, <2>4
        <3>2. recursion[m] = owned[t][m] /\ owned[t][m] > 0
            BY <1>0, <1>1, <2>2, <3>1
        <3> QED  BY <1>0, <2>2, <3>1, <3>2, MutexPart
    <2> QED  BY <2>3, <2>4
<1>9. CASE Abandons(t)
    <2>1. PICK x \in Mutexes :
              /\ tid[x] = t /\ tid' = [tid EXCEPT ![x] = Abandoned] /\ owned' = [owned EXCEPT ![t][x] = 0]
              /\ pc'[t] = "abandon_count" /\ cur'[t] = x /\ UNCHANGED recursion
        BY <1>9 DEF Abandons
    <2>2. ~HasGrabbed(t, m) /\ ~HasGrabbed(t, m)'
        BY <1>0, <1>9 DEF Abandons, NoGrabs
    <2>3. CASE x # m
        BY <1>0, <1>2, <2>1, <2>2, <2>3
    <2>4. CASE x = m
        <3>1. tid[m] = t /\ Clearing(m)' /\ owned'[t][m] = 0 /\ tid'[m] = Abandoned
            BY <1>0, <2>1, <2>4 DEF Clearing
        <3>2. MutexShare(t, m)' /\ tid'[m] \notin Threads
            BY <1>0, <2>2, <3>1
        <3> QED  BY <3>1, <3>2, MutexPart
    <2> QED  BY <2>3, <2>4
<1> QED  BY <1>3, <1>4, <1>5, <1>6, <1>7, <1>8, <1>9

-----------------------------------------------------------------------------
(* The signals *)

\* How many waits for all have grabbed o depends on t alone.
LEMMA GrabbedStep ==
    ASSUME NEW t \in Threads, Others(t), NEW o
    PROVE  /\ Cardinality(Grabbed(o)) \in Nat
           /\ (HasGrabbed(t, o)' <=> HasGrabbed(t, o)) => Cardinality(Grabbed(o)') = Cardinality(Grabbed(o))
           /\ ~HasGrabbed(t, o) /\ HasGrabbed(t, o)' => Cardinality(Grabbed(o)') = Cardinality(Grabbed(o)) + 1
           /\ HasGrabbed(t, o) /\ ~HasGrabbed(t, o)' => Cardinality(Grabbed(o)') = Cardinality(Grabbed(o)) - 1
<1>1. Grabbed(o) \in SUBSET Threads /\ IsFiniteSet(Threads)
    BY DEF Grabbed
<1>2. \A u \in Threads \ {t} : HasGrabbed(u, o)' <=> HasGrabbed(u, o)
    BY OthersGrabs
<1>3. Cardinality(Grabbed(o)) \in Nat
    BY <1>1, FS_Subset, FS_CardinalityType, FS_EmptySet
<1>4. ASSUME HasGrabbed(t, o)' <=> HasGrabbed(t, o) PROVE Grabbed(o)' = Grabbed(o)
    BY <1>2, <1>4 DEF Grabbed
<1>5. ASSUME ~HasGrabbed(t, o), HasGrabbed(t, o)' PROVE Cardinality(Grabbed(o)') = Cardinality(Grabbed(o)) + 1
    <2>1. Grabbed(o)' = Grabbed(o) \cup {t} /\ t \in Threads \ Grabbed(o)
        BY <1>2, <1>5 DEF Grabbed
    <2> QED  BY <1>1, <2>1, FS_Subset, FS_AddElement, FS_CardinalityType
<1>6. ASSUME HasGrabbed(t, o), ~HasGrabbed(t, o)' PROVE Cardinality(Grabbed(o)') = Cardinality(Grabbed(o)) - 1
    <2>1. Grabbed(o)' = Grabbed(o) \ {t} /\ t \in Grabbed(o)
        BY <1>2, <1>6 DEF Grabbed
    <2> QED  BY <1>1, <2>1, FS_Subset, FS_RemoveElement, FS_CardinalityType, FS_EmptySet
<1> QED  BY <1>3, <1>4, <1>5, <1>6

\* The books of one token.
Balanced(o) ==
    /\ o \in Semaphores => count[o] + Cardinality(Grabbed(o)) = credit[o]
    /\ o \in AutoEvents => count[o] + Cardinality(Grabbed(o)) <= credit[o]

LEMMA TokenStep ==
    ASSUME TypeOK, TypeOK', NEW t \in Threads, Others(t), NEW o \in Tokens, Balanced(o),
           \/ Quiet(t) \/ TakesToken(t) \/ TakesMutex(t)
           \/ GrabsToken(t) \/ GrabsMutex(t) \/ Finishes(t) \/ PutsBack(t)
           \/ SetsEvent(t) \/ Releases(t) \/ ReleasesMutex(t) \/ Abandons(t) \/ Clears(t)
    PROVE  Balanced(o)'
<1>0. /\ count \in [Objects \ Mutexes -> Nat] /\ credit \in [Tokens -> Int]
      /\ count[o] \in Nat /\ credit[o] \in Int /\ o \in Objects \ Mutexes /\ o \in Grabbable
      /\ ~(o \in Semaphores /\ o \in AutoEvents)
    BY DEF TypeOK, Grabbable, Objects, Tokens
<1> DEFINE n == Cardinality(Grabbed(o))
<1>1. n \in Nat
    BY GrabbedStep
<1>2. ASSUME HasGrabbed(t, o)' <=> HasGrabbed(t, o), NEW d \in Int, count'[o] = count[o] + d, credit'[o] = credit[o] + d
      PROVE  Balanced(o)'
    <2>1. n' = n
        BY <1>2, GrabbedStep
    <2> QED  BY <1>0, <1>1, <1>2, <2>1 DEF Balanced
<1>3. ASSUME HasGrabbed(t, o)' <=> HasGrabbed(t, o), UNCHANGED <<count, credit>>
      PROVE  Balanced(o)'
    <2>1. n' = n
        BY <1>3, GrabbedStep
    <2> QED  BY <1>0, <1>1, <1>3, <2>1 DEF Balanced
<1>4. CASE Quiet(t) \/ Clears(t)
    BY <1>0, <1>3, <1>4 DEF Quiet, Clears, objectVars, SameGrabs
<1>5. CASE TakesMutex(t) \/ ReleasesMutex(t) \/ Abandons(t)
    BY <1>0, <1>3, <1>5 DEF TakesMutex, ReleasesMutex, Abandons, NoGrabs
<1>6. CASE GrabsMutex(t)
    BY <1>0, <1>3, <1>6 DEF GrabsMutex, Grabs
<1>7. CASE TakesToken(t)
    <2>1. PICK x \in Tokens : count' = [count EXCEPT ![x] = @ - 1] /\ credit' = [credit EXCEPT ![x] = @ - 1]
        BY <1>7 DEF TakesToken
    <2>2. HasGrabbed(t, o)' <=> HasGrabbed(t, o)
        BY <1>0, <1>7 DEF TakesToken, SameGrabs
    <2>3. PICK d \in {0, -1} : count'[o] = count[o] + d /\ credit'[o] = credit[o] + d
        BY <1>0, <2>1
    <2> QED  BY <1>2, <2>2, <2>3
<1>8. CASE GrabsToken(t)
    <2>1. PICK x \in Tokens : count[x] > 0 /\ count' = [count EXCEPT ![x] = @ - 1] /\ Grabs(t, x)
        BY <1>8 DEF GrabsToken
    <2>2. credit' = credit
        BY <1>8 DEF GrabsToken
    <2>3. CASE x # o
        <3>1. (HasGrabbed(t, o)' <=> HasGrabbed(t, o)) /\ count'[o] = count[o] + 0 /\ credit'[o] = credit[o] + 0
            BY <1>0, <2>1, <2>2, <2>3 DEF Grabs
        <3> QED  BY <1>2, <3>1
    <2>4. CASE x = o
        <3>1. count'[o] = count[o] - 1 /\ n' = n + 1
            BY <1>0, <2>1, <2>4, GrabbedStep DEF Grabs
        <3> QED  BY <1>0, <1>1, <2>2, <3>1 DEF Balanced
    <2> QED  BY <2>3, <2>4
<1>9. CASE Finishes(t)
    <2>1. /\ HasGrabbed(t, o) <=> o \in ToSet(objs[t])
          /\ credit'[o] = credit[o] - (IF o \in ToSet(objs[t]) THEN 1 ELSE 0)
          /\ count' = count /\ ~HasGrabbed(t, o)'
        BY <1>0, <1>9 DEF Finishes, NoGrabs
    <2>2. CASE HasGrabbed(t, o)
        <3>1. n' = n - 1 /\ credit'[o] = credit[o] - 1
            BY <2>1, <2>2, GrabbedStep
        <3> QED  BY <1>0, <1>1, <2>1, <3>1 DEF Balanced
    <2>3. CASE ~HasGrabbed(t, o)
        <3>1. count'[o] = count[o] + 0 /\ credit'[o] = credit[o] + 0
            BY <1>0, <2>1, <2>3
        <3> QED  BY <1>2, <2>1, <2>3, <3>1
    <2> QED  BY <2>2, <2>3
<1>10. CASE PutsBack(t)
    <2>1. PICK x \in Objects :
              /\ HasGrabbed(t, x) /\ \A y \in Grabbable : HasGrabbed(t, y)' <=> HasGrabbed(t, y) /\ y # x
              /\ count' = CASE x \in Semaphores -> [count EXCEPT ![x] = @ + 1]
                            [] x \in AutoEvents -> [count EXCEPT ![x] = 1]
                            [] OTHER -> count
        BY <1>10 DEF PutsBack
    <2>2. credit' = credit
        BY <1>10 DEF PutsBack
    <2>3. CASE x # o
        <3>1. (HasGrabbed(t, o)' <=> HasGrabbed(t, o)) /\ count'[o] = count[o] + 0 /\ credit'[o] = credit[o] + 0
            BY <1>0, <2>1, <2>2, <2>3
        <3> QED  BY <1>2, <3>1
    <2>4. CASE x = o
        <3>1. n' = n - 1 /\ n > 0
            <4>1. HasGrabbed(t, o) /\ ~HasGrabbed(t, o)'
                BY <1>0, <2>1, <2>4
            <4>2. n' = n - 1
                BY <4>1, GrabbedStep
            <4>3. n' \in Nat
                <5>1. Grabbed(o)' \in SUBSET Threads /\ IsFiniteSet(Threads)
                    BY DEF Grabbed
                <5> QED  BY <5>1, FS_Subset, FS_CardinalityType, FS_EmptySet
            <4> QED  BY <1>1, <4>2, <4>3
        <3>2. /\ o \in Semaphores => count'[o] = count[o] + 1
              /\ o \in AutoEvents => count'[o] = 1
            BY <1>0, <2>1, <2>4
        <3> QED  BY <1>0, <1>1, <2>2, <3>1, <3>2 DEF Balanced
    <2> QED  BY <2>3, <2>4
<1>11. CASE SetsEvent(t)
    <2>1. PICK e \in Events, v \in {0, 1} : count' = [count EXCEPT ![e] = v] /\ AddCredit(e, v - count[e])
        BY <1>11 DEF SetsEvent
    <2>2. HasGrabbed(t, o)' <=> HasGrabbed(t, o)
        BY <1>0, <1>11 DEF SetsEvent, SameGrabs
    <2>3. count[e] \in Nat
        BY <1>0 DEF Events, Objects, Tokens
    <2>4. PICK d \in Int : d = IF e = o THEN v - count[e] ELSE 0
        BY <2>3
    <2>5. count'[o] = count[o] + d /\ credit'[o] = credit[o] + d
        BY <1>0, <2>1, <2>3, <2>4 DEF AddCredit
    <2> QED  BY <1>2, <2>2, <2>5
<1>12. CASE Releases(t)
    <2>1. PICK s \in Semaphores, k \in 1..MaxCount : count' = [count EXCEPT ![s] = @ + k] /\ AddCredit(s, k)
        BY <1>12 DEF Releases
    <2>2. HasGrabbed(t, o)' <=> HasGrabbed(t, o)
        BY <1>0, <1>12 DEF Releases, SameGrabs
    <2>3. PICK d \in Int : d = IF s = o THEN k ELSE 0
        OBVIOUS
    <2>4. count'[o] = count[o] + d /\ credit'[o] = credit[o] + d
        BY <1>0, <2>1, <2>3 DEF AddCredit
    <2> QED  BY <1>2, <2>2, <2>4
<1> QED  BY <1>4, <1>5, <1>6, <1>7, <1>8, <1>9, <1>10, <1>11, <1>12

\* The books of all tokens.
LEMMA Books == SignalsConserved <=> \A o \in Tokens : Balanced(o)
<1>1. \A o \in Tokens : o \in Semaphores \/ o \in AutoEvents
    BY DEF Tokens
<1>2. \A o \in Semaphores \cup AutoEvents : o \in Tokens
    BY DEF Tokens
<1> QED  BY <1>1, <1>2 DEF SignalsConserved, Balanced

-----------------------------------------------------------------------------
(* The sleepers *)

\* Somebody is about to call futex_wake for o.
Wakers == {"wake", "pulse_wake", "abandon_count", "abandon_wake"}
Waking(o) == \E u \in Threads : cur[u] = o /\ pc[u] \in Wakers

\* The three groups of steps.
Scans(t) ==
    \/ StartScan(t) \/ ScanEnds(t) \/ FutexAgain(t) \/ FutexWoken(t) \/ UserApc(t)
    \/ WaitInSequence(t) \/ CheckAgain(t) \/ NextLoop(t) \/ StartOver(t) \/ TryManualEvent(t)
    \/ WaitTimeout(t) \/ ThreadEnds(t)
Takes(t) ==
    \/ TryToken(t) \/ TryMutex(t) \/ TryAbandonedMutex(t)
    \/ GrabToken(t) \/ GrabManualEvent(t) \/ GrabMutex(t) \/ ExchangeMutex(t) \/ AllGrabbed(t)
Signals(t) ==
    \/ (\E e \in Events : fsync_set_event(t, e) \/ fsync_reset_event(t, e) \/ fsync_pulse_event(t, e))
    \/ PulseClear(t) \/ (\E s \in Semaphores, n \in 1..MaxCount : fsync_release_semaphore(t, s, n))
    \/ (\E m \in Mutexes : fsync_release_mutex(t, m) \/ AbandonMutex(t, m))
    \/ (\E list \in program.any : CallWait(t, list, FALSE, program.alertable))
    \/ (\E list \in program.all : CallWait(t, list, TRUE, program.alertable))

LEMMA Groups ==
    ASSUME NEW t, ThreadStep(t)
    PROVE  Scans(t) \/ Takes(t) \/ Signals(t) \/ PutBack(t) \/ FutexSleep(t) \/ Wake(t) \/ QueueApc(t) \/ AbandonCount(t)
BY DEF ThreadStep, Call, Step, Scans, Takes, Signals

\* A thread that is asleep stays asleep and remembers what it has seen, or wakes up.
LEMMA SleepStep ==
    ASSUME TypeOK, NEW t \in Threads, WaitState(t), ThreadStep(t), ~FutexSleep(t)
    PROVE  asleep'[t] = {} \/ (asleep'[t] = asleep[t] /\ seen'[t] = seen[t])
<1> USE DEF callVars, objectVars, ghostVars
<1>0. asleep \in [Threads -> SUBSET (Objects \cup {ApcFutex})] /\ (asleep[t] # {} => pc[t] = "asleep")
    BY DEF TypeOK, WaitState
<1>1. CASE Scans(t)
    <2>1. asleep'[t] = asleep[t] \/ asleep'[t] = {}
        BY <1>0, <1>1 DEF Scans, StartScan, ScanEnds, FutexAgain, FutexWoken, UserApc, WaitInSequence, CheckAgain,
                          NextLoop, StartOver, TryManualEvent, WaitTimeout, ThreadEnds
    <2>2. pc[t] = "asleep" => asleep'[t] = {}
        BY <1>0, <1>1 DEF Scans, StartScan, ScanEnds, FutexAgain, FutexWoken, UserApc, WaitInSequence, CheckAgain,
                          NextLoop, StartOver, TryManualEvent, WaitTimeout, ThreadEnds, Goto
    <2> QED  BY <1>0, <2>1, <2>2
<1>2. CASE Takes(t) \/ PutBack(t)
    <2>1. asleep' = asleep /\ pc[t] # "asleep"
        BY <1>2 DEF Takes, TryToken, TryMutex, TryAbandonedMutex, GrabToken, GrabManualEvent, GrabMutex, ExchangeMutex,
                    TooSlow, AllGrabbed, PutBack, Goto
    <2> QED  BY <1>0, <2>1
<1>3. CASE Signals(t)
    <2>1. asleep' = asleep /\ pc[t] # "asleep"
        BY <1>3 DEF Signals, fsync_set_event, fsync_reset_event, fsync_pulse_event, PulseClear,
                    fsync_release_semaphore, fsync_release_mutex, AbandonMutex, CallWait, Signal, Goto
    <2> QED  BY <1>0, <2>1
<1>4. CASE Wake(t)
    <2>1. asleep'[t] \in {asleep[t], {}} /\ pc[t] # "asleep"
        BY <1>0, <1>4 DEF Wake, futex_wake, Goto
    <2> QED  BY <1>0, <2>1
<1>5. CASE QueueApc(t)
    BY <1>0, <1>5 DEF QueueApc
<1>6. CASE AbandonCount(t)
    BY <1>6 DEF AbandonCount
<1> QED  BY <1>1, <1>2, <1>3, <1>4, <1>5, <1>6, Groups

\* A futex_wake that is due is called, or is still due.
LEMMA WakerStep ==
    ASSUME TypeOK, NEW t \in Threads, ThreadStep(t), ~Wake(t)
    PROVE  /\ unannounced \subseteq unannounced'
           /\ pc[t] \in Wakers => pc'[t] \in Wakers /\ cur'[t] = cur[t]
<1> USE DEF callVars, objectVars, ghostVars
<1>1. CASE Scans(t) \/ FutexSleep(t)
    <2>1. pc[t] \notin Wakers /\ unannounced' = unannounced
        BY <1>1 DEF Scans, StartScan, ScanEnds, FutexSleep, FutexAgain, FutexWoken, UserApc, WaitInSequence, CheckAgain,
                    NextLoop, StartOver, TryManualEvent, WaitTimeout, ThreadEnds, Goto, Wakers
    <2> QED  BY <2>1
<1>2. CASE Takes(t) \/ PutBack(t)
    <2>1. pc[t] \notin Wakers /\ unannounced \subseteq unannounced'
        BY <1>2 DEF Takes, TryToken, TryMutex, TryAbandonedMutex, GrabToken, GrabManualEvent, GrabMutex, ExchangeMutex,
                    TooSlow, AllGrabbed, PutBack, Goto, Wakers
    <2> QED  BY <2>1
<1>3. CASE Signals(t)
    <2>1. pc[t] \notin Wakers /\ unannounced' = unannounced
        BY <1>3 DEF Signals, fsync_set_event, fsync_reset_event, fsync_pulse_event, PulseClear,
                    fsync_release_semaphore, fsync_release_mutex, AbandonMutex, CallWait, Signal, Goto, Wakers
    <2> QED  BY <2>1
<1>4. CASE QueueApc(t)
    BY <1>4 DEF QueueApc
<1>5. CASE AbandonCount(t)
    BY <1>5 DEF AbandonCount, Goto, Wakers, TypeOK
<1> QED  BY <1>1, <1>2, <1>3, <1>4, <1>5, Groups

\* o becomes signalled, or a mutex is now signalled by another word.
Rises(o) == Signalled(o)' /\ ~(Signalled(o) /\ (o \in Mutexes => tid'[o] = tid[o]))

\* The words of an object that neither a signalling call nor a wait for all
\* makes available do not become signalled.
LEMMA TakesSignalNothing ==
    ASSUME TypeOK, NEW t \in Threads, WaitState(t), Takes(t), NEW o \in Objects
    PROVE  ~Rises(o)
<1> USE DEF callVars, objectVars, ghostVars
<1>0. /\ count \in [Objects \ Mutexes -> Nat] /\ tid \in [Mutexes -> Tids] /\ (o \notin Mutexes => count[o] \in Nat)
      /\ t # NoThread
    BY DEF TypeOK
<1>1. \/ UNCHANGED <<count, tid>>
      \/ Obj(t) \in Tokens /\ Take(Obj(t))
      \/ Obj(t) \in Mutexes /\ tid' = [tid EXCEPT ![Obj(t)] = t] /\ UNCHANGED count
    BY DEF Takes, TryToken, TryMutex, TryAbandonedMutex, GrabToken, GrabManualEvent, GrabMutex, ExchangeMutex,
           TooSlow, AllGrabbed, OwnMutex, SkipMutex, WaitState
<1>2. CASE UNCHANGED <<count, tid>>
    BY <1>2 DEF Rises, Signalled
<1>3. CASE Obj(t) \in Tokens /\ Take(Obj(t))
    <2>1. PICK x \in Objects \ Mutexes : x = Obj(t)
        BY <1>3 DEF Tokens, Objects
    <2>2. count' = [count EXCEPT ![x] = count[x] - 1] /\ count[x] > 0 /\ tid' = tid
        BY <1>3, <2>1 DEF Take
    <2> QED  BY <1>0, <2>2 DEF Rises, Signalled
<1>4. CASE Obj(t) \in Mutexes /\ tid' = [tid EXCEPT ![Obj(t)] = t] /\ UNCHANGED count
    <2>1. PICK x \in Mutexes : x = Obj(t)
        BY <1>4
    <2>2. tid' = [tid EXCEPT ![x] = t] /\ count' = count
        BY <1>4, <2>1
    <2> QED  BY <1>0, <2>2 DEF Rises, Signalled
<1> QED  BY <1>1, <1>2, <1>3, <1>4

\* What becomes signalled is announced, but for what a wait for all puts back.
LEMMA Announced ==
    ASSUME TypeOK, NEW t \in Threads, WaitState(t), ThreadStep(t), NEW o \in Objects, Rises(o)
    PROVE  Waking(o)' \/ o \in unannounced'
<1> USE DEF callVars, objectVars, ghostVars
<1>0. /\ count \in [Objects \ Mutexes -> Nat] /\ tid \in [Mutexes -> Tids] /\ (o \notin Mutexes => count[o] \in Nat)
      /\ pc \in [Threads -> Places] /\ cur \in [Threads -> Objects \cup {ApcFutex}]
    BY DEF TypeOK
<1>1. CASE Scans(t) \/ FutexSleep(t) \/ Wake(t) \/ QueueApc(t) \/ AbandonCount(t)
    <2>1. UNCHANGED <<count, tid>>
        BY <1>1 DEF Scans, StartScan, ScanEnds, FutexSleep, FutexAgain, FutexWoken, UserApc, WaitInSequence, CheckAgain,
                    NextLoop, StartOver, TryManualEvent, WaitTimeout, ThreadEnds, Wake, QueueApc,
                    AbandonCount
    <2> QED  BY <2>1 DEF Rises, Signalled
<1>2. CASE Takes(t)
    BY <1>2, TakesSignalNothing
<1>3. CASE PutBack(t)
    <2>1. PICK x : x = Obj(t)
        OBVIOUS
    <2>2. /\ tid' = IF x \in Mutexes THEN [tid EXCEPT ![x] = NoThread] ELSE tid
          /\ count' = CASE x \in Semaphores -> [count EXCEPT ![x] = @ + 1]
                        [] x \in AutoEvents -> [count EXCEPT ![x] = 1]
                        [] OTHER -> count
          /\ unannounced' = unannounced \cup ({x} \ ManualEvents)
        BY <1>3, <2>1 DEF PutBack
    <2>3. x \in Mutexes \cup Semaphores \cup AutoEvents
        BY <2>2 DEF Rises, Signalled
    <2>4. x = o
        <3>1. ASSUME x # o PROVE FALSE
            BY <1>0, <2>2, <3>1 DEF Rises, Signalled
        <3> QED  BY <3>1
    <2>5. x \notin ManualEvents
        BY <2>3 DEF Tokens
    <2> QED  BY <2>2, <2>4, <2>5
<1>4. ASSUME pc'[t] \in Wakers, cur'[t] = o PROVE Waking(o)'
    BY <1>4 DEF Waking
<1>5. CASE Signals(t)
    <2>1. CASE \E e \in Events : fsync_set_event(t, e) \/ fsync_reset_event(t, e) \/ fsync_pulse_event(t, e)
        <3>1. PICK e \in Events : fsync_set_event(t, e) \/ fsync_reset_event(t, e) \/ fsync_pulse_event(t, e)
            BY <2>1
        <3>2. PICK v \in {0, 1} : count' = [count EXCEPT ![e] = v] /\ (fsync_reset_event(t, e) => v = 0)
            BY <3>1 DEF fsync_set_event, fsync_reset_event, fsync_pulse_event
        <3>3. tid' = tid
            BY <3>1 DEF fsync_set_event, fsync_reset_event, fsync_pulse_event, Signal
        <3>4. e \in Objects \ Mutexes
            BY DEF Events, Tokens, Objects
        <3>5. o = e /\ v = 1 /\ count[e] = 0
            BY <1>0, <3>2, <3>3, <3>4 DEF Rises, Signalled
        <3>6. fsync_set_event(t, e) \/ fsync_pulse_event(t, e)
            BY <3>1, <3>2, <3>5
        <3>7. PICK to \in Wakers : Signal(t, e, to)
            BY <3>5, <3>6 DEF fsync_set_event, fsync_pulse_event, Wakers
        <3>8. pc'[t] = to /\ cur'[t] = e
            BY <1>0, <3>7 DEF Signal, Goto, Wakers
        <3> QED  BY <1>4, <3>5, <3>8
    <2>2. CASE PulseClear(t)
        <3>1. PICK x : x = cur[t]
            OBVIOUS
        <3>2. count' = [count EXCEPT ![x] = 0] /\ tid' = tid
            BY <2>2, <3>1 DEF PulseClear
        <3> QED  BY <1>0, <3>2 DEF Rises, Signalled
    <2>3. CASE \E s \in Semaphores, n \in 1..MaxCount : fsync_release_semaphore(t, s, n)
        <3>1. PICK s \in Semaphores, n \in 1..MaxCount : fsync_release_semaphore(t, s, n)
            BY <2>3
        <3>2. count' = [count EXCEPT ![s] = @ + n] /\ tid' = tid /\ Signal(t, s, "wake")
            BY <3>1 DEF fsync_release_semaphore, Signal
        <3>3. pc'[t] \in Wakers /\ cur'[t] = s
            BY <1>0, <3>2 DEF Signal, Goto, Wakers
        <3>4. o = s
            BY <1>0, <3>2 DEF Rises, Signalled
        <3> QED  BY <1>4, <3>3, <3>4
    <2>4. CASE \E m \in Mutexes : fsync_release_mutex(t, m)
        <3>1. PICK m \in Mutexes : fsync_release_mutex(t, m)
            BY <2>4
        <3>2. tid' = [tid EXCEPT ![m] = IF recursion[m] = 1 THEN NoThread ELSE t] /\ count' = count
            BY <3>1 DEF fsync_release_mutex
        <3>3. o = m /\ recursion[m] = 1
            BY <1>0, <3>2 DEF Rises, Signalled
        <3>4. pc'[t] \in Wakers /\ cur'[t] = m
            BY <1>0, <3>1, <3>3 DEF fsync_release_mutex, Goto, Wakers
        <3> QED  BY <1>4, <3>3, <3>4
    <2>5. CASE \E m \in Mutexes : AbandonMutex(t, m)
        <3>1. PICK m \in Mutexes : AbandonMutex(t, m)
            BY <2>5
        <3>2. tid' = [tid EXCEPT ![m] = Abandoned] /\ count' = count
            BY <3>1 DEF AbandonMutex
        <3>3. o = m
            BY <1>0, <3>2 DEF Rises, Signalled
        <3>4. pc'[t] \in Wakers /\ cur'[t] = m
            BY <1>0, <3>1 DEF AbandonMutex, Goto, Wakers
        <3> QED  BY <1>4, <3>3, <3>4
    <2>6. CASE \E list, b, a : CallWait(t, list, b, a)
        BY <2>6 DEF CallWait, Rises, Signalled
    <2> QED  BY <1>5, <2>1, <2>2, <2>3, <2>4, <2>5, <2>6 DEF Signals
<1> QED  BY <1>1, <1>2, <1>3, <1>5, Groups

\* A thread that sleeps on an object that has become signalled is about to be woken.
Served(u, o) == Signalled(o) /\ Word(o) # Expected(u, o) => Waking(o) \/ o \in unannounced

LEMMA SleeperStep ==
    ASSUME TypeOK, NEW t \in Threads, WaitState(t), Others(t), ThreadStep(t),
           NEW u \in Threads, NEW o \in asleep'[u] \cap Objects,
           o \in asleep[u] => Served(u, o)
    PROVE  Served(u, o)'
<1> USE DEF callVars, objectVars, ghostVars
<1>0. asleep \in [Threads -> SUBSET (Objects \cup {ApcFutex})]
    BY DEF TypeOK
<1>1. CASE u = t /\ FutexSleep(t)
    <2>1. o \in Addresses(t) /\ o # ApcFutex /\ Unchanged(t, o) /\ UNCHANGED <<count, tid, seen>>
        BY <1>0, <1>1 DEF FutexSleep
    <2>2. Word(o) = Expected(t, o)
        BY <2>1 DEF Unchanged
    <2>3. Word(o)' = Expected(t, o)'
        BY <2>1, <2>2 DEF Word, Expected
    <2> QED  BY <1>1, <2>3 DEF Served
<1>2. CASE ~(u = t /\ FutexSleep(t))
    <2>1. o \in asleep[u] /\ seen'[u] = seen[u]
        <3>1. CASE u = t
            BY <1>2, <3>1, SleepStep
        <3>2. CASE u # t
            BY <3>2 DEF Others
        <3> QED  BY <3>1, <3>2
    <2>2. SUFFICES ASSUME Signalled(o)', (Word(o) # Expected(u, o))'
                   PROVE  Waking(o)' \/ o \in unannounced'
        BY DEF Served
    <2>3. CASE Rises(o)
        BY <2>3, Announced
    <2>4. CASE ~Rises(o)
        <3>0. Signalled(o) /\ (o \in Mutexes => tid'[o] = tid[o])
            BY <2>2, <2>4 DEF Rises
        <3>1. Word(o) # Expected(u, o)
            <4>1. CASE o \in Mutexes
                BY <2>1, <2>2, <3>0, <4>1 DEF Word, Expected
            <4>2. CASE o \notin Mutexes
                BY <3>0, <4>2 DEF Signalled, Word, Expected
            <4> QED  BY <4>1, <4>2
        <3>2. Waking(o) \/ o \in unannounced
            BY <2>1, <3>0, <3>1 DEF Served
        <3>3. CASE Wake(t)
            <4>1. o # cur[t]
                BY <1>0, <3>3 DEF Wake, futex_wake
            <4>2. CASE o \in unannounced
                BY <3>3, <4>1, <4>2 DEF Wake, futex_wake
            <4>3. CASE Waking(o)
                <5>1. PICK w \in Threads : cur[w] = o /\ pc[w] \in Wakers
                    BY <4>3 DEF Waking
                <5>2. cur'[w] = o /\ pc'[w] \in Wakers
                    BY <4>1, <5>1 DEF Others
                <5> QED  BY <5>2 DEF Waking
            <4> QED  BY <3>2, <4>2, <4>3
        <3>4. CASE ~Wake(t)
            <4>1. unannounced \subseteq unannounced' /\ (pc[t] \in Wakers => pc'[t] \in Wakers /\ cur'[t] = cur[t])
                BY <3>4, WakerStep
            <4>2. ASSUME NEW w \in Threads, cur[w] = o, pc[w] \in Wakers PROVE cur'[w] = o /\ pc'[w] \in Wakers
                BY <4>1, <4>2 DEF Others
            <4> QED  BY <3>2, <4>1, <4>2 DEF Waking
        <3> QED  BY <3>3, <3>4
    <2> QED  BY <2>3, <2>4
<1> QED  BY <1>1, <1>2

LEMMA Sleepers == NoStrandedSleeper <=> \A u \in Threads : \A o \in asleep[u] \cap Objects : Served(u, o)
BY DEF NoStrandedSleeper, Served, Waking, Wakers

-----------------------------------------------------------------------------
(* The invariant *)

LEMMA InvInit == Init => IInv
<1> SUFFICES ASSUME Init PROVE IInv
    OBVIOUS
<1>1. TypeOK
    <2>1. <<>> \in Seq(Objects) /\ NoThread \in Tids /\ "idle" \in Places /\ Objects \ Mutexes \subseteq Objects
        BY DEF Tids, Places, Ended
    <2> QED  BY <2>1 DEF Init, TypeOK
<1>2. ASSUME NEW t \in Threads PROVE WaitState(t)
    BY DEF Init, WaitState
<1>3. ASSUME NEW t \in Threads, NEW x PROVE ~HasGrabbed(t, x)
    BY DEF Init, HasGrabbed
<1>4. ASSUME NEW m \in Mutexes PROVE MutexState(m)
    BY <1>3 DEF Init, MutexState
<1>5. SignalsConserved
    <2>1. ASSUME NEW o PROVE Cardinality(Grabbed(o)) = 0
        <3>1. Grabbed(o) = {}
            BY <1>3 DEF Grabbed
        <3> QED  BY <3>1, FS_EmptySet
    <2>2. \A o \in Tokens : o \in Objects \ Mutexes
        BY DEF Tokens, Objects
    <2>3. \A o \in Tokens : count[o] = 0 /\ credit[o] = 0
        BY <2>2 DEF Init
    <2> QED  BY <2>1, <2>3, Books DEF Balanced
<1>6. NoStrandedSleeper
    BY DEF Init, NoStrandedSleeper
<1> QED  BY <1>1, <1>2, <1>4, <1>5, <1>6 DEF IInv

LEMMA InvStep == IInv /\ [Next]_vars => IInv'
<1> SUFFICES ASSUME IInv, [Next]_vars PROVE IInv'
    OBVIOUS
<1>0. TypeOK /\ \A t \in Threads : WaitState(t)
    BY DEF IInv
<1>1. CASE UNCHANGED vars
    <2> USE <1>1 DEF vars, objectVars, callVars, ghostVars
    <2>1. TypeOK'
        BY <1>0 DEF TypeOK
    <2>2. \A t \in Threads : WaitState(t)'
        BY <1>0 DEF WaitState, AtObject, Obj
    <2>3. ASSUME NEW t \in Threads, NEW x PROVE HasGrabbed(t, x)' <=> HasGrabbed(t, x)
        BY DEF HasGrabbed
    <2>4. \A m \in Mutexes \ spoiled' : MutexState(m)'
        BY <2>3 DEF IInv, MutexState, Clearing
    <2>5. SignalsConserved'
        <3>1. ASSUME NEW o PROVE Grabbed(o)' = Grabbed(o)
            BY <2>3 DEF Grabbed
        <3> QED  BY <3>1 DEF IInv, SignalsConserved
    <2>6. NoStrandedSleeper'
        BY DEF IInv, NoStrandedSleeper, Signalled, Word, Expected
    <2> QED  BY <2>1, <2>2, <2>4, <2>5, <2>6 DEF IInv
<1>2. CASE Next
    <2>1. PICK t \in Threads : ThreadStep(t) /\ UNCHANGED program
        BY <1>0, <1>2, NextCases
    <2>2. WaitState(t)
        BY <1>0
    <2>3. TypeOK' /\ Others(t)
        BY <1>0, <2>1, <2>2, TypeStep
    <2>4. \A u \in Threads : WaitState(u)'
        BY <1>0, <2>1, WaitStep
    <2>5. \/ Quiet(t) \/ TakesToken(t) \/ TakesMutex(t)
          \/ GrabsToken(t) \/ GrabsMutex(t) \/ Finishes(t) \/ PutsBack(t)
          \/ SetsEvent(t) \/ Releases(t) \/ ReleasesMutex(t) \/ Abandons(t) \/ (AbandonCount(t) /\ Clears(t))
        BY <1>0, <2>1, <2>2, Effects
    <2>6. ASSUME NEW m \in Mutexes \ spoiled' PROVE MutexState(m)'
        <3>1. spoiled \subseteq spoiled'
            BY <2>5 DEF Quiet, TakesToken, TakesMutex, GrabsToken, GrabsMutex, Finishes, PutsBack,
                        SetsEvent, Releases, ReleasesMutex, Abandons, Clears
        <3>2. MutexState(m)
            BY <3>1 DEF IInv
        <3>3. CASE Clears(t)
            BY <1>0, <2>3, <3>2, <3>3, MutexStep
        <3>4. CASE ~Clears(t)
            <4>1. ~AbandonCount(t)
                BY <1>0, <2>2, <3>4, CountEffect
            <4> QED  BY <1>0, <2>1, <2>3, <2>5, <3>2, <4>1, ClearingKept, MutexStep
        <3> QED  BY <3>3, <3>4
    <2>7. SignalsConserved'
        <3>1. \A o \in Tokens : Balanced(o)
            BY Books DEF IInv
        <3>2. \A o \in Tokens : Balanced(o)'
            BY <1>0, <2>3, <2>5, <3>1, TokenStep
        <3>3. \A o \in Tokens : o \in Semaphores \/ o \in AutoEvents
            BY DEF Tokens
        <3> QED  BY <3>2, <3>3 DEF SignalsConserved, Balanced, Tokens
    <2>8. NoStrandedSleeper'
        <3>1. ASSUME NEW u \in Threads, NEW o \in asleep'[u] \cap Objects PROVE Served(u, o)'
            <4>1. o \in asleep[u] => Served(u, o)
                BY Sleepers DEF IInv
            <4> QED  BY <1>0, <2>1, <2>2, <2>3, <4>1, SleeperStep
        <3> QED  BY <3>1 DEF NoStrandedSleeper, Served, Waking, Wakers
    <2> QED  BY <2>3, <2>4, <2>6, <2>7, <2>8 DEF IInv
<1> QED  BY <1>1, <1>2

\* The inductive invariant holds throughout, for any threads, objects and lists.
THEOREM Invariant == Spec => []IInv
<1>1. Init => IInv
    BY InvInit
<1>2. IInv /\ [Next]_vars => IInv'
    BY InvStep
<1> QED  BY <1>1, <1>2, PTL DEF Spec

\* Every variable keeps its type; no semaphore or event count is ever negative.
THEOREM TypeCorrect == Spec => []TypeOK
<1>1. IInv => TypeOK
    BY DEF IInv
<1> QED  BY <1>1, Invariant, PTL

\* fsync_wait_objects and fsync_release_mutex: a mutex that a program owns keeps
\* its owner and its recursion count until the program releases it, whatever the
\* waits of other threads read, exchange and put back and whichever threads end
\* owning mutexes.  The exceptions are the two of MutexKept: what the owner's own
\* wait for all puts back, and a mutex that is taken between the two stores of
\* fsync_abandon_mutexes.
THEOREM OwnedMutexIsKept == Spec => []MutexKept
<1>1. IInv => MutexKept
    BY DEF IInv, MutexKept, MutexState
<1> QED  BY <1>1, Invariant, PTL

\* fsync_wait_objects, fsync_release_semaphore, fsync_set_event: no wait succeeds
\* without a signal of its own, and no release of a semaphore is lost, however
\* many waits for all grab and put back at the same time.
THEOREM SignalsAreConserved == Spec => []SignalsConserved
<1>1. IInv => SignalsConserved
    BY DEF IInv
<1> QED  BY <1>1, Invariant, PTL

\* futex_wait_multiple and futex_wake: when an object that a thread sleeps on
\* becomes signalled, a futex_wake is on its way, unless a wait for all has put
\* the object back.
THEOREM SleepersAreWoken == Spec => []NoStrandedSleeper
<1>1. IInv => NoStrandedSleeper
    BY DEF IInv
<1> QED  BY <1>1, Invariant, PTL
=============================================================================
