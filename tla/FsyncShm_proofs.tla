--------------------------- MODULE FsyncShm_proofs ---------------------------
(***************************************************************************)
(* Machine-checked proofs about FsyncShm, for any number of processes,     *)
(* threads, objects and handles and any size of the map of free indices.   *)
(***************************************************************************)
EXTENDS FsyncShm, FiniteSetTheorems, WellFoundedInduction, TLAPS

USE FsyncShmAssumption

-----------------------------------------------------------------------------
(* Numbers *)

\* A set of natural numbers that is not empty has a least member.
LEMMA MinIsLeast ==
    ASSUME NEW S \in SUBSET Nat, S # {}
    PROVE  Min(S) \in S /\ \A y \in S : Min(S) <= y
<1> DEFINE Less == OpToRel(<, Nat)
<1>0. IsWellFoundedOn(Less, Nat)
    BY NatLessThanWellFounded
<1>1. PICK x \in S : \A y \in S : ~ (<<y, x>> \in Less)
    <2> HIDE DEF Less
    <2> QED  BY <1>0, WFMin
<1>2. ASSUME NEW y \in S, y < x PROVE FALSE
    <2>1. <<y, x>> \in Nat \X Nat /\ <<y, x>>[1] < <<y, x>>[2]
        BY <1>2
    <2>2. <<y, x>> \in Less
        BY <2>1 DEF OpToRel
    <2> QED  BY <1>1, <2>2
<1>3. \A y \in S : x <= y
    BY <1>2
<1> QED  BY <1>3 DEF Min

\* The word of an index in the map grows with the index.
LEMMA WordMonotone ==
    ASSUME NEW a \in Nat, NEW b \in Nat, a <= b
    PROVE  Word(a) \in Nat /\ Word(b) \in Nat /\ Word(a) <= Word(b)
BY DEF Word

\* The indices of the word that is added to the map.
LEMMA WordAdded ==
    ASSUME NEW n \in Nat, NEW k \in 0..(WordBits - 1)
    PROVE  Word(n * WordBits + k) = n
BY DEF Word

\* A larger map has more indices.
LEMMA MapMonotone ==
    ASSUME NEW m \in Nat, NEW n \in Nat, m <= n
    PROVE  m * WordBits \in Nat /\ n * WordBits \in Nat /\ m * WordBits <= n * WordBits
OBVIOUS

LEMMA MapGrows ==
    ASSUME NEW n \in Nat \ {0}, n < MaxWords
    PROVE  /\ n * WordBits \in Nat \ {0}
           /\ (n + 1) * WordBits = n * WordBits + WordBits
           /\ n * WordBits + WordBits - 1 <= MaxWords * WordBits - 1
           /\ MaxWords * WordBits \in Nat
<1>1. (n + 1) * WordBits = n * WordBits + WordBits /\ n * WordBits \in Nat \ {0}
    OBVIOUS
<1>2. (n + 1) * WordBits <= MaxWords * WordBits /\ MaxWords * WordBits \in Nat
    OBVIOUS
<1> QED  BY <1>1, <1>2

-----------------------------------------------------------------------------
(* The map of free indices *)

\* fsync_alloc_shm hands out an index that was free, or the first one of a word
\* that is added because no index was free.  The hint does not pass a free
\* index.
LEMMA AllocStep ==
    ASSUME TypeOK, HintNotPast, NEW o \in Objects, fsync_alloc_shm(o)
    PROVE  \E i \in Indices :
            /\ idx' = [idx EXCEPT ![o] = i] /\ ref' = [ref EXCEPT ![i] = 1] /\ last' = [last EXCEPT ![i] = None]
            /\ \/ i \in free /\ free' = free \ {i} /\ size' = size
               \/ /\ i = size * WordBits /\ free = {}
                  /\ free' = (i..(i + WordBits - 1)) \ {i}
                  /\ size' = size + 1 /\ size' * WordBits = i + WordBits
            /\ free' \subseteq Indices /\ size' \in InitialWords..MaxWords /\ hint' \in Nat
            /\ HintNotPast'
<1> DEFINE found == {k \in free : Word(k) >= hint}
           grow == found = {}
           i == IF grow THEN size * WordBits ELSE Min(found)
           left == (IF grow THEN free \cup (i..(i + WordBits - 1)) ELSE free) \ {i}
<1>1. /\ grow => size < MaxWords
      /\ free' = left
      /\ size' = IF grow THEN size + 1 ELSE size
      /\ hint' = IF \E k \in left : Word(k) = Word(i) THEN Word(i) ELSE Word(i) + 1
      /\ idx' = [idx EXCEPT ![o] = i] /\ ref' = [ref EXCEPT ![i] = 1] /\ last' = [last EXCEPT ![i] = None]
    BY DEF fsync_alloc_shm
<1>2. /\ free \subseteq Indices /\ Indices \subseteq Nat /\ hint \in Nat
      /\ size \in Nat \ {0} /\ size \in InitialWords..MaxWords
    BY DEF TypeOK, Indices
<1>3. \A k \in free : k \in found
    BY <1>2, WordMonotone DEF HintNotPast
<1>4. ASSUME i \in Indices, hint' \in Nat, left \subseteq Indices, \A k \in left : Word(i) <= Word(k)
      PROVE  HintNotPast'
    <2>0. free' = left /\ hint' = IF \E k \in left : Word(k) = Word(i) THEN Word(i) ELSE Word(i) + 1
        BY <1>1
    <2> HIDE DEF i, left, found
    <2>1. ASSUME NEW k \in left PROVE hint' <= Word(k)
        <3>1. Word(k) \in Nat /\ Word(i) \in Nat /\ Word(i) <= Word(k)
            BY <1>2, <1>4, WordMonotone
        <3>2. CASE \E n \in left : Word(n) = Word(i)
            BY <2>0, <3>1, <3>2
        <3>3. CASE ~ \E n \in left : Word(n) = Word(i)
            BY <2>0, <3>1, <3>3
        <3> QED  BY <3>2, <3>3
    <2> QED  BY <2>0, <2>1 DEF HintNotPast, Word
<1>5. ASSUME i \in Nat PROVE hint' \in Nat
    <2>1. Word(i) \in Nat
        BY <1>5, WordMonotone
    <2> QED  BY <1>1, <2>1
<1>6. CASE grow
    <2>1. /\ i = size * WordBits /\ i \in Nat \ {0} /\ size < MaxWords /\ free = {}
          /\ left = (i..(i + WordBits - 1)) \ {i}
        BY <1>1, <1>2, <1>3, <1>6, MapGrows
    <2> HIDE DEF i, left, found
    <2>2. /\ i + WordBits - 1 <= MaxWords * WordBits - 1 /\ MaxWords * WordBits \in Nat
          /\ (size + 1) * WordBits = i + WordBits
        BY <1>2, <2>1, MapGrows
    <2>3. i..(i + WordBits - 1) \subseteq Indices /\ i \in Indices
        BY <2>1, <2>2 DEF Indices
    <2>4. ASSUME NEW k \in i..(i + WordBits - 1) PROVE Word(k) = size
        <3>1. k - i \in 0..(WordBits - 1) /\ k = size * WordBits + (k - i)
            BY <1>2, <2>1
        <3> QED  BY <1>2, <3>1, WordAdded
    <2>5. i \in i..(i + WordBits - 1)
        BY <2>1
    <2>6. \A k \in left : Word(i) <= Word(k)
        BY <1>2, <2>1, <2>4, <2>5
    <2>7. HintNotPast' /\ hint' \in Nat
        BY <1>4, <1>5, <2>1, <2>3, <2>6
    <2>8. size' = size + 1 /\ free' = left
        BY <1>1, <1>6
    <2>9. size' \in InitialWords..MaxWords /\ size' * WordBits = i + WordBits
        BY <1>2, <2>1, <2>2, <2>8
    <2> QED  BY <1>1, <2>1, <2>3, <2>7, <2>8, <2>9
<1>7. CASE ~grow
    <2>1. i = Min(found) /\ left = free \ {i} /\ size' = size
        BY <1>1, <1>7
    <2>2. found \in SUBSET Nat /\ found # {} /\ found \subseteq free
        BY <1>2, <1>7
    <2>3. i \in found /\ \A k \in found : i <= k
        <3> HIDE DEF found, i
        <3> QED  BY <2>1, <2>2, MinIsLeast
    <2>4. i \in free /\ i \in Indices /\ \A k \in left : i <= k
        BY <1>2, <1>3, <2>1, <2>2, <2>3
    <2> HIDE DEF i, left, found
    <2>5. \A k \in left : Word(i) <= Word(k)
        BY <1>2, <2>1, <2>4, WordMonotone
    <2>6. HintNotPast' /\ hint' \in Nat
        BY <1>2, <1>4, <1>5, <2>1, <2>4, <2>5
    <2> QED  BY <1>1, <1>2, <2>1, <2>4, <2>6
<1> QED  BY <1>6, <1>7

\* fsync_free_shm_idx moves the hint back to what it frees.
LEMMA FreeStep ==
    ASSUME TypeOK, HintNotPast, NEW S \in SUBSET Indices, fsync_free_shm_idx(S)
    PROVE  /\ free' \subseteq Indices /\ hint' \in Nat /\ size' = size /\ aborted' \in BOOLEAN
           /\ ref' \in [Indices -> Int]
           /\ HintNotPast'
<1> DEFINE dropped == {i \in S : ref[i] > 0}
           freed == {i \in dropped : ref[i] = 1}
           words == {hint} \cup {Word(i) : i \in freed}
<1>1. /\ free' = free \cup freed
      /\ hint' = Min(words)
      /\ size' = size
    BY DEF fsync_free_shm_idx
<1>2. Indices \subseteq Nat /\ hint \in Nat /\ free \subseteq Indices
    BY DEF TypeOK, Indices
<1>3. words \in SUBSET Nat
    <2>1. \A i \in freed : Word(i) \in Nat
        BY <1>2, WordMonotone
    <2> HIDE DEF freed
    <2> QED  BY <1>2, <2>1
<1>4. hint' \in words /\ \A w \in words : hint' <= w
    <2>1. words # {}
        OBVIOUS
    <2> HIDE DEF words
    <2> QED  BY <1>1, <1>3, <2>1, MinIsLeast
<1>5. hint' \in Nat
    BY <1>3, <1>4
<1>6. ASSUME NEW i \in free' PROVE hint' <= Word(i)
    <2>1. CASE i \in freed
        BY <1>4, <2>1
    <2>2. CASE i \in free
        <3>1. hint <= Word(i) /\ hint' <= hint /\ Word(i) \in Nat
            BY <1>2, <1>4, <2>2, WordMonotone DEF HintNotPast
        <3> QED  BY <1>2, <1>5, <3>1
    <2> QED  BY <1>1, <2>1, <2>2
<1>7. ref' \in [Indices -> Int] /\ aborted' \in BOOLEAN
    BY DEF fsync_free_shm_idx, TypeOK
<1> QED  BY <1>1, <1>2, <1>5, <1>6, <1>7 DEF HintNotPast, Word

-----------------------------------------------------------------------------
(* Types *)

LEMMA CloseType ==
    ASSUME TypeOK, HintNotPast, NEW closed, close_handles(closed)
    PROVE  /\ free' \subseteq Indices /\ hint' \in Nat /\ size' = size /\ aborted' \in BOOLEAN
           /\ ref' \in [Indices -> Int]
           /\ idx' \in [Objects -> Indices \cup {0}]
           /\ handle' \in [Processes -> [Handles -> Objects \cup {None}]]
           /\ HintNotPast'
<1>1. {idx[o] : o \in Destroyed(closed)} \in SUBSET Indices
    BY DEF Destroyed, TypeOK
<1>2. fsync_free_shm_idx({idx[o] : o \in Destroyed(closed)})
    BY DEF close_handles
<1>3. idx' \in [Objects -> Indices \cup {0}]
    BY DEF close_handles, TypeOK
<1>4. handle' \in [Processes -> [Handles -> Objects \cup {None}]]
    BY DEF close_handles, TypeOK
<1> QED  BY <1>1, <1>2, <1>3, <1>4, FreeStep

\* The first free entry of a handle table.
LEMMA AllocHandle ==
    ASSUME TypeOK, NEW p \in Processes, Open(p) # Handles
    PROVE  alloc_handle(p) \in Handles /\ handle[p][alloc_handle(p)] = None
<1>1. Handles \ Open(p) \in SUBSET Nat /\ Handles \ Open(p) # {}
    BY DEF Open
<1>2. alloc_handle(p) \in Handles \ Open(p)
    BY <1>1, MinIsLeast DEF alloc_handle
<1> QED  BY <1>2 DEF Open

\* The types of a thread's place and of its call.
LEMMA PlaceType ==
    ASSUME TypeOK, NEW t \in Threads, NEW place \in Places, Goes(t, place)
    PROVE  pc' \in [Threads -> Places]
BY DEF TypeOK, Goes

LEMMA CallType ==
    ASSUME TypeOK, NEW t \in Threads
    PROVE  /\ NoCall \in Calls
           /\ \A c \in Calls : call' = [call EXCEPT ![t] = c] => call' \in [Threads -> Calls]
           /\ \A h \in Handles : call' = [call EXCEPT ![t].h = h] => call' \in [Threads -> Calls]
           /\ \A i \in Indices \cup {0} : call' = [call EXCEPT ![t].i = i] => call' \in [Threads -> Calls]
           /\ \A b \in BOOLEAN : call' = [call EXCEPT ![t].undo = b] => call' \in [Threads -> Calls]
           /\ \A h \in Handles, i \in Indices \cup {0} : [NoCall EXCEPT !.h = h, !.i = i] \in Calls
           /\ \A h \in Handles, w \in BOOLEAN : [NoCall EXCEPT !.h = h, !.wait = w] \in Calls
<1>1. NoCall \in Calls
    BY DEF NoCall, Calls
<1>2. \A c \in Calls : call' = [call EXCEPT ![t] = c] => call' \in [Threads -> Calls]
    BY DEF TypeOK
<1>0. call \in [Threads -> Calls] /\ call[t] \in Calls
    BY DEF TypeOK
<1>3. ASSUME NEW h \in Handles, call' = [call EXCEPT ![t].h = h] PROVE call' \in [Threads -> Calls]
    <2>1. [call[t] EXCEPT !.h = h] \in Calls
        BY <1>0 DEF Calls
    <2> QED  BY <1>0, <1>3, <2>1
<1>5. ASSUME NEW i \in Indices \cup {0}, call' = [call EXCEPT ![t].i = i] PROVE call' \in [Threads -> Calls]
    <2>1. [call[t] EXCEPT !.i = i] \in Calls
        BY <1>0 DEF Calls
    <2> QED  BY <1>0, <1>5, <2>1
<1>6. ASSUME NEW b \in BOOLEAN, call' = [call EXCEPT ![t].undo = b] PROVE call' \in [Threads -> Calls]
    <2>1. [call[t] EXCEPT !.undo = b] \in Calls
        BY <1>0 DEF Calls
    <2> QED  BY <1>0, <1>6, <2>1
<1>4. /\ \A h \in Handles, i \in Indices \cup {0} : [NoCall EXCEPT !.h = h, !.i = i] \in Calls
      /\ \A h \in Handles, w \in BOOLEAN : [NoCall EXCEPT !.h = h, !.wait = w] \in Calls
    BY DEF NoCall, Calls
<1> QED  BY <1>1, <1>2, <1>3, <1>4, <1>5, <1>6

\* The steps of a call on an object, which leave the server alone.
LEMMA ClientType ==
    ASSUME TypeOK, CallState, NEW t \in Threads,
           \/ Created(t) \/ Load(t) \/ grab_object(t) \/ CheckRef(t) \/ CheckCache(t) \/ Enter(t)
           \/ get_fsync_idx(t) \/ add_to_list(t) \/ Use(t) \/ put_object_from_wait(t) \/ put_object(t)
           \/ Drop(t) \/ (\E h \in Handles : NtClose(t, h))
           \/ (\E h \in Handles, wait \in BOOLEAN : Call(t, h, wait))
    PROVE  /\ UNCHANGED <<serverVars, excused>> /\ budget' \in Nat
           /\ ref' \in [Indices -> Int] /\ last' \in [Indices -> Processes \cup {None}]
           /\ cache' \in [Processes -> [Handles -> Indices \cup {0}]]
           /\ lock' \in [Processes -> Threads \cup {None}]
           /\ pc' \in [Threads -> Places] /\ call' \in [Threads -> Calls]
<1> USE DEF At
<1>0. /\ call \in [Threads -> Calls] /\ pc \in [Threads -> Places] /\ Owner[t] \in Processes
      /\ call[t].i \in Indices \cup {0} /\ budget \in Nat
      /\ ref \in [Indices -> Int] /\ last \in [Indices -> Processes \cup {None}]
      /\ cache \in [Processes -> [Handles -> Indices \cup {0}]]
      /\ lock \in [Processes -> Threads \cup {None}]
    BY DEF TypeOK, Calls
<1>1. Returns(t) => pc' \in [Threads -> Places] /\ call' \in [Threads -> Calls]
    BY PlaceType, CallType DEF Returns, Places
<1>2. Leave(t) => lock' \in [Processes -> Threads \cup {None}]
    BY <1>0 DEF Leave
<1>3. Undo(t) => pc' \in [Threads -> Places] /\ call' \in [Threads -> Calls]
    BY PlaceType, CallType DEF Undo, Places
<1>4. CASE Created(t)
    <2>1. call[t].h \in Handles
        BY <1>4 DEF Created, CallState, InCall
    <2>2. cache' \in [Processes -> [Handles -> Indices \cup {0}]]
        BY <1>0, <1>4, <2>1 DEF Created
    <2> QED  BY <1>0, <1>1, <1>4, <2>2 DEF Created
<1>5. CASE Load(t)
    <2>1. call[t].h \in Handles
        BY <1>5 DEF Load, CallState, InCall
    <2>0. cache[Owner[t]] \in [Handles -> Indices \cup {0}]
        BY <1>0
    <2>2. cache[Owner[t]][call[t].h] \in Indices \cup {0}
        BY <2>0, <2>1
    <2>3. call' \in [Threads -> Calls]
        BY <1>5, <2>2, CallType DEF Load
    <2>4. pc' \in [Threads -> Places]
        BY <1>5, PlaceType DEF Load, Places
    <2> QED  BY <1>0, <1>5, <2>3, <2>4 DEF Load
<1>6. CASE grab_object(t)
    <2>1. pc' \in [Threads -> Places]
        BY <1>6, PlaceType DEF grab_object, Places
    <2>0. call[t].i \in Indices /\ ref[call[t].i] \in Int
        BY <1>0, <1>6 DEF grab_object, CallState, HasIndex, Holding
    <2>2. ref' \in [Indices -> Int]
        BY <1>0, <1>6, <2>0 DEF grab_object
    <2> QED  BY <1>0, <1>6, <2>1, <2>2 DEF grab_object
<1>7. CASE CheckRef(t)
    <2>1. pc' \in [Threads -> Places] /\ call' \in [Threads -> Calls]
        BY <1>0, <1>3, <1>7, PlaceType DEF CheckRef, Places
    <2> QED  BY <1>0, <1>7, <2>1 DEF CheckRef
<1>8. CASE CheckCache(t)
    <2>1. pc' \in [Threads -> Places] /\ call' \in [Threads -> Calls]
        BY <1>0, <1>3, <1>8, PlaceType DEF CheckCache, Places
    <2> QED  BY <1>0, <1>2, <1>8, <2>1 DEF CheckCache
<1>9. CASE Enter(t)
    <2>1. pc' \in [Threads -> Places]
        BY <1>9, PlaceType DEF Enter, Places
    <2>2. lock' \in [Processes -> Threads \cup {None}]
        BY <1>0, <1>9, SMTT(60) DEF Enter
    <2> QED  BY <1>0, <1>9, <2>1, <2>2 DEF Enter
<1>10. CASE get_fsync_idx(t)
    <2>1. call[t].h \in Handles
        BY <1>10, Zenon DEF get_fsync_idx, CallState, InCall
    <2> DEFINE o == handle[Owner[t]][call[t].h]
    <2>0. handle[Owner[t]] \in [Handles -> Objects \cup {None}]
        BY <1>0 DEF TypeOK
    <2>5. o \in Objects \cup {None} /\ (o # None => idx[o] # 0)
        BY <1>0, <2>0, <2>1 DEF CallState
    <2>2. o # None => idx[o] \in Indices /\ ref[idx[o]] \in Int
        BY <1>0, <2>5 DEF TypeOK
    <2> HIDE DEF o
    <2>3. pc' \in [Threads -> Places] /\ call' \in [Threads -> Calls]
        BY <1>1, <1>10, <2>2, PlaceType, CallType, Zenon DEF get_fsync_idx, Places, o
    <2>4. ref' \in [Indices -> Int]
        <3>1. ref' = ref \/ (o # None /\ ref' = [ref EXCEPT ![idx[o]] = @ + 1])
            BY <1>10, Zenon DEF get_fsync_idx, o
        <3> QED  BY <1>0, <2>2, <3>1, SMTT(60)
    <2> QED  BY <1>0, <1>2, <1>10, <2>3, <2>4, ZenonT(60) DEF get_fsync_idx
<1>11. CASE add_to_list(t)
    <2>1. call[t].h \in Handles
        BY <1>11 DEF add_to_list, CallState, InCall
    <2>2. cache' \in [Processes -> [Handles -> Indices \cup {0}]]
        BY <1>0, <1>11, <2>1 DEF add_to_list
    <2>3. pc' \in [Threads -> Places]
        BY <1>11, PlaceType DEF add_to_list, Places
    <2> QED  BY <1>0, <1>2, <1>11, <2>2, <2>3 DEF add_to_list
<1>12. CASE Use(t) \/ put_object_from_wait(t)
    <2>1. pc' \in [Threads -> Places]
        BY <1>12, PlaceType DEF Use, put_object_from_wait, Places
    <2>2. last' \in [Indices -> Processes \cup {None}]
        BY <1>0, <1>12 DEF Use, put_object_from_wait
    <2> QED  BY <1>0, <1>12, <2>1, <2>2 DEF Use, put_object_from_wait
<1>13. CASE put_object(t)
    <2>1. pc' \in [Threads -> Places]
        BY <1>13, PlaceType DEF put_object, Places
    <2> QED  BY <1>0, <1>13, <2>1 DEF put_object
<1>14. CASE Drop(t)
    <2>1. pc' \in [Threads -> Places] /\ call' \in [Threads -> Calls]
        BY <1>1, <1>14, PlaceType, CallType DEF Drop, Dropped, Places
    <2>0. call[t].i \in Indices /\ ref[call[t].i] \in Int
        BY <1>0, <1>14 DEF Drop, CallState, HasIndex, Holding
    <2>2. ref' \in [Indices -> Int]
        BY <1>0, <1>14, <2>0 DEF Drop
    <2> QED  BY <1>0, <1>14, <2>1, <2>2 DEF Drop
<1>15. CASE \E h \in Handles : NtClose(t, h)
    <2>1. PICK h \in Handles : NtClose(t, h)
        BY <1>15
    <2>2. pc' \in [Threads -> Places] /\ call' \in [Threads -> Calls]
        BY <2>1, PlaceType, CallType DEF NtClose, Places
    <2>3. cache' \in [Processes -> [Handles -> Indices \cup {0}]]
        BY <1>0, <2>1 DEF NtClose, fsync_close
    <2>4. lock' \in [Processes -> Threads \cup {None}]
        BY <1>0, <2>1 DEF NtClose
    <2> QED  BY <1>0, <2>1, <2>2, <2>3, <2>4 DEF NtClose, Request
<1>16. CASE \E h \in Handles, wait \in BOOLEAN : Call(t, h, wait)
    <2>1. PICK h \in Handles, wait \in BOOLEAN : Call(t, h, wait)
        BY <1>16
    <2>2. [NoCall EXCEPT !.h = h, !.wait = wait] \in Calls
        BY CallType
    <2>3. pc' \in [Threads -> Places] /\ call' \in [Threads -> Calls]
        BY <2>1, <2>2, PlaceType, CallType DEF Call, Places
    <2> QED  BY <1>0, <2>1, <2>3 DEF Call
<1> QED  BY <1>4, <1>5, <1>6, <1>7, <1>8, <1>9, <1>10, <1>11, <1>12, <1>13, <1>14, <1>15, <1>16

\* A program's threads are threads.
LEMMA NextCases ==
    ASSUME TypeOK, Next
    PROVE  /\ UNCHANGED program
           /\ \/ \E t \in Threads : ThreadStep(t)
              \/ \E p \in Processes : process_killed(p) \/ process_destroy(p)
BY DEF TypeOK, Next

LEMMA TypeStep ==
    ASSUME TypeOK, CallState, HintNotPast, Next
    PROVE  TypeOK' /\ HintNotPast'
<1> DEFINE ServerType ==
            /\ free \subseteq Indices /\ size \in InitialWords..MaxWords /\ hint \in Nat
            /\ idx \in [Objects -> Indices \cup {0}]
            /\ handle \in [Processes -> [Handles -> Objects \cup {None}]]
            /\ process \in [Processes -> {"running", "killed", "gone"}]
            /\ aborted \in BOOLEAN /\ undefined \in BOOLEAN
           SharedType == ref \in [Indices -> Int] /\ last \in [Indices -> Processes \cup {None}]
           ClientTypes ==
            /\ cache \in [Processes -> [Handles -> Indices \cup {0}]]
            /\ lock \in [Processes -> Threads \cup {None}]
            /\ pc \in [Threads -> Places] /\ call \in [Threads -> Calls]
<1>0. ServerType /\ SharedType /\ ClientTypes /\ program \in Programs /\ budget \in Nat /\ excused \subseteq Indices
    BY DEF TypeOK
<1>1. ASSUME ServerType', SharedType', ClientTypes', budget' \in Nat, excused' \subseteq Indices
      PROVE  TypeOK'
    <2>1. program' \in Programs
        BY <1>0, NextCases
    <2> QED  BY <1>1, <2>1 DEF TypeOK
<1>2. UNCHANGED <<free, hint>> => HintNotPast'
    BY DEF HintNotPast, Word
<1>3. ASSUME NEW t \in Threads, ThreadStep(t) PROVE TypeOK' /\ HintNotPast'
    <2> USE DEF At
    <2>0. Owner[t] \in Processes
        OBVIOUS
    <2>1. Returns(t) => pc' \in [Threads -> Places] /\ call' \in [Threads -> Calls]
        BY PlaceType, CallType DEF Returns, Places
    <2>2. CASE \/ Created(t) \/ Load(t) \/ grab_object(t) \/ CheckRef(t) \/ CheckCache(t) \/ Enter(t)
               \/ get_fsync_idx(t) \/ add_to_list(t) \/ Use(t) \/ put_object_from_wait(t) \/ put_object(t)
               \/ Drop(t) \/ (\E h \in Handles : NtClose(t, h))
               \/ (\E h \in Handles, wait \in BOOLEAN : Call(t, h, wait))
        <3>1. /\ UNCHANGED <<serverVars, excused>> /\ budget' \in Nat /\ SharedType' /\ ClientTypes'
            BY <2>2, ClientType
        <3>2. ServerType'
            BY <1>0, <3>1 DEF serverVars
        <3> QED  BY <1>0, <1>1, <1>2, <3>1, <3>2 DEF serverVars
    <2>3. CASE CloseHandle(t)
        <3>1. close_handles({<<Owner[t], call[t].h>>})
            BY <2>3 DEF CloseHandle
        <3>2. ServerType' /\ HintNotPast' /\ ref' \in [Indices -> Int]
            BY <1>0, <2>3, <3>1, CloseType DEF CloseHandle
        <3>3. lock' \in [Processes -> Threads \cup {None}]
            BY <1>0, <2>3 DEF CloseHandle
        <3>4. SharedType' /\ ClientTypes' /\ budget' \in Nat /\ excused' \subseteq Indices
            BY <1>0, <2>1, <2>3, <3>2, <3>3 DEF CloseHandle
        <3> QED  BY <1>1, <3>2, <3>4
    <2>4. CASE FreeRequest(t)
        <3>1. call[t].i \in Indices
            BY <2>4 DEF FreeRequest, CallState, HasIndex, Holding
        <3>2. fsync_free_shm_idx({call[t].i}) /\ {call[t].i} \in SUBSET Indices
            BY <2>4, <3>1 DEF FreeRequest
        <3>3. ServerType' /\ HintNotPast' /\ ref' \in [Indices -> Int]
            BY <1>0, <2>4, <3>2, FreeStep DEF FreeRequest
        <3>4. pc' \in [Threads -> Places] /\ call' \in [Threads -> Calls]
            BY <2>1, <2>4, PlaceType, CallType DEF FreeRequest, Dropped, Places
        <3>5. SharedType' /\ ClientTypes' /\ budget' \in Nat /\ excused' \subseteq Indices
            BY <1>0, <2>4, <3>3, <3>4 DEF FreeRequest
        <3> QED  BY <1>1, <3>3, <3>5
    <2>5. CASE UninitializedIndex(t)
        <3>1. ServerType'
            BY <1>0, <2>5 DEF UninitializedIndex
        <3>2. SharedType' /\ ClientTypes' /\ budget' \in Nat /\ excused' \subseteq Indices
            BY <1>0, <2>5 DEF UninitializedIndex, Request, clientVars
        <3> QED  BY <1>1, <1>2, <2>5, <3>1, <3>2 DEF UninitializedIndex
    <2>6. CASE \E b \in BOOLEAN : create_fsync(t, b)
        <3> DEFINE h == alloc_handle(Owner[t])
                   o == CHOOSE new \in Objects : idx[new] = 0
        <3>1. PICK b \in BOOLEAN : create_fsync(t, b)
            BY <2>6
        <3>2. o \in Objects /\ h \in Handles
            BY <2>0, <3>1, AllocHandle DEF create_fsync
        <3>3. /\ fsync_alloc_shm(o)
              /\ handle' = [handle EXCEPT ![Owner[t]][h] = o]
              /\ IF b THEN /\ call' = [call EXCEPT ![t] = [NoCall EXCEPT !.h = h, !.i = idx'[o]]]
                           /\ Goes(t, "created")
                      ELSE UNCHANGED <<call, pc>>
              /\ UNCHANGED <<process, aborted, undefined, cache, lock, excused>>
              /\ budget' = budget - 1 /\ budget > 0
            BY <3>1 DEF create_fsync, Request
        <3> HIDE DEF h, o
        <3>4. PICK i \in Indices :
                /\ idx' = [idx EXCEPT ![o] = i] /\ ref' = [ref EXCEPT ![i] = 1] /\ last' = [last EXCEPT ![i] = None]
                /\ free' \subseteq Indices /\ size' \in InitialWords..MaxWords /\ hint' \in Nat
                /\ HintNotPast'
            BY <3>2, <3>3, AllocStep
        <3>5. idx' \in [Objects -> Indices \cup {0}] /\ idx'[o] \in Indices
            BY <1>0, <3>2, <3>4
        <3>6. handle' \in [Processes -> [Handles -> Objects \cup {None}]]
            BY <1>0, <3>2, <3>3
        <3>7. pc' \in [Threads -> Places]
            BY <1>0, <3>3, PlaceType DEF Places
        <3>8. call' \in [Threads -> Calls]
            <4>1. [NoCall EXCEPT !.h = h, !.i = idx'[o]] \in Calls
                BY <3>2, <3>5, CallType
            <4> QED  BY <1>0, <3>3, <4>1, CallType
        <3>9. SharedType'
            BY <1>0, <3>4
        <3>10. ServerType' /\ ClientTypes' /\ budget' \in Nat /\ excused' \subseteq Indices
            BY <1>0, <3>3, <3>4, <3>5, <3>6, <3>7, <3>8
        <3> QED  BY <1>1, <3>4, <3>9, <3>10
    <2>7. CASE \E o \in Objects : open_fsync(t, o)
        <3> DEFINE h == alloc_handle(Owner[t])
        <3>1. PICK o \in Objects : open_fsync(t, o)
            BY <2>7
        <3>2. h \in Handles
            BY <2>0, <3>1, AllocHandle DEF open_fsync
        <3>3. /\ handle' = [handle EXCEPT ![Owner[t]][h] = o]
              /\ call' = [call EXCEPT ![t] = [NoCall EXCEPT !.h = h, !.i = idx[o]]]
              /\ Goes(t, "created")
              /\ UNCHANGED <<free, size, hint, idx, process, aborted, undefined, ref, last, cache, lock, excused>>
              /\ budget' = budget - 1 /\ budget > 0
            BY <3>1 DEF open_fsync, Request
        <3> HIDE DEF h
        <3>4. handle' \in [Processes -> [Handles -> Objects \cup {None}]]
            BY <1>0, <3>2, <3>3
        <3>5. pc' \in [Threads -> Places]
            BY <3>3, PlaceType DEF Places
        <3>6. call' \in [Threads -> Calls]
            <4>1. [NoCall EXCEPT !.h = h, !.i = idx[o]] \in Calls
                BY <1>0, <3>2, CallType
            <4> QED  BY <3>3, <4>1, CallType
        <3>7. ServerType' /\ SharedType' /\ ClientTypes' /\ budget' \in Nat /\ excused' \subseteq Indices
            BY <1>0, <3>3, <3>4, <3>5, <3>6
        <3> QED  BY <1>1, <1>2, <3>3, <3>7
    <2>8. CASE \E h \in Handles, q \in Processes, b \in BOOLEAN : NtDuplicateObject(t, h, q, b)
        <3>1. PICK h \in Handles, q \in Processes, b \in BOOLEAN : NtDuplicateObject(t, h, q, b)
            BY <2>8
        <3> DEFINE n == alloc_handle(q)
                   o == handle[Owner[t]][h]
        <3>2. n \in Handles /\ o \in Objects \cup {None}
            <4>1. handle[Owner[t]] \in [Handles -> Objects \cup {None}]
                BY <1>0
            <4> QED  BY <3>1, <4>1, AllocHandle DEF NtDuplicateObject
        <3> DEFINE given == [handle EXCEPT ![q][n] = o]
        <3>3. /\ handle' = [given EXCEPT ![Owner[t]][h] = IF b THEN None ELSE @]
              /\ UNCHANGED <<free, size, hint, idx, process, aborted, undefined, ref, last, clientVars, excused>>
              /\ budget' = budget - 1 /\ budget > 0
            BY <3>1 DEF NtDuplicateObject, Request
        <3> HIDE DEF n, o, given
        <3>4. handle' \in [Processes -> [Handles -> Objects \cup {None}]]
            <4>1. given \in [Processes -> [Handles -> Objects \cup {None}]]
                BY <1>0, <3>2 DEF given
            <4>2. given[Owner[t]][h] \in Objects \cup {None}
                BY <4>1, <2>0
            <4> QED  BY <2>0, <3>3, <4>1, <4>2
        <3>5. ServerType' /\ SharedType' /\ ClientTypes' /\ budget' \in Nat /\ excused' \subseteq Indices
            BY <1>0, <3>3, <3>4 DEF clientVars
        <3> QED  BY <1>1, <1>2, <3>3, <3>5
    <2> QED  BY <1>3, <2>2, <2>3, <2>4, <2>5, <2>6, <2>7, <2>8 DEF ThreadStep, Step
<1>4. ASSUME NEW p \in Processes, process_killed(p) PROVE TypeOK' /\ HintNotPast'
    <2>1. close_handles({p} \X Handles)
        BY <1>4 DEF process_killed
    <2>2. ServerType' /\ HintNotPast' /\ ref' \in [Indices -> Int]
        BY <1>0, <1>4, <2>1, CloseType DEF process_killed
    <2>3. pc' \in [Threads -> Places] /\ call' \in [Threads -> Calls]
        <3>1. NoCall \in Calls
            BY DEF NoCall, Calls
        <3> QED  BY <1>0, <1>4, <3>1 DEF process_killed, Places
    <2>4. SharedType' /\ ClientTypes' /\ budget' \in Nat /\ excused' \subseteq Indices
        BY <1>0, <1>4, <2>2, <2>3 DEF process_killed
    <2> QED  BY <1>1, <2>2, <2>4
<1>5. ASSUME NEW p \in Processes, process_destroy(p) PROVE TypeOK' /\ HintNotPast'
    <2> DEFINE S == {i \in Indices \ free : last[i] = p /\ ref[i] = 1}
    <2>1. fsync_free_shm_idx(S) /\ S \in SUBSET Indices
        BY <1>5 DEF process_destroy, fsync_cleanup_process_shm_indices
    <2>2. ServerType' /\ HintNotPast' /\ ref' \in [Indices -> Int]
        BY <1>0, <1>5, <2>1, FreeStep DEF process_destroy
    <2>3. SharedType' /\ ClientTypes' /\ budget' \in Nat /\ excused' \subseteq Indices
        BY <1>0, <1>5, <2>2 DEF process_destroy, clientVars
    <2> QED  BY <1>1, <2>2, <2>3
<1> QED  BY <1>3, <1>4, <1>5, NextCases

-----------------------------------------------------------------------------
(* Handles *)

LEMMA CloseKeeps ==
    ASSUME TypeOK, NEW closed, close_handles(closed), NEW p \in Processes, NEW h \in Handles
    PROVE  /\ <<p, h>> \in closed \/ handle[p][h] = None => handle'[p][h] = None
           /\ <<p, h>> \notin closed => handle'[p][h] = handle[p][h]
           /\ <<p, h>> \notin closed /\ handle[p][h] # None => idx'[handle[p][h]] = idx[handle[p][h]]
<1>1. handle'[p][h] = IF <<p, h>> \in closed THEN None ELSE handle[p][h]
    BY DEF close_handles
<1>2. ASSUME <<p, h>> \notin closed, handle[p][h] # None PROVE idx'[handle[p][h]] = idx[handle[p][h]]
    <2>0. handle[p] \in [Handles -> Objects \cup {None}]
        BY DEF TypeOK
    <2>1. handle[p][h] \in Objects
        BY <1>2, <2>0
    <2>2. handle[p][h] \notin Destroyed(closed)
        BY <1>2 DEF Destroyed
    <2> QED  BY <2>1, <2>2 DEF close_handles
<1> QED  BY <1>1, <1>2

\* What closes the handle h of p.
Closes(p, h) ==
    \/ \E t \in Threads : CloseHandle(t) /\ Owner[t] = p /\ call[t].h = h
    \/ \E t \in Threads, q \in Processes : NtDuplicateObject(t, h, q, TRUE) /\ Owner[t] = p
    \/ process_killed(p)

\* A handle keeps its object and the object its index until the handle is
\* closed, and a new handle is one of an object that has an index.
LEMMA HandleStep ==
    ASSUME TypeOK, CallState, HintNotPast, Next, NEW p \in Processes, NEW h \in Handles
    PROVE  /\ handle[p][h] # None =>
                \/ handle'[p][h] = handle[p][h] /\ idx'[handle[p][h]] = idx[handle[p][h]]
                \/ handle'[p][h] = None /\ Closes(p, h)
           /\ handle[p][h] = None /\ handle'[p][h] # None => idx'[handle'[p][h]] # 0
<1>0. /\ handle \in [Processes -> [Handles -> Objects \cup {None}]] /\ idx \in [Objects -> Indices \cup {0}]
      /\ handle[p][h] # None => handle[p][h] \in Objects /\ idx[handle[p][h]] # 0
    BY DEF TypeOK, CallState
<1>1. ASSUME UNCHANGED <<handle, idx>>
      PROVE  /\ handle'[p][h] = handle[p][h] /\ idx'[handle[p][h]] = idx[handle[p][h]]
    BY <1>1
<1> DEFINE Kept ==
            /\ handle[p][h] # None =>
                \/ handle'[p][h] = handle[p][h] /\ idx'[handle[p][h]] = idx[handle[p][h]]
                \/ handle'[p][h] = None /\ Closes(p, h)
            /\ handle[p][h] = None /\ handle'[p][h] # None => idx'[handle'[p][h]] # 0
<1>2. ASSUME NEW t \in Threads, ThreadStep(t) PROVE Kept
    <2>0. Owner[t] \in Processes /\ 0 \notin Indices
        BY DEF Indices
    <2>1. CASE \/ Created(t) \/ Load(t) \/ grab_object(t) \/ CheckRef(t) \/ CheckCache(t) \/ Enter(t)
               \/ get_fsync_idx(t) \/ add_to_list(t) \/ Use(t) \/ put_object_from_wait(t) \/ put_object(t)
               \/ Drop(t) \/ (\E g \in Handles : NtClose(t, g))
               \/ (\E g \in Handles, wait \in BOOLEAN : Call(t, g, wait))
        <3>1. UNCHANGED serverVars
            BY <2>1, ClientType
        <3> QED  BY <1>1, <3>1 DEF serverVars
    <2>2. CASE FreeRequest(t) \/ UninitializedIndex(t)
        BY <1>1, <2>2 DEF FreeRequest, UninitializedIndex
    <2>3. CASE CloseHandle(t)
        <3> DEFINE closed == {<<Owner[t], call[t].h>>}
        <3>1. close_handles(closed)
            BY <2>3 DEF CloseHandle
        <3>2. <<p, h>> \in closed => Closes(p, h)
            BY <2>3 DEF Closes
        <3> HIDE DEF closed
        <3> QED  BY <3>1, <3>2, CloseKeeps
    <2>4. CASE \E b \in BOOLEAN : create_fsync(t, b)
        <3> DEFINE g == alloc_handle(Owner[t])
                   o == CHOOSE new \in Objects : idx[new] = 0
        <3>1. PICK b \in BOOLEAN : create_fsync(t, b)
            BY <2>4
        <3>2. o \in Objects /\ idx[o] = 0 /\ g \in Handles /\ handle[Owner[t]][g] = None
            BY <2>0, <3>1, AllocHandle DEF create_fsync
        <3>3. fsync_alloc_shm(o) /\ handle' = [handle EXCEPT ![Owner[t]][g] = o]
            BY <3>1 DEF create_fsync
        <3> HIDE DEF g, o
        <3>4. PICK i \in Indices : idx' = [idx EXCEPT ![o] = i]
            BY <3>2, <3>3, AllocStep
        <3>5. CASE p = Owner[t] /\ h = g
            BY <1>0, <2>0, <3>2, <3>3, <3>4, <3>5
        <3>6. CASE ~(p = Owner[t] /\ h = g)
            <4>1. handle'[p][h] = handle[p][h]
                BY <1>0, <2>0, <3>3, <3>6
            <4>2. handle[p][h] # None => idx'[handle[p][h]] = idx[handle[p][h]]
                BY <1>0, <3>2, <3>4
            <4> QED  BY <4>1, <4>2
        <3> QED  BY <3>5, <3>6
    <2>5. CASE \E o \in Objects : open_fsync(t, o)
        <3> DEFINE g == alloc_handle(Owner[t])
        <3>1. PICK o \in Objects : open_fsync(t, o)
            BY <2>5
        <3>2. g \in Handles /\ handle[Owner[t]][g] = None
            BY <2>0, <3>1, AllocHandle DEF open_fsync
        <3>3. idx[o] # 0 /\ handle' = [handle EXCEPT ![Owner[t]][g] = o] /\ idx' = idx
            BY <3>1 DEF open_fsync
        <3> HIDE DEF g
        <3>4. CASE p = Owner[t] /\ h = g
            BY <1>0, <2>0, <3>2, <3>3, <3>4
        <3>5. CASE ~(p = Owner[t] /\ h = g)
            BY <1>0, <2>0, <3>3, <3>5
        <3> QED  BY <3>4, <3>5
    <2>6. CASE \E g \in Handles, q \in Processes, b \in BOOLEAN : NtDuplicateObject(t, g, q, b)
        <3>1. PICK g \in Handles, q \in Processes, b \in BOOLEAN : NtDuplicateObject(t, g, q, b)
            BY <2>6
        <3> DEFINE n == alloc_handle(q)
                   o == handle[Owner[t]][g]
                   given == [handle EXCEPT ![q][n] = o]
        <3>2. n \in Handles /\ handle[q][n] = None /\ (b => q # Owner[t]) /\ o # None
            BY <2>0, <3>1, AllocHandle DEF NtDuplicateObject, MayClose, Known, Open
        <3>3. handle' = [given EXCEPT ![Owner[t]][g] = IF b THEN None ELSE @] /\ idx' = idx
            BY <3>1 DEF NtDuplicateObject
        <3>4. o \in Objects /\ idx[o] # 0
            BY <1>0, <2>0, <3>2 DEF CallState, TypeOK
        <3> HIDE DEF n, o, given
        <3>5. given \in [Processes -> [Handles -> Objects \cup {None}]]
            BY <1>0, <3>2, <3>4 DEF given
        <3>6. CASE p = q /\ h = n
            <4>1. given[p][h] = o
                BY <1>0, <3>2, <3>6 DEF given
            <4>2. handle'[p][h] = o
                BY <2>0, <3>2, <3>3, <3>5, <3>6, <4>1
            <4> QED  BY <3>2, <3>3, <3>4, <3>6, <4>2
        <3>7. CASE ~(p = q /\ h = n)
            <4>1. given[p][h] = handle[p][h]
                BY <1>0, <3>2, <3>7 DEF given
            <4>2. CASE p = Owner[t] /\ h = g /\ b
                <5>1. handle'[p][h] = None
                    BY <2>0, <3>3, <3>5, <4>2
                <5>2. Closes(p, h)
                    BY <3>1, <4>2 DEF Closes
                <5> QED  BY <5>1, <5>2
            <4>3. CASE ~(p = Owner[t] /\ h = g /\ b)
                <5>1. handle'[p][h] = given[p][h]
                    BY <2>0, <3>3, <3>5, <4>3
                <5> QED  BY <3>3, <4>1, <5>1
            <4> QED  BY <4>2, <4>3
        <3> QED  BY <3>6, <3>7
    <2> QED  BY <1>2, <2>1, <2>2, <2>3, <2>4, <2>5, <2>6 DEF ThreadStep, Step
<1>3. ASSUME NEW q \in Processes, process_killed(q) PROVE Kept
    <2>1. close_handles({q} \X Handles)
        BY <1>3 DEF process_killed
    <2>2. <<p, h>> \in {q} \X Handles => Closes(p, h)
        BY <1>3 DEF Closes
    <2> QED  BY <2>1, <2>2, CloseKeeps
<1>4. ASSUME NEW q \in Processes, process_destroy(q) PROVE Kept
    BY <1>1, <1>4 DEF process_destroy
<1> QED  BY <1>2, <1>3, <1>4, NextCases

-----------------------------------------------------------------------------
(* Threads *)

\* A step of one thread leaves the others where they are, and in the section.
LEMMA OthersStep ==
    ASSUME TypeOK, CallState, NEW t \in Threads, ThreadStep(t)
    PROVE  /\ UNCHANGED <<process, excused>> /\ Living(Owner[t]) /\ ~aborted /\ ~undefined
           /\ pc'[t] # "dead"
           /\ \A u \in Threads \ {t} : pc'[u] = pc[u] /\ call'[u] = call[u]
           /\ \A q \in Processes : lock[q] \notin {t, None} => lock'[q] = lock[q]
<1> USE DEF At, Running, Living, Goes
<1>0. /\ pc \in [Threads -> Places] /\ call \in [Threads -> Calls]
      /\ lock \in [Processes -> Threads \cup {None}]
    BY DEF TypeOK
<1>1. CASE Created(t) \/ Load(t) \/ CheckRef(t) \/ Use(t)
    BY <1>0, <1>1 DEF Created, Load, CheckRef, Use, Undo, Returns, serverVars
<1>2. CASE grab_object(t) \/ put_object_from_wait(t) \/ put_object(t) \/ Enter(t)
    BY <1>0, <1>2, SMTT(60) DEF grab_object, put_object_from_wait, put_object, Enter, serverVars
<1>3. CASE CheckCache(t) \/ add_to_list(t) \/ get_fsync_idx(t)
    BY <1>0, <1>3, ZenonT(60) DEF CheckCache, add_to_list, get_fsync_idx, Undo, Leave, Returns, serverVars
<1>4. CASE Drop(t) \/ FreeRequest(t)
    BY <1>0, <1>4 DEF Drop, FreeRequest, Dropped, Returns, serverVars
<1>5. CASE CloseHandle(t)
    BY <1>0, <1>5 DEF CloseHandle, Returns, CallState
<1>6. CASE UninitializedIndex(t)
    <2>1. UNCHANGED <<process, excused, pc, call, lock>> /\ pc[t] = "idle" /\ Living(Owner[t]) /\ ~aborted /\ ~undefined
        BY <1>6 DEF UninitializedIndex, Request, clientVars
    <2> QED  BY <2>1
<1>7. CASE \E b \in BOOLEAN : create_fsync(t, b)
    BY <1>0, <1>7 DEF create_fsync, Request
<1>8. CASE \E o \in Objects : open_fsync(t, o)
    BY <1>0, <1>8 DEF open_fsync, Request
<1>9. CASE \E h \in Handles : NtClose(t, h)
    BY <1>0, <1>9 DEF NtClose, Request, serverVars
<1>10. CASE \E h \in Handles, wait \in BOOLEAN : Call(t, h, wait)
    BY <1>0, <1>10 DEF Call, serverVars
<1>11. CASE \E h \in Handles, q \in Processes, b \in BOOLEAN : NtDuplicateObject(t, h, q, b)
    <2>1. UNCHANGED <<process, excused, pc, call, lock>> /\ pc[t] = "idle" /\ Living(Owner[t]) /\ ~aborted /\ ~undefined
        BY <1>11 DEF NtDuplicateObject, Request, clientVars
    <2> QED  BY <2>1
<1> QED  BY <1>1, <1>2, <1>3, <1>4, <1>5, <1>6, <1>7, <1>8, <1>9, <1>10, <1>11 DEF ThreadStep, Step

\* The part of CallState about one thread.
CallStateOf(t) ==
    /\ InCall(t) => call[t].h \in Handles
    /\ HasIndex(t) => call[t].i \in Indices
    /\ pc[t] = "dead" <=> ~Living(Owner[t])
    /\ pc[t] \in {"closing", "request", "add"} => lock[Owner[t]] = t

LEMMA CallStep ==
    ASSUME TypeOK, CallState, HintNotPast, Next
    PROVE  CallState'
<1>0. TypeOK'
    BY TypeStep
<1>1. \A p \in Processes, h \in Handles : handle'[p][h] # None => idx'[handle'[p][h]] # 0
    <2> SUFFICES ASSUME NEW p \in Processes, NEW h \in Handles, handle'[p][h] # None
                 PROVE  idx'[handle'[p][h]] # 0
        OBVIOUS
    <2>1. handle[p][h] # None => idx[handle[p][h]] # 0
        BY DEF CallState
    <2> QED  BY <2>1, HandleStep
<1>2. ASSUME \A u \in Threads : CallStateOf(u)' PROVE CallState'
    BY <1>1, <1>2 DEF CallState, CallStateOf
<1>3. ASSUME NEW t \in Threads, ThreadStep(t) PROVE CallState'
    <2>1. /\ UNCHANGED process /\ Living(Owner[t]) /\ pc'[t] # "dead"
          /\ \A u \in Threads \ {t} : pc'[u] = pc[u] /\ call'[u] = call[u]
          /\ \A q \in Processes : lock[q] \notin {t, None} => lock'[q] = lock[q]
        BY <1>3, OthersStep
    <2>2. ASSUME NEW u \in Threads \ {t} PROVE CallStateOf(u)'
        <3>1. u # None /\ Owner[u] \in Processes
            OBVIOUS
        <3>2. CallStateOf(u)
            BY DEF CallState, CallStateOf
        <3>3. lock[Owner[u]] = u => lock'[Owner[u]] = u
            BY <2>1, <3>1
        <3> QED  BY <2>1, <3>2, <3>3 DEF CallStateOf, InCall, HasIndex, Holding, Living
    <2>3. CallStateOf(t)'
        <3>0. /\ CallStateOf(t) /\ Owner[t] \in Processes
              /\ pc \in [Threads -> Places] /\ call \in [Threads -> Calls] /\ call[t] \in Calls
              /\ pc' \in [Threads -> Places] /\ call' \in [Threads -> Calls] /\ call'[t] \in Calls
              /\ lock \in [Processes -> Threads \cup {None}]
            BY <1>0 DEF CallState, CallStateOf, TypeOK
        <3>1. ASSUME InCall(t)' => call'[t].h \in Handles,
                     HasIndex(t)' => call'[t].i \in Indices,
                     pc'[t] \in {"closing", "request", "add"} => lock'[Owner[t]] = t
              PROVE  CallStateOf(t)'
            BY <2>1, <3>1 DEF CallStateOf, Living
        <3> USE DEF At, Goes, InCall, HasIndex, Holding
        <3>2. CASE pc'[t] = "idle"
            BY <3>1, <3>2
        <3>3. CASE Load(t)
            <4>1. cache[Owner[t]] \in [Handles -> Indices \cup {0}] /\ call[t].h \in Handles
                BY <3>0, <3>3 DEF TypeOK, Load, CallStateOf
            <4>2. cache[Owner[t]][call[t].h] # 0 => cache[Owner[t]][call[t].h] \in Indices
                BY <4>1
            <4>3. /\ call'[t].h = call[t].h /\ call'[t].i = cache[Owner[t]][call[t].h] /\ lock' = lock
                  /\ pc'[t] = IF cache[Owner[t]][call[t].h] # 0 THEN "grab"
                              ELSE IF lock[Owner[t]] = t THEN "request" ELSE "enter"
                BY <3>0, <3>3 DEF Load, Calls
            <4> QED  BY <3>1, <4>1, <4>2, <4>3
        <3>4. CASE get_fsync_idx(t) /\ pc'[t] # "idle"
            <4> DEFINE o == handle[Owner[t]][call[t].h]
            <4>1. /\ pc[t] = "request" /\ o # None /\ call' = [call EXCEPT ![t].i = idx[o]] /\ lock' = lock
                  /\ pc'[t] = "add"
                BY <3>0, <3>4 DEF get_fsync_idx, Returns
            <4>2. handle[Owner[t]] \in [Handles -> Objects \cup {None}] /\ call[t].h \in Handles
                BY <3>0, <4>1 DEF TypeOK, CallStateOf
            <4>3. o \in Objects /\ idx[o] # 0 /\ idx[o] \in Indices \cup {0}
                BY <3>0, <4>1, <4>2 DEF CallState, TypeOK
            <4> HIDE DEF o
            <4>4. call'[t].h = call[t].h /\ call'[t].i = idx[o]
                BY <3>0, <4>1 DEF Calls
            <4> QED  BY <3>0, <3>1, <4>1, <4>2, <4>3, <4>4 DEF CallStateOf
        <3>5. CASE \/ grab_object(t) \/ CheckRef(t) \/ CheckCache(t) \/ add_to_list(t)
                   \/ Use(t) \/ put_object_from_wait(t) \/ put_object(t)
            <4>1. pc'[t] \notin {"closing", "request", "add"} /\ pc[t] # "idle" /\ pc[t] # "dead" /\ HasIndex(t)
                BY <3>0, <3>5 DEF grab_object, CheckRef, CheckCache, add_to_list, Use, put_object_from_wait, put_object, Undo
            <4>2. call'[t].h = call[t].h /\ call'[t].i = call[t].i
                BY <3>0, <3>5 DEF grab_object, CheckRef, CheckCache, add_to_list, Use, put_object_from_wait, put_object, Undo, Calls
            <4> QED  BY <3>0, <3>1, <4>1, <4>2 DEF CallStateOf
        <3>6. CASE Enter(t) \/ Drop(t) \/ FreeRequest(t)
            <4>1. pc'[t] \in {"load", "idle"} /\ pc[t] # "idle" /\ pc[t] # "dead"
                BY <3>0, <3>6 DEF Enter, Drop, FreeRequest, Dropped, Returns
            <4>2. pc'[t] = "idle" \/ call'[t].h = call[t].h
                BY <3>0, <3>6 DEF Enter, Drop, FreeRequest, Dropped, Returns, Calls
            <4> QED  BY <3>0, <3>1, <4>1, <4>2 DEF CallStateOf
        <3>7. CASE Created(t) \/ CloseHandle(t) \/ UninitializedIndex(t)
                   \/ (\E h \in Handles, q \in Processes, b \in BOOLEAN : NtDuplicateObject(t, h, q, b))
            <4>1. pc'[t] = "idle"
                BY <3>0, <3>7, ZenonT(60) DEF Created, CloseHandle, UninitializedIndex, NtDuplicateObject, Request, Returns, clientVars
            <4> QED  BY <3>2, <4>1
        <3>8. CASE \E b \in BOOLEAN : create_fsync(t, b)
            <4>1. PICK b \in BOOLEAN : create_fsync(t, b)
                BY <3>8
            <4> DEFINE h == alloc_handle(Owner[t])
            <4>2. h \in Handles
                BY <3>0, <4>1, AllocHandle DEF create_fsync
            <4>3. pc'[t] = "idle" \/ (pc'[t] = "created" /\ call'[t].h = h)
                <5> DEFINE o == CHOOSE new \in Objects : idx[new] = 0
                <5>1. \/ pc' = pc /\ pc[t] = "idle"
                      \/ /\ call' = [call EXCEPT ![t] = [NoCall EXCEPT !.h = h, !.i = idx'[o]]]
                         /\ pc' = [pc EXCEPT ![t] = "created"]
                    BY <4>1 DEF create_fsync, Request
                <5> DEFINE c == [NoCall EXCEPT !.h = h, !.i = idx'[o]]
                <5>2. c.h = h
                    BY DEF NoCall
                <5> HIDE DEF h, c
                <5> QED  BY <3>0, <5>1, <5>2 DEF c
            <4> QED  BY <3>1, <4>2, <4>3
        <3>9. CASE \E o \in Objects : open_fsync(t, o)
            <4>1. PICK o \in Objects : open_fsync(t, o)
                BY <3>9
            <4> DEFINE h == alloc_handle(Owner[t])
            <4>2. h \in Handles
                BY <3>0, <4>1, AllocHandle DEF open_fsync
            <4>3. pc'[t] = "created" /\ call'[t].h = h
                BY <3>0, <4>1 DEF open_fsync, Request, NoCall
            <4> QED  BY <3>1, <4>2, <4>3
        <3>10. CASE \E h \in Handles : NtClose(t, h)
            <4>1. PICK h \in Handles : NtClose(t, h)
                BY <3>10
            <4>2. pc'[t] = "closing" /\ call'[t].h = h /\ lock'[Owner[t]] = t
                BY <3>0, <4>1 DEF NtClose, Request, Calls
            <4> QED  BY <3>1, <4>2
        <3>11. CASE \E h \in Handles, wait \in BOOLEAN : Call(t, h, wait)
            <4>1. PICK h \in Handles, wait \in BOOLEAN : Call(t, h, wait)
                BY <3>11
            <4>2. pc'[t] = "load" /\ call'[t].h = h
                BY <3>0, <4>1 DEF Call, NoCall
            <4> QED  BY <3>1, <4>2
        <3> QED  BY <1>3, <3>2, <3>3, <3>4, <3>5, <3>6, <3>7, <3>8, <3>9, <3>10, <3>11 DEF ThreadStep, Step
    <2> QED  BY <1>2, <2>2, <2>3
<1>4. ASSUME NEW p \in Processes, process_killed(p) PROVE CallState'
    <2>1. ASSUME NEW u \in Threads PROVE CallStateOf(u)'
        <3>1. /\ CallStateOf(u) /\ lock' = lock /\ Owner[u] \in Processes
              /\ process' = [process EXCEPT ![p] = "killed"]
              /\ pc'[u] = IF Owner[u] = p THEN "dead" ELSE pc[u]
              /\ call'[u] = IF Owner[u] = p THEN NoCall ELSE call[u]
              /\ process \in [Processes -> {"running", "killed", "gone"}]
            BY <1>4 DEF process_killed, CallState, CallStateOf, TypeOK
        <3>2. CASE Owner[u] = p
            BY <3>1, <3>2 DEF CallStateOf, InCall, HasIndex, Holding, Living
        <3>3. CASE Owner[u] # p
            BY <3>1, <3>3 DEF CallStateOf, InCall, HasIndex, Holding, Living
        <3> QED  BY <3>2, <3>3
    <2> QED  BY <1>2, <2>1
<1>5. ASSUME NEW p \in Processes, process_destroy(p) PROVE CallState'
    <2>1. ASSUME NEW u \in Threads PROVE CallStateOf(u)'
        <3>1. /\ CallStateOf(u) /\ UNCHANGED <<lock, pc, call>> /\ Owner[u] \in Processes
              /\ process' = [process EXCEPT ![p] = "gone"] /\ process[p] = "killed"
              /\ process \in [Processes -> {"running", "killed", "gone"}]
            BY <1>5 DEF process_destroy, CallState, CallStateOf, TypeOK, clientVars
        <3> QED  BY <3>1 DEF CallStateOf, InCall, HasIndex, Holding, Living
    <2> QED  BY <1>2, <2>1
<1> QED  BY <1>3, <1>4, <1>5, NextCases

-----------------------------------------------------------------------------
(* The cache *)

\* If handles are not moved to other processes, a handle whose cache entry is
\* not empty, or that a thread has just got, asked about or is closing, is
\* closed by that thread only, or when its process is killed.
LEMMA CachedStays ==
    ASSUME TypeOK, CallState, HintNotPast, ~Moves, CacheState, Next,
           NEW p \in Processes, NEW h \in Handles, cache[p][h] # 0, Living(p), Living(p)'
    PROVE  /\ handle[p][h] # None /\ idx[handle[p][h]] = cache[p][h]
           /\ handle'[p][h] = handle[p][h] /\ idx'[handle[p][h]] = idx[handle[p][h]]
<1>1. handle[p][h] # None /\ idx[handle[p][h]] = cache[p][h]
    BY DEF CacheState, CacheIsTrue
<1>2. ASSUME Closes(p, h) PROVE FALSE
    <2>1. CASE \E t \in Threads : CloseHandle(t) /\ Owner[t] = p /\ call[t].h = h
        BY <2>1 DEF CloseHandle, At, CacheState
    <2>2. CASE \E t \in Threads, q \in Processes : NtDuplicateObject(t, h, q, TRUE) /\ Owner[t] = p
        BY <2>2 DEF NtDuplicateObject, Request, Moves
    <2>3. CASE process_killed(p)
        BY <2>3 DEF process_killed, Living, TypeOK
    <2> QED  BY <1>2, <2>1, <2>2, <2>3 DEF Closes
<1> QED  BY <1>1, <1>2, HandleStep

LEMMA WorkedOnStays ==
    ASSUME TypeOK, CallState, HintNotPast, ~Moves, CacheState, Next,
           NEW t \in Threads, pc[t] \in {"created", "add", "closing"}, ~CloseHandle(t), Living(Owner[t])'
    PROVE  /\ Object(t) # None
           /\ handle'[Owner[t]][call[t].h] = Object(t) /\ idx'[Object(t)] = idx[Object(t)]
<1>0. Owner[t] \in Processes /\ call[t].h \in Handles /\ Object(t) # None
    BY DEF CallState, CacheState, InCall
<1>1. ASSUME NEW u \in Threads, CloseHandle(u), Owner[u] = Owner[t], call[u].h = call[t].h PROVE FALSE
    <2>1. pc[u] = "closing" /\ u # t
        BY <1>1 DEF CloseHandle, At
    <2>2. CASE pc[t] = "add"
        BY <1>1, <2>1, <2>2 DEF CallState
    <2>3. CASE pc[t] \in {"created", "closing"}
        <3>1. {pc[t], pc[u]} \subseteq {"created", "closing"}
            BY <2>1, <2>3
        <3> QED  BY <1>1, <2>1, <3>1 DEF CacheState
    <2> QED  BY <2>2, <2>3
<1>2. ASSUME NEW q \in Processes, NEW u \in Threads, NtDuplicateObject(u, call[t].h, q, TRUE) PROVE FALSE
    BY <1>2 DEF NtDuplicateObject, Request, Moves
<1>3. ~process_killed(Owner[t])
    BY <1>0 DEF process_killed, Living, TypeOK
<1>4. ~Closes(Owner[t], call[t].h)
    BY <1>1, <1>2, <1>3 DEF Closes
<1> QED  BY <1>0, <1>4, HandleStep DEF Object

\* Which steps write the cache, and which come to a handle.
LEMMA CacheWrites ==
    ASSUME TypeOK, NEW t \in Threads, ThreadStep(t)
    PROVE  /\ \/ UNCHANGED cache
              \/ /\ Created(t) \/ add_to_list(t)
                 /\ cache' = [cache EXCEPT ![Owner[t]][call[t].h] = call[t].i]
              \/ \E h \in Handles : NtClose(t, h)
           /\ pc'[t] = "created" => (\E b \in BOOLEAN : create_fsync(t, b)) \/ (\E o \in Objects : open_fsync(t, o))
           /\ pc'[t] = "add" => get_fsync_idx(t)
           /\ pc'[t] = "closing" => \E h \in Handles : NtClose(t, h)
<1> USE DEF At, Goes, Returns
<1>0. pc \in [Threads -> Places]
    BY DEF TypeOK
<1>1. CASE Created(t) \/ add_to_list(t)
    BY <1>0, <1>1 DEF Created, add_to_list
<1>2. CASE Load(t) \/ grab_object(t) \/ CheckRef(t) \/ CheckCache(t) \/ Enter(t)
    BY <1>0, <1>2, SMTT(60) DEF Load, grab_object, CheckRef, CheckCache, Enter, Undo
<1>3. CASE get_fsync_idx(t) \/ CloseHandle(t)
    BY <1>0, <1>3, Zenon DEF get_fsync_idx, CloseHandle
<1>4. CASE Use(t) \/ put_object_from_wait(t) \/ put_object(t) \/ Drop(t) \/ FreeRequest(t)
    BY <1>0, <1>4 DEF Use, put_object_from_wait, put_object, Drop, FreeRequest, Dropped
<1>5. CASE UninitializedIndex(t) \/ (\E h \in Handles, q \in Processes, b \in BOOLEAN : NtDuplicateObject(t, h, q, b))
    <2>1. UNCHANGED <<cache, pc>> /\ pc[t] = "idle"
        BY <1>5 DEF UninitializedIndex, NtDuplicateObject, Request, clientVars
    <2> QED  BY <2>1
<1>6. CASE \/ (\E b \in BOOLEAN : create_fsync(t, b)) \/ (\E o \in Objects : open_fsync(t, o))
    <2>1. UNCHANGED cache /\ pc'[t] \in {"created", "idle"}
        BY <1>0, <1>6 DEF create_fsync, open_fsync, Request
    <2> QED  BY <1>6, <2>1
<1>7. CASE \E h \in Handles : NtClose(t, h)
    BY <1>0, <1>7 DEF NtClose
<1>8. CASE \E h \in Handles, wait \in BOOLEAN : Call(t, h, wait)
    BY <1>0, <1>8 DEF Call
<1> QED  BY <1>1, <1>2, <1>3, <1>4, <1>5, <1>6, <1>7, <1>8 DEF ThreadStep, Step

\* A thread that has created or opened an object has a new handle and its
\* index.
LEMMA NewHandle ==
    ASSUME TypeOK, NEW t \in Threads, ThreadStep(t), pc'[t] = "created"
    PROVE  /\ handle[Owner[t]][call'[t].h] = None
           /\ handle'[Owner[t]][call'[t].h] # None /\ idx'[handle'[Owner[t]][call'[t].h]] = call'[t].i
<1>0. /\ pc \in [Threads -> Places] /\ call \in [Threads -> Calls] /\ Owner[t] \in Processes
      /\ handle \in [Processes -> [Handles -> Objects \cup {None}]]
    BY DEF TypeOK
<1> DEFINE g == alloc_handle(Owner[t])
<1>1. CASE \E b \in BOOLEAN : create_fsync(t, b)
    <2> DEFINE o == CHOOSE new \in Objects : idx[new] = 0
    <2>1. PICK b \in BOOLEAN : create_fsync(t, b)
        BY <1>1
    <2>2. g \in Handles /\ handle[Owner[t]][g] = None /\ o \in Objects
        BY <1>0, <2>1, AllocHandle DEF create_fsync
    <2>3. /\ handle' = [handle EXCEPT ![Owner[t]][g] = o]
          /\ call' = [call EXCEPT ![t] = [NoCall EXCEPT !.h = g, !.i = idx'[o]]]
        BY <1>0, <2>1 DEF create_fsync, Request, At
    <2> DEFINE c == [NoCall EXCEPT !.h = g, !.i = idx'[o]]
    <2>4. c.h = g /\ c.i = idx'[o] /\ call'[t] = c
        BY <1>0, <2>3 DEF NoCall
    <2> HIDE DEF g, o, c
    <2>5. handle'[Owner[t]][g] = o
        BY <1>0, <2>2, <2>3
    <2> QED  BY <2>2, <2>4, <2>5
<1>2. CASE \E o \in Objects : open_fsync(t, o)
    <2>1. PICK o \in Objects : open_fsync(t, o)
        BY <1>2
    <2>2. g \in Handles /\ handle[Owner[t]][g] = None
        BY <1>0, <2>1, AllocHandle DEF open_fsync
    <2>3. /\ handle' = [handle EXCEPT ![Owner[t]][g] = o] /\ idx' = idx
          /\ call' = [call EXCEPT ![t] = [NoCall EXCEPT !.h = g, !.i = idx[o]]]
        BY <2>1 DEF open_fsync
    <2> DEFINE c == [NoCall EXCEPT !.h = g, !.i = idx[o]]
    <2>4. c.h = g /\ c.i = idx[o] /\ call'[t] = c
        BY <1>0, <2>3 DEF NoCall
    <2> HIDE DEF g, c
    <2>5. handle'[Owner[t]][g] = o
        BY <1>0, <2>2, <2>3
    <2> QED  BY <2>2, <2>3, <2>4, <2>5
<1> QED  BY <1>1, <1>2, CacheWrites

\* The part of CacheState about one thread, and about two.
CacheStateOf(t) ==
    /\ pc[t] \in {"created", "add", "closing"} => Object(t) # None
    /\ pc[t] \in {"created", "add"} => idx[Object(t)] = call[t].i
    /\ pc[t] = "closing" => cache[Owner[t]][call[t].h] = 0
Apart(t, u) ==
    t # u /\ {pc[t], pc[u]} \subseteq {"created", "closing"} /\ Owner[t] = Owner[u] => call[t].h # call[u].h

LEMMA CacheStep ==
    ASSUME TypeOK, CallState, HintNotPast, ~Moves, CacheState, Next
    PROVE  CacheState'
<1>0. /\ TypeOK' /\ CallState'
      /\ cache \in [Processes -> [Handles -> Indices \cup {0}]] /\ pc \in [Threads -> Places]
      /\ call \in [Threads -> Calls] /\ handle \in [Processes -> [Handles -> Objects \cup {None}]]
    <2>1. TypeOK' /\ CallState'
        BY TypeStep, CallStep
    <2>2. /\ cache \in [Processes -> [Handles -> Indices \cup {0}]] /\ pc \in [Threads -> Places]
          /\ call \in [Threads -> Calls] /\ handle \in [Processes -> [Handles -> Objects \cup {None}]]
        BY DEF TypeOK
    <2> QED  BY <2>1, <2>2
<1>1. \A u \in Threads : CacheStateOf(u)
    BY DEF CacheState, CacheStateOf
<1>2. \A u, v \in Threads : Apart(u, v)
    BY DEF CacheState, Apart
<1>3. ASSUME CacheIsTrue', \A u \in Threads : CacheStateOf(u)', \A u, v \in Threads : Apart(u, v)'
      PROVE  CacheState'
    BY <1>3 DEF CacheState, CacheStateOf, Apart
<1>4. ASSUME NEW p \in Processes, process_killed(p) PROVE CacheState'
    <2>1. /\ UNCHANGED cache /\ process' = [process EXCEPT ![p] = "killed"]
          /\ \A u \in Threads : Owner[u] # p => pc'[u] = pc[u] /\ call'[u] = call[u]
          /\ \A u \in Threads : Owner[u] = p => pc'[u] = "dead"
        BY <1>4 DEF process_killed
    <2>2. \A q \in Processes : Living(q)' => Living(q)
        BY <2>1 DEF Living, TypeOK
    <2>3. CacheIsTrue'
        <3> SUFFICES ASSUME NEW q \in Processes, NEW h \in Handles, cache'[q][h] # 0, Living(q)'
                     PROVE  handle'[q][h] # None /\ idx'[handle'[q][h]] = cache'[q][h]
            BY DEF CacheIsTrue, Living
        <3>1. cache[q][h] # 0 /\ cache'[q][h] = cache[q][h] /\ Living(q)
            BY <2>1, <2>2
        <3>2. /\ handle[q][h] # None /\ idx[handle[q][h]] = cache[q][h]
              /\ handle'[q][h] = handle[q][h] /\ idx'[handle[q][h]] = idx[handle[q][h]]
            BY <3>1, CachedStays
        <3> QED  BY <3>1, <3>2
    <2>4. ASSUME NEW u \in Threads PROVE CacheStateOf(u)'
        <3>1. CASE Owner[u] = p
            BY <2>1, <3>1 DEF CacheStateOf
        <3>2. CASE pc'[u] \in {"created", "add", "closing"} /\ Owner[u] # p
            <4>1. pc'[u] = pc[u] /\ call'[u] = call[u] /\ Living(Owner[u])'
                BY <1>0, <2>1, <3>2 DEF CallState
            <4>2. ~CloseHandle(u)
                BY <1>0, <3>2, <4>1 DEF CloseHandle, Returns, Goes
            <4>3. Object(u) # None /\ handle'[Owner[u]][call[u].h] = Object(u) /\ idx'[Object(u)] = idx[Object(u)]
                BY <3>2, <4>1, <4>2, WorkedOnStays
            <4> QED  BY <1>1, <2>1, <4>1, <4>3 DEF CacheStateOf, Object
        <3> QED  BY <3>1, <3>2 DEF CacheStateOf
    <2>5. \A u, v \in Threads : Apart(u, v)'
        BY <1>2, <2>1 DEF Apart
    <2> QED  BY <1>3, <2>3, <2>4, <2>5
<1>5. ASSUME NEW p \in Processes, process_destroy(p) PROVE CacheState'
    <2>1. /\ UNCHANGED <<cache, pc, call, idx, handle>>
          /\ process' = [process EXCEPT ![p] = "gone"]
        BY <1>5 DEF process_destroy, clientVars
    <2>2. \A q \in Processes : Living(q)' => Living(q)
        BY <2>1 DEF Living, TypeOK
    <2>3. CacheIsTrue'
        BY <2>1, <2>2 DEF CacheState, CacheIsTrue
    <2> QED  BY <1>1, <1>2, <1>3, <2>1, <2>3 DEF CacheStateOf, Apart, Object
<1>6. ASSUME NEW t \in Threads, ThreadStep(t) PROVE CacheState'
    <2>0. /\ UNCHANGED process /\ Owner[t] \in Processes
          /\ \A u \in Threads \ {t} : pc'[u] = pc[u] /\ call'[u] = call[u]
        BY <1>6, OthersStep
    <2>1. \A q \in Processes : Living(q)' <=> Living(q)
        BY <2>0 DEF Living
    <2>2. ASSUME Created(t) \/ add_to_list(t)
          PROVE  /\ Object(t) # None /\ idx[Object(t)] = call[t].i /\ call[t].h \in Handles
                 /\ pc[t] \in {"created", "add"}
                 /\ handle' = handle /\ idx' = idx /\ pc'[t] \in {"idle", "held"}
        BY <1>0, <1>1, <2>2 DEF Created, add_to_list, At, CacheStateOf, serverVars, Returns, Goes, CallState, InCall
    <2>3. ASSUME NEW h \in Handles, NtClose(t, h)
          PROVE  /\ h \in Known(Owner[t]) /\ handle[Owner[t]][h] # None /\ pc'[t] = "closing" /\ call'[t].h = h
                 /\ cache' = [cache EXCEPT ![Owner[t]][h] = 0] /\ lock[Owner[t]] = None
                 /\ handle' = handle
        BY <1>0, <2>3 DEF NtClose, Request, At, MayClose, Known, Open, fsync_close, Goes, serverVars, Calls
    <2>4. CacheIsTrue'
        <3> SUFFICES ASSUME NEW q \in Processes, NEW h \in Handles, cache'[q][h] # 0, Living(q)'
                     PROVE  handle'[q][h] # None /\ idx'[handle'[q][h]] = cache'[q][h]
            BY DEF CacheIsTrue, Living
        <3>1. CASE cache'[q][h] = cache[q][h]
            BY <2>1, <3>1, CachedStays
        <3>2. CASE cache'[q][h] # cache[q][h]
            <4>1. CASE \E g \in Handles : NtClose(t, g)
                <5>1. PICK g \in Handles : NtClose(t, g)
                    BY <4>1
                <5>2. cache'[q][h] \in {0, cache[q][h]}
                    BY <1>0, <2>0, <2>3, <5>1, SMTT(60)
                <5> QED  BY <3>2, <5>2
            <4>2. CASE (Created(t) \/ add_to_list(t)) /\ cache' = [cache EXCEPT ![Owner[t]][call[t].h] = call[t].i]
                <5>1. q = Owner[t] /\ h = call[t].h /\ cache'[q][h] = call[t].i
                    BY <1>0, <2>0, <2>2, <3>2, <4>2
                <5> QED  BY <2>2, <4>2, <5>1 DEF Object
            <4> QED  BY <1>6, <3>2, <4>1, <4>2, CacheWrites
        <3> QED  BY <3>1, <3>2
    <2>5. ASSUME NEW u \in Threads \ {t} PROVE CacheStateOf(u)'
        <3>1. CASE pc[u] \notin {"created", "add", "closing"}
            BY <2>0, <3>1 DEF CacheStateOf
        <3>2. CASE pc[u] \in {"created", "add", "closing"}
            <4>1. pc'[u] = pc[u] /\ call'[u] = call[u] /\ Living(Owner[u])' /\ call[u].h \in Handles /\ Owner[u] \in Processes
                BY <1>0, <2>0, <3>2 DEF CallState, InCall
            <4>2. ~CloseHandle(u)
                BY <1>0, <3>2, <4>1 DEF CloseHandle, Returns, Goes
            <4>3. Object(u) # None /\ handle'[Owner[u]][call[u].h] = Object(u) /\ idx'[Object(u)] = idx[Object(u)]
                BY <3>2, <4>1, <4>2, WorkedOnStays
            <4>4. ASSUME pc[u] = "closing" PROVE cache'[Owner[u]][call[u].h] = 0
                <5>1. cache[Owner[u]][call[u].h] = 0 /\ lock[Owner[u]] = u
                    BY <1>1, <4>4 DEF CacheStateOf, CallState
                <5>2. CASE \E g \in Handles : NtClose(t, g)
                    <6>1. PICK g \in Handles : NtClose(t, g)
                        BY <5>2
                    <6> QED  BY <1>0, <2>0, <2>3, <4>1, <5>1, <6>1
                <5>3. CASE (Created(t) \/ add_to_list(t)) /\ cache' = [cache EXCEPT ![Owner[t]][call[t].h] = call[t].i]
                    <6>1. Owner[t] # Owner[u] \/ call[t].h # call[u].h
                        <7>1. CASE Created(t)
                            <8>1. {pc[u], pc[t]} \subseteq {"created", "closing"}
                                BY <4>4, <7>1 DEF Created, At
                            <8> QED  BY <1>2, <8>1 DEF Apart
                        <7>2. CASE add_to_list(t)
                            <8>1. lock[Owner[t]] = t
                                BY <7>2 DEF add_to_list, At, CallState
                            <8> QED  BY <5>1, <8>1
                        <7> QED  BY <5>3, <7>1, <7>2
                    <6> QED  BY <1>0, <2>0, <2>2, <4>1, <5>1, <5>3, <6>1
                <5> QED  BY <1>6, <5>1, <5>2, <5>3, CacheWrites
            <4> QED  BY <1>1, <4>1, <4>3, <4>4 DEF CacheStateOf, Object
        <3> QED  BY <3>1, <3>2
    <2>6. ASSUME pc'[t] = "created"
          PROVE  /\ handle[Owner[t]][call'[t].h] = None
                 /\ handle'[Owner[t]][call'[t].h] # None /\ idx'[handle'[Owner[t]][call'[t].h]] = call'[t].i
        BY <1>6, <2>6, NewHandle
    <2>7. ASSUME pc'[t] = "add"
          PROVE  handle'[Owner[t]][call'[t].h] # None /\ idx'[handle'[Owner[t]][call'[t].h]] = call'[t].i
        <3> DEFINE o == handle[Owner[t]][call[t].h]
        <3>1. get_fsync_idx(t)
            BY <1>6, <2>7, CacheWrites, SMTT(60)
        <3>2. o # None /\ call' = [call EXCEPT ![t].i = idx[o]] /\ handle' = handle /\ idx' = idx
            BY <1>0, <2>7, <3>1 DEF get_fsync_idx, Returns, Goes, serverVars
        <3>3. call'[t].h = call[t].h /\ call'[t].i = idx[o]
            BY <1>0, <3>2 DEF Calls
        <3> QED  BY <3>2, <3>3
    <2>8. ASSUME pc'[t] = "closing"
          PROVE  handle'[Owner[t]][call'[t].h] # None /\ cache'[Owner[t]][call'[t].h] = 0
        <3>1. PICK h \in Handles : NtClose(t, h)
            BY <1>6, <2>8, CacheWrites
        <3> QED  BY <1>0, <2>0, <2>3, <3>1
    <2>9. CacheStateOf(t)'
        BY <2>6, <2>7, <2>8 DEF CacheStateOf, Object
    <2>10. ASSUME NEW u \in Threads \ {t}, pc'[t] \in {"created", "closing"}, pc'[u] \in {"created", "closing"},
                  Owner[t] = Owner[u]
           PROVE  call'[t].h # call'[u].h
        <3>0. pc[u] = pc'[u] /\ call'[u] = call[u] /\ handle[Owner[u]][call[u].h] # None
            BY <1>1, <2>0, <2>10 DEF CacheStateOf, Object
        <3>1. CASE pc'[t] = "created"
            BY <2>6, <2>10, <3>0, <3>1
        <3>2. CASE pc'[t] = "closing"
            <4>1. PICK h \in Handles : NtClose(t, h)
                BY <1>6, <3>2, CacheWrites
            <4> QED  BY <2>3, <2>10, <3>0, <4>1 DEF Known
        <3> QED  BY <2>10, <3>1, <3>2
    <2>11. \A u, v \in Threads : Apart(u, v)'
        <3> SUFFICES ASSUME NEW u \in Threads, NEW v \in Threads, u # v, Owner[u] = Owner[v],
                            pc'[u] \in {"created", "closing"}, pc'[v] \in {"created", "closing"}
                     PROVE  call'[u].h # call'[v].h
            BY DEF Apart
        <3>1. CASE u # t /\ v # t
            BY <1>2, <2>0, <3>1 DEF Apart
        <3>2. CASE u = t
            BY <2>10, <3>2
        <3>3. CASE v = t
            BY <2>10, <3>3
        <3> QED  BY <3>1, <3>2, <3>3
    <2>12. \A u \in Threads : CacheStateOf(u)'
        BY <2>5, <2>9
    <2> QED  BY <1>3, <2>4, <2>11, <2>12
<1> QED  BY <1>4, <1>5, <1>6, NextCases

-----------------------------------------------------------------------------
(* The calls of a program that closes no handle in use *)

\* The handle of a call stays open.
LEMMA UsedStays ==
    ASSUME TypeOK, CallState, HintNotPast, ~Moves, UseState, Next,
           NEW t \in Threads, InCall(t), ~CloseHandle(t), Living(Owner[t])'
    PROVE  /\ Object(t) # None /\ call[t].h \in Handles
           /\ handle'[Owner[t]][call[t].h] = Object(t) /\ idx'[Object(t)] = idx[Object(t)]
<1>0. Owner[t] \in Processes /\ call[t].h \in Handles /\ Object(t) # None
    BY DEF CallState, UseState
<1>1. ASSUME NEW u \in Threads, CloseHandle(u), Owner[u] = Owner[t], call[u].h = call[t].h PROVE FALSE
    <2>1. pc[u] = "closing" /\ u # t
        BY <1>1 DEF CloseHandle, At
    <2> QED  BY <1>1, <2>1 DEF UseState
<1>2. ASSUME NEW q \in Processes, NEW u \in Threads, NtDuplicateObject(u, call[t].h, q, TRUE) PROVE FALSE
    BY <1>2 DEF NtDuplicateObject, Request, Moves
<1>3. ~process_killed(Owner[t])
    BY <1>0 DEF process_killed, Living, TypeOK
<1>4. ~Closes(Owner[t], call[t].h)
    BY <1>1, <1>2, <1>3 DEF Closes
<1> QED  BY <1>0, <1>4, HandleStep DEF Object

\* What a step of t does to its own place and call.
LEMMA OwnStep ==
    ASSUME TypeOK, CallState, NEW t \in Threads, ThreadStep(t)
    PROVE  \/ pc'[t] = "idle"
           \/ pc'[t] = "created"
           \/ \E h \in Handles : NtClose(t, h)
           \/ \E h \in Handles : h \in Known(Owner[t]) /\ call'[t].h = h /\ pc'[t] = "load"
           \/ Load(t) /\ call'[t].h = call[t].h
           \/ get_fsync_idx(t) /\ Object(t) # None /\ pc'[t] = "add"
                /\ call'[t].h = call[t].h /\ call'[t].i = idx[Object(t)]
           \/ /\ HasIndex(t) /\ call'[t].h = call[t].h /\ call'[t].i = call[t].i
              /\ HasIndex(t)' \/ pc'[t] = "load"
              /\ pc'[t] = "free" => put_object(t)
           \/ Enter(t) /\ call' = call /\ pc'[t] = "load"
<1> USE DEF At, Goes, HasIndex, Holding
<1>0. /\ pc \in [Threads -> Places] /\ call \in [Threads -> Calls] /\ call[t] \in Calls
    BY DEF TypeOK
<1>1. CASE Created(t) \/ CloseHandle(t) \/ UninitializedIndex(t)
           \/ (\E h \in Handles, q \in Processes, b \in BOOLEAN : NtDuplicateObject(t, h, q, b))
    BY <1>0, <1>1 DEF Created, CloseHandle, UninitializedIndex, NtDuplicateObject, Request, Returns, clientVars
<1>2. CASE (\E b \in BOOLEAN : create_fsync(t, b)) \/ (\E o \in Objects : open_fsync(t, o))
    <2>1. pc'[t] \in {"created", "idle"}
        BY <1>0, <1>2 DEF create_fsync, open_fsync, Request
    <2> QED  BY <2>1
<1>3. CASE \E h \in Handles, wait \in BOOLEAN : Call(t, h, wait)
    BY <1>0, <1>3 DEF Call, NoCall
<1>4. CASE Load(t)
    BY <1>0, <1>4 DEF Load, Calls
<1>5. CASE get_fsync_idx(t)
    <2>1. \/ pc' = [pc EXCEPT ![t] = "idle"]
          \/ /\ Object(t) # None /\ pc' = [pc EXCEPT ![t] = "add"]
             /\ call' = [call EXCEPT ![t].i = idx[Object(t)]]
        BY <1>5 DEF get_fsync_idx, Returns, Object
    <2>2. ASSUME call' = [call EXCEPT ![t].i = idx[Object(t)]]
          PROVE  call'[t].h = call[t].h /\ call'[t].i = idx[Object(t)]
        BY <1>0, <2>2 DEF Calls
    <2> QED  BY <1>0, <1>5, <2>1, <2>2, SMTT(60)
<1>6. CASE grab_object(t) \/ CheckRef(t) \/ CheckCache(t)
    BY <1>0, <1>6 DEF grab_object, CheckRef, CheckCache, Undo, Calls
<1>7. CASE add_to_list(t) \/ Use(t) \/ put_object_from_wait(t) \/ put_object(t)
    BY <1>0, <1>7 DEF add_to_list, Use, put_object_from_wait, put_object
<1>8. CASE Drop(t) \/ FreeRequest(t)
    BY <1>0, <1>8 DEF Drop, FreeRequest, Dropped, Returns, Calls
<1>9. CASE Enter(t)
    BY <1>0, <1>9 DEF Enter
<1> QED  BY <1>1, <1>2, <1>3, <1>4, <1>5, <1>6, <1>7, <1>8, <1>9 DEF ThreadStep, Step

\* The references to an index are counted by natural numbers.
LEMMA HoldersFinite ==
    ASSUME NEW i
    PROVE  /\ Holders(i) \in SUBSET Threads /\ Cardinality(Holders(i)) \in Nat
           /\ Cardinality(Holders(i)) = 0 <=> Holders(i) = {}
<1>1. Holders(i) \in SUBSET Threads
    BY DEF Holders
<1> QED  BY <1>1, FS_Subset, FS_CardinalityType, FS_EmptySet

\* A thread that has a reference is not the only one to have one: the object
\* has the other.
LEMMA HeldTwice ==
    ASSUME TypeOK, CallState, UseState, CountState, NEW t \in Threads, Holding(t)
    PROVE  call[t].i \in Indices /\ HasObject(call[t].i) /\ ref[call[t].i] >= 2
<1> DEFINE i == call[t].i
<1>1. i \in Indices /\ InCall(t) /\ HasIndex(t) /\ ref[i] \in Int
    BY DEF CallState, HasIndex, InCall, Holding, TypeOK
<1>2. Object(t) # None /\ idx[Object(t)] = i /\ Owner[t] \in Processes /\ call[t].h \in Handles
    BY <1>1 DEF UseState, CallState
<1>3. handle[Owner[t]] \in [Handles -> Objects \cup {None}]
    BY <1>2 DEF TypeOK
<1>4. HasObject(i)
    BY <1>2, <1>3 DEF HasObject, Object
<1>5. t \in Holders(i)
    BY DEF Holders
<1>6. ref[i] >= References(i)
    BY <1>1 DEF CountState, CountOf
<1> HIDE DEF i
<1>7. Cardinality(Holders(i)) \in Nat \ {0}
    BY <1>5, HoldersFinite
<1>8. References(i) >= 2 /\ References(i) \in Nat
    BY <1>4, <1>7 DEF References
<1> QED  BY <1>1, <1>4, <1>6, <1>8 DEF i

\* The part of UseState about one thread, and about two.
UseStateOf(t) ==
    /\ InCall(t) => Object(t) # None /\ pc[t] # "free"
    /\ HasIndex(t) => idx[Object(t)] = call[t].i
Alone(t, u) ==
    t # u /\ pc[t] = "closing" /\ InCall(u) /\ Owner[t] = Owner[u] => call[t].h # call[u].h

LEMMA NotAborted ==
    ASSUME TypeOK, ~aborted, CountState, NEW S \in SUBSET Indices, fsync_free_shm_idx(S)
    PROVE  ~aborted'
<1> DEFINE dropped == {i \in S : ref[i] > 0}
           freed == {i \in dropped : ref[i] = 1}
<1>1. freed \cap free = {}
    BY DEF CountState, CountOf
<1> QED  BY <1>1 DEF fsync_free_shm_idx

LEMMA UseStep ==
    ASSUME TypeOK, CallState, HintNotPast, ~Moves, ~program.closes_in_use,
           CacheState, UseState, CountState, Next
    PROVE  UseState'
<1>0. TypeOK' /\ CallState'
    BY TypeStep, CallStep
<1>1. \A u \in Threads : UseStateOf(u)
    BY DEF UseState, UseStateOf
<1>2. \A u, v \in Threads : Alone(u, v)
    BY DEF UseState, Alone
<1>3. ASSUME ~aborted', \A u \in Threads : UseStateOf(u)', \A u, v \in Threads : Alone(u, v)'
      PROVE  UseState'
    BY <1>3 DEF UseState, UseStateOf, Alone
<1>4. ASSUME NEW u \in Threads, pc'[u] = pc[u], call'[u] = call[u], InCall(u) PROVE UseStateOf(u)'
    <2>1. ~CloseHandle(u)
        BY <1>4 DEF CloseHandle, Returns, Goes, InCall, TypeOK, At
    <2>2. Living(Owner[u])'
        BY <1>0, <1>4 DEF CallState, InCall
    <2>3. /\ Object(u) # None /\ handle'[Owner[u]][call[u].h] = Object(u) /\ idx'[Object(u)] = idx[Object(u)]
        BY <1>4, <2>1, <2>2, UsedStays
    <2> QED  BY <1>1, <1>4, <2>3 DEF UseStateOf, InCall, HasIndex, Holding, Object
<1>5. ~aborted'
    <2>0. ~aborted
        BY DEF UseState
    <2>1. ASSUME NEW closed, close_handles(closed) PROVE ~aborted'
        <3>1. {idx[o] : o \in Destroyed(closed)} \in SUBSET Indices
            BY DEF Destroyed, TypeOK
        <3>2. fsync_free_shm_idx({idx[o] : o \in Destroyed(closed)})
            BY <2>1 DEF close_handles
        <3> QED  BY <2>0, <3>1, <3>2, NotAborted
    <2>2. ASSUME NEW t \in Threads, FreeRequest(t) PROVE ~aborted'
        BY <1>1, <2>2 DEF FreeRequest, At, UseStateOf, InCall
    <2>3. ASSUME NEW p \in Processes, process_destroy(p) PROVE ~aborted'
        <3> DEFINE S == {i \in Indices \ free : last[i] = p /\ ref[i] = 1}
        <3>1. fsync_free_shm_idx(S) /\ S \in SUBSET Indices
            BY <2>3 DEF process_destroy, fsync_cleanup_process_shm_indices
        <3> QED  BY <2>0, <3>1, NotAborted
    <2>4. ASSUME NEW t \in Threads, CloseHandle(t) PROVE ~aborted'
        BY <2>1, <2>4 DEF CloseHandle
    <2>5. ASSUME NEW p \in Processes, process_killed(p) PROVE ~aborted'
        BY <2>1, <2>5 DEF process_killed
    <2>6. ASSUME NEW t \in Threads, ThreadStep(t), ~CloseHandle(t), ~FreeRequest(t) PROVE UNCHANGED aborted
        <3>1. CASE \/ Created(t) \/ Load(t) \/ grab_object(t) \/ CheckRef(t) \/ CheckCache(t) \/ Enter(t)
                   \/ get_fsync_idx(t) \/ add_to_list(t) \/ Use(t) \/ put_object_from_wait(t) \/ put_object(t)
                   \/ Drop(t) \/ (\E h \in Handles : NtClose(t, h))
                   \/ (\E h \in Handles, wait \in BOOLEAN : Call(t, h, wait))
            BY <3>1, ClientType DEF serverVars
        <3>2. CASE \/ UninitializedIndex(t) \/ (\E b \in BOOLEAN : create_fsync(t, b))
                   \/ (\E o \in Objects : open_fsync(t, o))
                   \/ (\E h \in Handles, q \in Processes, b \in BOOLEAN : NtDuplicateObject(t, h, q, b))
            BY <3>2 DEF UninitializedIndex, create_fsync, open_fsync, NtDuplicateObject
        <3> QED  BY <2>6, <3>1, <3>2 DEF ThreadStep, Step
    <2> QED  BY <2>0, <2>2, <2>3, <2>4, <2>5, <2>6, NextCases
<1>6. ASSUME NEW p \in Processes, process_killed(p) PROVE UseState'
    <2>1. /\ \A u \in Threads : Owner[u] # p => pc'[u] = pc[u] /\ call'[u] = call[u]
          /\ \A u \in Threads : Owner[u] = p => pc'[u] = "dead"
        BY <1>6 DEF process_killed
    <2>2. ASSUME NEW u \in Threads PROVE UseStateOf(u)'
        <3>1. CASE ~InCall(u)'
            BY <3>1 DEF UseStateOf, InCall, HasIndex, Holding
        <3>2. CASE InCall(u)'
            BY <1>4, <2>1, <3>2 DEF InCall
        <3> QED  BY <3>1, <3>2
    <2>3. \A u, v \in Threads : Alone(u, v)'
        BY <1>2, <2>1 DEF Alone, InCall
    <2> QED  BY <1>3, <1>5, <2>2, <2>3
<1>7. ASSUME NEW p \in Processes, process_destroy(p) PROVE UseState'
    <2>1. UNCHANGED <<pc, call, idx, handle>>
        BY <1>7 DEF process_destroy, clientVars
    <2> QED  BY <1>1, <1>2, <1>3, <1>5, <2>1 DEF UseStateOf, Alone, InCall, HasIndex, Holding, Object
<1>8. ASSUME NEW t \in Threads, ThreadStep(t) PROVE UseState'
    <2>0. /\ UNCHANGED process /\ Owner[t] \in Processes /\ Living(Owner[t])
          /\ \A u \in Threads \ {t} : pc'[u] = pc[u] /\ call'[u] = call[u]
        BY <1>8, OthersStep
    <2>1. ASSUME NEW u \in Threads \ {t} PROVE UseStateOf(u)'
        <3>1. CASE ~InCall(u)
            BY <2>0, <3>1 DEF UseStateOf, InCall, HasIndex, Holding
        <3>2. CASE InCall(u)
            BY <1>4, <2>0, <3>2
        <3> QED  BY <3>1, <3>2
    <2>2. /\ UseStateOf(t)'
          /\ \A u \in Threads \ {t} : Alone(t, u)' /\ Alone(u, t)'
        <3>0. /\ pc \in [Threads -> Places] /\ call \in [Threads -> Calls] /\ call[t] \in Calls
              /\ handle \in [Processes -> [Handles -> Objects \cup {None}]]
              /\ cache \in [Processes -> [Handles -> Indices \cup {0}]]
            BY DEF TypeOK
        <3>1. CASE pc'[t] = "idle"
            BY <3>1 DEF UseStateOf, Alone, InCall, HasIndex, Holding
        <3>2. CASE pc'[t] = "created"
            <4>1. handle[Owner[t]][call'[t].h] = None /\ handle'[Owner[t]][call'[t].h] # None
                BY <1>8, <3>2, NewHandle
            <4>2. UseStateOf(t)'
                BY <3>2, <4>1 DEF UseStateOf, InCall, HasIndex, Holding, Object
            <4>3. ASSUME NEW u \in Threads \ {t}, pc'[u] = "closing", Owner[u] = Owner[t] PROVE call'[u].h # call'[t].h
                BY <1>1, <2>0, <4>1, <4>3 DEF UseStateOf, InCall, Object
            <4> QED  BY <3>2, <4>2, <4>3 DEF Alone
        <3>3. CASE \E h \in Handles : NtClose(t, h)
            <4>1. PICK h \in Handles : NtClose(t, h)
                BY <3>3
            <4>2. /\ pc'[t] = "closing" /\ call'[t].h = h /\ UNCHANGED handle
                  /\ h \in MayClose(Owner[t])
                BY <3>0, <4>1 DEF NtClose, Request, At, Goes, serverVars, Calls
            <4>3. handle[Owner[t]][h] # None /\ h \in Known(Owner[t]) /\ ~InUse(Owner[t], h)
                BY <4>2 DEF MayClose, Known, Open
            <4>4. UseStateOf(t)'
                BY <4>2, <4>3 DEF UseStateOf, InCall, HasIndex, Holding, Object
            <4>5. ASSUME NEW u \in Threads \ {t}, InCall(u)', Owner[u] = Owner[t] PROVE call'[u].h # call'[t].h
                BY <2>0, <4>2, <4>3, <4>5 DEF InUse, InCall
            <4> QED  BY <4>4, <4>5 DEF Alone, InCall
        <3>4. CASE \E h \in Handles : h \in Known(Owner[t]) /\ call'[t].h = h /\ pc'[t] = "load"
            <4>1. PICK h \in Handles : h \in Known(Owner[t]) /\ call'[t].h = h /\ pc'[t] = "load"
                BY <3>4
            <4>2. handle[Owner[t]][h] # None
                BY <4>1 DEF Known, Open
            <4>3. \A u \in Threads : Owner[u] = Owner[t] /\ call[u].h = h => pc[u] # "closing"
                BY <4>1 DEF Known
            <4>4. handle'[Owner[t]][h] # None
                <5>1. ASSUME NEW u \in Threads, CloseHandle(u), Owner[u] = Owner[t], call[u].h = h PROVE FALSE
                    BY <4>3, <5>1 DEF CloseHandle, At
                <5>2. ASSUME NEW q \in Processes, NEW u \in Threads, NtDuplicateObject(u, h, q, TRUE) PROVE FALSE
                    BY <5>2 DEF NtDuplicateObject, Request, Moves
                <5>3. ~process_killed(Owner[t])
                    BY <2>0 DEF process_killed, Living, TypeOK
                <5>4. ~Closes(Owner[t], h)
                    BY <5>1, <5>2, <5>3 DEF Closes
                <5> QED  BY <2>0, <4>2, <5>4, HandleStep
            <4>5. UseStateOf(t)'
                BY <4>1, <4>4 DEF UseStateOf, InCall, HasIndex, Holding, Object
            <4> QED  BY <2>0, <4>1, <4>3, <4>5 DEF Alone, InCall
        <3>5. ASSUME InCall(t), call'[t].h = call[t].h, pc'[t] # "closing", pc[t] # "closing",
                     pc'[t] # "free",
                     HasIndex(t)' => idx[Object(t)] = call'[t].i
              PROVE  /\ UseStateOf(t)'
                     /\ \A u \in Threads \ {t} : Alone(t, u)' /\ Alone(u, t)'
            <4>1. ~CloseHandle(t)
                BY <3>5 DEF CloseHandle, At
            <4>2. Living(Owner[t])'
                BY <2>0 DEF Living
            <4>3. /\ Object(t) # None /\ handle'[Owner[t]][call[t].h] = Object(t) /\ idx'[Object(t)] = idx[Object(t)]
                BY <3>5, <4>1, <4>2, UsedStays
            <4>4. UseStateOf(t)'
                BY <3>5, <4>3 DEF UseStateOf, InCall, Object
            <4>5. \A u \in Threads \ {t} : Alone(u, t)
                BY <1>2
            <4> QED  BY <2>0, <3>5, <4>4, <4>5 DEF Alone, InCall
        <3>6. CASE Load(t) /\ call'[t].h = call[t].h
            <4> DEFINE i == cache[Owner[t]][call[t].h]
            <4>1. /\ pc[t] = "load" /\ call'[t].i = i /\ pc'[t] \in {"grab", "request", "enter"}
                  /\ pc'[t] = "grab" => i # 0
                BY <3>0, <3>6 DEF Load, At, Goes, Calls
            <4>2. call[t].h \in Handles
                BY <4>1 DEF CallState, InCall
            <4>3. i # 0 => idx[Object(t)] = i
                BY <2>0, <4>2, SMTT(60) DEF CacheState, CacheIsTrue, Object
            <4> QED  BY <3>5, <3>6, <4>1, <4>3 DEF InCall, HasIndex, Holding
        <3>7. CASE get_fsync_idx(t) /\ Object(t) # None /\ pc'[t] = "add"
                    /\ call'[t].h = call[t].h /\ call'[t].i = idx[Object(t)]
            BY <3>5, <3>7 DEF get_fsync_idx, At, InCall
        <3>8. CASE /\ HasIndex(t) /\ call'[t].h = call[t].h /\ call'[t].i = call[t].i
                   /\ HasIndex(t)' \/ pc'[t] = "load"
                   /\ pc'[t] = "free" => put_object(t)
            <4>1. InCall(t) /\ idx[Object(t)] = call'[t].i /\ pc'[t] # "closing" /\ pc[t] # "closing"
                BY <1>1, <3>8 DEF UseStateOf, HasIndex, Holding, InCall
            <4>2. ASSUME put_object(t) PROVE pc'[t] # "free"
                <5>1. Holding(t)
                    BY <4>2 DEF put_object, At, Holding
                <5>2. ref[call[t].i] >= 2 /\ ref[call[t].i] \in Int
                    BY <5>1, HeldTwice DEF TypeOK
                <5> QED  BY <3>0, <4>2, <5>2 DEF put_object, Goes
            <4> QED  BY <3>5, <3>8, <4>1, <4>2
        <3>9. CASE Enter(t) /\ call' = call /\ pc'[t] = "load"
            BY <3>5, <3>9 DEF Enter, At, InCall, HasIndex, Holding
        <3> QED  BY <1>8, <3>1, <3>2, <3>3, <3>4, <3>6, <3>7, <3>8, <3>9, OwnStep
    <2>3. \A u, v \in Threads : Alone(u, v)'
        <3> SUFFICES ASSUME NEW u \in Threads, NEW v \in Threads, u # v
                     PROVE  Alone(u, v)'
            BY DEF Alone
        <3>1. CASE u # t /\ v # t
            BY <1>2, <2>0, <3>1 DEF Alone, InCall
        <3>2. CASE u = t \/ v = t
            BY <2>2, <3>2
        <3> QED  BY <3>1, <3>2
    <2>4. \A u \in Threads : UseStateOf(u)'
        BY <2>1, <2>2
    <2> QED  BY <1>3, <1>5, <2>3, <2>4
<1> QED  BY <1>6, <1>7, <1>8, NextCases

-----------------------------------------------------------------------------
(* Reference counts *)

\* The part of CountOf about the map: an index is free or beyond the map exactly
\* if nobody counts.
MapOf(i) ==
    /\ ref[i] = 0 <=> i \in free \/ i >= size * WordBits
    /\ i \in free => i < size * WordBits

\* The values that the counts are made of.
LEMMA CountTypes ==
    ASSUME TypeOK, NEW i \in Indices
    PROVE  /\ i \in Nat /\ ref[i] \in Int /\ size * WordBits \in Nat
           /\ Cardinality(Holders(i)) \in Nat /\ References(i) \in Nat
<1>1. i \in Nat /\ ref[i] \in Int /\ size \in Nat
    BY DEF TypeOK, Indices
<1>2. size * WordBits \in Nat
    BY <1>1
<1>3. Cardinality(Holders(i)) \in Nat
    BY HoldersFinite
<1> QED  BY <1>1, <1>2, <1>3 DEF References

\* A step that does not touch the references to i.
LEMMA CountFrame ==
    ASSUME NEW i \in Indices, CountOf(i), MapOf(i)', UNCHANGED process,
           ref'[i] = ref[i], last'[i] = last[i],
           i \in excused => i \in excused',
           HasObject(i)' <=> HasObject(i), Holders(i)' = Holders(i),
           \A u \in Holders(i) : pc[u] = "waiting" => pc'[u] = "waiting"
    PROVE  CountOf(i)'
<1>1. Left(i)' <=> Left(i)
    BY DEF Left
<1>2. References(i)' = References(i)
    BY <1>1 DEF References
<1>3. \A p \in Processes : Living(p)' <=> Living(p)
    BY DEF Living
<1>4. /\ ref'[i] >= References(i)'
      /\ i \notin excused' => ref'[i] = References(i)'
      /\ i \notin excused' /\ Left(i)' => ~HasObject(i)' /\ Holders(i)' = {}
    BY <1>1, <1>2 DEF CountOf
<1>5. \A p \in Processes : last'[i] = p /\ Living(p)' => \E t \in Holders(i)' : Owner[t] = p /\ pc'[t] = "waiting"
    BY <1>3 DEF CountOf
<1> QED  BY <1>4, <1>5 DEF CountOf, MapOf

\* How a step of t changes the threads that have a reference.
LEMMA HoldersStep ==
    ASSUME NEW t \in Threads, \A u \in Threads \ {t} : pc'[u] = pc[u] /\ call'[u] = call[u], NEW i
    PROVE  /\ (Holding(t)' <=> Holding(t)) /\ (Holding(t) => call'[t].i = call[t].i) => Holders(i)' = Holders(i)
           /\ ~Holding(t) /\ Holding(t)' /\ call'[t].i = i => Holders(i)' = Holders(i) \cup {t} /\ t \notin Holders(i)
           /\ ~Holding(t) /\ Holding(t)' /\ call'[t].i # i => Holders(i)' = Holders(i)
           /\ Holding(t) /\ ~Holding(t)' /\ call[t].i = i => Holders(i)' = Holders(i) \ {t} /\ t \in Holders(i)
           /\ Holding(t) /\ ~Holding(t)' /\ call[t].i # i => Holders(i)' = Holders(i)
<1>1. \A u \in Threads \ {t} : Holding(u)' <=> Holding(u)
    BY DEF Holding
<1>2. \A u \in Threads \ {t} : u \in Holders(i)' <=> u \in Holders(i)
    BY <1>1 DEF Holders
<1>3. /\ Holders(i) \subseteq Threads /\ Holders(i)' \subseteq Threads
      /\ t \in Holders(i) <=> Holding(t) /\ call[t].i = i
      /\ t \in Holders(i)' <=> Holding(t)' /\ call'[t].i = i
    BY DEF Holders
<1>4. ASSUME t \in Holders(i)' <=> t \in Holders(i) PROVE Holders(i)' = Holders(i)
    BY <1>2, <1>3, <1>4
<1>5. ASSUME t \in Holders(i)', t \notin Holders(i) PROVE Holders(i)' = Holders(i) \cup {t}
    BY <1>2, <1>3, <1>5
<1>6. ASSUME t \notin Holders(i)', t \in Holders(i) PROVE Holders(i)' = Holders(i) \ {t}
    BY <1>2, <1>3, <1>6
<1> QED  BY <1>3, <1>4, <1>5, <1>6

\* Steps that change no count, no holder and no last process.
LEMMA CountQuiet ==
    ASSUME TypeOK, CallState, NEW t \in Threads, ThreadStep(t),
           \/ Created(t) \/ Load(t) \/ CheckRef(t) \/ CheckCache(t) \/ Enter(t) \/ add_to_list(t) \/ put_object(t)
           \/ UninitializedIndex(t) \/ (\E o \in Objects : open_fsync(t, o))
           \/ (\E h \in Handles : NtClose(t, h)) \/ (\E h \in Handles, wait \in BOOLEAN : Call(t, h, wait))
           \/ (\E h \in Handles, q \in Processes, b \in BOOLEAN : NtDuplicateObject(t, h, q, b))
    PROVE  /\ UNCHANGED <<free, size, idx, ref, last, process, excused>>
           /\ pc[t] # "waiting"
           /\ Holding(t)' <=> Holding(t)
           /\ Holding(t) => call'[t].i = call[t].i
<1> USE DEF At, Goes, Returns, Holding
<1>0. /\ pc \in [Threads -> Places] /\ call \in [Threads -> Calls] /\ call[t] \in Calls
    BY DEF TypeOK
<1>1. CASE Created(t) \/ Load(t) \/ Enter(t)
    BY <1>0, <1>1 DEF Created, Load, Enter, serverVars
<1>2. CASE CheckRef(t) \/ CheckCache(t)
    BY <1>0, <1>2 DEF CheckRef, CheckCache, Undo, serverVars, Calls
<1>3. CASE add_to_list(t) \/ put_object(t)
    BY <1>0, <1>3 DEF add_to_list, put_object, serverVars
<1>4. CASE UninitializedIndex(t) \/ (\E h \in Handles, q \in Processes, b \in BOOLEAN : NtDuplicateObject(t, h, q, b))
    BY <1>0, <1>4 DEF UninitializedIndex, NtDuplicateObject, Request, clientVars
<1>5. CASE \E o \in Objects : open_fsync(t, o)
    BY <1>0, <1>5, ZenonT(60) DEF open_fsync, Request
<1>6. CASE \E h \in Handles : NtClose(t, h)
    BY <1>0, <1>6 DEF NtClose, Request, serverVars
<1>7. CASE \E h \in Handles, wait \in BOOLEAN : Call(t, h, wait)
    BY <1>0, <1>7 DEF Call, serverVars
<1> QED  BY <1>1, <1>2, <1>3, <1>4, <1>5, <1>6, <1>7

\* A thread takes a reference to an index of an object.
LEMMA CountTaken ==
    ASSUME TypeOK, NEW i \in Indices, CountOf(i), HasObject(i), NEW t \in Threads, t \notin Holders(i),
           UNCHANGED <<free, size, idx, last, process, excused>>,
           ref'[i] = ref[i] + 1, Holders(i)' = Holders(i) \cup {t},
           \A u \in Threads \ {t} : pc'[u] = pc[u]
    PROVE  CountOf(i)'
<1>0. /\ ref[i] \in Int /\ Cardinality(Holders(i)) \in Nat /\ References(i) \in Nat
    BY CountTypes
<1>1. (Left(i)' <=> Left(i)) /\ HasObject(i)'
    BY DEF Left, HasObject
<1>2. Cardinality(Holders(i)') = Cardinality(Holders(i)) + 1
    BY HoldersFinite, FS_Subset, FS_AddElement, FS_CardinalityType
<1>3. References(i)' = References(i) + 1 /\ References(i) >= 1
    BY <1>0, <1>1, <1>2 DEF References
<1>4. ref[i] >= 1 /\ ref'[i] # 0 /\ ref'[i] >= References(i)'
    BY <1>0, <1>3 DEF CountOf
<1>5. /\ ref'[i] = 0 <=> i \in free' \/ i >= size' * WordBits
      /\ i \in free' => i < size' * WordBits
    BY <1>0, <1>4 DEF CountOf
<1>6. i \notin excused' => ref'[i] = References(i)' /\ ~Left(i)'
    BY <1>0, <1>1, <1>3 DEF CountOf
<1>7. \A p \in Processes : last'[i] = p /\ Living(p)' => \E u \in Holders(i)' : Owner[u] = p /\ pc'[u] = "waiting"
    <2> SUFFICES ASSUME NEW p \in Processes, last[i] = p, Living(p)
                 PROVE  \E u \in Holders(i)' : Owner[u] = p /\ pc'[u] = "waiting"
        BY DEF Living
    <2>1. PICK u \in Holders(i) : Owner[u] = p /\ pc[u] = "waiting"
        BY DEF CountOf
    <2>2. u \in Threads \ {t}
        BY DEF Holders
    <2> QED  BY <2>1, <2>2
<1> QED  BY <1>4, <1>5, <1>6, <1>7 DEF CountOf

\* A thread drops its reference, and the object keeps one.
LEMMA CountDropped ==
    ASSUME TypeOK, NEW i \in Indices, CountOf(i), HasObject(i), NEW t \in Holders(i), pc[t] # "waiting",
           UNCHANGED <<free, size, idx, last, process, excused>>,
           ref'[i] = ref[i] - 1, Holders(i)' = Holders(i) \ {t},
           \A u \in Threads \ {t} : pc'[u] = pc[u]
    PROVE  CountOf(i)'
<1>0. /\ ref[i] \in Int /\ Cardinality(Holders(i)) \in Nat /\ References(i) \in Nat
    BY CountTypes
<1>1. (Left(i)' <=> Left(i)) /\ HasObject(i)'
    BY DEF Left, HasObject
<1>2. Cardinality(Holders(i)') = Cardinality(Holders(i)) - 1 /\ Cardinality(Holders(i)) >= 1
    BY HoldersFinite, FS_Subset, FS_RemoveElement, FS_CardinalityType, FS_EmptySet
<1>3. References(i)' = References(i) - 1 /\ References(i) >= 2
    BY <1>0, <1>1, <1>2 DEF References
<1>4. ref[i] >= 2 /\ ref'[i] # 0 /\ ref'[i] >= References(i)'
    BY <1>0, <1>3 DEF CountOf
<1>5. /\ ref'[i] = 0 <=> i \in free' \/ i >= size' * WordBits
      /\ i \in free' => i < size' * WordBits
    BY <1>0, <1>4 DEF CountOf
<1>6. i \notin excused' => ref'[i] = References(i)' /\ ~Left(i)'
    BY <1>0, <1>1, <1>3 DEF CountOf
<1>7. \A p \in Processes : last'[i] = p /\ Living(p)' => \E u \in Holders(i)' : Owner[u] = p /\ pc'[u] = "waiting"
    <2> SUFFICES ASSUME NEW p \in Processes, last[i] = p, Living(p)
                 PROVE  \E u \in Holders(i)' : Owner[u] = p /\ pc'[u] = "waiting"
        BY DEF Living
    <2>1. PICK u \in Holders(i) : Owner[u] = p /\ pc[u] = "waiting"
        BY DEF CountOf
    <2>2. u \in Threads \ {t}
        BY <2>1 DEF Holders
    <2> QED  BY <2>1, <2>2
<1> QED  BY <1>4, <1>5, <1>6, <1>7 DEF CountOf

\* A thread that has a reference writes the process that waits last with i.
LEMMA CountLast ==
    ASSUME TypeOK, NEW i \in Indices, CountOf(i), HasObject(i),
           UNCHANGED <<free, size, idx, ref, process, excused>>, Holders(i)' = Holders(i),
           Left(i)' => Left(i),
           \A p \in Processes : last'[i] = p /\ Living(p)' =>
                \E u \in Holders(i)' : Owner[u] = p /\ pc'[u] = "waiting"
    PROVE  CountOf(i)'
<1>0. /\ ref[i] \in Int /\ Cardinality(Holders(i)) \in Nat /\ References(i) \in Nat
    BY CountTypes
<1>1. HasObject(i)'
    BY DEF HasObject
<1>2. References(i)' <= References(i) /\ (~Left(i) => References(i)' = References(i))
    BY <1>0, <1>1 DEF References
<1>3. References(i)' \in Nat
    BY <1>0 DEF References
<1>4. ref'[i] >= References(i)'
    BY <1>0, <1>2, <1>3 DEF CountOf
<1>5. /\ ref'[i] = 0 <=> i \in free' \/ i >= size' * WordBits
      /\ i \in free' => i < size' * WordBits
    BY DEF CountOf
<1>6. i \notin excused' => ref'[i] = References(i)' /\ ~Left(i)'
    BY <1>0, <1>1, <1>2 DEF CountOf
<1> QED  BY <1>4, <1>5, <1>6 DEF CountOf

\* fsync_free_shm_idx drops one reference to each of the indices, and frees those
\* that have no other.
LEMMA FreeCount ==
    ASSUME TypeOK, NEW S \in SUBSET Indices, fsync_free_shm_idx(S), NEW i \in Indices, CountOf(i)
    PROVE  /\ MapOf(i)'
           /\ i \notin S \/ ref[i] <= 0 => ref'[i] = ref[i]
           /\ i \in S /\ ref[i] > 0 => ref'[i] = ref[i] - 1
<1>0. i \in Nat /\ ref[i] \in Int /\ size * WordBits \in Nat /\ free \subseteq Indices
    BY CountTypes DEF TypeOK
<1>1. /\ ref'[i] = IF i \in S /\ ref[i] > 0 THEN ref[i] - 1 ELSE ref[i]
      /\ i \in free' <=> i \in free \/ (i \in S /\ ref[i] > 0 /\ ref[i] = 1)
      /\ size' = size
    BY DEF fsync_free_shm_idx
<1>2. (ref[i] = 0 <=> i \in free \/ i >= size * WordBits) /\ (i \in free => i < size * WordBits)
    BY DEF CountOf
<1>3. MapOf(i)'
    BY <1>0, <1>1, <1>2 DEF MapOf
<1> QED  BY <1>0, <1>1, <1>3

\* Closing handles takes the object's reference to i, and nothing else.
LEMMA CloseCount ==
    ASSUME TypeOK, CountState, NEW closed, close_handles(closed), NEW i \in Indices
    PROVE  /\ MapOf(i)'
           /\ \/ \E o \in Destroyed(closed) :
                    /\ idx[o] = i /\ HasObject(i) /\ ~HasObject(i)' /\ ref'[i] = ref[i] - 1
              \/ /\ \A o \in Destroyed(closed) : idx[o] # i
                 /\ (HasObject(i)' <=> HasObject(i)) /\ ref'[i] = ref[i]
<1> DEFINE S == {idx[o] : o \in Destroyed(closed)}
<1>0. /\ i \in Nat /\ i # 0 /\ ref[i] \in Int /\ Cardinality(Holders(i)) \in Nat /\ CountOf(i)
      /\ ref[i] >= References(i)
    BY CountTypes DEF CountState, Indices, CountOf
<1>1. Destroyed(closed) \subseteq Objects /\ \A o \in Destroyed(closed) : idx[o] \in Indices
    BY DEF Destroyed, TypeOK
<1>2. S \in SUBSET Indices /\ fsync_free_shm_idx(S)
    BY <1>1 DEF close_handles
<1>3. \A o \in Objects : idx'[o] = IF o \in Destroyed(closed) THEN 0 ELSE idx[o]
    BY DEF close_handles
<1>4. /\ MapOf(i)'
      /\ i \notin S \/ ref[i] <= 0 => ref'[i] = ref[i]
      /\ i \in S /\ ref[i] > 0 => ref'[i] = ref[i] - 1
    <2> HIDE DEF S
    <2> QED  BY <1>0, <1>2, FreeCount
<1>5. CASE \E o \in Destroyed(closed) : idx[o] = i
    <2>1. PICK o \in Destroyed(closed) : idx[o] = i
        BY <1>5
    <2>2. i \in S /\ HasObject(i)
        BY <1>1, <2>1 DEF HasObject
    <2>3. ref[i] > 0
        BY <1>0, <2>2 DEF References, Left
    <2>4. ~HasObject(i)'
        <3>1. ASSUME NEW x \in Objects, idx'[x] = i PROVE FALSE
            <4>1. idx[x] = i /\ x \notin Destroyed(closed)
                BY <1>0, <1>3, <3>1
            <4> QED  BY <1>0, <1>1, <2>1, <4>1 DEF CountState
        <3> QED  BY <3>1 DEF HasObject
    <2> QED  BY <1>4, <2>1, <2>2, <2>3, <2>4
<1>6. CASE \A o \in Destroyed(closed) : idx[o] # i
    <2>1. i \notin S
        BY <1>6
    <2>2. HasObject(i)' <=> HasObject(i)
        BY <1>0, <1>3, <1>6 DEF HasObject
    <2> QED  BY <1>4, <1>6, <2>1, <2>2
<1> QED  BY <1>5, <1>6

\* CloseHandle
LEMMA CountClosed ==
    ASSUME TypeOK, CallState, CountState, NEW t \in Threads, CloseHandle(t), NEW i \in Indices
    PROVE  CountOf(i)'
<1>0. /\ ref[i] \in Int /\ Cardinality(Holders(i)) \in Nat /\ References(i) \in Nat /\ CountOf(i)
    BY CountTypes DEF CountState
<1>1. /\ close_handles({<<Owner[t], call[t].h>>}) /\ UNCHANGED <<process, last, excused>>
      /\ pc[t] = "closing" /\ pc'[t] = "idle"
      /\ \A u \in Threads \ {t} : pc'[u] = pc[u] /\ call'[u] = call[u]
    BY DEF CloseHandle, At, Returns, Goes, TypeOK
<1>2. Holders(i)' = Holders(i)
    <2>1. ~Holding(t) /\ ~Holding(t)'
        BY <1>1 DEF Holding
    <2> QED  BY <1>1, <2>1, HoldersStep
<1>3. \A u \in Holders(i) : pc[u] = "waiting" => pc'[u] = "waiting"
    BY <1>1 DEF Holders
<1>4. CASE (HasObject(i)' <=> HasObject(i)) /\ ref'[i] = ref[i] /\ MapOf(i)'
    BY <1>0, <1>1, <1>2, <1>3, <1>4, CountFrame
<1>5. CASE HasObject(i) /\ ~HasObject(i)' /\ ref'[i] = ref[i] - 1 /\ MapOf(i)'
    <2>1. Left(i)' <=> Left(i)
        BY <1>1 DEF Left
    <2>2. References(i)' = References(i) - 1
        BY <1>0, <1>2, <1>5, <2>1 DEF References
    <2>3. /\ ref'[i] >= References(i)'
          /\ i \notin excused' => ref'[i] = References(i)' /\ ~Left(i)'
        BY <1>0, <1>1, <1>5, <2>1, <2>2 DEF CountOf
    <2>4. \A p \in Processes : last'[i] = p /\ Living(p)' => \E u \in Holders(i)' : Owner[u] = p /\ pc'[u] = "waiting"
        BY <1>0, <1>1, <1>2, <1>3 DEF CountOf, Living
    <2> QED  BY <1>5, <2>3, <2>4 DEF CountOf, MapOf
<1> QED  BY <1>1, <1>4, <1>5, CloseCount

\* process_killed: what the threads of p had stays counted.
LEMMA CountKilled ==
    ASSUME TypeOK, CallState, UseState, CountState, NEW p \in Processes, process_killed(p), NEW i \in Indices
    PROVE  CountOf(i)'
<1>0. /\ ref[i] \in Int /\ Cardinality(Holders(i)) \in Nat /\ References(i) \in Nat /\ CountOf(i)
      /\ process \in [Processes -> {"running", "killed", "gone"}]
    BY CountTypes DEF CountState, TypeOK
<1>1. /\ Living(p) /\ process' = [process EXCEPT ![p] = "killed"]
      /\ close_handles({p} \X Handles) /\ UNCHANGED last
      /\ excused' = excused \cup {k \in Indices : (\E t \in Holders(k) : Owner[t] = p) /\ ~Recoverable(p, k)}
      /\ \A t \in Threads : Owner[t] = p => pc'[t] = "dead"
      /\ \A t \in Threads : Owner[t] # p => pc'[t] = pc[t] /\ call'[t] = call[t]
    BY DEF process_killed
<1>2. Holders(i)' = {t \in Holders(i) : Owner[t] # p}
    <2>1. \A t \in Threads : Holding(t)' <=> Holding(t) /\ Owner[t] # p
        BY <1>1 DEF Holding
    <2> QED  BY <1>1, <2>1 DEF Holders
<1>3. Holders(i)' \subseteq Holders(i) /\ Cardinality(Holders(i)') \in Nat /\ Holders(i) \in SUBSET Threads
    <2>1. Holders(i)' \subseteq Holders(i) /\ Holders(i) \in SUBSET Threads
        BY <1>2, HoldersFinite
    <2> QED  BY <2>1, FS_Subset, FS_CardinalityType, FS_EmptySet
<1>4. Left(i)' <=> Left(i) \/ last[i] = p
    BY <1>0, <1>1 DEF Left, Living
<1>5. \A q \in Processes : last'[i] = q /\ Living(q)' => \E t \in Holders(i)' : Owner[t] = q /\ pc'[t] = "waiting"
    <2> SUFFICES ASSUME NEW q \in Processes, last[i] = q, Living(q), q # p
                 PROVE  \E t \in Holders(i)' : Owner[t] = q /\ pc'[t] = "waiting"
        BY <1>0, <1>1 DEF Living
    <2>1. PICK t \in Holders(i) : Owner[t] = q /\ pc[t] = "waiting"
        BY <1>0 DEF CountOf
    <2> QED  BY <1>1, <1>2, <1>3, <2>1
<1>6. /\ MapOf(i)'
      /\ \/ HasObject(i) /\ ~HasObject(i)' /\ ref'[i] = ref[i] - 1
         \/ (HasObject(i)' <=> HasObject(i)) /\ ref'[i] = ref[i]
    BY <1>1, CloseCount
<1>7. ASSUME /\ ref'[i] >= References(i)'
             /\ i \notin excused' => ref'[i] = References(i)'
             /\ i \notin excused' /\ Left(i)' => ~HasObject(i)' /\ Holders(i)' = {}
      PROVE  CountOf(i)'
    BY <1>5, <1>6, <1>7 DEF CountOf, MapOf
<1>8. CASE last[i] # p
    <2>1. Left(i)' <=> Left(i)
        BY <1>4, <1>8
    <2>2. Cardinality(Holders(i)') <= Cardinality(Holders(i))
        BY <1>3, FS_Subset, FS_CardinalityType
    <2>3. ref'[i] >= References(i)'
        <3>1. ref[i] >= References(i)
            BY <1>0 DEF CountOf
        <3> QED  BY <1>0, <1>3, <1>6, <2>1, <2>2, <3>1 DEF References
    <2>4. ASSUME i \notin excused' PROVE i \notin excused /\ Holders(i)' = Holders(i)
        <3>1. ~Recoverable(p, i)
            BY <1>8 DEF Recoverable
        <3>2. i \notin excused /\ \A t \in Holders(i) : Owner[t] # p
            BY <1>1, <2>4, <3>1
        <3> QED  BY <1>2, <3>2
    <2>5. ASSUME i \notin excused' PROVE ref'[i] = References(i)'
        <3>1. ref[i] = References(i)
            BY <1>0, <2>4, <2>5 DEF CountOf
        <3> QED  BY <1>0, <1>6, <2>1, <2>4, <2>5, <3>1 DEF References
    <2>6. i \notin excused' /\ Left(i)' => ~HasObject(i)' /\ Holders(i)' = {}
        BY <1>0, <1>6, <2>1, <2>4 DEF CountOf
    <2> QED  BY <1>7, <2>3, <2>5, <2>6
<1>9. CASE last[i] = p
    <2>1. ~Left(i) /\ Left(i)'
        BY <1>0, <1>1, <1>4, <1>9 DEF Left, Living
    <2>2. PICK w \in Holders(i) : Owner[w] = p /\ pc[w] = "waiting"
        BY <1>0, <1>1, <1>9 DEF CountOf
    <2>3. Cardinality(Holders(i)') <= Cardinality(Holders(i)) - 1
        <3>1. Holders(i)' \subseteq Holders(i) \ {w} /\ Holders(i) \ {w} \in SUBSET Threads
            BY <1>2, <1>3, <2>2
        <3>2. Cardinality(Holders(i)') <= Cardinality(Holders(i) \ {w})
            BY <3>1, FS_Subset, FS_CardinalityType
        <3>3. Cardinality(Holders(i) \ {w}) = Cardinality(Holders(i)) - 1
            BY <1>3, FS_Subset, FS_RemoveElement, FS_CardinalityType, FS_EmptySet
        <3> QED  BY <3>2, <3>3
    <2>4. ref'[i] >= References(i)'
        <3>1. ref[i] >= References(i)
            BY <1>0 DEF CountOf
        <3> QED  BY <1>0, <1>3, <1>6, <2>1, <2>3, <3>1 DEF References
    <2>5. ASSUME i \notin excused' PROVE ref'[i] = References(i)' /\ ~HasObject(i)' /\ Holders(i)' = {}
        <3>1. Recoverable(p, i) /\ i \notin excused
            BY <1>1, <2>2, <2>5
        <3>2. Holders(i) = {w} /\ Holders(i)' = {}
            BY <1>2, <2>2, <3>1 DEF Recoverable
        <3>3. PICK o \in Objects : idx[o] = i
            <4>1. w \in Threads /\ Holding(w) /\ call[w].i = i
                BY DEF Holders
            <4> QED  BY <4>1, HeldTwice DEF HasObject
        <3>4. o \in Destroyed({p} \X Handles)
            <4>1. i # 0
                BY DEF Indices
            <4>2. ASSUME NEW q \in Processes, NEW h \in Handles, handle[q][h] = o PROVE <<q, h>> \in {p} \X Handles
                BY <3>1, <3>3, <4>2 DEF Recoverable
            <4> QED  BY <3>3, <4>1, <4>2 DEF Destroyed
        <3>5. HasObject(i) /\ ~HasObject(i)' /\ ref'[i] = ref[i] - 1
            BY <1>1, <3>3, <3>4, CloseCount
        <3>6. Cardinality(Holders(i)) = 1 /\ Cardinality(Holders(i)') = 0
            <4>1. Cardinality(Holders(i)') = 0
                BY <3>2, FS_EmptySet
            <4>2. Holders(i) \ {w} = {}
                BY <3>2
            <4>3. Cardinality(Holders(i) \ {w}) = Cardinality(Holders(i)) - 1
                BY <1>3, FS_Subset, FS_RemoveElement, FS_CardinalityType, FS_EmptySet
            <4> QED  BY <1>0, <4>1, <4>2, <4>3, <3>2
        <3>7. ref[i] = References(i)
            BY <1>0, <3>1 DEF CountOf
        <3>8. References(i) = 2 /\ References(i)' = 1
            BY <2>1, <3>5, <3>6 DEF References
        <3> QED  BY <3>2, <3>5, <3>7, <3>8
    <2> QED  BY <1>7, <2>4, <2>5
<1> QED  BY <1>8, <1>9

\* process_destroy: the clean-up frees what p was the last to wait with, and
\* finds nothing else.
LEMMA CountDestroyed ==
    ASSUME TypeOK, CallState, CountState, NEW p \in Processes, process_destroy(p), NEW i \in Indices
    PROVE  CountOf(i)'
<1> DEFINE S == {k \in Indices \ free : last[k] = p /\ ref[k] = 1}
<1>0. /\ i \in Nat /\ size * WordBits \in Nat
      /\ ref[i] \in Int /\ Cardinality(Holders(i)) \in Nat /\ References(i) \in Nat /\ CountOf(i)
      /\ process \in [Processes -> {"running", "killed", "gone"}]
    BY CountTypes DEF CountState, TypeOK
<1>1. /\ process[p] = "killed" /\ process' = [process EXCEPT ![p] = "gone"]
      /\ fsync_free_shm_idx(S) /\ S \in SUBSET Indices /\ UNCHANGED <<idx, last, pc, call, excused>>
    BY DEF process_destroy, fsync_cleanup_process_shm_indices, clientVars
<1>2. (HasObject(i)' <=> HasObject(i)) /\ Holders(i)' = Holders(i)
    BY <1>1 DEF HasObject, Holders, Holding
<1>3. Left(i)' <=> Left(i) /\ last[i] # p
    BY <1>0, <1>1 DEF Left
<1>4. last[i] = p => Left(i)
    BY <1>1 DEF Left
<1>5. \A q \in Processes : last'[i] = q /\ Living(q)' => \E t \in Holders(i)' : Owner[t] = q /\ pc'[t] = "waiting"
    BY <1>0, <1>1, <1>2 DEF CountOf, Living
<1>6. /\ MapOf(i)'
      /\ i \notin S => ref'[i] = ref[i]
      /\ i \in S /\ ref[i] > 0 => ref'[i] = ref[i] - 1
    <2> HIDE DEF S
    <2> QED  BY <1>0, <1>1, FreeCount
<1>7. ref[i] >= References(i) /\ (i \notin excused => ref[i] = References(i))
    BY <1>0 DEF CountOf
<1>8. CASE i \in S
    <2>1. ref[i] = 1 /\ last[i] = p /\ ref'[i] = 0
        BY <1>6, <1>8
    <2>2. ~HasObject(i) /\ Cardinality(Holders(i)) = 0
        BY <1>0, <1>4, <1>7, <2>1 DEF References
    <2>3. References(i)' = 0 /\ ~Left(i)'
        BY <1>2, <1>3, <2>1, <2>2 DEF References
    <2> QED  BY <1>5, <1>6, <2>1, <2>3 DEF CountOf, MapOf
<1>9. CASE i \notin S /\ last[i] # p
    <2>1. (Left(i)' <=> Left(i)) /\ ref'[i] = ref[i]
        BY <1>3, <1>6, <1>9
    <2>2. References(i)' = References(i)
        BY <1>2, <2>1 DEF References
    <2>3. i \notin excused' /\ Left(i)' => ~HasObject(i)' /\ Holders(i)' = {}
        BY <1>0, <1>1, <1>2, <2>1 DEF CountOf
    <2> QED  BY <1>1, <1>5, <1>6, <1>7, <2>1, <2>2, <2>3 DEF CountOf, MapOf
<1>10. CASE i \notin S /\ last[i] = p
    <2>1. Left(i) /\ ~Left(i)' /\ ref'[i] = ref[i]
        BY <1>3, <1>4, <1>6, <1>10
    <2>2. References(i)' = References(i) - 1
        BY <1>0, <1>2, <2>1 DEF References
    <2>3. i \in excused
        <3> SUFFICES ASSUME i \notin excused PROVE FALSE
            OBVIOUS
        <3>1. ~HasObject(i) /\ Holders(i) = {}
            BY <1>0, <2>1 DEF CountOf
        <3>2. Cardinality(Holders(i)) = 0
            BY <3>1, FS_EmptySet
        <3>3. ref[i] = 1
            BY <1>7, <2>1, <3>1, <3>2 DEF References
        <3>4. i \notin free
            BY <1>0, <3>3 DEF CountOf
        <3> QED  BY <1>10, <3>3, <3>4
    <2>4. ref'[i] >= References(i)'
        BY <1>0, <1>7, <2>1, <2>2
    <2> QED  BY <1>1, <1>5, <1>6, <2>1, <2>3, <2>4 DEF CountOf, MapOf
<1> QED  BY <1>8, <1>9, <1>10

\* create_fsync: the index that is handed out had no reference.
LEMMA CountCreated ==
    ASSUME TypeOK, CallState, HintNotPast, CountState, NEW t \in Threads, NEW b \in BOOLEAN, create_fsync(t, b)
    PROVE  CountState'
<1> DEFINE o == CHOOSE new \in Objects : idx[new] = 0
<1>1. o \in Objects /\ idx[o] = 0 /\ fsync_alloc_shm(o)
    BY DEF create_fsync
<1>2. /\ UNCHANGED <<process, excused>> /\ ~Holding(t) /\ ~Holding(t)' /\ pc[t] = "idle"
      /\ \A u \in Threads \ {t} : pc'[u] = pc[u] /\ call'[u] = call[u]
    BY DEF create_fsync, Request, At, Goes, Holding, TypeOK
<1> HIDE DEF o
<1>3. PICK n \in Indices :
        /\ idx' = [idx EXCEPT ![o] = n] /\ ref' = [ref EXCEPT ![n] = 1] /\ last' = [last EXCEPT ![n] = None]
        /\ \/ n \in free /\ free' = free \ {n} /\ size' = size
           \/ /\ n = size * WordBits /\ free = {}
              /\ free' = (n..(n + WordBits - 1)) \ {n}
              /\ size' = size + 1 /\ size' * WordBits = n + WordBits
    BY <1>1, AllocStep
<1>4. /\ idx \in [Objects -> Indices \cup {0}] /\ ref \in [Indices -> Int]
      /\ last \in [Indices -> Processes \cup {None}] /\ n \in Nat \ {0} /\ size * WordBits \in Nat
    BY CountTypes DEF TypeOK, Indices
<1>5. ref[n] = 0 /\ ~HasObject(n) /\ Holders(n) = {}
    <2>0. CountOf(n) /\ Cardinality(Holders(n)) \in Nat /\ (Cardinality(Holders(n)) = 0 <=> Holders(n) = {})
        BY HoldersFinite DEF CountState
    <2>1. ref[n] = 0 /\ 0 >= References(n)
        BY <1>3, <1>4, <2>0 DEF CountOf
    <2> QED  BY <2>0, <2>1 DEF References
<1>6. ASSUME NEW i \in Indices PROVE Holders(i)' = Holders(i) /\ \A u \in Holders(i) : pc'[u] = pc[u]
    <2>1. Holders(i)' = Holders(i)
        BY <1>2, HoldersStep
    <2> QED  BY <1>2, <2>1 DEF Holders
<1>7. CountOf(n)'
    <2>1. /\ ref'[n] = 1 /\ last'[n] = None /\ HasObject(n)' /\ Holders(n)' = {}
        BY <1>1, <1>3, <1>4, <1>5, <1>6 DEF HasObject
    <2>2. ~Left(n)' /\ Cardinality(Holders(n)') = 0
        BY <2>1, FS_EmptySet DEF Left
    <2>3. References(n)' = 1
        BY <2>1, <2>2 DEF References
    <2>4. n \notin free' /\ n < size' * WordBits
        <3>1. n \in free => n < size * WordBits
            BY DEF CountState, CountOf
        <3> QED  BY <1>3, <1>4, <3>1
    <2>5. \A p \in Processes : last'[n] # p
        BY <2>1
    <2>6. size' * WordBits \in Nat
        BY <1>3, <1>4
    <2> QED  BY <1>4, <2>1, <2>2, <2>3, <2>4, <2>5, <2>6 DEF CountOf
<1>8. ASSUME NEW i \in Indices, i # n PROVE CountOf(i)'
    <2>0. CountOf(i) /\ i \in Nat /\ i # 0 /\ ref[i] \in Int
        BY CountTypes DEF CountState, Indices
    <2>1. /\ ref'[i] = ref[i] /\ last'[i] = last[i]
        BY <1>3, <1>4, <1>8
    <2>2. HasObject(i)' <=> HasObject(i)
        BY <1>1, <1>3, <1>4, <1>8, <2>0 DEF HasObject
    <2>3. MapOf(i)'
        <3>0. (ref[i] = 0 <=> i \in free \/ i >= size * WordBits) /\ (i \in free => i < size * WordBits)
            BY <2>0 DEF CountOf
        <3>1. CASE n \in free /\ free' = free \ {n} /\ size' = size
            BY <1>8, <2>1, <3>0, <3>1 DEF MapOf
        <3>2. CASE /\ n = size * WordBits /\ free = {}
                   /\ free' = (n..(n + WordBits - 1)) \ {n}
                   /\ size' * WordBits = n + WordBits
            BY <1>4, <1>8, <2>0, <2>1, <3>0, <3>2 DEF MapOf
        <3> QED  BY <1>3, <3>1, <3>2
    <2> QED  BY <1>2, <1>6, <2>0, <2>1, <2>2, <2>3, CountFrame
<1>9. ASSUME NEW x \in Objects, NEW y \in Objects, idx'[x] = idx'[y], idx'[x] # 0 PROVE x = y
    <2>1. \A z \in Objects : idx[z] # n
        BY <1>5 DEF HasObject
    <2> QED  BY <1>1, <1>3, <1>4, <1>9, <2>1 DEF CountState
<1> QED  BY <1>7, <1>8, <1>9 DEF CountState

LEMMA CountStep ==
    ASSUME TypeOK, CallState, HintNotPast, ~Moves, ~program.closes_in_use,
           CacheState, UseState, CountState, Next
    PROVE  CountState'
<1>0. /\ \A i \in Indices : CountOf(i)
      /\ \A o, other \in Objects : idx[o] = idx[other] /\ idx[o] # 0 => o = other
    BY DEF CountState
<1>1. ASSUME \A i \in Indices : CountOf(i)',
             idx' = idx \/ \E closed : close_handles(closed)
      PROVE  CountState'
    <2>1. \A o, other \in Objects : idx'[o] = idx'[other] /\ idx'[o] # 0 => o = other
        BY <1>0, <1>1 DEF close_handles
    <2> QED  BY <1>1, <2>1 DEF CountState
<1>2. ASSUME NEW p \in Processes, process_killed(p) PROVE CountState'
    BY <1>1, <1>2, CountKilled DEF process_killed
<1>3. ASSUME NEW p \in Processes, process_destroy(p) PROVE CountState'
    BY <1>1, <1>3, CountDestroyed DEF process_destroy
<1>4. ASSUME NEW t \in Threads, ThreadStep(t) PROVE CountState'
    <2>0. /\ UNCHANGED <<process, excused>> /\ Living(Owner[t]) /\ Owner[t] \in Processes
          /\ \A u \in Threads \ {t} : pc'[u] = pc[u] /\ call'[u] = call[u]
          /\ pc \in [Threads -> Places] /\ call \in [Threads -> Calls] /\ ref \in [Indices -> Int]
          /\ last \in [Indices -> Processes \cup {None}] /\ call[t] \in Calls
        BY <1>4, OthersStep DEF TypeOK
    <2>1. ASSUME Holding(t)' <=> Holding(t), Holding(t) => call'[t].i = call[t].i, NEW i \in Indices
          PROVE  Holders(i)' = Holders(i)
        BY <2>0, <2>1, HoldersStep
    <2>2. ASSUME NEW i \in Indices, UNCHANGED <<free, size, idx, process, excused>>,
                 ref'[i] = ref[i], last'[i] = last[i], Holders(i)' = Holders(i),
                 t \in Holders(i) => pc[t] # "waiting"
          PROVE  CountOf(i)'
        <3>1. MapOf(i)'
            BY <1>0, <2>2 DEF CountOf, MapOf
        <3>2. HasObject(i)' <=> HasObject(i)
            BY <2>2 DEF HasObject
        <3>3. \A u \in Holders(i) : pc[u] = "waiting" => pc'[u] = "waiting"
            BY <2>0, <2>2 DEF Holders
        <3> QED  BY <1>0, <2>2, <3>1, <3>2, <3>3, CountFrame
    <2>3. CASE \/ Created(t) \/ Load(t) \/ CheckRef(t) \/ CheckCache(t) \/ Enter(t) \/ add_to_list(t) \/ put_object(t)
               \/ UninitializedIndex(t) \/ (\E o \in Objects : open_fsync(t, o))
               \/ (\E h \in Handles : NtClose(t, h)) \/ (\E h \in Handles, wait \in BOOLEAN : Call(t, h, wait))
               \/ (\E h \in Handles, q \in Processes, b \in BOOLEAN : NtDuplicateObject(t, h, q, b))
        <3>1. /\ UNCHANGED <<free, size, idx, ref, last, process, excused>> /\ pc[t] # "waiting"
              /\ Holding(t)' <=> Holding(t)
              /\ Holding(t) => call'[t].i = call[t].i
            BY <1>4, <2>3, CountQuiet
        <3> QED  BY <1>1, <2>1, <2>2, <3>1
    <2>4. CASE grab_object(t)
        <3>1. /\ pc[t] = "grab" /\ pc'[t] = "check_ref" /\ call' = call /\ ref' = [ref EXCEPT ![call[t].i] = @ + 1]
              /\ UNCHANGED <<free, size, idx, last, process, excused>>
            BY <2>0, <2>4 DEF grab_object, At, Goes, serverVars
        <3>2. PICK k \in Indices : k = call[t].i /\ HasObject(k)
            <4>1. HasIndex(t) /\ InCall(t)
                BY <3>1 DEF HasIndex, InCall
            <4>2. call[t].i \in Indices /\ idx[Object(t)] = call[t].i /\ Object(t) # None /\ call[t].h \in Handles
                BY <4>1 DEF CallState, UseState
            <4>3. handle[Owner[t]] \in [Handles -> Objects \cup {None}]
                BY <2>0 DEF TypeOK
            <4> QED  BY <4>2, <4>3 DEF HasObject, Object
        <3>3. ~Holding(t) /\ Holding(t)'
            BY <3>1 DEF Holding
        <3>4. CountOf(k)'
            <4>1. ref'[k] = ref[k] + 1
                BY <2>0, <3>1, <3>2
            <4>2. Holders(k)' = Holders(k) \cup {t} /\ t \notin Holders(k)
                BY <2>0, <3>1, <3>2, <3>3, HoldersStep
            <4> QED  BY <1>0, <2>0, <3>1, <3>2, <4>1, <4>2, CountTaken
        <3>5. ASSUME NEW i \in Indices, i # k PROVE CountOf(i)'
            <4>1. Holders(i)' = Holders(i) /\ ref'[i] = ref[i]
                BY <2>0, <3>1, <3>2, <3>3, <3>5, HoldersStep
            <4> QED  BY <2>2, <3>1, <4>1
        <3> QED  BY <1>1, <3>1, <3>4, <3>5
    <2>5. CASE get_fsync_idx(t)
        <3>0. pc[t] = "request" /\ UNCHANGED <<free, size, idx, last, process, excused>>
            BY <2>5 DEF get_fsync_idx, At, serverVars
        <3>1. Object(t) # None /\ call[t].h \in Handles
            BY <3>0 DEF CallState, UseState, InCall
        <3>2. /\ pc'[t] = "add" /\ call'[t].i = idx[Object(t)] /\ ref' = [ref EXCEPT ![idx[Object(t)]] = @ + 1]
            <4>1. /\ pc' = [pc EXCEPT ![t] = "add"] /\ ref' = [ref EXCEPT ![idx[Object(t)]] = @ + 1]
                  /\ call' = [call EXCEPT ![t].i = idx[Object(t)]]
                BY <2>5, <3>1, Zenon DEF get_fsync_idx, Goes, Object
            <4> QED  BY <2>0, <4>1, SMTT(60) DEF Calls
        <3>3. PICK n \in Indices : n = idx[Object(t)] /\ HasObject(n)
            <4>1. handle[Owner[t]] \in [Handles -> Objects \cup {None}] /\ idx \in [Objects -> Indices \cup {0}]
                BY <2>0 DEF TypeOK
            <4>2. Object(t) \in Objects
                BY <3>1, <4>1 DEF Object
            <4>3. idx[Object(t)] # 0
                BY <2>0, <3>1 DEF CallState, Object
            <4> QED  BY <4>1, <4>2, <4>3 DEF HasObject
        <3>4. ~Holding(t) /\ Holding(t)'
            BY <3>0, <3>2 DEF Holding
        <3>5. CountOf(n)'
            <4>1. ref'[n] = ref[n] + 1
                BY <2>0, <3>2, <3>3
            <4>2. Holders(n)' = Holders(n) \cup {t} /\ t \notin Holders(n)
                BY <2>0, <3>2, <3>3, <3>4, HoldersStep
            <4> QED  BY <1>0, <2>0, <3>0, <3>3, <4>1, <4>2, CountTaken
        <3>6. ASSUME NEW i \in Indices, i # n PROVE CountOf(i)'
            <4>1. Holders(i)' = Holders(i) /\ ref'[i] = ref[i]
                BY <2>0, <3>2, <3>3, <3>4, <3>6, HoldersStep
            <4> QED  BY <2>2, <3>0, <4>1
        <3> QED  BY <1>1, <3>0, <3>5, <3>6, SMTT(60)
    <2>6. CASE Drop(t)
        <3>1. /\ pc[t] = "drop" /\ pc'[t] \in {"load", "idle"} /\ ref' = [ref EXCEPT ![call[t].i] = @ - 1]
              /\ UNCHANGED <<free, size, idx, last, process, excused>>
            BY <2>0, <2>6 DEF Drop, Dropped, Returns, At, Goes, serverVars
        <3>2. Holding(t) /\ ~Holding(t)'
            BY <3>1 DEF Holding
        <3>3. PICK k \in Indices : k = call[t].i /\ HasObject(k)
            BY <3>2, HeldTwice
        <3>4. CountOf(k)'
            <4>1. ref'[k] = ref[k] - 1
                BY <2>0, <3>1, <3>3
            <4>2. Holders(k)' = Holders(k) \ {t} /\ t \in Holders(k)
                BY <2>0, <3>2, <3>3, HoldersStep
            <4> QED  BY <1>0, <2>0, <3>1, <3>3, <4>1, <4>2, CountDropped
        <3>5. ASSUME NEW i \in Indices, i # k PROVE CountOf(i)'
            <4>1. Holders(i)' = Holders(i) /\ ref'[i] = ref[i]
                BY <2>0, <3>1, <3>2, <3>3, <3>5, HoldersStep
            <4> QED  BY <2>2, <3>1, <4>1
        <3> QED  BY <1>1, <3>1, <3>4, <3>5
    <2>7. CASE Use(t) \/ put_object_from_wait(t)
        <3>1. /\ UNCHANGED <<free, size, idx, ref, process, excused>> /\ call' = call
              /\ Holding(t) /\ Holding(t)'
            BY <2>0, <2>7 DEF Use, put_object_from_wait, At, Goes, serverVars, Holding
        <3>2. PICK k \in Indices : k = call[t].i /\ HasObject(k) /\ t \in Holders(k)
            BY <3>1, HeldTwice DEF Holders
        <3>3. \A i \in Indices : Holders(i)' = Holders(i)
            BY <2>1, <3>1
        <3>4. ASSUME NEW i \in Indices, i # k PROVE CountOf(i)'
            <4>1. last'[i] = last[i]
                BY <2>0, <2>7, <3>2, <3>4 DEF Use, put_object_from_wait
            <4>2. t \notin Holders(i)
                BY <3>2, <3>4 DEF Holders
            <4> QED  BY <2>2, <3>1, <3>3, <4>1, <4>2
        <3>5. CASE Use(t) /\ call[t].wait
            <4>1. last'[k] = Owner[t] /\ pc'[t] = "waiting"
                BY <2>0, <3>2, <3>5 DEF Use, Goes
            <4>2. ~Left(k)'
                BY <2>0, <4>1 DEF Left, Living
            <4>3. \A p \in Processes : last'[k] = p => \E u \in Holders(k)' : Owner[u] = p /\ pc'[u] = "waiting"
                BY <3>2, <3>3, <4>1
            <4>4. CountOf(k)'
                BY <1>0, <3>1, <3>2, <3>3, <4>2, <4>3, CountLast
            <4> QED  BY <1>1, <3>1, <3>4, <4>4
        <3>6. CASE Use(t) /\ ~call[t].wait
            <4>1. last' = last /\ pc[t] # "waiting"
                BY <3>6 DEF Use, At
            <4> QED  BY <1>1, <2>2, <3>1, <3>3, <4>1
        <3>7. CASE put_object_from_wait(t)
            <4>1. last'[k] = IF last[k] = Owner[t] THEN None ELSE last[k]
                BY <2>0, <3>2, <3>7 DEF put_object_from_wait
            <4>2. Left(k)' => Left(k)
                BY <2>0, <4>1 DEF Left
            <4>3. ASSUME NEW p \in Processes, last'[k] = p, Living(p)'
                  PROVE  \E u \in Holders(k)' : Owner[u] = p /\ pc'[u] = "waiting"
                <5>1. last[k] = p /\ p # Owner[t] /\ Living(p)
                    BY <2>0, <4>1, <4>3 DEF Living
                <5>2. PICK u \in Holders(k) : Owner[u] = p /\ pc[u] = "waiting"
                    BY <1>0, <3>2, <5>1 DEF CountOf
                <5>3. u \in Threads \ {t}
                    BY <5>1, <5>2 DEF Holders
                <5> QED  BY <2>0, <3>2, <3>3, <5>2, <5>3
            <4>4. CountOf(k)'
                BY <1>0, <3>1, <3>2, <3>3, <4>2, <4>3, CountLast
            <4> QED  BY <1>1, <3>1, <3>4, <4>4
        <3> QED  BY <2>7, <3>5, <3>6, <3>7
    <2>8. CASE FreeRequest(t)
        BY <2>8 DEF FreeRequest, At, UseState, InCall
    <2>9. CASE CloseHandle(t)
        BY <1>1, <2>9, CountClosed DEF CloseHandle
    <2>10. CASE \E b \in BOOLEAN : create_fsync(t, b)
        BY <2>10, CountCreated
    <2> QED  BY <1>4, <2>3, <2>4, <2>5, <2>6, <2>7, <2>8, <2>9, <2>10 DEF ThreadStep, Step
<1> QED  BY <1>2, <1>3, <1>4, NextCases

-----------------------------------------------------------------------------
(* Every index lies in the map *)

LEMMA MapSize ==
    ASSUME TypeOK
    PROVE  /\ size * WordBits \in Nat \ {0} /\ Indices \subseteq Nat
           /\ \A i \in Indices \cup {0} : i \in Nat
BY DEF TypeOK, Indices

\* fsync_free_shm_idx frees some of the indices that it is given.
LEMMA FreesGiven ==
    ASSUME NEW S, fsync_free_shm_idx(S)
    PROVE  (\A i \in free' : i \in free \/ i \in S) /\ size' = size
BY DEF fsync_free_shm_idx

\* Closing handles frees indices that objects had.
LEMMA CloseInMap ==
    ASSUME TypeOK, IndicesInMap, NEW closed, close_handles(closed)
    PROVE  /\ size' = size
           /\ \A i \in free' : InMap(i)
           /\ \A o \in Objects : InMap(idx'[o])
<1> DEFINE S == {idx[o] : o \in Destroyed(closed)}
<1>1. fsync_free_shm_idx(S)
    BY DEF close_handles
<1>2. \A i \in S : InMap(i)
    BY DEF Destroyed, IndicesInMap
<1>3. \A i \in free : InMap(i)
    BY DEF IndicesInMap
<1>4. (\A i \in free' : InMap(i)) /\ size' = size
    <2> HIDE DEF S
    <2> QED  BY <1>1, <1>2, <1>3, FreesGiven
<1>5. InMap(0)
    BY MapSize DEF InMap
<1>6. \A o \in Objects : InMap(idx'[o])
    BY <1>5 DEF close_handles, IndicesInMap
<1> QED  BY <1>4, <1>6

\* An index that t has in hand after a step was in hand or was 0 before it, unless
\* t has created an object.
LEMMA TakesInMap ==
    ASSUME TypeOK, CallState, IndicesInMap, NEW t \in Threads, ThreadStep(t),
           ~ \E b \in BOOLEAN : create_fsync(t, b)
    PROVE  InMap(call'[t].i)
<1> USE DEF At
<1>0. /\ call \in [Threads -> Calls] /\ call[t] \in Calls /\ Owner[t] \in Processes
      /\ InMap(call[t].i) /\ InMap(NoCall.i)
      /\ (\A o \in Objects : InMap(idx[o])) /\ (\A p \in Processes, h \in Handles : InMap(cache[p][h]))
    BY MapSize DEF TypeOK, IndicesInMap, InMap, NoCall
<1>1. CASE UNCHANGED call
    BY <1>0, <1>1
<1>2. CASE Returns(t)
    BY <1>0, <1>2 DEF Returns
<1>3. CASE Undo(t)
    BY <1>0, <1>3 DEF Undo, Calls
<1>4. CASE Load(t)
    <2>1. call[t].h \in Handles
        BY <1>4 DEF Load, CallState, InCall
    <2>2. call'[t].i = cache[Owner[t]][call[t].h]
        BY <1>0, <1>4 DEF Load, Calls
    <2> QED  BY <1>0, <2>1, <2>2
<1>5. CASE get_fsync_idx(t)
    <2>1. call[t].h \in Handles
        BY <1>5, Zenon DEF get_fsync_idx, CallState, InCall
    <2>2. Object(t) \in Objects \cup {None}
        <3>1. handle[Owner[t]] \in [Handles -> Objects \cup {None}]
            BY <1>0 DEF TypeOK
        <3> QED  BY <2>1, <3>1 DEF Object
    <2>3. \/ Returns(t)
          \/ Object(t) # None /\ call' = [call EXCEPT ![t].i = idx[Object(t)]]
        BY <1>5, Zenon DEF get_fsync_idx, Object
    <2>4. ASSUME Object(t) # None, call' = [call EXCEPT ![t].i = idx[Object(t)]]
          PROVE  call'[t].i = idx[Object(t)]
        BY <1>0, <2>4 DEF Calls
    <2> QED  BY <1>0, <1>2, <2>2, <2>3, <2>4
<1>6. CASE Drop(t) \/ FreeRequest(t)
    <2>1. Returns(t) \/ call' = [call EXCEPT ![t].undo = FALSE]
        BY <1>6 DEF Drop, FreeRequest, Dropped
    <2> QED  BY <1>0, <1>2, <2>1 DEF Calls
<1>7. CASE \E o \in Objects : open_fsync(t, o)
    <2>1. PICK o \in Objects : open_fsync(t, o)
        BY <1>7
    <2>2. call'[t].i = idx[o]
        BY <1>0, <2>1 DEF open_fsync, NoCall
    <2> QED  BY <1>0, <2>2
<1>8. CASE \E h \in Handles : NtClose(t, h)
    <2>1. call'[t].i = call[t].i
        BY <1>0, <1>8 DEF NtClose, Calls
    <2> QED  BY <1>0, <2>1
<1>9. CASE \E h \in Handles, wait \in BOOLEAN : Call(t, h, wait)
    <2>1. call'[t].i = NoCall.i
        BY <1>0, <1>9 DEF Call, NoCall
    <2> QED  BY <1>0, <2>1
<1>10. CASE Created(t) \/ CloseHandle(t)
    BY <1>2, <1>10 DEF Created, CloseHandle
<1>11. CASE CheckRef(t) \/ CheckCache(t)
    BY <1>1, <1>3, <1>11 DEF CheckRef, CheckCache
<1>12. CASE grab_object(t) \/ Enter(t) \/ add_to_list(t) \/ Use(t) \/ put_object_from_wait(t) \/ put_object(t)
    BY <1>1, <1>12 DEF grab_object, Enter, add_to_list, Use, put_object_from_wait, put_object
<1>13. CASE UninitializedIndex(t) \/ (\E h \in Handles, q \in Processes, b \in BOOLEAN : NtDuplicateObject(t, h, q, b))
    BY <1>1, <1>13 DEF UninitializedIndex, NtDuplicateObject, clientVars
<1> QED  BY <1>4, <1>5, <1>6, <1>7, <1>8, <1>9, <1>10, <1>11, <1>12, <1>13 DEF ThreadStep, Step

\* So it is for the indices that the server and the shared memory know of.
LEMMA ServerInMap ==
    ASSUME TypeOK, CallState, IndicesInMap, NEW t \in Threads, ThreadStep(t),
           ~ \E b \in BOOLEAN : create_fsync(t, b)
    PROVE  /\ size' = size
           /\ \A i \in free' : InMap(i)
           /\ \A o \in Objects : InMap(idx'[o])
           /\ \A i \in Indices : last'[i] # None => InMap(i)
<1> USE DEF At
<1>0. /\ InMap(call[t].i) /\ last \in [Indices -> Processes \cup {None}]
      /\ (\A i \in free : InMap(i)) /\ (\A o \in Objects : InMap(idx[o]))
      /\ \A i \in Indices : last[i] # None => InMap(i)
    BY DEF TypeOK, IndicesInMap
<1>1. CASE CloseHandle(t)
    BY <1>0, <1>1, CloseInMap DEF CloseHandle
<1>2. CASE FreeRequest(t)
    BY <1>0, <1>2, FreesGiven DEF FreeRequest
<1>3. CASE Use(t) \/ put_object_from_wait(t)
    <2>1. UNCHANGED <<free, size, idx>>
        BY <1>3 DEF Use, put_object_from_wait, serverVars
    <2>2. \A i \in Indices : last'[i] # None => last[i] # None \/ i = call[t].i
        BY <1>0, <1>3 DEF Use, put_object_from_wait
    <2> QED  BY <1>0, <2>1, <2>2
<1>4. CASE \/ Created(t) \/ Load(t) \/ grab_object(t) \/ CheckRef(t) \/ CheckCache(t) \/ Enter(t)
           \/ get_fsync_idx(t) \/ add_to_list(t) \/ put_object(t) \/ Drop(t)
           \/ (\E h \in Handles : NtClose(t, h))
           \/ (\E h \in Handles, wait \in BOOLEAN : Call(t, h, wait))
    <2>1. UNCHANGED <<free, size, idx, last>>
        BY <1>4, Zenon DEF Created, Load, grab_object, CheckRef, CheckCache, Enter, get_fsync_idx, add_to_list,
            put_object, Drop, NtClose, Call, serverVars
    <2> QED  BY <1>0, <2>1
<1>5. CASE UninitializedIndex(t) \/ (\E o \in Objects : open_fsync(t, o))
           \/ (\E h \in Handles, q \in Processes, b \in BOOLEAN : NtDuplicateObject(t, h, q, b))
    <2>1. UNCHANGED <<free, size, idx, last>>
        BY <1>5 DEF UninitializedIndex, open_fsync, NtDuplicateObject
    <2> QED  BY <1>0, <2>1
<1> QED  BY <1>1, <1>2, <1>3, <1>4, <1>5 DEF ThreadStep, Step

\* An object is created with an index of the map, which may have grown.
LEMMA CreateInMap ==
    ASSUME TypeOK, CallState, HintNotPast, IndicesInMap, NEW t \in Threads, NEW b \in BOOLEAN, create_fsync(t, b)
    PROVE  IndicesInMap'
<1> DEFINE h == alloc_handle(Owner[t])
           o == CHOOSE new \in Objects : idx[new] = 0
           m == size * WordBits
           n == size' * WordBits
<1>1. /\ o \in Objects /\ fsync_alloc_shm(o) /\ cache' = cache
      /\ \/ call' = [call EXCEPT ![t] = [NoCall EXCEPT !.h = h, !.i = idx'[o]]]
         \/ call' = call
    BY DEF create_fsync
<1> HIDE DEF h, o
<1>2. PICK i \in Indices :
        /\ idx' = [idx EXCEPT ![o] = i] /\ last' = [last EXCEPT ![i] = None]
        /\ \/ i \in free /\ free' = free \ {i} /\ size' = size
           \/ /\ i = m /\ free = {}
              /\ free' = (i..(i + WordBits - 1)) \ {i}
              /\ size' = size + 1 /\ n = i + WordBits
    BY <1>1, AllocStep
<1>3. /\ m \in Nat \ {0} /\ Indices \subseteq Nat /\ WordBits \in Nat \ {0}
      /\ call \in [Threads -> Calls] /\ idx \in [Objects -> Indices \cup {0}]
      /\ cache \in [Processes -> [Handles -> Indices \cup {0}]] /\ last \in [Indices -> Processes \cup {None}]
    BY MapSize DEF TypeOK
<1>4. /\ (\A k \in free : k < m) /\ (\A x \in Objects : idx[x] < m) /\ (\A u \in Threads : call[u].i < m)
      /\ (\A p \in Processes, k \in Handles : cache[p][k] < m) /\ (\A k \in Indices : last[k] # None => k < m)
    BY DEF IndicesInMap, InMap
<1> HIDE DEF m, n
<1>5. n \in Nat /\ m <= n /\ i < n /\ \A k \in free' : k < n
    <2>1. CASE i \in free /\ free' = free \ {i} /\ size' = size
        BY <1>3, <1>4, <2>1 DEF m, n
    <2>2. CASE i = m /\ free' = (i..(i + WordBits - 1)) \ {i} /\ n = i + WordBits
        BY <1>3, <2>2
    <2> QED  BY <1>2, <2>1, <2>2
<1>6. \A k \in Indices \cup {0} : k < m => k < n
    BY <1>3, <1>5
<1>7. \A x \in Objects : idx'[x] < n
    BY <1>1, <1>2, <1>3, <1>4, <1>5, <1>6
<1>8. \A u \in Threads : call'[u].i < n
    <2>1. ASSUME NEW u \in Threads PROVE call'[u].i = call[u].i \/ call'[u].i = idx'[o]
        <3> DEFINE c == [NoCall EXCEPT !.h = h, !.i = idx'[o]]
        <3>1. c.i = idx'[o]
            BY DEF NoCall
        <3>2. call' = call \/ call' = [call EXCEPT ![t] = c]
            BY <1>1
        <3> HIDE DEF c
        <3> QED  BY <1>3, <3>1, <3>2
    <2>2. \A u \in Threads : call[u].i \in Indices \cup {0}
        BY <1>3 DEF Calls
    <2> QED  BY <1>1, <1>4, <1>6, <1>7, <2>1, <2>2
<1>9. \A p \in Processes, k \in Handles : cache'[p][k] < n
    <2>1. \A p \in Processes, k \in Handles : cache[p][k] \in Indices \cup {0}
        BY <1>3
    <2> QED  BY <1>1, <1>4, <1>6, <2>1
<1>10. \A k \in Indices : last'[k] # None => k < n
    BY <1>2, <1>3, <1>4, <1>5, <1>6
<1> QED  BY <1>5, <1>7, <1>8, <1>9, <1>10 DEF IndicesInMap, InMap, n

LEMMA MapStep ==
    ASSUME TypeOK, CallState, HintNotPast, IndicesInMap, Next
    PROVE  IndicesInMap'
<1>0. /\ call \in [Threads -> Calls] /\ cache \in [Processes -> [Handles -> Indices \cup {0}]]
      /\ InMap(0) /\ InMap(NoCall.i)
      /\ (\A p \in Processes, h \in Handles : InMap(cache[p][h])) /\ (\A t \in Threads : InMap(call[t].i))
      /\ \A i \in Indices : last[i] # None => InMap(i)
    BY MapSize DEF TypeOK, IndicesInMap, InMap, NoCall
<1>1. ASSUME size' = size,
             \A i \in free' : InMap(i),
             \A o \in Objects : InMap(idx'[o]),
             \A p \in Processes, h \in Handles : InMap(cache'[p][h]),
             \A t \in Threads : InMap(call'[t].i),
             \A i \in Indices : last'[i] # None => InMap(i)
      PROVE  IndicesInMap'
    BY <1>1 DEF IndicesInMap, InMap
<1>2. ASSUME NEW t \in Threads, ThreadStep(t), ~ \E b \in BOOLEAN : create_fsync(t, b) PROVE IndicesInMap'
    <2>1. \A u \in Threads : InMap(call'[u].i)
        BY <1>0, <1>2, TakesInMap, OthersStep
    <2>2. \A p \in Processes, h \in Handles : InMap(cache'[p][h])
        <3>1. CASE UNCHANGED cache
            BY <1>0, <3>1
        <3>2. CASE cache' = [cache EXCEPT ![Owner[t]][call[t].h] = call[t].i]
            <4>1. \A p \in Processes, h \in Handles : cache'[p][h] = cache[p][h] \/ cache'[p][h] = call[t].i
                BY <1>0, <3>2
            <4> QED  BY <1>0, <4>1
        <3>3. CASE \E h \in Handles : NtClose(t, h)
            <4>1. \A p \in Processes, h \in Handles : cache'[p][h] = cache[p][h] \/ cache'[p][h] = 0
                BY <1>0, <3>3 DEF NtClose, fsync_close
            <4> QED  BY <1>0, <4>1
        <3> QED  BY <1>2, <3>1, <3>2, <3>3, CacheWrites
    <2> QED  BY <1>1, <1>2, <2>1, <2>2, ServerInMap
<1>3. ASSUME NEW p \in Processes, process_killed(p) PROVE IndicesInMap'
    <2>1. close_handles({p} \X Handles) /\ last' = last /\ cache' = cache
        BY <1>3 DEF process_killed
    <2>2. \A t \in Threads : InMap(call'[t].i)
        BY <1>0, <1>3 DEF process_killed
    <2> QED  BY <1>0, <1>1, <2>1, <2>2, CloseInMap
<1>4. ASSUME NEW p \in Processes, process_destroy(p) PROVE IndicesInMap'
    <2> DEFINE S == {i \in Indices \ free : last[i] = p /\ ref[i] = 1}
    <2>1. fsync_free_shm_idx(S) /\ UNCHANGED <<idx, last, cache, call>>
        BY <1>4 DEF process_destroy, fsync_cleanup_process_shm_indices, clientVars
    <2>2. \A i \in S : InMap(i)
        BY <1>0
    <2>3. (\A i \in free : InMap(i)) /\ (\A o \in Objects : InMap(idx[o]))
        BY DEF IndicesInMap
    <2>4. (\A i \in free' : InMap(i)) /\ size' = size
        <3> HIDE DEF S
        <3> QED  BY <2>1, <2>2, <2>3, FreesGiven
    <2> QED  BY <1>0, <1>1, <2>1, <2>3, <2>4
<1> QED  BY <1>2, <1>3, <1>4, CreateInMap, NextCases

-----------------------------------------------------------------------------
(* The theorems *)

LEMMA InvInit == Init => IInv
<1> SUFFICES ASSUME Init PROVE IInv
    OBVIOUS
<1> USE DEF Init
<1>0. /\ 0 \notin Indices /\ Indices \subseteq Nat /\ InitialWords * WordBits \in Nat
      /\ 1..(InitialWords * WordBits - 1) \subseteq Indices
    <2>1. /\ InitialWords * WordBits \in Nat /\ MaxWords * WordBits \in Nat
          /\ InitialWords * WordBits <= MaxWords * WordBits
        BY MapMonotone
    <2>2. Indices = 1..(MaxWords * WordBits - 1)
        BY DEF Indices
    <2> HIDE DEF Init
    <2> QED  BY <2>1, <2>2
<1>1. TypeOK
    <2>1. NoCall \in Calls /\ "idle" \in Places
        BY DEF NoCall, Calls, Places
    <2>2. pc \in [Threads -> Places] /\ call \in [Threads -> Calls]
        BY <2>1
    <2>3. program \in Programs /\ budget \in Nat /\ size \in InitialWords..MaxWords /\ hint \in Nat
        OBVIOUS
    <2>4. /\ free \subseteq Indices /\ excused \subseteq Indices
          /\ idx \in [Objects -> Indices \cup {0}]
          /\ ref \in [Indices -> Int] /\ last \in [Indices -> Processes \cup {None}]
        BY <1>0
    <2>5. /\ handle \in [Processes -> [Handles -> Objects \cup {None}]]
          /\ process \in [Processes -> {"running", "killed", "gone"}]
          /\ aborted \in BOOLEAN /\ undefined \in BOOLEAN
          /\ cache \in [Processes -> [Handles -> Indices \cup {0}]]
          /\ lock \in [Processes -> Threads \cup {None}]
        OBVIOUS
    <2> QED  BY <2>2, <2>3, <2>4, <2>5 DEF TypeOK
<1>2. \A t \in Threads : ~InCall(t) /\ ~HasIndex(t) /\ ~Holding(t) /\ pc[t] = "idle" /\ Living(Owner[t])
    BY DEF InCall, HasIndex, Holding, Living
<1>3. CallState
    BY <1>2 DEF CallState
<1>4. HintNotPast
    <2>1. ASSUME NEW i \in free PROVE hint <= Word(i)
        BY <1>0, WordMonotone
    <2> QED  BY <2>1 DEF HintNotPast
<1>8. IndicesInMap
    <2>1. InitialWords * WordBits > 0
        BY MapSize, <1>1
    <2>2. \A i \in free : InMap(i)
        BY <1>0 DEF InMap
    <2> QED  BY <2>1, <2>2 DEF IndicesInMap, InMap, NoCall
<1>5. CacheState
    BY <1>2 DEF CacheState, CacheIsTrue
<1>6. UseState
    BY <1>2 DEF UseState
<1>7. CountState
    <2>1. ASSUME NEW i \in Indices PROVE CountOf(i)
        <3>1. /\ ~HasObject(i) /\ Holders(i) = {} /\ ~Left(i) /\ ref[i] = 0
              /\ \A p \in Processes : last[i] # p
            BY <1>0, <1>2 DEF HasObject, Holders, Left
        <3>2. References(i) = 0
            BY <3>1, FS_EmptySet DEF References
        <3>3. MapOf(i)
            BY <1>0, <3>1 DEF MapOf, Indices
        <3> QED  BY <3>1, <3>2, <3>3 DEF CountOf, MapOf
    <2> QED  BY <2>1 DEF CountState
<1> QED  BY <1>1, <1>3, <1>4, <1>5, <1>6, <1>7, <1>8 DEF IInv

LEMMA InvStep == IInv /\ [Next]_vars => IInv'
<1> SUFFICES ASSUME IInv, [Next]_vars PROVE IInv'
    OBVIOUS
<1>1. CASE Next
    <2>0. TypeOK /\ CallState /\ HintNotPast /\ IndicesInMap /\ UNCHANGED program
        BY <1>1 DEF IInv, Next
    <2>1. TypeOK' /\ HintNotPast' /\ CallState' /\ IndicesInMap'
        BY <1>1, <2>0, TypeStep, CallStep, MapStep
    <2>2. ASSUME ~Moves' PROVE CacheState'
        <3>1. ~Moves
            BY <2>0, <2>2 DEF Moves
        <3> QED  BY <1>1, <2>0, <3>1, CacheStep DEF IInv
    <2>3. ASSUME ~Moves', ~(program'.closes_in_use) PROVE UseState' /\ CountState'
        <3>1. ~Moves /\ ~program.closes_in_use
            BY <2>0, <2>3 DEF Moves
        <3>2. CacheState /\ UseState /\ CountState
            BY <3>1 DEF IInv
        <3> QED  BY <1>1, <2>0, <3>1, <3>2, UseStep, CountStep
    <2> QED  BY <2>1, <2>2, <2>3 DEF IInv
<1>2. CASE UNCHANGED vars
    <2> USE <1>2 DEF vars, serverVars, clientVars
    <2>1. TypeOK' <=> TypeOK
        BY DEF TypeOK
    <2>2. (CallState' <=> CallState) /\ (HintNotPast' <=> HintNotPast) /\ (Moves' <=> Moves)
        BY DEF CallState, InCall, HasIndex, Holding, Living, HintNotPast, Moves
    <2>3. CacheState' <=> CacheState
        BY DEF CacheState, CacheIsTrue, Object, Living
    <2>4. UseState' <=> UseState
        BY DEF UseState, InCall, HasIndex, Holding, Object
    <2>5. ASSUME NEW i PROVE CountOf(i)' <=> CountOf(i)
        <3>1. (HasObject(i)' <=> HasObject(i)) /\ Holders(i)' = Holders(i) /\ (Left(i)' <=> Left(i))
            BY DEF HasObject, Holders, Holding, Left
        <3>2. References(i)' = References(i)
            BY <3>1 DEF References
        <3> QED  BY <3>1, <3>2 DEF CountOf, Living
    <2>6. CountState' <=> CountState
        BY <2>5 DEF CountState
    <2>7. IndicesInMap' <=> IndicesInMap
        BY DEF IndicesInMap, InMap
    <2> QED  BY <2>1, <2>2, <2>3, <2>4, <2>6, <2>7 DEF IInv
<1> QED  BY <1>1, <1>2

\* The inductive invariant holds in every program, as long as the model goes on.
THEOREM Invariant == Spec => []IInv
<1> QED  BY InvInit, InvStep, PTL DEF Spec

\* Every variable keeps its type, and no index leaves the map: what is free,
\* what an object has and what a client has cached, holds or has marked as its
\* own is below the size of the map, also where the map grows, a process is
\* killed in a call, or a handle is moved or closed in use.  So the assertion of
\* fsync_free_shm_idx on the size of the map holds for every index it is given.
\* It says nothing once fsync_alloc_shm has read the uninitialized shm_idx.
THEOREM TypeCorrect == Spec => [](TypeOK /\ (~undefined => IndicesInMap))
<1>1. IInv => TypeOK /\ (~undefined => IndicesInMap)
    BY DEF IInv
<1> QED  BY <1>1, Invariant, PTL

\* "shm_idx_free_search_start_hint is always at the first word with a free index
\* or before that" (server/fsync.c), whatever is closed or killed:
\* fsync_alloc_shm enlarges the map only when nothing is free.  Of the
\* uninitialized shm_idx, at which the model stops, it says nothing.
THEOREM HintInSight == Spec => []HintNotPast
<1>1. IInv => HintNotPast
    BY DEF IInv
<1> QED  BY <1>1, Invariant, PTL

\* Unless handles are moved with DUPLICATE_CLOSE_SOURCE, what get_cached_object
\* reads in the cache of a living process is the index of an open handle.  This
\* holds for programs that close handles in use, too.
THEOREM CachesAreTrue ==
    ASSUME \A p \in Programs : "move" \notin p.requests
    PROVE  Spec => []CacheIsTrue
<1>1. IInv => CacheIsTrue
    BY DEF IInv, TypeOK, Moves, CacheState
<1> QED  BY <1>1, Invariant, PTL

\* The count of an index covers its object and the threads that have grabbed it,
\* a free index is in nobody's hands, and the assertions of fsync_free_shm_idx
\* hold: in programs that move no handle, and of these the ones that
\* close no handle in use.
THEOREM IndicesAreKept ==
    ASSUME \A p \in Programs : "move" \notin p.requests
    PROVE  Spec => []IndicesKept
<1>1. IInv => IndicesKept
    <2> SUFFICES ASSUME IInv, ~program.closes_in_use, NEW i \in Indices
                 PROVE  LET objs == {o \in Objects : idx[o] = i}
                        IN  /\ ~aborted
                            /\ i \in free => ref[i] = 0
                            /\ Cardinality(objs) <= 1
                            /\ ref[i] >= Cardinality(objs) + Cardinality(Holders(i))
        <3>1. ~program.closes_in_use /\ IInv => ~aborted
            BY DEF IInv, TypeOK, Moves, UseState
        <3> QED  BY <3>1 DEF IndicesKept
    <2> DEFINE objs == {o \in Objects : idx[o] = i}
    <2>1. TypeOK /\ UseState /\ CountState
        BY DEF IInv, TypeOK, Moves
    <2>2. /\ ref[i] \in Int /\ Cardinality(Holders(i)) \in Nat /\ References(i) \in Nat
          /\ CountOf(i) /\ i # 0 /\ ~aborted
        BY <2>1, CountTypes DEF CountState, UseState, Indices
    <2>3. Cardinality(objs) = IF HasObject(i) THEN 1 ELSE 0
        <3>1. CASE HasObject(i)
            <4>1. PICK o \in Objects : idx[o] = i
                BY <3>1 DEF HasObject
            <4>2. objs = {o}
                BY <2>1, <2>2, <4>1 DEF CountState
            <4> QED  BY <3>1, <4>2, FS_Singleton
        <3>2. CASE ~HasObject(i)
            <4>1. objs = {}
                BY <3>2 DEF HasObject
            <4> QED  BY <3>2, <4>1, FS_EmptySet
        <3> QED  BY <3>1, <3>2
    <2> HIDE DEF objs
    <2>4. /\ ref[i] >= References(i)
          /\ i \in free => ref[i] = 0
        BY <2>2 DEF CountOf
    <2>5. ref[i] >= Cardinality(objs) + Cardinality(Holders(i)) /\ Cardinality(objs) <= 1
        BY <2>2, <2>3, <2>4 DEF References
    <2> QED  BY <2>2, <2>4, <2>5 DEF objs
<1> QED  BY <1>1, Invariant, PTL

\* In these programs an index that is neither free nor in use was left by a
\* killed process, and either the clean-up of the process frees it or the process
\* shared it or did not wait.
THEOREM IndicesReturn ==
    ASSUME \A p \in Programs : "move" \notin p.requests
    PROVE  Spec => []IndicesComeBack
<1>1. IInv => IndicesComeBack
    <2> SUFFICES ASSUME IInv, ~program.closes_in_use,
                        NEW i \in (1..(size * WordBits - 1)) \ (free \cup excused),
                        ~HasObject(i), Holders(i) = {}
                 PROVE  Left(i)
        BY DEF IndicesComeBack, HasObject, Left
    <2>1. TypeOK /\ CountState
        BY DEF IInv, TypeOK, Moves
    <2>2. i \in Indices
        <3>1. size \in Nat /\ size <= MaxWords
            BY <2>1 DEF TypeOK
        <3>2. size * WordBits \in Nat /\ MaxWords * WordBits \in Nat /\ size * WordBits <= MaxWords * WordBits
            BY <3>1, MapMonotone
        <3> QED  BY <3>2 DEF Indices
    <2>3. CountOf(i) /\ i \in Nat /\ size * WordBits \in Nat
        BY <2>1, <2>2, CountTypes DEF CountState
    <2>4. ref[i] # 0 /\ ref[i] = References(i)
        BY <2>3 DEF CountOf
    <2>5. Cardinality(Holders(i)) = 0
        BY FS_EmptySet
    <2> QED  BY <2>4, <2>5 DEF References
<1> QED  BY <1>1, Invariant, PTL
=============================================================================
