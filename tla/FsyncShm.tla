------------------------------ MODULE FsyncShm ------------------------------
(***************************************************************************)
(* The shared memory of fsync: server/fsync.c hands out indices to         *)
(* objects, dlls/ntdll/unix/fsync.c keeps a cache from handles to indices  *)
(* in every process, counts references in the shared memory itself, and    *)
(* has the server free an index whose last reference it drops.             *)
(*                                                                         *)
(* A server request is one step; what a client does between two accesses   *)
(* to shared state is one step.  A call on an object finds its index, uses *)
(* it, as a wait or otherwise, and drops it.                               *)
(***************************************************************************)
EXTENDS Integers, FiniteSets, FiniteSetsExt

CONSTANTS
    Processes, Threads,
    Owner,          \* Owner[t]: the process of t
    Objects,        \* names for the objects that exist at one time
    Handles,        \* handle values, positive integers
    None,           \* no object, no thread, no process
    WordBits,       \* BITS_IN_FREE_MAP_WORD
    InitialWords,   \* shm_idx_free_map_size at the start
    MaxWords,       \* bound on its growth (model only)
    Programs        \* the programs to check, see below

\* A program: the requests that it makes besides the calls, how many of them,
\* and whether it closes handles that other threads are using.
ASSUME FsyncShmAssumption ==
    /\ Owner \in [Threads -> Processes] /\ IsFiniteSet(Threads)
    /\ Handles \subseteq Nat \ {0} /\ Handles # {}
    /\ WordBits \in Nat \ {0} /\ InitialWords \in Nat \ {0}
    /\ MaxWords \in Nat /\ InitialWords <= MaxWords
    /\ None \notin Objects \cup Threads \cup Processes
    /\ \A p \in Programs :
        p.threads \subseteq Threads /\ p.budget \in Nat /\ p.closes_in_use \in BOOLEAN

VARIABLES
    program, budget,
    \* the server
    free, size, hint,   \* shm_idx_free_map, .._size, shm_idx_free_search_start_hint
    idx,                \* idx[o]: fsync_idx of the object, 0 if there is none
    handle,             \* handle[p][h]: the object of an entry of the handle table
    process,            \* process[p]: "running", "killed", "gone"
    aborted,            \* an assertion failed
    undefined,          \* an uninitialized shm_idx was used
    \* the shared memory
    ref, last,          \* shm[2] and shm[3]: references, "Last reference process id"
    \* the clients
    cache,              \* cache[p][h]: fsync_list, an index or 0
    lock,               \* lock[p]: the thread in the section of fd_cache_mutex
    pc, call,           \* the thread's place in a call, and what it has found out
    excused             \* indices that a killed process may leave behind

serverVars == <<free, size, hint, idx, handle, process, aborted, undefined>>
clientVars == <<cache, lock, pc, call>>
vars == <<program, budget, serverVars, ref, last, clientVars, excused>>

Indices == 1..(MaxWords * WordBits - 1)
Word(i) == i \div WordBits

NoCall == [h |-> 0, i |-> 0, wait |-> FALSE, undo |-> FALSE]

Init ==
    /\ program \in Programs /\ budget = program.budget
    /\ free = 1..(InitialWords * WordBits - 1)     \* "Avoid allocating shm_index 0"
    /\ size = InitialWords /\ hint = 0
    /\ idx = [o \in Objects |-> 0]
    /\ handle = [p \in Processes |-> [h \in Handles |-> None]]
    /\ process = [p \in Processes |-> "running"]
    /\ aborted = FALSE /\ undefined = FALSE
    /\ ref = [i \in Indices |-> 0] /\ last = [i \in Indices |-> None]
    /\ cache = [p \in Processes |-> [h \in Handles |-> 0]]
    /\ lock = [p \in Processes |-> None]
    /\ pc = [t \in Threads |-> "idle"]
    /\ call = [t \in Threads |-> NoCall]
    /\ excused = {}

-----------------------------------------------------------------------------
(* The server: indices *)

\* fsync_alloc_shm: the first free index from the hint on, in a larger map if
\* there is none.
fsync_alloc_shm(o) ==
    LET found == {i \in free : Word(i) >= hint}
        grow == found = {}
        i == IF grow THEN size * WordBits ELSE Min(found)
        left == (IF grow THEN free \cup (i..(i + WordBits - 1)) ELSE free) \ {i}
    IN  /\ grow => size < MaxWords
        /\ free' = left
        /\ size' = IF grow THEN size + 1 ELSE size
        /\ hint' = IF \E k \in left : Word(k) = Word(i) THEN Word(i) ELSE Word(i) + 1
        /\ idx' = [idx EXCEPT ![o] = i]
        /\ ref' = [ref EXCEPT ![i] = 1]
        /\ last' = [last EXCEPT ![i] = None]

\* Variant: the hint stays where it is.
fsync_free_shm_idx_behind(indices) ==
    LET dropped == {i \in indices : ref[i] > 0}
        freed == {i \in dropped : ref[i] = 1}
    IN  /\ ref' = [i \in Indices |-> IF i \in dropped THEN ref[i] - 1 ELSE ref[i]]
        /\ free' = free \cup freed
        /\ aborted' = (aborted \/ freed \cap free # {})
        /\ UNCHANGED <<size, hint>>

\* fsync_free_shm_idx, for each of a set of indices
fsync_free_shm_idx(indices) ==
    LET dropped == {i \in indices : ref[i] > 0}
        freed == {i \in dropped : ref[i] = 1}
    IN  /\ ref' = [i \in Indices |-> IF i \in dropped THEN ref[i] - 1 ELSE ref[i]]
        /\ free' = free \cup freed
        /\ hint' = Min({hint} \cup {Word(i) : i \in freed})
        /\ aborted' = (aborted \/ freed \cap free # {})
        /\ UNCHANGED size

-----------------------------------------------------------------------------
(* The server: handles and objects *)

Open(p) == {h \in Handles : handle[p][h] # None}

\* alloc_handle takes the first entry that is free.
alloc_handle(p) == Min(Handles \ Open(p))

\* The objects that go when the handles in closed, pairs <<p, h>>, are closed.
Destroyed(closed) ==
    {o \in Objects : /\ idx[o] # 0
                     /\ \A p \in Processes : \A h \in Handles :
                            handle[p][h] = o => <<p, h>> \in closed}

close_handles(closed) ==
    /\ handle' = [p \in Processes |-> [h \in Handles |->
                    IF <<p, h>> \in closed THEN None ELSE handle[p][h]]]
    /\ idx' = [o \in Objects |-> IF o \in Destroyed(closed) THEN 0 ELSE idx[o]]
    /\ fsync_free_shm_idx({idx[o] : o \in Destroyed(closed)})

-----------------------------------------------------------------------------
(* Clients: requests of the program *)

Running(t) == process[Owner[t]] = "running" /\ ~aborted /\ ~undefined
At(t, place) == Running(t) /\ pc[t] = place

Request(t, name) ==
    /\ At(t, "idle")
    /\ name \in program.requests /\ budget > 0
    /\ budget' = budget - 1

\* The handles that the program of p knows and no other thread is working on.
Known(p) ==
    {h \in Open(p) : \A t \in Threads :
        Owner[t] = p /\ call[t].h = h => pc[t] \notin {"created", "closing"}}
InUse(p, h) == \E t \in Threads : Owner[t] = p /\ pc[t] # "idle" /\ call[t].h = h
MayClose(p) == {h \in Known(p) : program.closes_in_use \/ ~InUse(p, h)}

Goes(t, place) == pc' = [pc EXCEPT ![t] = place]
Returns(t) == Goes(t, "idle") /\ call' = [call EXCEPT ![t] = NoCall]

\* create_fsync of an object that does not exist, or NtCreate* of a server
\* object that has an index, which the client does not cache.
create_fsync(t, cached) ==
    LET p == Owner[t]
        h == alloc_handle(p)
        o == CHOOSE new \in Objects : idx[new] = 0
    IN  /\ Request(t, "create")
        /\ (\E new \in Objects : idx[new] = 0) /\ Open(p) # Handles
        /\ fsync_alloc_shm(o)
        /\ handle' = [handle EXCEPT ![p][h] = o]
        /\ IF cached
           THEN /\ call' = [call EXCEPT ![t] = [NoCall EXCEPT !.h = h, !.i = idx'[o]]]
                /\ Goes(t, "created")
           ELSE UNCHANGED <<call, pc>>
        /\ UNCHANGED <<process, aborted, undefined, cache, lock, excused>>

\* When the hint has passed the map the loop of fsync_alloc_shm does not run
\* and shm_idx is not initialized.  If it happens to be 0 the map is enlarged,
\* as above; any other value is handed out.  Nothing is known from then on, and
\* the model stops.
UninitializedIndex(t) ==
    /\ Request(t, "create")
    /\ hint >= size
    /\ undefined' = TRUE
    /\ UNCHANGED <<free, size, hint, idx, handle, process, aborted, ref, last, clientVars, excused>>

\* open_fsync, or create_fsync of one that exists
open_fsync(t, o) ==
    LET p == Owner[t]
        h == alloc_handle(p)
    IN  /\ Request(t, "open")
        /\ idx[o] # 0 /\ Open(p) # Handles
        /\ handle' = [handle EXCEPT ![p][h] = o]
        /\ call' = [call EXCEPT ![t] = [NoCall EXCEPT !.h = h, !.i = idx[o]]]
        /\ Goes(t, "created")
        /\ UNCHANGED <<free, size, hint, idx, process, aborted, undefined, ref, last, cache, lock, excused>>

\* add_to_list
Created(t) ==
    /\ At(t, "created")
    /\ cache' = [cache EXCEPT ![Owner[t]][call[t].h] = call[t].i]
    /\ Returns(t)
    /\ UNCHANGED <<budget, serverVars, ref, last, lock, excused>>

fsync_close(p, h) == cache' = [cache EXCEPT ![p][h] = 0]

\* NtClose enters the section and empties the cache entry ...
NtClose(t, h) ==
    LET p == Owner[t]
    IN  /\ Request(t, "close") /\ h \in MayClose(p)
        /\ lock[p] = None
        /\ lock' = [lock EXCEPT ![p] = t]
        /\ fsync_close(p, h)
        /\ call' = [call EXCEPT ![t].h = h]
        /\ Goes(t, "closing")
        /\ UNCHANGED <<serverVars, ref, last, excused>>

\* ... and then closes the handle on the server.
CloseHandle(t) ==
    LET p == Owner[t]
    IN  /\ At(t, "closing")
        /\ close_handles({<<p, call[t].h>>})
        /\ lock' = [lock EXCEPT ![p] = None]
        /\ Returns(t)
        /\ UNCHANGED <<budget, process, undefined, last, cache, excused>>

\* NtDuplicateObject; with DUPLICATE_CLOSE_SOURCE only the cached fd is removed.
\* Within a process this flag gives the same handle back, and nothing changes.
NtDuplicateObject(t, h, q, close) ==
    LET p == Owner[t]
    IN  /\ Request(t, IF close THEN "move" ELSE "duplicate")
        /\ h \in IF close THEN MayClose(p) ELSE Known(p)
        /\ (close => p # q) /\ process[q] = "running" /\ Open(q) # Handles
        /\ lock[p] = None
        /\ handle' = [handle EXCEPT ![q][alloc_handle(q)] = handle[p][h],
                                    ![p][h] = IF close THEN None ELSE @]
        /\ UNCHANGED <<free, size, hint, idx, process, aborted, undefined, ref, last, clientVars, excused>>

-----------------------------------------------------------------------------
(* Clients: a call on an object *)

\* The program calls SetEvent, WaitForSingleObject and so on.
Call(t, h, wait) ==
    /\ At(t, "idle") /\ "call" \in program.requests
    /\ h \in Known(Owner[t])
    /\ call' = [call EXCEPT ![t] = [NoCall EXCEPT !.h = h, !.wait = wait]]
    /\ Goes(t, "load")
    /\ UNCHANGED <<budget, serverVars, ref, last, cache, lock, excused>>

\* get_cached_object reads the cache.  If there is nothing get_object tries
\* again inside the section, and then asks the server.
Load(t) ==
    LET p == Owner[t]
        i == cache[p][call[t].h]
    IN  /\ At(t, "load")
        /\ call' = [call EXCEPT ![t].i = i]
        /\ Goes(t, IF i # 0 THEN "grab" ELSE IF lock[p] = t THEN "request" ELSE "enter")
        /\ UNCHANGED <<budget, serverVars, ref, last, cache, lock, excused>>

grab_object(t) ==
    /\ At(t, "grab")
    /\ ref' = [ref EXCEPT ![call[t].i] = @ + 1]
    /\ Goes(t, "check_ref")
    /\ UNCHANGED <<budget, serverVars, last, cache, lock, call, excused>>

Undo(t) == Goes(t, "put") /\ call' = [call EXCEPT ![t].undo = TRUE]

\* "This check does not strictly guarantee that we avoid the potential race":
\* first the reference count, ...
CheckRef(t) ==
    /\ At(t, "check_ref")
    /\ \/ ref[call[t].i] < 2 /\ Undo(t)
       \/ ref[call[t].i] >= 2 /\ Goes(t, "check_cache") /\ UNCHANGED call
    /\ UNCHANGED <<budget, serverVars, ref, last, cache, lock, excused>>

Leave(t) == lock' = [p \in Processes |-> IF lock[p] = t THEN None ELSE lock[p]]

\* ... then the cache.
CheckCache(t) ==
    /\ At(t, "check_cache")
    /\ \/ /\ cache[Owner[t]][call[t].h] = call[t].i
          /\ Leave(t)
          /\ Goes(t, "held")
          /\ UNCHANGED call
       \/ /\ cache[Owner[t]][call[t].h] # call[t].i
          /\ Undo(t)
          /\ UNCHANGED lock
    /\ UNCHANGED <<budget, serverVars, ref, last, cache, excused>>

\* get_object: "Uninterrupted section is needed to avoid race with NtClose()".
Enter(t) ==
    LET p == Owner[t]
    IN  /\ At(t, "enter")
        /\ lock[p] = None
        /\ lock' = [lock EXCEPT ![p] = t]
        /\ Goes(t, "load")
        /\ UNCHANGED <<budget, serverVars, ref, last, cache, call, excused>>

\* Variant: the section is left before the answer is cached.
get_fsync_idx_leaves(t) ==
    LET o == handle[Owner[t]][call[t].h]
    IN  /\ At(t, "request")
        /\ Leave(t)
        /\ \/ /\ o # None
              /\ ref' = [ref EXCEPT ![idx[o]] = @ + 1]
              /\ call' = [call EXCEPT ![t].i = idx[o]]
              /\ Goes(t, "add")
           \/ /\ o = None
              /\ Returns(t)
              /\ UNCHANGED ref
        /\ UNCHANGED <<budget, serverVars, last, cache, excused>>

\* Variant: the server does not count the reference.
get_fsync_idx_uncounted(t) ==
    LET o == handle[Owner[t]][call[t].h]
    IN  /\ At(t, "request")
        /\ \/ /\ o # None
              /\ call' = [call EXCEPT ![t].i = idx[o]]
              /\ Goes(t, "add")
              /\ UNCHANGED lock
           \/ /\ o = None
              /\ Returns(t) /\ Leave(t)
        /\ UNCHANGED <<budget, serverVars, ref, last, cache, excused>>

\* "get_fsync_idx server request increments shared mem refcount"
get_fsync_idx(t) ==
    LET o == handle[Owner[t]][call[t].h]
    IN  /\ At(t, "request")
        /\ \/ /\ o # None
              /\ ref' = [ref EXCEPT ![idx[o]] = @ + 1]
              /\ call' = [call EXCEPT ![t].i = idx[o]]
              /\ Goes(t, "add")
              /\ UNCHANGED lock
           \/ /\ o = None
              /\ Returns(t) /\ Leave(t)
              /\ UNCHANGED ref
        /\ UNCHANGED <<budget, serverVars, last, cache, excused>>

add_to_list(t) ==
    /\ At(t, "add")
    /\ cache' = [cache EXCEPT ![Owner[t]][call[t].h] = call[t].i]
    /\ Leave(t)
    /\ Goes(t, "held")
    /\ UNCHANGED <<budget, serverVars, ref, last, call, excused>>

\* get_object_for_wait: "Give wineserver a chance to cleanup shm index if the
\* process is killed while we are waiting on the object".
Use(t) ==
    /\ At(t, "held")
    /\ last' = IF call[t].wait THEN [last EXCEPT ![call[t].i] = Owner[t]] ELSE last
    /\ Goes(t, IF call[t].wait THEN "waiting" ELSE "put")
    /\ UNCHANGED <<budget, serverVars, ref, cache, lock, call, excused>>

put_object_from_wait(t) ==
    /\ At(t, "waiting")
    /\ last' = [last EXCEPT ![call[t].i] = IF @ = Owner[t] THEN None ELSE @]
    /\ Goes(t, "put")
    /\ UNCHANGED <<budget, serverVars, ref, cache, lock, call, excused>>

\* put_object: "We are holding the last reference, it should be released on
\* server so shm idx get freed."  The count is read here ...
put_object(t) ==
    /\ At(t, "put")
    /\ Goes(t, IF ref[call[t].i] = 1 THEN "free" ELSE "drop")
    /\ UNCHANGED <<budget, serverVars, ref, last, cache, lock, call, excused>>

\* ... and the reference dropped later.  get_cached_object then starts again.
Dropped(t) ==
    IF call[t].undo THEN Goes(t, "load") /\ call' = [call EXCEPT ![t].undo = FALSE] ELSE Returns(t)
Drop(t) ==
    /\ At(t, "drop")
    /\ ref' = [ref EXCEPT ![call[t].i] = @ - 1]
    /\ Dropped(t)
    /\ UNCHANGED <<budget, serverVars, last, cache, lock, excused>>

FreeRequest(t) ==
    /\ At(t, "free")
    /\ fsync_free_shm_idx({call[t].i})
    /\ Dropped(t)
    /\ UNCHANGED <<budget, idx, handle, process, undefined, last, cache, lock, excused>>

-----------------------------------------------------------------------------
(* The death of a process *)

Holding(t) == pc[t] \in {"check_ref", "check_cache", "add", "held", "waiting", "put", "drop", "free"}
Holders(i) == {t \in Threads : Holding(t) /\ call[t].i = i}
Living(p) == process[p] = "running"

\* The clean-up can tell that p has left i only if p waited for an object of
\* its own, with one thread.
Recoverable(p, i) ==
    /\ last[i] = p
    /\ \E t \in Threads : Holders(i) = {t} /\ pc[t] = "waiting"
    /\ \A o \in Objects, q \in Processes \ {p}, h \in Handles :
            idx[o] = i => handle[q][h] # o

\* process_killed closes the handles; what the threads held stays counted.
process_killed(p) ==
    /\ "kill" \in program.requests /\ budget > 0 /\ budget' = budget - 1
    /\ Living(p) /\ ~aborted /\ ~undefined
    /\ process' = [process EXCEPT ![p] = "killed"]
    /\ close_handles({p} \X Handles)
    /\ excused' = excused \cup
            {i \in Indices : /\ \E t \in Holders(i) : Owner[t] = p
                             /\ ~Recoverable(p, i)}
    /\ pc' = [t \in Threads |-> IF Owner[t] = p THEN "dead" ELSE pc[t]]
    /\ call' = [t \in Threads |-> IF Owner[t] = p THEN NoCall ELSE call[t]]
    /\ UNCHANGED <<undefined, last, cache, lock>>

\* Variant: the object's reference is expected as well.
fsync_cleanup_late(p) ==
    fsync_free_shm_idx({i \in Indices \ free : last[i] = p /\ ref[i] = 2})

fsync_cleanup_process_shm_indices(p) ==
    fsync_free_shm_idx({i \in Indices \ free : last[i] = p /\ ref[i] = 1})

process_destroy(p) ==
    /\ process[p] = "killed" /\ ~aborted /\ ~undefined
    /\ process' = [process EXCEPT ![p] = "gone"]
    /\ fsync_cleanup_process_shm_indices(p)
    /\ UNCHANGED <<budget, idx, handle, undefined, last, clientVars, excused>>

-----------------------------------------------------------------------------
Step(t) ==
    \/ Created(t) \/ CloseHandle(t)
    \/ Load(t) \/ grab_object(t) \/ CheckRef(t) \/ CheckCache(t)
    \/ Enter(t) \/ get_fsync_idx(t) \/ add_to_list(t)
    \/ Use(t) \/ put_object_from_wait(t) \/ put_object(t) \/ Drop(t) \/ FreeRequest(t)

ThreadStep(t) ==
    \/ Step(t) \/ UninitializedIndex(t)
    \/ \E b \in BOOLEAN : create_fsync(t, b)
    \/ \E o \in Objects : open_fsync(t, o)
    \/ \E h \in Handles :
        \/ NtClose(t, h)
        \/ \E wait \in BOOLEAN : Call(t, h, wait)
        \/ \E q \in Processes, b \in BOOLEAN : NtDuplicateObject(t, h, q, b)

Next ==
    /\ UNCHANGED program
    /\ \/ \E t \in program.threads : ThreadStep(t)
       \/ \E p \in Processes : process_killed(p) \/ process_destroy(p)

Spec == Init /\ [][Next]_vars

-----------------------------------------------------------------------------
(* Properties *)

\* "shm_idx_free_search_start_hint is always at the first word with a free
\* index or before that": no free index is out of the allocator's sight.
HintNotPast == \A i \in free : hint <= Word(i)

\* A cache entry belongs to an open handle and has the index of its object,
\* whatever other threads close meanwhile: a call can be mistaken about its
\* object only if it was under way when the handle was closed.
CacheIsTrue ==
    \A p \in Processes, h \in Handles :
        cache[p][h] # 0 /\ Living(p) =>
            handle[p][h] # None /\ idx[handle[p][h]] = cache[p][h]

\* In a program that closes no handle another thread is using, an index that
\* is free is in nobody's hands, no two objects share one, the counts are not
\* below the references, and the server meets none of its assertions.
IndicesKept ==
    ~program.closes_in_use =>
        /\ ~aborted
        /\ \A i \in Indices :
            LET objs == {o \in Objects : idx[o] = i}
            IN  /\ i \in free => ref[i] = 0
                /\ Cardinality(objs) <= 1
                /\ ref[i] >= Cardinality(objs) + Cardinality(Holders(i))

\* In such a program every index comes back: one that is neither free nor of
\* use to anyone was left by a killed process that shared it or did not wait,
\* or is about to be cleaned up.
IndicesComeBack ==
    ~program.closes_in_use =>
        \A i \in (1..(size * WordBits - 1)) \ (free \cup excused) :
            \/ \E o \in Objects : idx[o] = i
            \/ Holders(i) # {}
            \/ \E p \in Processes : last[i] = p /\ process[p] = "killed"

-----------------------------------------------------------------------------
(* The inductive invariant *)

Places ==
    {"idle", "created", "closing", "load", "enter", "request", "grab", "check_ref", "check_cache",
     "add", "held", "waiting", "put", "drop", "free", "dead"}

Calls == [h : Handles \cup {0}, i : Indices \cup {0}, wait : BOOLEAN, undo : BOOLEAN]

TypeOK ==
    /\ program \in Programs /\ budget \in Nat
    /\ free \subseteq Indices /\ size \in InitialWords..MaxWords /\ hint \in Nat
    /\ idx \in [Objects -> Indices \cup {0}]
    /\ handle \in [Processes -> [Handles -> Objects \cup {None}]]
    /\ process \in [Processes -> {"running", "killed", "gone"}]
    /\ aborted \in BOOLEAN /\ undefined \in BOOLEAN
    /\ ref \in [Indices -> Int] /\ last \in [Indices -> Processes \cup {None}]
    /\ cache \in [Processes -> [Handles -> Indices \cup {0}]]
    /\ lock \in [Processes -> Threads \cup {None}]
    /\ pc \in [Threads -> Places]
    /\ call \in [Threads -> Calls]
    /\ excused \subseteq Indices

InCall(t) == pc[t] \notin {"idle", "dead"}
HasIndex(t) == Holding(t) \/ pc[t] = "grab"

\* What the place of a thread says about its call, its process and the
\* section; an object that has a handle has an index.
CallState ==
    /\ \A t \in Threads :
        /\ InCall(t) => call[t].h \in Handles
        /\ HasIndex(t) => call[t].i \in Indices
        /\ pc[t] = "dead" <=> ~Living(Owner[t])
        /\ pc[t] \in {"closing", "request", "add"} => lock[Owner[t]] = t
    /\ \A p \in Processes, h \in Handles : handle[p][h] # None => idx[handle[p][h]] # 0

\* The object that t works on, if its handle is open.
Object(t) == handle[Owner[t]][call[t].h]

\* A thread that is about to fill a cache entry has the index of an open
\* handle, and one that is about to close a handle has emptied the entry.  No
\* two of these threads are at the same handle.
CacheState ==
    /\ CacheIsTrue
    /\ \A t \in Threads :
        /\ pc[t] \in {"created", "add", "closing"} => Object(t) # None
        /\ pc[t] \in {"created", "add"} => idx[Object(t)] = call[t].i
        /\ pc[t] = "closing" => cache[Owner[t]][call[t].h] = 0
    /\ \A t, u \in Threads :
        t # u /\ {pc[t], pc[u]} \subseteq {"created", "closing"} /\ Owner[t] = Owner[u] =>
            call[t].h # call[u].h

\* If no handle is closed while it is used, then a thread works on an object
\* that exists, with the index of that object.
UseState ==
    /\ ~aborted
    /\ \A t \in Threads :
        /\ InCall(t) => Object(t) # None /\ pc[t] # "free"
        /\ HasIndex(t) => idx[Object(t)] = call[t].i
    /\ \A t, u \in Threads :
        t # u /\ pc[t] = "closing" /\ InCall(u) /\ Owner[t] = Owner[u] => call[t].h # call[u].h

\* Every index that is free, that an object has, or that a client has cached,
\* holds or has marked as its own, lies in the map that the server keeps, as
\* fsync_free_shm_idx asserts of the indices it is given.
InMap(i) == i < size * WordBits
IndicesInMap ==
    /\ \A i \in free : InMap(i)
    /\ \A o \in Objects : InMap(idx[o])
    /\ \A p \in Processes, h \in Handles : InMap(cache[p][h])
    /\ \A t \in Threads : InMap(call[t].i)
    /\ \A i \in Indices : last[i] # None => InMap(i)

HasObject(i) == \E o \in Objects : idx[o] = i

\* A killed process was the last to wait with i.
Left(i) == \E p \in Processes : last[i] = p /\ process[p] = "killed"

\* The references to i: the object's, those of threads, and one that a killed
\* process has left.
References(i) ==
    (IF HasObject(i) THEN 1 ELSE 0) + Cardinality(Holders(i)) + (IF Left(i) THEN 1 ELSE 0)

\* The count of i is 0 for an index that is free or not yet in the map, and not
\* below the references to it.  Unless a killed process has left i for
\* good it is exact, and i is the clean-up's as soon as the process is killed.
\* The process that waited last with i is still waiting.
CountOf(i) ==
    /\ ref[i] = 0 <=> i \in free \/ i >= size * WordBits
    /\ i \in free => i < size * WordBits
    /\ ref[i] >= References(i)
    /\ i \notin excused => ref[i] = References(i)
    /\ i \notin excused /\ Left(i) => ~HasObject(i) /\ Holders(i) = {}
    /\ \A p \in Processes : last[i] = p /\ Living(p) =>
            \E t \in Holders(i) : Owner[t] = p /\ pc[t] = "waiting"

CountState ==
    /\ \A o, other \in Objects : idx[o] = idx[other] /\ idx[o] # 0 => o = other
    /\ \A i \in Indices : CountOf(i)

Moves == "move" \in program.requests

IInv ==
    /\ TypeOK /\ CallState /\ HintNotPast /\ IndicesInMap
    /\ ~Moves => CacheState
    /\ ~Moves /\ ~program.closes_in_use => UseState /\ CountState
=============================================================================
