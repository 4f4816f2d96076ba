# Verification of Wine's synchronization core

The repository builds a fork of Wine 9.0 (`wine-red-rose-custom/`), with the
esync and fsync patches.  Wine is millions of lines; almost all of them are
libraries that rest on a small core: threads, the objects they wait for, and
the server that all processes share.  This project models that core in TLA+,
model-checks it with TLC and proves theorems about it with TLAPS: the
synchronization primitives of ntdll, the objects that processes share in
their two forms (words of shared memory, and the server's waits), and the
thread pool.

Paths below are relative to `wine-red-rose-custom/`.

- [The system](#the-system): inventory of the parts, their state and hazards
- [The modules](#the-modules): how state and actions correspond to the code
- [The runs](#the-runs): what TLC checks, bounds, fairness
- [The proofs](#the-proofs)
- [Disagreements](#disagreements)
- [What is not modelled](#what-is-not-modelled)
- [Plan](#plan)

## The system

A Windows program runs as a host process whose threads are host threads.
Inside the process, `dlls/ntdll/sync.c` (the Windows side) implements the
primitives that need no kernel: Win32 futexes, slim reader/writer locks,
condition variables, critical sections, one-time initialization.  They fall
back on the Nt* system calls of `dlls/ntdll/unix/sync.c`.  Those act on objects
(events, mutexes, semaphores, ...) that processes share.  Three implementations
of these objects exist: in the server, `server/*.c`, with one request per
operation; *fsync*, with words of shared memory and the host's `futex_waitv`
(`dlls/ntdll/unix/fsync.c`, `server/fsync.c`); *esync*, with eventfds.  The
server is a single thread that handles one request at a time; it also signals
the objects that only it knows about (processes, queues, timers) and abandons
the mutexes of dead threads.

| Part | State | Operations | What is hard | What makes it correct |
|---|---|---|---|---|
| Win32 futexes, `dlls/ntdll/sync.c:839-1011` | hashed queues of entries that live on the waiters' stacks, a spin lock each, an alert flag per thread | RtlWaitOnAddress, RtlWakeAddressSingle, RtlWakeAddressAll; NtAlertThreadByThreadId, NtWaitForAlertByThreadId | `entry.addr` is read without the lock; timeouts race wakers; a wake-up may be sent while the lock is held; a late alert ends a later wait | no lost wake-up; a change announced after the comparison is noticed; FIFO per address; linked entries exist |
| SRW locks, `sync.c:478-705` | one 32 bit word: exclusive bit, exclusive waiters, owners | acquire, try, release, shared and exclusive | blind 16 bit arithmetic, decisions on a word that changes before the wait or the wake-up, spurious wake-ups | mutual exclusion, exact counters, no stranded waiter, writers before readers |
| Critical sections, `sync.c:150-457` | LockCount, RecursionCount, OwningThread, LockSemaphore | initialize, enter, try, leave, delete | two hand-over mechanisms; racing creation of the semaphore; timeouts and retries; shutdown with killed owners | one owner; the lock is handed over exactly once; shutdown never blocks |
| Condition variables, `sync.c:718-819` | a counter | sleep (CS, SRW), wake one, wake all | the gap between the release of the lock and the wait | no lost signal |
| One-time initialization, `sync.c:51-142` | two low bits and a list of stack words in one pointer | begin, complete, execute | a lock-free list whose links are other threads' stacks; failure with threads waiting | one initializer; one context; every waiter released once |
| fsync objects, `dlls/ntdll/unix/fsync.c`, `server/fsync.c` | two words per object in shared memory, an APC futex per thread | wait any, wait all, set, reset, pulse, release, abandon | wait-all is not atomic: it grabs, may be too slow, and puts back; several words per wait; owners die | mutexes stay with their owner; signals are neither lost nor made up; no lost wake-up |
| fsync indices and handle cache, same files | free map, reference counts in shared memory, cache per process | create, open, close, get, put, clean up | reference counts and caches across processes that may be killed | no index is reused while referenced; the caches agree with the handle tables; indices come back |
| Server waits, `server/thread.c` | a stack of waits per thread, a queue per object, two APC queues | select, wake_up, timeouts, suspend, queue APC, kill | waits of many objects, queues that change while they are walked, waits nested in signal handlers, signal-and-wait | a wait is answered once, to the frame that made it; it consumes all or one; nobody sleeps beside a signalled object |
| Server objects and handles, `server/object.c`, `handle.c`, `event.c`, `mutex.c`, `semaphore.c`, `timer.c` | reference counts, names, tables | create, open, duplicate, close | objects that die while used | no use after the last release |
| Completion ports, `server/completion.c` | message queue, wait object per thread | add, remove, get, close | messages handed to a thread before it fetches them; closing | every message is delivered once |
| Asynchronous I/O, `server/async.c` | eight flags per async, its queue and status | create, hand off, alert, set result, cancel, time out | restart against cancel, close and timeout; lists changed while walked | an async completes once |
| Thread pool, `dlls/ntdll/threadpool.c` | workers, queues by priority, counters and references per object, cleanup groups, a timer queue | submit, cancel, wait, release, groups, timers, waits | callbacks run outside the lock; three locks; workers that time out; waiting for work that somebody else cancels | every submitted callback runs or is cancelled; calls return; exact references |
| Message queues, files, pipes, registry, user interface, loader, the other libraries | | | | see [What is not modelled](#what-is-not-modelled) |

The hazards of this code, each at its line, are listed in `PROJECT.json` under
`hazards`, with the properties that would catch them going wrong.  Where the code
itself goes wrong and the properties of the passing runs except the case, the hazard has no
property but a note that names the disagreement below.  Left out
there are those that need 2^32 calls or a count near 2^32 (the counter of a
condition variable, `fsync.c:623`), what the code documents as a limit of
the interface (a pulse that nobody sees, `fsync.c:752`), a thread killed while
it holds the spin lock of a futex queue (`dlls/ntdll/sync.c:856`), and the
hazards of parts that have no module yet: a completion port that is created a
second time gets a new fsync index (`server/completion.c:317`), and an alerted
async may be restarted, cancelled, timed out or closed while its client works
on the first alert (`server/async.c:500`).

## The modules

```
AddrWait            the steps of wait-on-address, as its users see them
  AddrWaitSpec      ... as a specification of its own
  Win32Futex        the implementation; refines AddrWaitSpec
RWLock              what a reader/writer lock promises
SRWLock             over AddrWait; refines RWLock
CondVar             over AddrWait and RWLock
CritSection         over AddrWait
RunOnce             over keyed events
FsyncWait           waiting and signalling with fsync
FsyncShm            the indices and caches that FsyncWait takes for granted
ServerWait          waiting, signalling, APCs and suspension through the server
ThreadPool          over condition variables and critical sections
MC*                 instances for TLC
ThreadPool_steps    the vocabulary of the proofs about ThreadPool: kinds of steps, rely and guarantee
X_proofs            the theorems about X, for X = Win32Futex, SRWLock, CritSection, CondVar,
                    RunOnce, FsyncWait, FsyncShm, ThreadPool
```

Composition goes through promises: SRWLock, CondVar and CritSection use
the steps of `AddrWait` (register, release, return, withdraw), which
`Win32Futex` is proved to implement, and CondVar uses the lock through
`RWLock`, which SRWLock is proved to implement.  ThreadPool takes what CondVar
shows (a sleeper is registered before its lock is free, and no wake-up of a
registered sleeper is lost) and what CritSection shows (one owner, and a lock
that is handed over).

Conventions.  A thread's program counter is `pc[t]`, with `idle` between calls.
One step is one access to shared memory that other threads can observe,
together with the thread-local computation around it; of the server, one call
of a handler; of the thread pool, one critical section.  A loop around a
compare-exchange is one step, at the iteration that succeeds.  `PROJECT.json`
maps every definition to its lines.  Definitions marked *Variant* are
plausible bugs; each property has one that it detects, and no specification
uses them.  In the modules with proofs the step of one thread is an action
`ThreadStep(t)`, and a section "The inductive invariant" follows the properties.

**Win32Futex.**  One bucket of `futex_queues`.  `queue`, `lock` are the bucket;
`entry[t]`, `cmp[t]` the frame of RtlWaitOnAddress in `t`; `alert[t]` the
futex in the thread's `tid_alert_entry`; `tids[t]`, `victim[t]` the locals of a
wake call.  What happens under the spin lock is invisible, except for
`entry->addr`: so a wake call is split into `MarkRemoved` (`entry->addr =
NULL`) and `Unlink` (`list_remove`), and a waiter whose wait has ended reads
`entry.addr` in between (`SeesRemoved`, `SeesQueued`).  A scan looks at the positions of
the queue (`Matching`), and `list_remove` takes out the one of an entry.  `Dangling` is the set of
linked entries whose frame is gone; the behaviour is undefined from then on,
and the model stops there.  `Unlink` also stands for the read of `entry->tid` that follows
`list_remove` (`sync.c:961`, `963`); a frame that goes between the two is a second window of
disagreement 1 and not in the model.

**AddrWaitSpec.**  A wake call takes effect at one moment between its call and
its return, and releases one waiter (or all) of its address if there is one at
that moment.  The refinement mapping takes the moment at which
RtlWakeAddressAll gets the spin lock, and the one at which
RtlWakeAddressSingle marks an entry or has scanned the queue in vain.

**SRWLock.**  `held`, `waiters`, `owners` are the fields of `struct srw_lock`
with their wrap-around; `hold[t]` is the program's view; `seen[t]` is the word
on which a thread decided to wait.  A lock may be released by another thread
than the one that acquired it, as the code allows.  `SpuriousWake` is
the wait that an old alert ends.

**CritSection.**  The four fields, the flag in LockSemaphore (sections with
debug info) or the semaphore created on first use, spinning, recursion, the
timeouts of RtlpWaitForCriticalSection with its retry, failing creation, the
rule for process shutdown (`process_detaching`), deletion.  `depth[t]` is the
program's view.  A program that leaves a section it does not own is outside the
model.

**CondVar.**  The counter and the two steps of each function, used by the textbook
program: consumers sleep until there is an item, producers add one under the lock
and call a wake function after.  A program that uses the single wake-up
must not have other threads wait for something else on the same variable;
`Produce` is guarded accordingly.

**RunOnce.**  `Ptr` is the pointer with its two low bits.  The list of waiters
goes through the stacks: `next[t]` is the word on the stack of `t`, and exists
only while `t` waits.  `List(t)` is what one reaches from a pointer along these words: the
smallest set that holds the thread pointed to and with each thread the next one.  A keyed
event is a rendezvous (`server/event.c`).

**FsyncWait.**  `count`, `tid`, `recursion` are the words of an object, `apc[t]`
the APC futex, `asleep[t]` the addresses in the kernel's queues.  The wait for
any is a scan of one object per step; the wait for all has its three loops
(wait in sequence, check, grab) and the loop that puts back.  The ghost
variables `owned`, `credit`, `unannounced` and `spoiled` record what the program
has been told: how often it owns a mutex, how many waits the signals allow,
which objects were put back without a wake-up, and which mutexes have had their words spoiled,
by a put-back of what had not been grabbed or by the server's second store.  The server abandons a mutex in two
steps, `tid = ~0` (`AbandonMutex`) and `count = 0` (`AbandonCount`), between which clients go
on, and deals with one mutex, and one dead thread, at a time (`ServerIdle`).  Both are plain
stores; a compiler that merged or exchanged them would only close the window between them.  `HasGrabbed(t, o)` reads from the place and the loop index what a
wait for all has in its hands.  The lists of a wait for all name no object twice, which the
Windows interface demands of its callers.  A run has a set of programs; a program says which
threads wait for which objects.

**FsyncShm.**  `free`, `size`, `hint` are the server's map of free indices, `idx`
and `handle` its objects and handle tables, `ref` and `last` the third and
fourth word of an index in shared memory, `cache[p]` the list that process `p`
keeps, `lock[p]` the uninterrupted section.  A thread's call on an object is the
path through get_object, with every access to the shared words and to the cache a
step of its own, the use of the object (as a wait or otherwise), and put_object
with its comparison and its subtraction apart.  A process may be killed in any
of these steps.  Where fsync_alloc_shm reads an uninitialized variable the model
goes on as if it were 0 and, as an alternative, stops (`UninitializedIndex`), so that nothing here
is said of what follows.  A handle may be duplicated into any process; with DUPLICATE_CLOSE_SOURCE into
another one, since within a process the server then gives the same handle back.
The constant `Programs` says what a program does and whether it closes handles
that other threads are using.

**ServerWait.**  `waits[t]` is the stack `thread->wait`, `queue[o]` the
`wait_queue` of an object, `tasks` the stack of calls in the server: a handler
pushes wake_up, which pushes wake_thread, and so on, and the next request is
handled when the stack is empty.  Walking a queue that the walk itself changes is
thus visible step by step.  `frame[t]` is the client: its program's select and,
on top of it, the one of usr1_handler; `pipe[t]` holds the replies to both, and
`stolen[t]` those that the handler has read and not yet put back.  `when` and
`timer` of a wait are separate, because thread_timeout drops the timer of a
suspended thread's wait, which then must end by its deadline.  `holds` and
`credit` are the program's view, `misspent` the objects one of whose wake-ups
went to a wait that did not take them.

**ThreadPool.**  `pool`, `queue`, `obj`, `group`, `members`, `timerq` are the
structures; `lock` says who is inside a critical section in which another one is
entered, and is free between steps otherwise.  `handle[o]` is the program's view
of an object.  A program is a set of functions that clients may call in any
order, and of what callbacks may do.  Assumed of it: an object is not used after its release; no
thread releases an object, or its group, while another one is in a call on it, nor releases an object whose
group another thread is releasing; the pool is released only when no object is in use, on which the part of
`SubmitAsserts` about the pool rests.  A callback, however, may release its own object at any
time, also while a client is in TpReleaseCleanupGroupMembers (`CallbackReleases`), as
`dlls/ntdll/tests/threadpool.c:848-928` does; for this the code has `timer_initialized` (`timerq.initialized`)
and the test of `shutdown` at line 2834.  TpSetTimer is called only while no other client is in a call on the
timer, which is narrower than the interface.  A list is a sequence, and what
list_remove takes out of it is the element `Without` leaves out.  `gone[c]` is
the local list to which TpReleaseCleanupGroupMembers moves the members of the group.

## The runs

All runs use deadlock checking except where the cfg says otherwise: there, the
program may stop because a model bound is used up or because everybody sleeps,
which is no error.  All except the three `violation` runs pass.

| Run | Instance | States | Shows |
|---|---|---|---|
| `futex` | 3 threads, 2 addresses, with and without timeouts, both wake functions or wake-all only, a buffer of 1, 2 wake calls; symmetric | 529 000 | `NoMissedChange`, `NoStrandedWaiter`, `OldestFirst`, `ImplementsAddrWait` |
| `futex_dangling` | the same with 1 address | | violates `EntriesAreLive` |
| `srw` | 3 threads; fair | 4 900 | exact counters, no stranded waiter, writers first, refinement of RWLock, progress of writers and readers |
| `crit` | 3 threads, depth 2; a section with debug info and one spin, one with a semaphore whose creation may fail; fair | 17 000 | one owner, exact LockCount, hand-over, progress, shutdown |
| `cv` | 3 threads, both modes, both wake functions, 3 items; fair | 66 000 | no lost signal, wake-all reaches everybody, items are taken |
| `once` | 3 threads, synchronous and asynchronous, 2 failures; fair | 38 000 | one initializer, one context, exact lists, waiters go on |
| `fsync` | 2 threads with an object of every type, alertable, 2 signals; 3 threads with a semaphore and a mutex; fair | 671 000 | `MutexKept`, `SignalsConserved`, `NoStrandedSleeper`, `SignalledReturns` |
| `shm` | 2 processes, 3 threads, 4 handles, words of 2 indices, 5 programs | 1 181 000 | `HintNotPast`, `CacheIsTrue`, `IndicesKept`, `IndicesComeBack` |
| `shm_move` | a handle is moved to another process | | violates `CacheIsTrue` |
| `server` | 2 or 3 threads, a semaphore, a mutex, two events, 6 programs; fair | 255 000 | `OneReplyEach`, `NothingLost`, `NobodyOverlooked`, `EverythingEnds` |
| `threadpool` | 2 clients, 2 workers, a work object, a simple callback, a timer, a cleanup group, 7 programs; fair | 167 000 | `RefsExact`, `ItemsAreSeen`, `BusyCounts`, `EverythingIsDone`, `CallsReturn` |
| `threadpool_locks` | a simple callback and a timer in one group | | violates `CallsReturn` |

The type invariants are proved and not run, except for ServerWait, whose state
is typed by the properties that count in it.  The inductive invariants of the proofs hold in
all states of these instances too; TLC found so before they were proved.

**Bounds.**  Three threads are the smallest number at which a third one can act
between two steps of a pair: a waiter, the one that wakes it and one that
overtakes; or two that create a semaphore and one that leaves.  A buffer of one
thread id (256 in the code) makes the overflow happen with two waiters.
`MaxWaiters = 3`, `MaxOwners = 5` are the smallest that satisfy the assumption on
the number of threads, so that a lost count would wrap around.  `Modulus = 4`
exceeds the number of items, and with it the number of wake calls: the counter
of a condition variable misses a signal only if it comes round within one sleep.
Two fsync signals are enough to make a wait for all grab an event and a
semaphore and to have one of them taken away before it has both; put-backs of
the mutex, owned before or not, and of the event all occur.
In `shm`, words of two indices (64 in the code) and a map of two words (256) are
full after three objects, so that the map is filled, emptied behind the
hint and enlarged; four requests are enough to create an object, share it, close
it in both processes, and three to reuse a handle value and an index during a
call.  In `server`, three threads in one queue are the fewest of which one can
be skipped; a depth of two frames is what the code has; the budget counts the
calls other than waits, releases of mutexes and resumptions, which are free.
In `threadpool` two workers are the fewest of which one times out while the other
runs a callback; two callbacks per object queue one behind a running one; a
program with all functions at once is out of TLC's reach, so that each program
combines those that share state.

**Symmetry** permutes threads and addresses, in `futex` only, which has no liveness
property.

**Fairness.**  Weak fairness of every step of a thread that is inside a call:
the host schedules all runnable threads.  Of the program: a holder of a lock
releases it, an initializer completes.  Nothing makes a program call a function, and
nothing makes a timeout expire.  Two steps are strongly fair: `SemaphoreTaken`
(the server queues waiters in order, so that a semaphore that is released again
and again reaches each of them) and the re-acquisition of the lock by a
condition variable's sleeper (`SleepRelock`), which is as fair as the lock.
In ThreadPool, steps that need a critical section are strongly fair: a section
that is free again and again is handed to every thread that waits for it, which is
`Progress` of CritSection.  Callbacks return, and the sleep of an idle worker ends
(its timeout is five seconds); nothing makes a timer expire.  In ServerWait the
server handles what it has begun (weak), and a client's request or a timer is
handled in the end (strong): while the server is busy with others it is not enabled,
but the main loop serves every descriptor that poll reports and then every timer
that has expired.  The clock goes on.  Nobody is obliged to resume a thread, so
`EverythingEnds` promises a suspended thread only that it stops and runs its APCs.
SRW locks prefer writers; `ItemsAreTaken` therefore excepts behaviours in which
shared access never ends, for which RWLock promises nothing to a writer.

## The proofs

The theorems hold for every number of threads, processes, objects, handles, values and
positions that the assumptions on the constants allow, and for every behaviour of the
specification, where the runs are about one small instance.

| Module | Theorem | Statement |
|---|---|---|
| Win32Futex_proofs | `WakersAlertWaiters` | `Spec => []NoStrandedWaiter` |
| | `NoChangeIsMissed` | `Spec => []NoMissedChange` |
| | `LiveWithoutTimeouts` | without timeouts, `Spec => []EntriesAreLive` |
| | `Fair` | `Spec => OldestFirst` |
| | `Refinement` | `Spec => ImplementsAddrWait` |
| SRWLock_proofs | `Exclusion` | `Spec => []MutualExclusion` |
| | `WordIsExact` | `Spec => []WordCountsThreads` |
| | `SharedIsWoken`, `ExclusiveIsWoken` | `Spec => []SharedNotStranded`, `[]ExclusiveNotStranded` |
| | `WritersGoFirst` | `Spec => WritersFirst` |
| | `Refinement` | `Spec => ImplementsRWLock` |
| CritSection_proofs | `OneInside` | `Spec => []OneOwner` |
| | `LockCountIsExact` | `Spec => []LockCountExact` |
| | `HandOverIsExact` | `Spec => []HandOverNotLost` |
| | `SemaphoreLimitKept` | `Spec => []LimitKept` |
| CondVar_proofs | `SignalsReachSleepers` | `Spec => []NoLostSignal` |
| | `WakeAllIsComplete` | `Spec => []WakeAllReachesAll` |
| RunOnce_proofs | `OneAtATime` | `Spec => []OneInitializer` |
| | `OneContext` | `Spec => []SameContext` |
| | `NobodyForgotten` | `Spec => []ListsAreExact` |
| | `PublishedIsFinal` | a completed pointer never changes |
| FsyncWait_proofs | `OwnedMutexIsKept` | `Spec => []MutexKept` |
| | `SignalsAreConserved` | `Spec => []SignalsConserved` |
| | `SleepersAreWoken` | `Spec => []NoStrandedSleeper` |
| FsyncShm_proofs | `HintInSight` | `Spec => []HintNotPast` |
| | `CachesAreTrue` | if no handle is moved, `Spec => []CacheIsTrue` |
| | `IndicesAreKept` | if no handle is moved, `Spec => []IndicesKept` |
| | `IndicesReturn` | if no handle is moved, `Spec => []IndicesComeBack` |
| ThreadPool_proofs | `RefsAreExact` | `Spec => []RefsExact` |
| | `WorkersSeeItems` | `Spec => []ItemsAreSeen` |
| | `BusyIsEnough` | `Spec => []BusyCounts` |
| | `SubmitsAreOpen` | `Spec => SubmitAsserts`: the asserts of tp_object_submit hold |
| | `NoUseAfterFree` | `Spec => FreedIsLeftAlone`: what was freed is not written |

Each module also has `Invariant` (`Spec => []IInv`) and `TypeCorrect` (`Spec => []TypeOK`).  For
ThreadPool the latter is `Spec => [](TypeOK /\ NonNegative)`: no counter of an object, of the pool or of
the timer queue goes below zero.  For FsyncShm it is `Spec => [](TypeOK /\ (~undefined => IndicesInMap))`:
as long as no uninitialized index has been read (disagreement 8), every index that is free, that an object has or
that a client has cached, holds or has marked lies in the server's map, in programs that move handles, close them
in use or are killed too, so that the second assertion of fsync_free_shm_idx (`server/fsync.c:321`) holds.
Of what follows that read no theorem about FsyncShm says anything.

**Assumptions.**  They are named in the modules that declare the constants, and TLC evaluates
them in the runs.  Where threads are counted there are finitely many.
SRWLock: no more than `MaxWaiters` and `MaxOwners` threads (the comment in the code says
"limited to 2^15-1 waiting threads").  CondVar: fewer items, and so fewer wake calls, than
the counter has values; with more, the counter may come round within one sleep and the
signal is missed.  Win32Futex: there is at least one value.  FsyncShm: the bound on
the map is not below its initial size.  FsyncWait: the types of objects are disjoint, the lists of a wait for
all have at least two objects and name none twice.  ThreadPool: the kinds of threads and of objects are
disjoint, and a new pool may have at least one worker; nothing is assumed of the program, of
the limits it sets (0 too) and of cancelling beside a wait, so that the theorems also hold in the
programs of `threadpool_locks` and of disagreement 13.  Otherwise the constants only have to be
different from one another where the code tells them apart (`NoThread` is no thread, and so on).

**How the proofs are built.**  `IInv` is a conjunction of named parts.  The properties
alone are not inductive, because they say nothing of what a thread in the
middle of a call has read and is about to do; the other parts say this.  Each part has a step
lemma with a case for each action or group of actions, `Invariant` combines them, and the properties follow from `IInv`.  That a thread
which joins or leaves a set changes its number by one comes from the library's FiniteSetTheorems.

- *Win32Futex.*  `CallState` ties the spin lock and a wake call's locals to its place;
  `QueueState` says that each entry is linked once, from the comparison to its removal, and
  that a linked entry whose `addr` is NULL is the victim of a call that is about to unlink it;
  `SleepersAlerted` that the thread of such an entry is alerted, or a wake call has its id.
  `RemovalPositions` and `RemovalOrder` say what `list_remove` does to the positions of the others,
  which `Fair` needs.  The refinement takes as the moment of RtlWakeAddressAll the one at which it
  gets the spin lock, and of RtlWakeAddressSingle the one at which it marks an entry or ends its
  scan in vain.  A waiter counts as registered while it is linked, has its address, and is
  not doomed by a wake-all that holds the lock.  `Simulation` has one case per action.  The
  refinement is up to the first dangling entry, where the model stops; `LiveWithoutTimeouts` shows
  that this takes a timeout: then every alert belongs to the wait in progress
  (`AlertsAreFresh`), and a waiter looks at its entry only after the entry was unlinked.
- *SRWLock.*  Mutual exclusion is not inductive: that nobody holds the lock when `owners = 0`
  follows only if the counters are exact.  `WordCountsThreads` says so, and the assumption on
  the number of threads keeps a field from wrapping around.  `LocalState` says what a place
  tells about the registration and the word a thread has read.  A shared waiter is
  registered only if the word it compared was exclusive, and the release that ends this
  state still owes a wake-all; an exclusive waiter was registered while `owners # 0`, and
  every release that makes it 0 with waiters owes a wake-up, or a thread is on its way to
  try.  The refinement maps the grabbing and the releasing steps to those of RWLock and all
  others to stuttering.
- *CritSection.*  Outside shutdown the section is free, or belongs to exactly one thread or
  one token (`OneHolder`): the flag, or the count of the one semaphore whose
  handle was installed first (`OneSemaphore`), however many threads race to create it.
  From this and the exact LockCount follow the hand-over and the limit of the semaphore.
- *CondVar.*  `CounterExact` relates the counter to the items and the producers that have
  still to increment it.  A thread on its way to sleep that finds the counter
  unchanged knows that the items there are belong to such producers (`UnchangedMeansPending`), so that
  while threads sleep there is a taker for each item or a wake-all to come (`ItemsHaveTakers`).
- *RunOnce.*  State 1 belongs to one thread (`StateBelongs`); no list has a cycle, and the word that
  a completing thread has read is still the one on the stack of the thread it will release
  (`ListsAreSound`).  That `List` is a smallest closed set replaces an induction along the list.
- *FsyncWait.*  For a mutex that is not spoiled, the thread whose tid is in it
  owns it as often as `recursion` says, or has just grabbed it, and what a thread has grabbed has
  its tid; between the server's two stores the old count may still be there (`Clearing`), but then nobody
  has been told that he owns the mutex (`MutexState`).  Of the step of a thread the proof only uses which
  of a few effects it has on the objects (`Effects`: takes, grabs, finishes, puts back, signals, clears, ...), and
  that it moves no other thread (`Others`).  A wait for all puts back exactly what it has grabbed
  because its list names no object twice, so that the loop index tells what it has in its
  hands.  For the sleepers, `Announced` says that whatever becomes signalled
  is followed by a futex_wake or is a put-back.
- *FsyncShm.*  In programs that move no handle a thread about to fill a cache entry has the index
  of an open handle, and one about to close a handle has emptied the entry (`CacheState`), which is
  what the uninterrupted section and the second look at the cache are for.  In
  programs that also close no handle in use, the count of an index is the number of its references:
  the object, the threads that hold it, and the one of a killed process (`CountState`).
  `CachesAreTrue` and the violation of `CacheIsTrue` in `shm_move` show together that moving a
  handle is the only way to a stale cache in this model.
- *ThreadPool.*  That references are exact is not inductive: a thread that drops the last one goes on to
  destroy the object outside the step, one that waits or allocates has an object in its hands, and
  a release of the group is spread over many steps.  The parts of `IInv` say what each may
  rely on.  `ObjectExact` has the counts and when `shutdown` comes; `GroupExact` that a member is on
  the group's list or on one thread's, once, and that the program cannot release it there;
  `ClientExact`, `DestroyerExact` and `WorkerExact` what a thread in each place relies on,
  for instance that a worker about to leave has left no item behind and is not the last
  one that an object needs; `TimersExact` that no timer expires whose release has taken it off the
  queue, and `TimersCounted` that each timer counts once in its objcount, until the first of its releases gets
  to it (`OffQueue` says who is past that point); `PoolExact` the counters of the pool.  `Cases` divides the steps by
  their effect on objects (`Quiet` changes none, `Submits` asks for a callback, `Cancels` drops
  those pending, and so on).  What clients rely on is proved by rely and guarantee: each kind of step
  satisfies `Guarantee` (it takes no handle, list, timer or object from under another
  thread), and `Interference` shows that such a step keeps `ClientExact` of all the others.  Likewise `PoolOK`
  says what each step does to the pool's counters, and `Calm` that a step without a new item leaves what the
  workers know.  `Harmless` combines them for the two action properties.

**Only model-checked.**  Liveness under fairness is out of the prover's reach: `WriterProgress`,
`ReaderProgress`, `Progress`, `ShutdownNotBlocked`, `ItemsAreTaken`, `WaitersGoOn`,
`SignalledReturns`, `EverythingEnds`, `EverythingIsDone`, `CallsReturn`.  The safety properties of
ServerWait are only model-checked too.  The waits of a thread leave the queues of objects through SelectSeq,
the replies due to a frame are counted with it, and so are the signals that die with a thread;
what SelectSeq computes for every sequence takes an induction over data, which the installed provers
cannot do (see the plan for a way round).

## Disagreements

Three of these are runs; the others were found with the same modules, in programs or
with exceptions that the passing runs name.

1. *A futex entry that is still linked when its stack frame is gone*
   (`dlls/ntdll/sync.c:919`, run `futex_dangling`).  The comment takes
   `entry.addr == NULL` to mean "We may have already been removed by a call to
   RtlWakeAddressSingle() or RtlWakeAddressAll()".  The wakers store NULL first
   and call `list_remove` afterwards; a waiter whose timeout expires in between
   returns without taking the lock.
2. *Three locks in a circle* (`dlls/ntdll/threadpool.c:2811`, run
   `threadpool_locks`).  TpReleaseCleanupGroupMembers enters `timerqueue.cs`
   inside `group->cs`, the timer thread enters `pool->cs` inside
   `timerqueue.cs`, and a worker that drops an object's last reference enters
   `group->cs` inside `pool->cs`.
3. *A closed handle that stays cached* (`dlls/ntdll/unix/server.c:1870`, run
   `shm_move`).  NtDuplicateObject with DUPLICATE_CLOSE_SOURCE into another process
   removes the cached descriptor but does not call `fsync_close`, although
   get_object takes care not to "cache already closed handle back"
   (`fsync.c:408`).  The next object with this handle value is confused with the
   one that was moved.
4. *A put-back that takes away a mutex* (`dlls/ntdll/unix/fsync.c:1361`).
   A wait for all that is too slow stores `tid = 0` for every mutex it has
   passed, also for those the thread owned before and did not grab, although the
   comment says that it releases "any resources we've grabbed" and "we can
   reliably do this" (`fsync.c:1184`).  `MutexKept` excepts these
   (`spoiled`).
5. *A put-back that wakes nobody* (`fsync.c:1367`).  A thread that went to sleep on
   the object in that instant stays asleep; `fsync.c:1197` says it waits "for an
   instant".  `NoStrandedSleeper` excepts these (`unannounced`).
6. *A wait that sleeps on a free mutex* (`fsync.c:1078`).  A second compare-exchange
   handles an abandoned mutex.  If another thread takes and releases the mutex
   between the two, it returns 0, and 0 becomes the value to sleep on:
   "Looks like everything is contended, so wait" (`fsync.c:1148`).
   `NoStrandedSleeper` leaves out words that have the value the sleeper expects.
   The first step of a wait for all likewise waits for an abandoned mutex as if
   it were owned (`fsync.c:1223`).
7. *Closing a handle in use* (`fsync.c:375`, `fsync.c:333`).  If another thread has
   read the index from the cache and grabs it after the object is gone, it finds
   itself with the only reference and asks the server to free the index a
   second time: the server's assertion in fsync_free_shm_idx ends it, or a new
   object loses its index.  If another thread compares the count with 1 before
   the object is destroyed and subtracts after, nobody frees the index.  The comment
   at `fsync.c:375` knows of the race ("does not strictly guarantee").
   `IndicesKept` and `IndicesComeBack` are about programs that do not close
   handles in use, `CacheIsTrue` about all.
8. *An uninitialized index* (`server/fsync.c:269`).  The first time that all
   indices are in use the search loop does not run and `shm_idx` is read
   uninitialized.
9. *A wake-up spent in vain* (`server/semaphore.c:126`).  wake_up( obj, max ) counts
   a thread that it wakes for whatever reason.  A thread whose deadline has passed
   but whose timer has not run takes the wake-up with STATUS_TIMEOUT, and one that was
   waiting for the object stays asleep beside it.  Later releases find the count
   not 0 and, as "there cannot be any thread to wake up", wake nobody.
   `NobodyOverlooked` excepts these objects (`misspent`).
10. *Signalling twice* (`dlls/ntdll/unix/server.c:797`).  server_select drops the
    object to be signalled only when it has run a system APC ("don't signal
    multiple times").  If the wait has begun and the reply says that an APC has
    arrived, the loop selects again with the object, which is signalled a second
    time.  `NothingLost` fails in a program that signals and waits alertably.
11. *Success that was none* (`server/thread.c:1250`).  If signalling wakes the
    caller's own wait, select_on returns success, also if the wait has ended by an
    APC or its deadline.
12. *An APC whose thread dies* (`server/thread.c:1527`).  clear_apc_queue releases the
    senders of the APCs in the queue; the sender of one that the thread was running
    waits for ever.
13. *Cancelling beside a wait* (`dlls/ntdll/threadpool.c:2041`).  tp_object_cancel
    drops the pending callbacks and wakes nobody, so that a thread in
    tp_object_wait whose callbacks are cancelled by another one may sleep for ever.
    The constant `CancelBesideWait` leaves this out of the passing run.
14. *An abandoned mutex whose new owner loses its count* (`server/fsync.c:519`).
    fsync_abandon_mutexes stores `tid = ~0` and then `count = 0`.  A thread of another process that takes the
    abandoned mutex in between and sets its count to 1 (`dlls/ntdll/unix/fsync.c:1078`, `1081`) has it
    overwritten with 0; its release then makes it -1 and does not free the mutex.  `MutexKept` excepts a mutex that
    was taken there (`spoiled`).

During process shutdown RtlLeaveCriticalSection can exceed the semaphore's maximum
and raise; a put-back can lift a semaphore above its maximum; a cancelled object of the thread pool leaves
the queue without being taken off num_busy_workers, which then counts too much, so that threads are started later
than they could be (`BusyCounts` bounds it from below only).  No comment contradicts these.

## What is not modelled

- Of fsync: the yielding heuristics and the requests around message waits, which
  change no object; 32 bit arithmetic of semaphore counts; the growth of the shared
  memory file; the failing realloc of fsync_alloc_shm, which gives an object the index 0
  (`server/fsync.c:277-282`); handles that are protected from closing (`server/handle.c:439-441`).
- Of the server's waits: processes of several threads, waits for threads, processes,
  timers and keyed events, a client whose pipe is closed.  wait_select_reply puts back the replies that it has
  stolen in reverse order, and `ReadReply` in order; there is never more than one.
- Of the thread pool: wait objects, I/O objects, and the older timer queues.
- Of the Nt* calls: argument checks, access rights, names.
- Killing a thread at an arbitrary instruction, which may leave a spin lock of a
  futex queue held for ever.
- Memory ordering: the code uses sequentially consistent atomics in the places
  that the steps stand for, and the models are sequentially consistent.
- The rest of the server; esync; the loader; message queues; files, pipes and sockets; the registry; the user
  interface and the hundreds of libraries on top; build scripts and vendored
  code.  `PROJECT.json` lists each with its reason.

## Plan

Done: AddrWait, Win32Futex, RWLock, SRWLock, CritSection, CondVar, RunOnce, FsyncWait,
FsyncShm and ThreadPool with proofs, ServerWait without.  Next, in this order:

1. `Completion` over the waits of ServerWait: every message is delivered once,
   also when the port is closed or the thread that was handed one dies.
2. `Async`: an async completes once, whatever restarts, cancels, times out or
   closes it; then named pipes.
3. `esync` as a variant of FsyncWait, with FsyncShm's cache.
4. An abstract specification of an atomic wait for any or all, which ServerWait
   implements and with which FsyncWait can be compared.

Proofs: `ServerWait` (first `OneReplyEach`), with queues, pipes and the stack of tasks described by
their positions, as Win32Futex does, in place of filtered sequences; and once there is an abstract
specification of an atomic wait, its refinement.
