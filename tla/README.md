# A verification development of Score-P

Score-P is the measurement infrastructure that an instrumented parallel program is linked with. It records events
(regions entered and left, threads, messages, locks, metrics), and builds from them a call-path profile, an event
trace, or what a plug-in makes of them. This directory holds TLA+ models of its concurrent and stateful core, the TLC
configurations that check them, and proofs checked by TLAPS. Paths below are relative to the repository; its
implementation is in `src/` of the repository, so that `measurement/SCOREP_Task.c` stands for
`src/measurement/SCOREP_Task.c`.

Contents: [inventory](#inventory), [modules](#modules), [runs](#runs), [findings](#findings),
[further observations](#further-observations), [proofs](#proofs), [what is not modelled](#what-is-not-modelled), [plan](#plan).

## Inventory

An instrumented program calls **adapters** (one per paradigm). They call the **measurement core**, which finds the
calling thread's *location*, takes a timestamp, keeps the thread's task and region stack, and hands the event through
a table of callbacks to the **substrates** (profiling, tracing, plug-ins). **Services** (metrics, unwinding, address
lookup, timers) are called by the core on the way; **utilities** (hash tables, locks, allocator) are used by all.
At the end the core ends all threads, unifies the definitions over the processes, and the substrates write their
output. There is no server and no message of Score-P's own except in unification and clock synchronisation;
components interact by calls and through shared memory.

| component | state it keeps | operations | what is hard | what makes it correct |
|---|---|---|---|---|
| reader/writer lock (`utils/include/SCOREP_ReaderWriterLock.h`) | four 16-bit counters and a mutex | lock and unlock for readers and writers | interleavings of atomic operations, signals raised before anyone waits | exclusion, writer preference, no ticket or signal lost or left over |
| fast hash table (`utils/include/SCOREP_FastHashtab.h`) | buckets: size, chain of chunks, locks; free list | get, get_and_insert, remove, remove_if, free_chunks | searches without a lock beside inserts, chunks recycled between buckets, moves during remove_if | behaves as a map, one entry per key, no chunk lost or shared |
| tasks and region stacks (`measurement/SCOREP_Task.c`) | tasks, stacks in frames, recycling lists per location | create, switch, complete, enter, exit, exit all | tasks that move between locations take frames along | each task has its own stack, whatever the others do |
| recording control, selective recording (`measurement/SCOREP_RuntimeManagement.c`, `adapters/user/`) | recording flag, callback table, counts per selected region | enable, disable, enter/exit of user regions, finalise | several parties switch one flag; order of events around the switch; unlocked counts; 8-bit comparison | profile stays well nested; what is selected is recorded |
| create/wait threads, pthread adapter (`measurement/thread/create_wait/`, `adapters/pthread/`) | locations and their reuse pools, subsystem data, wrapped arguments | create, begin, end, join, exit, cancel, detach; end of latecomers | threads that end while the main thread finalises; objects recycled across threads | a location is owned by one thread; begins and ends pair; a joiner gets its value |
| fork/join threads (`measurement/thread/fork_join/`) | tree of thread private data, teams | fork, join, team begin and end | nested teams, reuse of locations by thread number | a location per thread number, parents outlive children |
| location list (`measurement/scorep_location_management.c`) | list of locations, metrics location | create, visit all, deferred initialisation | list walked while it grows | every location initialised and visited once |
| run-time life cycle (`measurement/SCOREP_RuntimeManagement.c`, `SCOREP_InMeasurement.h`) | phase, per-thread nesting counter | initialise, finalise, exit handlers, signals | recursion and other threads during start and end | each subsystem begun and ended once, in order |
| I/O handles (`measurement/io/`, `adapters/posix/`) | handle stack per location, hash table per paradigm | begin and complete creation, duplication, destruction, query | creation within creation, calls that the library makes of itself, descriptors reused by another thread before the wrapper of close returns | one handle per open file and paradigm, operations recorded for the file they were made on |
| MPI requests (`adapters/mpi/scorep_mpi_request_mgmt.c`) | table of lists of requests, marks, pools | create, get and mark, complete, start, free | values given out again before the wrapper that completed them has looked them up, dummy values, objects reused after release | each observed completion recorded once, each request in one list |
| rewind regions (`measurement/tracing/scorep_rewind_stack_management.c`) | list of ids with timestamps, beside the list OTF2 keeps | push, find, pop, flush | not a stack: an id moves to the top; the trace buffer is flushed in between | both lists agree, times increase, what was cut off is declared |
| OMPT adapter (`adapters/ompt/`) | parallel regions and tasks with reference counts, late implicit tasks | callbacks of the OpenMP runtime | end events that arrive after their location was given away; objects freed by whoever comes last | each end written once, in order, on its location; no object recycled while used |
| profile (`measurement/profiling/`) | call tree per location, task trees, exchanged nodes | enter, exit, task switch, migration | nodes that move between locations | every node in one tree or one list |
| definitions and their unification (`measurement/definitions/`, `measurement/paradigm/scorep_unify_mpp_ipc.c`) | a local and a unified manager per process, mappings between them | define with search for a duplicate, unify, send up a tree, send mappings back | ids pass through several mappings; definitions that refer to others; duplicates that bring a name, a parent or a peer | equal definitions get equal ids on all processes, nothing twice |
| tracing, clock synchronisation | OTF2 writers, offsets | write, interpolate | real arithmetic | — |
| allocator, memory (`utils/memory/`, `measurement/SCOREP_Memory.c`) | bitset of pages, page managers | allocate, roll back, free | limits, memory running out in several threads | pages are owned once, counts are right |
| allocation metric (`utils/alloc_metric/`) | splay tree of allocations, totals | track alloc, realloc, free | an address is another thread's before the wrapper of free returns; timestamps on a shared location | the tree holds what is allocated, totals agree, times increase |
| address lookup (`services/addr2line/`) | list of objects under the reader/writer lock | dlopen, dlclose, lookup | callbacks under the lock, unlocked test | an open object is always found |
| metric service, sampling, unwinding, timers, platform | per location | read | libraries, signals | — |
| MPI wrappers, OPARI2, CUDA, HIP, OpenCL, OpenACC, Kokkos, SHMEM, user, compiler, memory, TAU, POSIX I/O adapters | little | one enter/call/exit per function | external runtimes | stacks stay nested |
| tools, common utilities, containers, vendored libraries | — | sequential | — | — |

`PROJECT.json` lists all of them with their files and status, and the places where they can go wrong ("hazards").

## Modules

Conventions: a module names its state and operations as the source does; an action is one call or, where threads
share state, one step between two points at which another thread can intervene. Definitions ending in the description
`mutant:` in their comment are plausible errors: each property has one that makes its run fail. `MC<Module>` holds the
constants of the model-checking instances only.

### RWLock, AbstractRWLock

`RWLock` has one variable per word of the lock, a program counter and the value loaded last for each thread; each atomic
operation is an action (`ReaderArrive` is the fetch-and-add at the top of `SCOREP_RWLock_ReaderLock`, and so on). A
compare-and-exchange is a load (`Poll`) and an exchange that succeeds or fails, spuriously too, as the weak form may.
`pending` keeps its width: the type invariant says that no addition leaves int16_t. Steps of the models are
sequentially consistent, as the code asks for, except in the two relaxed polling loads, whose value is validated by the
exchange after them, and in the two exchanges, which are acquire-release. `AbstractRWLock` says what users rely on; `Implements` is the refinement.

### FastHashtab, AbstractMap

The macro template, for any number of threads, keys, buckets and pairs per chunk. Readers and removers hold the bucket
lock, which is used through `AbstractRWLock`'s meaning (the mode of each thread). What readers see without the insert
lock (the size, the chain, keys and values) is read and written in steps of its own; code under the writer lock can be
observed in the free list only and takes one step per removed pair. `get`, `get_and_insert`, `get_and_remove`/`remove`,
`remove_if` and `free_chunks` are complete; the iteration over all pairs changes nothing and is left out, and hash
values are not modelled (the code compares keys). `AbstractMap` is a map with invocation, one effect and return per
call: the refinement is linearisability, with the linearisation points named in `done` and `answer`.

### TaskStack, AbstractTaskStack

`SCOREP_Task.c` with the callers in the fork/join layer: `TaskBegin`, `TaskSwitch`, `TaskEnd`, region enter and exit
split by what they do to frames, `ExitAllRegions`, and the finalisation of locations. Lists are sequences. A location's
data are touched by its own thread only, therefore a call is a step; what interleaves are the locations. The hash of a
stack is left out.

### SelectiveIntervals, Recording

`SelectiveIntervals` is the sorted insertion with its binary search and its 8-bit comparison, as recursive functions on
sequences. `Recording` is the recording switch with all that use it: `SCOREP_User_EnableRecording` and its opposite,
the enter and exit of user regions with `scorep_selective_check_enter` and `_exit` split at every load and store of the
shared counts, fork and join (a thread in parallel may not switch), and `scorep_finalize`, which leaves open regions,
switches recording back on if it is off by default and leaves the program region. The profile is modelled by what the main
thread has open in it: it stops at an exit that does not fit. The program is chosen in the initial state from
`RecordingSetups`: the configuration file and the default mode, what the application does itself (it never switches, it
switches in a nested way, or freely), whether it has parallel regions, and whether it calls exit() with regions open.

### CreateWait

The wrappers of `pthread_create`, `pthread_join`, `pthread_exit`, the wrapped start routine, `cleanup_handler`, orphan
threads with their key destructor, the pools of the create/wait layer, and the part of `scorep_finalize` that changes
the phase, ends latecomers and finalises. Each test of the measurement phase is a step, so that the phase can change
after it. Functions under a mutex are one step. Threads may be detached or cancelled, may call pthread_exit, may begin
after the measurement ended. Numbers stand for locations, subsystem data and wrapped arguments in the order of their
allocation.

### RewindStack

The stack of rewind regions of one location, the events that push, mark and pop it (`SCOREP_Tracing_Events.c`), and, as
far as they use it, OTF2's list of saved buffer states and its flush. A call of the application is a step; the buffer may be
full, and is then flushed, in the middle of any event. The code has two lists of the same regions, one here and one
in OTF2: `RewindConsistent` says that they agree.

### MpiRequests

The table of `MPI_Request` values with its entries, each the head of a list of requests; the mark on a request that a
wrapper works on; the free lists of both kinds of objects; and the wrappers of creation, Wait/Test, Start, Request_free and
Request_get_status as sequences of steps: between the PMPI call, the lookup in the hash table, the lock of the entry, and
the release, other threads do theirs. The hash table is used through `AbstractMap`'s meaning. What the MPI library is free to
do (return a dummy value, give a value out again at once) and what the program does (threads, persistent requests, calls on
a dummy value) are *features* of a setup chosen in the initial state.

### OmptOverdue

Implicit tasks and parallel regions of one initial thread that encounters a region after the other: `parallel_begin`,
`implicit_task` begin and end, `sync_region` of the implicit barrier, `parallel_end`, and the overdue events that a thread
finds stored for its location and writes for their owner. The step is what lies between two atomic operations or
locks. The runtime is part of the model: it lets a worker that was in the last region report its end late, or at any time.
`log` is the sequence of events of each location.

### AllocMetric, SplayTree

The tree of allocations, the totals per metric and per process, and the wrappers of malloc, realloc and free, and of allocations
the program makes through MPI. A wrapper of free takes the allocation out, calls the library, and reports it: three
steps. Counters go to one location, under a mutex taken before the timestamp. The trees and their operations are constants
of `AllocMetric`, and `TreesAssumption` says what the operations do to the set of the items. `SplayTree` has the code's trees as
recursive operators: the search with its rotations, the insertion and the removal of the root. In the runs these are
the values of the constants; TLC evaluates `TreesAssumption` for all search trees over the addresses before it explores a state.

### IoHandles

The hash table of each paradigm, the handle stack of each location, and the wrappers of open, creat, dup, dup2, read, close,
fopen, fdopen, freopen and fclose. Wrappers nest, because the C library opens a stream with a call of open that may
itself be wrapped. The operating system hands out the lowest free descriptor, to any thread, from the moment a close has
happened. `SCOREP_IoMgmt_GetIoHandle` is two steps: the search under the mutex, and the read through the reference it found.

### Unify

Every process unifies its own definitions; the managers then travel up an embedded hypercube, each process adding those
of its children to its own, and mappings travel back. Types are those with a rule of their own: strings, regions (that
refer to strings), call paths (that refer to call paths), communicators (whose name, parent and peer may come with a
duplicate), and windows (whose default name gives way to the user's). A send waits for its receive, so that the absence
of deadlock is checked for the weakest sends MPI allows. `UnifiedIds` compares definitions by content: a local handle and
its translation stand for the same thing, and the root has nothing twice.

### Null, MCComponents

`Null` declares the constant that stands for a null pointer in several modules. `MCComponents` puts the components that
share no state in the model into one run: the variable `component` is chosen in the initial state, and only that component
acts. Each has a list of setups (programs, runtimes, libraries) there: those under which it keeps what it promises.
Where a setup is left out because the promise is then broken, a run of its own shows it ([findings](#findings)), or it is
described under [further observations](#further-observations).

Deadlock is checked in all runs but one. The lock and the hash table are used forever; the programs of `MCComponents` end,
and each has a step of its own (`RecordingStop`, `MpiStop`, `UnifyStop` and so on) that is enabled only when it has
come to its proper end, so that being stuck anywhere else is reported. `CHECK_DEADLOCK FALSE` stands in `CreateWait.cfg` only:
there the program ends with threads that are never joined, or have not begun.

## Runs

| run | instance | question | result |
|---|---|---|---|
| `rwlock` | 3 threads, each reader or writer at any time | exclusion; the header's two BUG_ONs; tickets and signals; clean state between uses; liveness; refinement | holds |
| `fasthashtab_remove` | 2 threads, 3 keys in a bucket of 2-pair chunks, 3 chunks | linearisable with removals; chunks conserved and freed; the last pair found across the chunk boundary; published pairs stable beside readers | holds |
| `fasthashtab_remove_if` | 2 threads, 2 buckets, at most a chunk each | `remove_if` misses nothing; every call returns | holds |
| `createwait` | 3 workers (one with cancel, detach, exit) and an orphan, 2 alive at a time, finalisation at any time | ownership of locations and arguments; pairing of ends; latecomers; value joined | holds |
| `components` | eight components, see the next table | — | holds |
| `fasthashtab_empty_chunk` | 1 thread, 3 keys, remove_if on two chunks | does a removal free the emptied chunk? | violated |
| `recording_exit` | exit() inside of a selected region | is enabling a noop when enabled? | violated |
| `rewind_top` | a region entered again while second | does the region entered last lie on top? | violated |
| `mpirequests_status` | MPI_Request_get_status of an inactive request | is every completion recorded? | violated |
| `allocmetric_known` | windows whose address comes back | are all leaks reported? | violated |
| `iohandles_stale` | a query beside a close in one bucket | does a query find the handle of its descriptor? | violated |
| `unify_window` | two processes, the first has named a window | is the first user's name used? | violated |

In `components`, each property belongs to one component:

| component | properties | what they say |
|---|---|---|
| recording | `RecordingInvariant`, `IntervalsInOrder`, `SelectedRecorded`, `EnablerKnown`, `NoSwitchInParallel` | the profile mirrors the calls and is closed at the end; intervals sorted and searched correctly; a selected instance is recorded, unless its region's current interval was over before it, which a plain selection rules out; one region has switched recording on; no switch in a parallel region |
| tasks | `OwnedOnce`, `Implements` | frames and tasks belong to one task or list; each task has a stack of its own (`AbstractTaskStack`) |
| rewind | `RewindConsistent`, `RemovedIsDeclared` | the two lists agree and times increase; what was cut off is declared in the trace's properties |
| mpi | `CompletionsRecorded`, `ObjectsOwnedOnce` | every observed completion is recorded once, no request "not found"; requests and entries in one list, once |
| ompt | `EndedOnce`, `TimesInOrderIfLate`, `ObjectsLive` | each end once, in order, on its location; times of a location increase if the runtime reports late; nothing recycled while in use, all recycled in the end |
| alloc | `AllocationsTracked`, `CounterTimesInOrder` | between calls tree, totals and heap agree; counter times never decrease |
| io | `OperationsOnOpenFile`, `TableMatchesFiles` | operations are recorded for the file behind the descriptor, on active handles; between calls one handle per open file |
| unify | `UnifiedIds` | translated ids mean the same on all processes, nothing twice, peers kept |

### Bounds, and why they are enough

* `rwlock`: threads repeat without bound. Three is the least number with a writer inside, a writer waiting and a reader, or a
  writer and two readers, in all roles; the proofs remove the bound. `RWLOCK_MAX_READERS` is 2^14 as in the code.
* `fasthashtab_*`: two pairs per chunk and three keys make a bucket of two chunks with the second one half full or full, so
  that positions cross a chunk boundary in both directions; three chunks suffice for two buckets and the free
  list. Two threads suffice for every pair of calls; three inserters differ only in who waits for the insert lock.
  `remove_if` is checked where it is right: buckets of one chunk (see the findings for two). Values are two so that a
  replaced value is noticed. `UINT32` is a small modulus: an index below zero wraps to something out of range in the same way.
* `createwait`: `MaxThreads` threads begin (each once), `MaxAlive` live at a time; a third thread reuses what a first one left,
  while a second one runs or the main thread finalises. `MaxDepth` 1 shows open and closed regions. The policy
  is "same start routine". The worker that may be detached or cancelled has a start routine of its own in this run: without
  that, and under the policy "always", its location is reused while it still writes to it, which is a further observation
  below. Under the default policy, "never", no location is reused. What is proved holds under all three policies.
* tasks: frames of two with at most three regions cross the boundary up and down; three tasks on two locations allow an
  implicit task each and one that migrates, and recycling of each object several times.
* recording: the depth and the number of calls let a selected instance be nested in itself, in another region, and follow
  another one immediately; 127 is the largest start for which the 8-bit difference to 0 is right (see below for larger
  ones). `Word` replaces 2^64. Four programs: one switches recording itself in a nested way, forks, and may call exit()
  anywhere outside; a serial one with intervals 0–0, 2–3, 4–4, 127–127 of one of two regions;
  a serial one with two selected regions, 0–0 and 2–2 of the one, 0–1, 2–3 and an empty one, 2–0, of the other, where
  instances of either run inside of the other's; one with two threads in
  selected regions, two calls of each, with intervals 0–0 and 1–1 of the one and 0–0 of the other.
* rewind: three regions are the least number with a middle; a buffer of four events and six calls let it be flushed with
  none, one or two regions open. Regions are entered in a nested way: with recursion `EnteredIsOnTop` fails, and the times go
  out of order with it.
* mpi: two threads. Three dummy operations of one thread, whose completion any thread may observe; two threads with two
  operations, with and without dummies; two starts of persistent requests. Three requests and three entries are more
  than can be alive, so that both reuse and allocation occur.
* ompt: three regions of up to three threads, two of up to two threads where the runtime may do anything: the second region is the first
  that finds an overdue event, the third the first that finds one written late by another thread.
* alloc: two threads, four addresses, two sizes, four calls (three with two metrics), memory from before the measurement; deep
  enough for each rotation of the splay step. `TreesAssumption` is evaluated for all search trees over these addresses and sizes.
* io: five descriptors and four streams, four calls; two threads whose files lie in different buckets, or one whose
  files share a bucket, with or without wrappers called from the library; there fdopen may fail.
* unify: up to four processes with any of three sets of definitions each (local duplicates, swapped orders, an
  intercommunicator with and without its peer, call paths three deep), and eight processes, where ids of a leaf pass
  through three mappings.

In `components`, the threads, callers, workers, locations and paradigms of the different components are the same two
model values, so that one permutation serves all; only safety and action properties are checked there, for which symmetry is
sound.

### Fairness

Safety runs assume none. `RWLock!Fairness`: a thread inside one of the four functions or in a critical section keeps
running (weak fairness of its steps; a thread of a measured program that is inside Score-P is scheduled by the operating
system), and an exchange that can succeed again and again does not fail forever (strong fairness of the two successful
exchanges: a weak compare-and-exchange may fail spuriously but not always). Nothing is assumed of idle threads, and
the mutex between writers is not fair: therefore `AnnouncedWriterEnters` speaks of writers that announced themselves, and
`NoReaderLeftBehind` is about readers once writers stop coming, which is what a lock that prefers writers can give.
`FastHashtab!Fairness` is weak fairness of the threads that hold a bucket's lock; waiting for the lock is `RWLock`'s
matter, and so `CallsReturn` starts where the lock has been obtained.

## Findings

Each is shown by a run in which one property, taken from the documentation, fails.

1. `fasthashtab_empty_chunk`: `remove_if` does not know the predecessor of a chunk that is not the first
   (`SCOREP_FastHashtab.h:697`). When it empties the last chunk, the chunk stays in the chain, although "When a remove
   operation leads to an empty chunk, store this chunk in a hash table specific free-list" (line 196).
2. `recording_exit`: with selective recording, a program that exits inside of a selected region has recording switched
   on twice by `scorep_finalize` (`SCOREP_RuntimeManagement.c:918`): the profile sees record_off left when it is
   not open and stops. `SCOREP_EnableRecording` is documented as a noop when recording is on. A program with parallel
   regions gets there without exit(): when an increment of the unlocked `exits` is lost, the count reaches zero in the
   parallel region, where switching off is refused, and recording stays on. Therefore
   `ProfileMirrorsCalls` and `ProfileClosed` leave parallel programs with selective recording out (`CountsExact`).
3. `rewind_top`: `scorep_rewind_stack_push` compares the item *before* the one found with the head
   (`scorep_rewind_stack_management.c:104`). A region that is second on the stack and entered again is not moved, and
   the region on top gets its time; "If id is NOT on top of the stack, then move id on top" says the comment above it.
4. `mpirequests_status`: MPI_Request_get_status marks any request completed for which MPI says so
   (`SCOREP_Mpi_Request.c:1439`), also an inactive persistent one. MPI_Start does not clear the mark, and the
   completion of the operation it starts is not recorded. The ChangeLog says "Communication completed in
   MPI_Request_get_status is now correctly recorded."
5. `allocmetric_known`: an allocation that is already known replaces the whole tree (`SCOREP_AllocMetric.c:224`), and with
   it all others. That happens, because the memory of MPI_Win_allocate is reported and its MPI_Win_free is not, so the
   address comes back. The header promises "SCOREP_LeakedMemory events for allocations that weren't freed."
6. `iohandles_stale`: `SCOREP_IoMgmt_GetIoHandle` reads through a reference into the hash chain after it has
   released the mutex (`scorep_io_management.c:734`). If the handle the reference lies in is removed in between, the
   query returns no handle or another file's.
7. `unify_window`: `define_rma_window` marks every new definition as having its default name
   (`scorep_definitions_rma_window.c:199`), also when a window with a name of the user's is unified: a later
   process's default name then replaces it. "The current unification scheme considers the first user-defined name set on the
   first process", says the comment at line 127.

## Further observations

Met while modelling, and kept out of the passing run by its setups or by the wording of a property. They have no run.

* *Intervals far apart.* `compare_intervals` (`scorep_selective_parser.c:99`) returns a 64-bit difference as int8_t: intervals
  that start more than 127 instances apart (100 and 300) are inserted out of order, and the smaller one is never
  recorded, although "Contained intervals are sorted after their first instance" (`scorep_selective_region.h:71`).
  `IntervalsInOrder` fails for them; the starts in the run are at most 127 apart.
* *Two selected regions.* Selective recording looks for a region's next interval only when an instance is left that
  switched recording on (`scorep_selective_region.c:135`–154). A selected instance that runs inside of another region's
  selected instance is recorded, but does not switch recording on: its region's current interval stays, and later
  selected instances of that region are missed. (Both select instances 0 and 1; the first instance of the one runs inside
  of the first of the other; its instance 1 is not recorded.)
  `SelectedRecorded` names the exception: the current interval of the region was over before the instance (not
  `CurrentOpen`). The setup with two regions meets it; the one with one region, a `PlainSelection`, allows none.
* *An interval that ends before it starts* (`5:3`) is accepted by `parse_file` (`scorep_selective_parser.c:315`–325). Once it is
  current, no instance is in it, and the region's later intervals are not recorded. This is the other way into the exception.
* *Location reuse.* With `SCOREP_THREAD_EXPERIMENTAL_REUSE`, `cleanup_handler` gives its location back and then still
  puts the wrapped argument of a detached or cancelled thread in that location's free list and clears the location's
  `wrapped_arg` (`scorep_pthread_event.c:240`–254). A thread with the same start routine that has begun on the location
  meanwhile is left with NULL, which `pthread_exit` takes for "Main thread called pthread_exit()" (line 362) and its
  `cleanup_handler` dereferences.
* *In parallel or not.* `SCOREP_Thread_InParallel` of the create/wait model (`scorep_thread_create_wait_generic.c:264`)
  counts created threads and compares with one; the main thread is not counted, so it is false while the main thread and one
  other run (`SCOREP_Thread_Mgmt.h:61`).
* *Threads at the end.* A thread that passed the phase test of `cleanup_handler` can reach the BUG_ON of `TryTerminate` after
  finalisation; `pthread_join` tests the phase after the thread has returned its wrapper (`scorep_pthread_event.c:294`).
  `JoinDeliversValue` and `ArgsOwnedOnce` are stated for joins within the measurement and leave these out.
* *Filtered regions.* The hash of a stack with a filtered region on it reads a region definition behind
  `SCOREP_FILTERED_REGION` (`SCOREP_Task.c:397`), which is none.
* *MPI requests in threads.* With MPI_THREAD_MULTIPLE and three dummy values, freeing a request removes its entry, and
  gives it to the pool, before it is unlocked (`scorep_mpi_request_mgmt.c:543`); the entry is set to zero when it is
  taken again, so a late unlock releases another holder's lock, and a request is appended to an entry that is no longer in the
  table, despite "The entry has not changed." (line 276). A request is unmarked after it has been returned to the pool (line
  599). When a value is given out again before the wrapper that completed it has looked the request up (feature "early"), the
  wrong request is found, as `OPEN_ISSUES` admits (lines 228–232). MPI_Request_free of an active persistent request leaves
  it in the table (feature "free of active").
* *OpenMP runtimes that report at any time.* `team` is set before the overdue events of the location are written
  (`scorep_thread_fork_join_generic.c:218`, 220): an overdue TEAM_END carries the team of the new region. The times of
  the ends (`scorep_ompt_events_host.inc.c:1080`–1085, 1546–1551) are right under the assumption of the comment at
  line 145 only; `TimesInOrderIfLate` makes it too.
* *Failed realloc.* The allocation was taken out of the tree before the call and is not put back
  (`scorep_memory_event_functions.h:450`; feature "realloc fails").
* *Failing I/O calls.* A close, fclose or closedir that fails puts the handle back and yet writes that it was destroyed
  (feature "close fails", which breaks `TableMatchesFiles`); dup2 destroys the handle of its second argument before a
  call that may fail; an open that fails within another creation leaves the counter of nested creations, which
  `scorep_io_management.c:593`–605 ignores, and runs into a BUG_ON; a freopen that fails loses the handles of its stream and
  never writes that they were destroyed (feature "freopen fails", which breaks it too), one of a stream without handle runs
  into a BUG_ON (line 506). An fdopen that fails is in the passing run.
* *Address lookup.* `lookup_so` (`SCOREP_Addr2line.c:727`, 747) compares with `<`: an address that is the first of any
  object but the first is not found, though the comment at line 718 says [begin_addr, end_addr].

## Proofs

Every theorem holds for all values of the constants that satisfy the assumptions named here. The invariants were
model-checked, whole and part by part, before they were proved.

| module | theorem | states | assumptions beyond those of the model |
|---|---|---|---|
| RWLockProofs | `RWLockInvariant` | `Spec => []IInv` | none: any finite set of threads smaller than `RWLOCK_MAX_READERS` |
| | `TypeCorrect` | no word of the lock leaves its type: no overflow of int16_t | |
| | `ReadersAndWritersExclude` | `[]Exclusion` | |
| | `BugOnNeverFires` | the BUG_ON conditions of the header are never met | |
| | `TicketsNeverLeak` | tickets never outnumber those who wait for them | |
| | `LockIsReusable` | unused, the lock is in its initial state | |
| | `LockRefinesAbstractLock` | `Spec => Implements` | |
| FastHashtabProofs | `ChunksAreConserved` | `[]Conserved`: every chunk is in one chain | `OneChunkIfRemoveIf`: with `remove_if`, the keys of a bucket fit in one chunk (finding 1); none for tables without it |
| | `EmptyChunksAreFreedAlways` | `[]EmptyChunksAreFreed` | the same |
| | `LastPairIsFound` | `[]LastPairFound`: from any pair, a removal's walk and its unsigned difference lead to the last pair | the same |
| | `RemoveIfRemovesAllAlways` | `[]RemoveIfRemovesAll` | the same |
| | `PairsAreStableWhileRead` | `PairsStableWhileRead`: what is read without the insert lock does not change | the same |
| | `TableImplementsMap` | `Spec => Implements` (`AbstractMap`): the table is linearisable | the same |
| RegionProofs | `TaskStackOwnedOnce` | `[]OwnedOnce`: no task and no frame in two places | none: any locations, tasks, regions, any size of a frame and depth |
| | `TaskStackImplements` | `TaskStackSpec => Implements` (`AbstractTaskStack`) | |
| RegionProofs | `OneEnabler` | `[]EnablerKnown` | `NoMixing`: programs that switch recording themselves have no selective recording |
| | `IntervalsSorted` | `[]IntervalsInOrder`, the binary search included | `NearStarts`: the intervals of a region start at most 127 instances apart (see *Intervals far apart*) |
| | `SelectionIsRecorded` | `[]SelectedRecorded`: any number of selected regions and intervals, empty ones too | `NoMixing`, `NearStarts` |
| | `NeverSwitchedInParallel` | `NoSwitchInParallel` | none |
| CreateWaitProofs | `LocationsOwnedOnce` | `[]LocationOwnedOnce`, a part of `OwnedOnce` | none: finitely many threads, every reuse policy, every way to end |
| | `OneEndPerBegin` | `[]EndsFollowBegins` | |
| | `DataIsConserved` | `[]DataConserved` | |
| | `AllLatecomersEnded` | `[]LatecomersEnded` | |
| RegionProofs | `RewindAgrees` | `[]RewindConsistent` | programs enter their rewind regions nested |
| | `RewindDeclares` | `[]RemovedIsDeclared` | the same |
| OmptOverdueProofs | `EveryTeamEndsOnce` | `[]EndedOnce` | none: any finite set of workers, any sequence of teams, both kinds of runtime |
| | `ObjectsOutliveTheirUse` | `[]ObjectsLive` | the same |
| | `LateTimesNeverDecrease` | `[]TimesInOrderIfLate` | the same; the property speaks of runtimes that report late |
| MpiRequestsProofs | `RequestsOwnedOnce` | `[]ObjectsOwnedOnce`: no request and no table entry lost or in two places | `ValuesApart`: threads that are in MPI at the same time get no dummy value, and no value that a running wrapper still works with; one thread at a time may get any |
| | `CompletionsAreRecorded` | `[]CompletionsRecorded`: each observed completion is recorded once, under its own id | `ValuesApart`; `NoneExcluded`: no status of an inactive request, no free of a started one, only MPI_Wait on a dummy value |
| AllocMetricProofs | `AllocationsAreTracked` | `[]AllocationsTracked`: the tree is the heap and the totals are its sum | `EveryFreeReported`: no memory of windows, which is freed without a report (finding 5), and no reallocation that fails |
| | `TimesNeverDecrease` | `CounterTimesInOrder` | none: any threads, metrics and calls |

`RegionProofs` is about three components, recording, the stacks of tasks and the stack of rewind regions, which share nothing but
lemmas on lists. `ListLemmas` holds what all of them need about sequences as lists of distinct objects: taking off the head or one
element, appending, the ranges and lengths that result; and, for recursion over numbers, that every non-empty set of numbers has a
least (`LeastNumber`) and that a function given by a first value and a step exists (`Iterates`).

**RWLock.** None of the properties is inductive. A word of the lock is a *sum*: `pending` is the number of readers in the
lock, less RWLOCK_MAX_READERS while a writer is announced; `departing` is the number of readers the writer still waits for,
but goes below zero between announcement and registration. The invariant `IInv` therefore relates each word to the number
of threads at given places: `MutexInv` (who holds the mutex), `PendingInv`, `TicketInv`, `NobodyAnnouncedInv` (what is
clean without a writer) and `WriterInv` (what a writer at each of its places knows; the signal is in exactly one of: not
yet due, about to be raised, raised). `Exclusion` follows since a writer inside has `ToDepart = 0`, the number of readers
that arrived before its announcement and have not left. Lemmas say how a step of one thread changes the counts
(`MoveCount`, `GotoCounts`), and one lemma per action, `<Action>IInv`, has a step per conjunct.

**FastHashtab.** The parts of `TableIInv` about one bucket or one thread are operators of the values they relate, the
bucket's chain `s`, its size `n` and the thread's locals `w`; that lets the proof of a step speak about values before and
after it, without primes. `LocksOK` says who holds which lock from the places of the threads. `ChainsOK`: the chains of
the buckets and the free list are disjoint and hold all that was allocated. `BucketOK`: the pair `m` is in chunk
`Row(m)` of the chain and slot `Col(m)`, the quotient and remainder by the pairs per chunk; each key is there once, and there
are as many chunks as that takes (`Fits`). `ThreadOK` says what a thread knows at its place: that the
`i` pairs it has seen do not have its key (`Missed`), where its pointer points (`Behind`, `PointsTo`), what it has written and
not yet published (`WrittenAt`), that the pairs `remove_if` went past are not accepted (`VisitAt`). The point of the design is
that a reader's knowledge survives other threads' insertions. `Extends` is what an insertion does to a bucket: it adds chunks
and pairs behind those that are there, the size last; `GrownThread` says that what a reader knows of a bucket is true of
every extension, and `TableStep` that a step that changes one bucket keeps the invariant if it extends it under the
insert lock, or does anything under the writer lock. Removal is first brought into the chain's terms (`RemovalFindsLast`, whence
`LastPairFound`: from a pair in any chunk of the chain, the walk to the last chunk and its index find the last pair; `MoveMeans`); `PairsStableWhileRead` is `Extends` again. For the
refinement, a pair enters the abstract map with the store of the size, and the answer of a call that has published and not
yet read its value is that pair's (`AnswerKnown`).
`OneChunkIfRemoveIf` is necessary: in a longer chain `remove_if` leaves an empty chunk behind, as the run
`fasthashtab_empty_chunk` shows, after which `Fits` is wrong.
For the proof a chain became a recursive function on all numbers (`ChainFrom`), and that keys and chunks are finitely many was
made explicit.

**TaskStack.** A task that is created takes an object from its location's list, and that nobody uses it is not said by
`OwnedOnce`: a completed task is in the list and yet the current task of its location. `TaskStackInvariant` adds
`CurrentTasks` (a location's current task is alive, or lies in that location's own list; an implicit task stays where it is)
and `StacksOfTasks` (a task without frames has the index from which its first frame is allocated). Every step then moves
frames between two holders or takes new ones (`Exchange`). For the refinement the region at depth `n` of a task is in
frame `Row(n)` at `Column(n)`, the quotient and remainder by the size of a frame; `Positions` says what those are at
the boundary of two frames, and one lemma per enter and exit, within a frame and across the boundary, that it pushes or pops
one region and changes no other task's stack (`ContentKept`, from `OwnedOnce`).

**Recording.** `RecordingIInv` has three layers. *Threads* (`ThreadsOK`): outside of parallel regions only the main thread
is inside of a call, and between the decrement of `exits` and its test the region still has recording on. *The enabler*
(`EnablerOK`): at most one region has switched recording on, and it is on until that is undone; this is where a fork is
excluded, since switching is refused in a parallel region. *Counts* (`ExitsOK`), in serial programs: `exits` is the number of
open calls of the region from the `p`-th on, the one that switched recording on (`CountedFrom`); a nested call adds one
to both, and the last exit is the `p`-th call's. `OneEnabler` follows: the count is positive while that call is open.
`NeverSwitchedInParallel` needs none of it.
`SelectionIsRecorded` has an invariant on top, `IndicesOK`: the intervals before the current one are over
(`CurrentInterval`), a region's enters are counted (`EntersExact`), what a call has decided is right when it gets to its
enter, or its region's interval had passed (`Judged`), and when the selection is dropped all intervals are over
(`DroppedOver`). That the exception never happens with a plain selection is `NotOver`: the current interval is not over while
recording is off. An instance that is not in the current interval comes before
it, hence, the list being in order, before all later ones. That is the proof's use of `ListsInOrder`: lists of the file's
intervals that are sorted. `IntervalsSorted` proves it, for lists of any length. `Search` is the loop of the binary search as
a function from the number of rounds done to the range that is left; `Narrows` is the loop's invariant (what lies before
the range starts earlier, what lies behind does not, and every round makes the range smaller), `RoundNarrows` that a round
keeps it, and `LowerBoundFinds` that after as many rounds as there are items nothing is left. It is an induction over the
rounds, made without a schema: the least round that breaks the invariant has one before it (`LeastNumber`), and that the
recursive function exists follows in the same way (`Iterates`).

**CreateWait.** `CreateWaitIInv` has five parts. `ThreadsOK`; `LocationsOK`: there are no more locations than threads that
have begun, and those of running threads and those in pools are disjoint; `DataOK`: subsystem data is with one location, with one
thread that is about to release it, or free, and together these are all that was allocated; `EventsOK`: a location has one begin
without an end exactly while its end is due, because it can be terminated or somebody is about to record the
event; `LateOK`: the locations the main thread has been to can be terminated only by threads that began after it. The
exchange in `TryTerminate`, of the main thread against a thread that ends, is decided by the data: whoever takes it
ends the thread.

**RewindStack.** `RewindIInv` is stated for any stack and trace (`Consistent`), because one event changes both several times:
no region is twice on the stack, and each has a rewind point in OTF2's list (`Listed`); the points are beginnings of the
buffer, longer the nearer their region is to the top (`PointsNested`); a region was entered when the events up to its
point had happened (`PointsTimed`), and is affected by every paradigm that has written since (`PointsMarked`). The last is
why `RemovedIsDeclared` holds: a rewind removes the events behind a point. A flush empties both lists (`WriteKeeps`).
Programs that enter a region again while it is second on the stack are excluded: there `PointsNested` fails.

**OmptOverdue.** The events of a location are written by two kinds of threads, and that they do not write the same ones has
three reasons, each with its part of `OmptIInv`. *The exchange*: a task that is stored at a location belongs to a
thread that still has to end it (`StoredOK`), so whoever takes it out, that thread or the one that gets the location
next, is the only one to write its end. *The lock of the location and the flag in_overdue_use*: they make a thread wait
with its own team until the other's two events are written (`LocksOK`, `ClaimsOK`), and the task's owner with giving it back
(`TasksOK`); a task in a pool is nobody's (`FreeOK`). *The count of the barrier*: the primary thread leaves it when as many
have arrived as the team has threads, so no thread that is yet to begin in the region is ever late (`TeamOK`, `CountOK`): a
location is never given to two threads of which neither has entered the barrier. `LogOK` says where the log of a location
stands for each place of the thread that has the claim to it. A thread that has written another's overdue end goes on to its
own team's begin with nothing in between; therefore `ClaimsOK` speaks about threads before `team_begin` too.

*Recycling* has its own part, `ObjectsOK`. The reference count of a region is the number of its threads that have not released
it, of its indices that are not given out, and one if its `parallel_end` is to come: a sum again, so that a lemma says for each
action who leaves one of these sets. Who uses a task is said by `UsesTask`: the thread it was taken for until it has ended it or
the exchange has shown that another did, and the thread that writes its overdue end. `Placed`: an object is in the pool or
used, and at one place of the pool; `StoredAtFirst`: a task that is stored at a location is used by the thread that stored it.
*Times* have a third, `TimesOK`, about runtimes that report late. A worker's events up to the barrier have times of their own,
the two ends those that the primary thread stores in the region. The primary thread takes them when all have arrived
(`PrimaryTimes`, which rests on the count of the barrier again), so they are after whatever the workers have written in
that region; a worker is let out of the barrier when both are stored, and finds the one stored before the other
(`WorkerEnd`, `StoredTimes`). Whoever writes an *overdue* end for a location does so in a later region than its owner's, since the
threads of one region have different indices (`IndicesOK`); that region has ended (`WorkerRegion`), so its times are there,
and older than the new team's first event. A region of one thread has no barrier and no worker.

For the proofs the assumptions on the constants were made explicit (the workers and the task objects are finitely many, tasks
and regions are different objects, none is one of the special values), and taking from a pool got the guard that an
object is left (`InPool`).

**MpiRequests.** `ObjectsOwnedOnce` is about the moments at which no wrapper runs. In between a request may be in a fourth
place besides its value's list, the pool and the memory that was never used: in the hands of a thread that appends or
releases it (`Hands`). `MpiIInv` says for every state that these places are disjoint and hold all that was allocated
(`RequestsApart`, `EntriesApart`), and two lemmas, `RequestsMove` and `EntriesMove`, that an exchange between them keeps this.
The lists exist as links only; `ListsOK` relates the links to sequences (`Linked`), with lemmas for the three things the code
does with them: walk (`LinkedIsList`), append (`LinkedAppend`), unlink (`LinkedWithout`). What a wrapper has looked up is
used later, under another lock: `ThreadsOK` says that it is still true then (`Knows`), because threads that are in MPI at the
same time work with different values, which rests on MPI giving none twice (`OpsOK`). The lemma `NeverChanged` follows:
the code's test of the control value never finds a change in such programs. Without `ValuesApart` the statement is wrong, for
threads at the same time: with three operations and dummy values, or with values given out again early, TLC finds an
append to an entry that lies in the pool (*MPI requests in threads* above). Of the setups of the run `components`, the
one with threads and two dummy values is outside of `ValuesApart`; it holds there because two are too few.
`CompletionsRecorded` needs to know of each request what it says, `RecordsOK`, for every value: what holds while nobody works
with it (`RestingOK`) and in each phase of the call that does (`WorkingOK`), for which the lemma `StepRecords` reduces a step
to what it does to its own value. A value other than the dummy has the one request of its live operation (`Keeps`), whose
flags show the state the program is in (`Shows`); between PMPI_Wait and the wrapper's event the count lags by the completion
that the flags still announce (`Pending`). The requests with the dummy value cannot be told apart, and a wrapper takes
the first that is not marked: each of them is recorded at most once (`Listed`), and those still to be recorded are never more
than the operations that go on, and the one call that has just observed an end (`Enough`); when none goes on nothing is left.
The three features that `NoneExcluded` names each break the statement: the run `mpirequests_status` shows the first, and TLC finds
the others with two operations (a request freed while it is started stays in the table; a status or a release of one
dummy is entered for another).
For the proof the walk along a list became a recursive function on all numbers, the first request that is not marked the one
with the least index (`FirstUnmarked`) instead of the head of a filtered sequence, and new memory any object (CHOOSE)
instead of the least one.

**AllocMetric.** `AllocationsTracked` speaks of the moments at which no wrapper runs. From the moment when a wrapper takes an
allocation out of the tree to its report, the tree lacks an allocation that is still the program's, or is again another
thread's (`Out`), and the total counts one that the tree lacks (`Held`). `AllocIInv` says in every state that the tree has the
reported allocations less those that are out (`TreeOK`), that a thread that is about to report knows what there is at its address
(`CarriedOK`), that no two threads work with one address unless it has been freed in between (`UseOK`), and that a total is the sum of
the tree and of what the threads hold (`TotalOK`). The order in `SCOREP_AllocMetric_AcquireAlloc` is what makes this true:
when free returns the address is no longer in the tree, so that another thread's report of it does not meet it there, which the
insertion requires. A step changes one metric, and `StepKeepsTotals` reduces it to what it adds to the tree and to the thread's
hands. The sums are `SumFunction` of the community modules, which takes the elements in an order that is not known; `SumExists`,
`SumSplits` and `SumChange` give what the proofs need of it, for functions on any finite set. Without `EveryFreeReported` the
statement is wrong: a failed realloc has taken its allocation out of the tree and reports nothing, and the run `allocmetric_known`
shows the other case.
For the proof the tree became a constant with an assumption, and that the threads and metrics are finitely many and that there is a
size was made explicit.

Only model-checked:

* the liveness properties: fairness and ENABLED are outside of the prover's reach;
* that the splay trees of AllocMetric do what `TreesAssumption` says (`SplayTree` is made of `RECURSIVE` operators, with which
  the prover loses its arithmetic, and the statement needs induction over trees), and the properties of Unify (the content of
  a definition is a recursive function). The library's induction theorems have an operator as parameter, which the provers cannot instantiate; where
  the recursion is over numbers, as in the binary search and in the chains of FastHashtab, the least counterexample does instead;
* `RecordingInvariant`: leaving all regions at the
  end is a fold over the calls;
* of CreateWait, the arguments of `OwnedOnce`, `PooledIsClosed` and `JoinDeliversValue`: they do not hold under every policy (see
  *Location reuse* above), so that their invariant is one of another specification; planned;
* IoHandles; planned.

## What is not modelled

Weak memory: the atomics the models use are sequentially consistent in the code, or are validated by one that is; plain
accesses are under a mutex except the counts of selective recording, whose lost updates are in the model. The layout of
memory, names, formats and output. Failures of `malloc` and of the operating system, on which Score-P aborts. Other than
that, the components marked *not_modelled* in `PROJECT.json`, each with its reason.

The bulk of the source, by lines, is of that kind and will stay so: the wrappers of MPI, SHMEM, POSIX and the
accelerators (one enter, one call, one exit for each of many hundred functions, mostly written from templates), the
conversions of definitions and events into OTF2 and CUBE, the numerical parts of the profile's post-processing, the command
line tools, and vendored libraries. They keep no state between calls beyond what the modules above hold. The share of
lines that the models cover is therefore small, while they cover most of the code in which actors interleave; what of
that is left is in the plan.

Of the hazards listed in `PROJECT.json` three have no property: a thread that is still between the phase test and
`TryTerminate` when finalisation completes (the property of the other threads would have to leave it out), the list of
locations walked while it grows (LocationList), and the flag `initialized` that is set before the initialisation is done
(Lifecycle).

## Plan

The order follows what is most used and hardest to test. A module is parameterised by CONSTANTS with named assumptions,
has one action per operation, no RECURSIVE operators and invariants made of named parts, so that proofs can follow.

| | module | composes | abstract specification | status |
|---|---|---|---|---|
| 1 | RWLock | — | AbstractRWLock | checked and proved |
| 2 | FastHashtab | AbstractRWLock (as the bucket lock) | AbstractMap | checked and proved |
| 3 | TaskStack | — | AbstractTaskStack | checked and proved |
| 4 | SelectiveIntervals, Recording | — | — | checked; proved but for the profile's nodes |
| 5 | CreateWait | — | — | checked; proved but for wrapped arguments, depths and joined values |
| 6 | RewindStack | OTF2's list, as far as used | the two lists agree | checked and proved, for nested programs |
| 7 | MpiRequests | AbstractMap's meaning as its table | each completion once | checked and proved |
| 8 | OmptOverdue | team events of fork/join | each end once | checked and proved |
| 9 | AllocMetric, SplayTree | — | the tree is the heap; `TreesAssumption` for the tree | checked; proved for all trees that do what is assumed |
| 10 | IoHandles | wrappers nested in wrappers | one handle per open file | checked |
| 11 | Unify | — | equal definitions, equal ids | checked |
| 12 | ForkJoin | TaskStack's implicit tasks | — | planned |
| 13 | LocationList, Lifecycle | CreateWait's finalisation | — | planned |
| 14 | PthreadMutex, ProfileTasks, Allocator, Addr2line | Addr2line: AbstractRWLock | — | planned |

What the planned modules are for, besides what `PROJECT.json` lists: the array of first locations sized by
the threads asked for and filled by the size of the team (`scorep_thread_fork_join_generic.c:98`, `181`); locations created
while the deferred ones are initialised (`scorep_location_management.c:280`); finalisation that gives up half-way in processes
without MPP (`SCOREP_RuntimeManagement.c:952`); a mutex object recycled while another thread still uses it
(`scorep_pthread_mutex.c:153`); stubs, tasks and I/O nodes exchanged between profile locations
(`scorep_profile_location.c:337`, `scorep_profile_io.c:93`); pages counted that were not found, roll-backs, and memory that
runs out in two threads (`SCOREP_Allocator.c:150`, `777`, `SCOREP_Memory.c:182`); a closed object between two lists
(`SCOREP_Addr2line.c:1174`).

To keep the set of runs small, a new component joins `components`.

Theorems left to prove, in this order: `CreateWait` – the
arguments of `OwnedOnce`, `PooledIsClosed` and `JoinDeliversValue`, for policies under which no location is reused while it is
written to; `IoHandles`.
