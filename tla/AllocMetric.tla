---------------------------- MODULE AllocMetric ----------------------------
(***************************************************************************)
(* The tracking of a program's allocations                                 *)
(* (src/utils/alloc_metric/SCOREP_AllocMetric.c) by the wrappers of the    *)
(* memory, MPI and SHMEM adapters.                                         *)
(*                                                                         *)
(* A metric knows the allocations of one kind of memory by their address,  *)
(* in a splay tree.  A wrapper takes an allocation out of the tree before  *)
(* it calls free or realloc, because the address may be another thread's   *)
(* when the call returns, and reports the call afterwards.  All metrics of *)
(* a process write their totals to one location, whose times must not      *)
(* decrease.                                                               *)
(*                                                                         *)
(* An allocation_item is a record.  The trees are constants, with what     *)
(* their operations are to do as an assumption; SplayTree has the splay    *)
(* trees of the code.  The free list of the items is not modelled.         *)
(***************************************************************************)
EXTENDS Integers, FiniteSets, Functions, Null

CONSTANTS
  Callers,           (* threads of the program                             *)
  Addresses, Sizes,  (* of memory                                          *)
  AllocSetups,       (* metrics, what may happen (features), a bound on    *)
                     (* the calls, addresses allocated before measurement  *)
  Trees, IsSearchTree(_), ItemsOf(_),         (* search trees, their items *)
  Splay(_, _), Insert(_, _), RemoveRoot(_)    (* and operations            *)

AllocFeatures == {"realloc fails",
                  "windows"}       (* memory is got by MPI_Win_allocate    *)

ASSUME AllocMetricAssumption ==
  /\ Addresses \cup Sizes \subseteq Nat \ {0} /\ Sizes # {}
  /\ IsFiniteSet(Callers) /\ NULL \notin Callers
  /\ \A s \in AllocSetups : /\ IsFiniteSet(s.metrics) /\ s.features \subseteq AllocFeatures
                            /\ s.calls \in Nat /\ s.before \subseteq Addresses

VARIABLES
  alloc_setup,
  heap,                      (* the size of each allocation of a metric, 0 *)
                             (* if the address is free                     *)
  reported,                  (* addresses whose allocation a wrapper saw   *)
  metric,                    (* struct SCOREP_AllocMetric                  *)
  process_allocated_memory,
  per_process_metrics,       (* the location: mutex, the time now, and the *)
                             (* time of the last counter event             *)
  caller,                    (* what each thread does                      *)
  calls                      (* calls begun                                *)

allocVars == <<alloc_setup, heap, reported, metric, process_allocated_memory,
               per_process_metrics, caller, calls>>

-----------------------------------------------------------------------------
(* Allocations.  There is none at address 0; Empty also is the empty tree. *)

Empty == [address |-> 0]
Item(address, size) == [address |-> address, size |-> size]
IsEmpty(allocation) == allocation.address = 0

(* What the operations on a tree do to its items: with one for the address,*)
(* Splay makes it the root, and RemoveRoot takes the root out; a new item  *)
(* is inserted.                                                            *)
Knows(tree, a) == \E item \in ItemsOf(tree) : item.address = a
ItemAt(root) == Item(root.address, root.size)

ASSUME TreesAssumption ==
  /\ Empty \in Trees /\ ItemsOf(Empty) = {}
  /\ \A tree \in Trees :
       /\ IsSearchTree(tree) /\ IsFiniteSet(ItemsOf(tree))
       /\ \A i \in ItemsOf(tree), j \in ItemsOf(tree) : i.address = j.address => i = j
       /\ \A a \in Addresses :
            /\ Splay(tree, a) \in Trees /\ ItemsOf(Splay(tree, a)) = ItemsOf(tree)
            /\ Knows(tree, a) <=> Splay(tree, a).address = a
            /\ Knows(tree, a) =>
                 /\ ItemAt(Splay(tree, a)) \in ItemsOf(tree)
                 /\ RemoveRoot(Splay(tree, a)) \in Trees
                 /\ ItemsOf(RemoveRoot(Splay(tree, a))) = ItemsOf(tree) \ {ItemAt(Splay(tree, a))}
            /\ \A size \in Sizes : ~Knows(tree, a) =>
                 /\ Insert(tree, Item(a, size)) \in Trees
                 /\ ItemsOf(Insert(tree, Item(a, size))) = ItemsOf(tree) \cup {Item(a, size)}

-----------------------------------------------------------------------------
(* The program and its memory *)

Metrics == alloc_setup.metrics
NoCall == [pc |-> "idle", call |-> NULL, metric |-> NULL, address |-> 0, size |-> 0,
           allocation |-> Empty, value |-> 0, time |-> 0]

AllocInit ==
  /\ alloc_setup \in AllocSetups
  /\ heap = [m \in Metrics |-> [a \in Addresses |-> IF a \in alloc_setup.before
                                                THEN CHOOSE size \in Sizes : TRUE ELSE 0]]
  /\ reported = [m \in Metrics |-> {}]
  /\ metric = [m \in Metrics |-> [mutex |-> NULL, allocations |-> Empty, total |-> 0]]
  /\ process_allocated_memory = 0
  /\ per_process_metrics = [mutex |-> NULL, clock |-> 0, last_timestamp |-> 0]
  /\ caller = [t \in Callers |-> NoCall]
  /\ calls = 0

InCall(t, pc) == caller[t].pc = pc
MetricOf(t) == caller[t].metric
NextPc(t, pc) == caller' = [caller EXCEPT ![t].pc = pc]
SetHeap(m, a, size) == heap' = [heap EXCEPT ![m][a] = size]
Freed(m, a) == SetHeap(m, a, 0) /\ reported' = [reported EXCEPT ![m] = @ \ {a}]

(* The program frees and reallocates what it got, once.                    *)
InUseBy(t, m, a) ==
  /\ MetricOf(t) = m /\ caller[t].address = a
  /\ ~InCall(t, "idle") /\ ~(caller[t].call = "free" /\ caller[t].pc \notin {"acquire", "call"})
Owned(m, a) == heap[m][a] # 0 /\ \A t \in Callers : ~InUseBy(t, m, a)

Begin(t, call, pc, m, a, size) ==
  /\ InCall(t, "idle") /\ calls < alloc_setup.calls
  /\ calls' = calls + 1
  /\ caller' = [caller EXCEPT ![t] = [NoCall EXCEPT !.pc = pc, !.call = call, !.metric = m,
                                                    !.address = a, !.size = size]]
  /\ UNCHANGED <<alloc_setup, metric, process_allocated_memory, per_process_metrics>>

(* malloc and its like, MPI_Alloc_mem, MPI_Win_allocate: up to the report. *)
Malloc(t, m, a, size) ==
  /\ heap[m][a] = 0
  /\ Begin(t, "malloc", "handle", m, a, size)
  /\ SetHeap(m, a, size)
  /\ reported' = [reported EXCEPT ![m] = @ \cup {a}]

(* free and its like; windows are freed by MPI_Win_free, which does not    *)
(* report.                                                                 *)
Free(t, m, a) ==
  /\ Owned(m, a)
  /\ IF "windows" \in alloc_setup.features
     THEN /\ InCall(t, "idle")
          /\ Freed(m, a)
          /\ UNCHANGED <<alloc_setup, metric, process_allocated_memory,
                         per_process_metrics, caller, calls>>
     ELSE Begin(t, "free", "acquire", m, a, 0) /\ UNCHANGED <<heap, reported>>

Realloc(t, m, a, size) ==
  /\ Owned(m, a)
  /\ Begin(t, "realloc", "acquire", m, a, size)
  /\ UNCHANGED <<heap, reported>>

(* SCOREP_AllocMetric_AcquireAlloc.                                        *)
(* (mutant: the allocation stays in the tree)                              *)
AcquireAllocKeeps(t) ==
  LET m == MetricOf(t)
      root == Splay(metric[m].allocations, caller[t].address)
      found == root.address = caller[t].address
  IN  /\ InCall(t, "acquire") /\ metric[m].mutex = NULL
      /\ metric' = [metric EXCEPT ![m].allocations = root]
      /\ caller' = [caller EXCEPT ![t].pc = "call",
                      ![t].allocation = IF found THEN ItemAt(root) ELSE Empty]
      /\ UNCHANGED <<alloc_setup, heap, reported, process_allocated_memory,
                     per_process_metrics, calls>>

AcquireAlloc(t) ==
  LET m == MetricOf(t)
      root == Splay(metric[m].allocations, caller[t].address)
      found == root.address = caller[t].address
  IN  /\ InCall(t, "acquire") /\ metric[m].mutex = NULL
      /\ metric' = [metric EXCEPT ![m].allocations = IF found THEN RemoveRoot(root) ELSE root]
      /\ caller' = [caller EXCEPT ![t].pc = "call",
                      ![t].allocation = IF found THEN ItemAt(root) ELSE Empty]
      /\ UNCHANGED <<alloc_setup, heap, reported, process_allocated_memory,
                     per_process_metrics, calls>>

CallFree(t) ==
  LET m == MetricOf(t)
  IN  /\ InCall(t, "call") /\ caller[t].call = "free"
      /\ Freed(m, caller[t].address)
      /\ NextPc(t, "handle")
      /\ UNCHANGED <<alloc_setup, metric, process_allocated_memory, per_process_metrics, calls>>

(* realloc, which may move the memory.  If it fails, there is no report.   *)
CallRealloc(t) ==
  LET m == MetricOf(t)
      a == caller[t].address
  IN  /\ InCall(t, "call") /\ caller[t].call = "realloc"
      /\ \E b \in {b \in Addresses : b = a \/ heap[m][b] = 0}
                \cup (IF "realloc fails" \in alloc_setup.features THEN {0} ELSE {}) :
           IF b = 0
           THEN caller' = [caller EXCEPT ![t] = NoCall] /\ UNCHANGED <<heap, reported>>
           ELSE /\ heap' = [heap EXCEPT ![m][a] = 0, ![m][b] = caller[t].size]
                /\ reported' = [reported EXCEPT ![m] = (@ \ {a}) \cup {b}]
                /\ caller' = [caller EXCEPT ![t].pc = "handle", ![t].address = b]
      /\ UNCHANGED <<alloc_setup, metric, process_allocated_memory, per_process_metrics, calls>>

-----------------------------------------------------------------------------
(* The reports, each under the mutex of the metric.                        *)

Report(t, tree, total, process, value) ==
  LET m == MetricOf(t)
  IN  /\ InCall(t, "handle") /\ metric[m].mutex = NULL
      /\ metric' = [metric EXCEPT ![m] = [mutex |-> t, allocations |-> tree, total |-> total]]
      /\ process_allocated_memory' = process_allocated_memory + process
      /\ caller' = [caller EXCEPT ![t].pc = "location", ![t].value = value]
      /\ UNCHANGED <<alloc_setup, heap, reported, per_process_metrics, calls>>

(* SCOREP_AllocMetric_HandleAlloc; SCOREP_AllocMetric_HandleRealloc of an  *)
(* unknown allocation does the same.                                       *)
HandleAlloc(t) ==
  LET mine == metric[MetricOf(t)]
      size == caller[t].size
  IN  /\ caller[t].call = "malloc" \/ (caller[t].call = "realloc" /\ IsEmpty(caller[t].allocation))
      /\ Report(t, Insert(mine.allocations, Item(caller[t].address, size)),
                mine.total + size, size, mine.total + size)

(* SCOREP_AllocMetric_HandleRealloc.  If the memory was moved, the counter *)
(* shows the moment when both the old and the new existed.                 *)
HandleRealloc(t) ==
  LET mine == metric[MetricOf(t)]
      size == caller[t].size
      old == caller[t].allocation
      moved == caller[t].address # old.address
  IN  /\ caller[t].call = "realloc" /\ ~IsEmpty(old)
      /\ Report(t, Insert(mine.allocations, Item(caller[t].address, size)),
                mine.total + size - old.size, size - old.size,
                mine.total + size - (IF moved THEN 0 ELSE old.size))

(* SCOREP_AllocMetric_HandleFree; a free of unknown memory is ignored.     *)
HandleFree(t) ==
  LET mine == metric[MetricOf(t)]
      size == caller[t].allocation.size
  IN  /\ caller[t].call = "free" /\ ~IsEmpty(caller[t].allocation)
      /\ Report(t, mine.allocations, mine.total - size, -size, mine.total - size)

IgnoreFree(t) ==
  /\ InCall(t, "handle") /\ caller[t].call = "free" /\ IsEmpty(caller[t].allocation)
  /\ metric[MetricOf(t)].mutex = NULL
  /\ caller' = [caller EXCEPT ![t] = NoCall]
  /\ UNCHANGED <<alloc_setup, heap, reported, metric, process_allocated_memory,
                 per_process_metrics, calls>>

(* SCOREP_Location_AcquirePerProcessMetricsLocation: the time is taken     *)
(* under its mutex.                                                        *)
(* (mutant: it is taken without)                                           *)
TakeTimeUnlocked(t) ==
  /\ InCall(t, "location")
  /\ per_process_metrics' = [per_process_metrics EXCEPT !.mutex = t, !.clock = @ + 1]
  /\ caller' = [caller EXCEPT ![t].pc = "write", ![t].time = per_process_metrics.clock + 1]
  /\ UNCHANGED <<alloc_setup, heap, reported, metric, process_allocated_memory, calls>>

AcquirePerProcessMetricsLocation(t) ==
  /\ InCall(t, "location") /\ per_process_metrics.mutex = NULL
  /\ per_process_metrics' = [per_process_metrics EXCEPT !.mutex = t, !.clock = @ + 1]
  /\ caller' = [caller EXCEPT ![t].pc = "write", ![t].time = per_process_metrics.clock + 1]
  /\ UNCHANGED <<alloc_setup, heap, reported, metric, process_allocated_memory, calls>>

(* SCOREP_Location_TriggerCounterUint64 and the end of the report.         *)
TriggerCounter(t) ==
  /\ InCall(t, "write")
  /\ per_process_metrics' = [per_process_metrics EXCEPT !.mutex = NULL,
                                                        !.last_timestamp = caller[t].time]
  /\ metric' = [metric EXCEPT ![MetricOf(t)].mutex = NULL]
  /\ caller' = [caller EXCEPT ![t] = NoCall]
  /\ UNCHANGED <<alloc_setup, heap, reported, process_allocated_memory, calls>>

AllIdle == \A t \in Callers : InCall(t, "idle")
AllocStop == AllIdle /\ UNCHANGED allocVars

AllocNext ==
  \/ AllocStop
  \/ \E t \in Callers :
       \/ \E m \in Metrics, a \in Addresses : Free(t, m, a)
       \/ \E m \in Metrics, a \in Addresses, n \in Sizes : Malloc(t, m, a, n) \/ Realloc(t, m, a, n)
       \/ AcquireAlloc(t) \/ CallFree(t) \/ CallRealloc(t)
       \/ HandleAlloc(t) \/ HandleRealloc(t) \/ HandleFree(t) \/ IgnoreFree(t)
       \/ AcquirePerProcessMetricsLocation(t) \/ TriggerCounter(t)

AllocSpec == AllocInit /\ [][AllocNext]_allocVars

-----------------------------------------------------------------------------
(* Whenever no wrapper is running, what the wrappers have seen allocated   *)
(* and not freed is what the tree holds, with its size, and what the total *)
(* of the metric says, although addresses are given to other threads while *)
(* their previous owners have not reported yet                             *)
(* (SCOREP_AllocMetric_AcquireAlloc before free, HandleFree after it).     *)
LiveItems(m) == {Item(a, heap[m][a]) : a \in reported[m]}
Total(m) == SumFunction([item \in LiveItems(m) |-> item.size])

AllocationsTracked ==
  /\ \A m \in Metrics : IsSearchTree(metric[m].allocations)
  /\ AllIdle =>
       /\ \A m \in Metrics : /\ ItemsOf(metric[m].allocations) = LiveItems(m)
                             /\ metric[m].total = Total(m)
       /\ process_allocated_memory = SumFunction([m \in Metrics |-> metric[m].total])

(* The counters of all metrics are written to their location in the order  *)
(* of their times ("We need to ensure, that we take the timestamp *after*  *)
(* we acquired the metric location").                                      *)
CounterTimesInOrder ==
  [][per_process_metrics'.last_timestamp >= per_process_metrics.last_timestamp]_allocVars

(* "Triggers SCOREP_LeakedMemory events for allocations that weren't       *)
(* freed": whenever no wrapper is running, they are in the tree that       *)
(* SCOREP_AllocMetric_ReportLeaked walks.                                  *)
LeaksReported ==
  AllIdle => \A m \in Metrics : LiveItems(m) \subseteq ItemsOf(metric[m].allocations)
=============================================================================
