---------------------------- MODULE OmptOverdue ---------------------------
(***************************************************************************)
(* The end of implicit tasks in the OMPT adapter                           *)
(* (src/adapters/ompt/scorep_ompt_events_host.inc.c, called by and calling *)
(* thread/fork_join/scorep_thread_fork_join_generic.c).                    *)
(*                                                                         *)
(* The OpenMP runtime may report that a thread left the implicit barrier   *)
(* at the end of a parallel region, and its implicit task, long after the  *)
(* primary thread has gone on, and only when the thread is needed again.   *)
(* In the next region the location may go to another thread.  That thread  *)
(* must not begin before the two overdue events are written, and writes    *)
(* them itself if their owner is not already at it; task and region        *)
(* objects must live until the last of them is done.                       *)
(*                                                                         *)
(* One initial thread encounters one parallel region after the other.      *)
(* Worker `index' of each uses the same location, whichever thread it is.  *)
(* Time: only the timestamps the primary thread stores in a region are     *)
(* ever used later than they were taken.  The clock counts those; all      *)
(* events between two of them have the same, odd time.                     *)
(***************************************************************************)
EXTENDS Integers, Sequences, FiniteSets, Null

CONSTANTS
  Primary, Workers,  (* threads of the OpenMP runtime                      *)
  TaskObjects, ParallelObjects,  (* bound: what AlignedMalloc returns      *)
  OmptSetups         (* sizes of the teams, one after the other; and       *)
                     (* runtime: "late" reports the end of a worker's      *)
                     (* barrier after the end of the primary's task only   *)

OmpThreads == Workers \cup {Primary}
LocationIds == 0 .. Cardinality(Workers)
Encountering == "initial task"

ASSUME OmptAssumption ==
  /\ IsFiniteSet(Workers) /\ Primary \notin Workers
  /\ IsFiniteSet(TaskObjects) /\ TaskObjects \cap ParallelObjects = {}
  /\ NULL \notin OmpThreads \cup TaskObjects \cup ParallelObjects
  /\ Encountering \notin TaskObjects \cup ParallelObjects \cup {NULL}
  /\ \A s \in OmptSetups : /\ s.sizes \in Seq(1 .. Cardinality(Workers) + 1)
                           /\ s.runtime \in {"late", "any"}

VARIABLES
  omp,                   (* setup, regions begun, whether ompt_finalize_tool *)
                         (* is called, holder of the mutex finalize_tool   *)
  crew,                  (* the runtime: what each thread does             *)
  taken, arrived,        (* indices given out and threads in the barrier   *)
                         (* of each region                                 *)
  parallel, parallel_regions_free_list,
  task, tasks_free_list,
  stored_task, preserve_order, is_ompt_location,
                         (* scorep_ompt_cpu_location_data of each location *)
  thread_team,           (* of the thread private data of each location    *)
  stamps,                (* timestamps taken by primary threads            *)
  log                    (* the events written to each location            *)

runtimeVars == <<omp, taken, arrived>>
poolVarsOmpt == <<parallel_regions_free_list, tasks_free_list>>
locationData == <<stored_task, preserve_order, is_ompt_location>>
omptVars == <<runtimeVars, crew, parallel, task, poolVarsOmpt, locationData,
              thread_team, stamps, log>>

RegionIds == DOMAIN omp.setup.sizes
Size(region) == omp.setup.sizes[region]

NotInTeam == [pc |-> "idle", index |-> 0, parallel |-> NULL, ptr |-> NULL,
              ends |-> NULL, time |-> 0]
FreshParallel(r) == [region |-> r, ref_count |-> -1, ibarrier_end |-> 0, itask_end |-> 0]
NoTask == [index |-> 0, parallel |-> NULL, in_overdue_use |-> FALSE]

OmptInit ==
  /\ omp \in [setup : OmptSetups, region : {0}, finalizing : {FALSE}, mutex : {NULL}]
  /\ crew = [t \in OmpThreads |-> NotInTeam]
  /\ taken = [r \in RegionIds |-> {}]
  /\ arrived = [r \in RegionIds |-> 0]
  /\ parallel = [p \in ParallelObjects |-> FreshParallel(0)]
  /\ parallel_regions_free_list = << >>
  /\ task = [o \in TaskObjects |-> NoTask]
  /\ tasks_free_list = [t \in OmpThreads |-> << >>]
  /\ stored_task = [l \in LocationIds |-> IF l = 0 THEN Encountering ELSE NULL]
  /\ preserve_order = [l \in LocationIds |-> FALSE]
  /\ is_ompt_location = [l \in LocationIds |-> FALSE]
  /\ thread_team = [l \in LocationIds |-> 0]
  /\ stamps = 0
  /\ log = [l \in LocationIds |-> << >>]

---------------------------------------------------------------------------
(* The pools: the head of the list, or an object never used before.        *)

InPool(list, new) == list # << >> \/ new # {}
FromPool(list, new) == IF list # << >> THEN Head(list) ELSE CHOOSE o \in new : TRUE
AfterPool(list) == IF list = << >> THEN list ELSE Tail(list)
NewParallels == {p \in ParallelObjects : parallel[p].region = 0}
NewTasks == {o \in TaskObjects : task[o].parallel = NULL}

At(t, pc) == crew[t].pc = pc

LastReference(p) == parallel[p].ref_count = 1

release_parallel_region(p) ==
  /\ parallel[p].ref_count >= 0
  /\ parallel' = [parallel EXCEPT ![p].ref_count = @ - 1]
  /\ parallel_regions_free_list' = IF LastReference(p)
                                   THEN << p >> \o parallel_regions_free_list
                                   ELSE parallel_regions_free_list

---------------------------------------------------------------------------
(* The parts of a region before its end.                                   *)

Goto(t, pc) == crew' = [crew EXCEPT ![t].pc = pc]
Region(t) == parallel[crew[t].parallel].region
Now == 2 * stamps + 1
Write(l, event, time) ==
  log' = [log EXCEPT ![l] = @ \o << [event |-> event, team |-> thread_team[l], time |-> time] >>]

(* parallel_begin.  From here on the primary thread's location is that of  *)
(* the worker with index 0.                                                *)
ParallelBegin ==
  LET r == omp.region + 1
      p == FromPool(parallel_regions_free_list, NewParallels)
  IN  /\ At(Primary, "idle") /\ r \in RegionIds
      /\ InPool(parallel_regions_free_list, NewParallels)
      /\ omp' = [omp EXCEPT !.region = r]
      /\ taken' = [taken EXCEPT ![r] = {0}]
      /\ parallel' = [parallel EXCEPT ![p] = FreshParallel(r)]
      /\ parallel_regions_free_list' = AfterPool(parallel_regions_free_list)
      /\ stored_task' = [stored_task EXCEPT ![0] = NULL]
      /\ crew' = [crew EXCEPT ![Primary] = [NotInTeam EXCEPT !.pc = "begin", !.parallel = p]]
      /\ UNCHANGED <<arrived, task, tasks_free_list, preserve_order,
                     is_ompt_location, thread_team, stamps, log>>

(* The runtime gives an index of the current region to an idle worker.     *)
JoinTeam(t, index) ==
  LET r == omp.region
  IN  /\ At(t, "idle") /\ r > 0
      /\ index < Size(r) /\ index \notin taken[r]
      /\ taken' = [taken EXCEPT ![r] = @ \cup {index}]
      /\ crew' = [crew EXCEPT ![t] = [NotInTeam EXCEPT !.pc = "begin", !.index = index,
                                              !.parallel = crew[Primary].parallel]]
      /\ UNCHANGED <<omp, arrived, parallel, task, poolVarsOmpt, locationData,
                     thread_team, stamps, log>>

(* implicit_task, scope begin, up to the subsystems' overdue events.       *)
ImplicitTaskBegin(t) ==
  LET p == crew[t].parallel
  IN  /\ At(t, "begin")
      /\ parallel' = IF crew[t].index = 0
                     THEN [parallel EXCEPT ![p].ref_count = Size(Region(t)) + 1]
                     ELSE parallel
      /\ thread_team' = [thread_team EXCEPT ![crew[t].index] = Size(Region(t))]
      /\ Goto(t, "overdue")
      /\ UNCHANGED <<runtimeVars, task, poolVarsOmpt, locationData, stamps, log>>

(* scorep_ompt_subsystem_trigger_overdue_events *)
TriggerOverdue(t) ==
  LET l == crew[t].index
  IN  /\ At(t, "overdue")
      /\ is_ompt_location[l] /\ stored_task[l] # NULL
      /\ task' = [task EXCEPT ![stored_task[l]].in_overdue_use = TRUE]
      /\ crew' = [crew EXCEPT ![t].pc = "ibarrier_end", ![t].ends = stored_task[l]]
      /\ stored_task' = [stored_task EXCEPT ![l] = NULL]
      /\ UNCHANGED <<runtimeVars, parallel, poolVarsOmpt, preserve_order,
                     is_ompt_location, thread_team, stamps, log>>

(* Nothing is overdue, or its owner is at it: wait until it is done.       *)
(* (mutant: do not wait)                                                   *)
NoWaitForOrder(l) == TRUE
OrderPreserved(l) == ~preserve_order[l]
NothingOverdue(t) ==
  LET l == crew[t].index
  IN  /\ At(t, "overdue")
      /\ is_ompt_location[l] => stored_task[l] = NULL /\ OrderPreserved(l)
      /\ Goto(t, "team_begin")
      /\ UNCHANGED <<runtimeVars, parallel, task, poolVarsOmpt, locationData,
                     thread_team, stamps, log>>

(* The rest of implicit_task, scope begin.  The runtime reports no barrier *)
(* of a team of one thread.                                                *)
TeamBegin(t) ==
  LET l == crew[t].index
      o == FromPool(tasks_free_list[t], NewTasks)
  IN  /\ At(t, "team_begin") /\ InPool(tasks_free_list[t], NewTasks)
      /\ Write(l, "team_begin", Now)
      /\ task' = [task EXCEPT ![o] = [NoTask EXCEPT !.index = l, !.parallel = crew[t].parallel]]
      /\ tasks_free_list' = [tasks_free_list EXCEPT ![t] = AfterPool(@)]
      /\ is_ompt_location' = [is_ompt_location EXCEPT ![l] = TRUE]
      /\ stored_task' = [stored_task EXCEPT ![l] = o]
      /\ crew' = IF Size(Region(t)) = 1
                 THEN [crew EXCEPT ![t].pc = "task_end", ![t].ptr = o, ![t].ends = o]
                 ELSE [crew EXCEPT ![t].pc = "work", ![t].ptr = o]
      /\ UNCHANGED <<runtimeVars, parallel, parallel_regions_free_list, preserve_order,
                     thread_team, stamps>>

(* sync_region, barrier_implicit_parallel, scope begin. *)
BarrierBegin(t) ==
  /\ At(t, "work")
  /\ Write(crew[t].index, "ibarrier_begin", Now)
  /\ arrived' = [arrived EXCEPT ![Region(t)] = @ + 1]
  /\ Goto(t, "barrier")
  /\ UNCHANGED <<omp, taken, parallel, task, poolVarsOmpt, locationData,
                 thread_team, stamps>>
---------------------------------------------------------------------------
(* The end of a task: of the thread's own, or, overdue, of another's.      *)

Ends(t) == task[crew[t].ends]
EndsOwn(t) == crew[t].ends = crew[t].ptr
EndsParallel(t) == Ends(t).parallel

(* The runtime reports the end of the barrier to a thread at any time      *)
(* after all have entered it, or at the end of the program.                *)
MayLeaveBarrier(t) ==
  /\ At(t, "barrier") /\ arrived[Region(t)] = Size(Region(t))
  /\ omp.setup.runtime = "late" =>
       crew[t].index = 0 \/ parallel[crew[t].parallel].itask_end # 0

(* barrier_implicit_parallel_end locks the location for the two events ... *)
LockOrder(t) ==
  /\ MayLeaveBarrier(t) /\ ~omp.finalizing
  /\ ~preserve_order[crew[t].index]
  /\ preserve_order' = [preserve_order EXCEPT ![crew[t].index] = TRUE]
  /\ Goto(t, "exchange")
  /\ UNCHANGED <<runtimeVars, parallel, task, poolVarsOmpt, stored_task,
                 is_ompt_location, thread_team, stamps, log>>

(* ... and writes them if nobody else has taken the task.                  *)
(* (mutant: write them anyway)                                             *)
WritesAnyway(t) == TRUE
StillStored(t) == stored_task[crew[t].index] = crew[t].ptr
Exchange(t) ==
  LET l == crew[t].index
  IN  /\ At(t, "exchange")
      /\ IF StillStored(t)
         THEN /\ stored_task' = [stored_task EXCEPT ![l] = NULL]
              /\ crew' = [crew EXCEPT ![t].pc = "ibarrier_end", ![t].ends = crew[t].ptr]
              /\ UNCHANGED preserve_order
         ELSE /\ preserve_order' = [preserve_order EXCEPT ![l] = FALSE]
              /\ Goto(t, "release")
              /\ UNCHANGED stored_task
      /\ UNCHANGED <<runtimeVars, parallel, task, poolVarsOmpt, is_ompt_location,
                     thread_team, stamps, log>>

(* barrier_implicit_parallel_end_finalize_tool: one thread at a time, with *)
(* no other lock.                                                          *)
FinalizeBarrierEnd(t) ==
  LET l == crew[t].index
  IN  /\ MayLeaveBarrier(t) /\ omp.finalizing
      /\ omp.mutex = NULL
      /\ omp' = [omp EXCEPT !.mutex = t]
      /\ stored_task' = [stored_task EXCEPT ![l] = IF StillStored(t) THEN NULL ELSE @]
      /\ crew' = [crew EXCEPT ![t].pc = IF StillStored(t) THEN "ibarrier_end" ELSE "release",
                              ![t].ends = crew[t].ptr]
      /\ UNCHANGED <<taken, arrived, parallel, task, poolVarsOmpt, preserve_order,
                     is_ompt_location, thread_team, stamps, log>>

(* The time of the event: the primary thread takes one, which it stores    *)
(* for the others; they take one of their own only if it is not there yet. *)
TakeTime(t, stored, next) ==
  /\ IF Ends(t).index = 0
     THEN /\ stamps' = stamps + 1
          /\ crew' = [crew EXCEPT ![t].pc = next, ![t].time = 2 * stamps']
     ELSE /\ crew' = [crew EXCEPT ![t].pc = next, ![t].time = stored]
          /\ UNCHANGED stamps
  /\ UNCHANGED <<runtimeVars, parallel, task, poolVarsOmpt, locationData, thread_team, log>>
TimeOf(t) == IF crew[t].time = 0 THEN Now ELSE crew[t].time

BarrierEndTime(t) ==
  /\ At(t, "ibarrier_end")
  /\ TakeTime(t, parallel[EndsParallel(t)].ibarrier_end, "write ibarrier_end")
ImplicitTaskEndTime(t) ==
  /\ At(t, "task_end")
  /\ TakeTime(t, parallel[EndsParallel(t)].itask_end, "write task_end")

(* barrier_implicit_parallel_end_impl *)
BarrierEnd(t) ==
  /\ At(t, "write ibarrier_end")
  /\ parallel' = IF Ends(t).index = 0
                 THEN [parallel EXCEPT ![EndsParallel(t)].ibarrier_end = crew[t].time]
                 ELSE parallel
  /\ Write(Ends(t).index, "ibarrier_end", TimeOf(t))
  /\ Goto(t, IF EndsOwn(t) THEN "left" ELSE "task_end")
  /\ UNCHANGED <<runtimeVars, task, poolVarsOmpt, locationData, thread_team, stamps>>

(* Back in barrier_implicit_parallel_end: the end of the task is written   *)
(* at once if its time is known, otherwise in the callback that follows.   *)
LeftBarrier(t) ==
  /\ At(t, "left")
  /\ Goto(t, "task_end")
  /\ UNCHANGED <<runtimeVars, parallel, task, poolVarsOmpt, locationData,
                 thread_team, stamps, log>>

(* implicit_task_end_impl, and what its callers do next. *)
ImplicitTaskEnd(t) ==
  LET o == crew[t].ends
      l == task[o].index
  IN  /\ At(t, "write task_end")
      /\ Write(l, "team_end", TimeOf(t))
      /\ parallel' = IF l = 0 THEN [parallel EXCEPT ![EndsParallel(t)].itask_end = crew[t].time]
                     ELSE parallel
      /\ IF EndsOwn(t)
         THEN /\ preserve_order' = IF omp.mutex = t THEN preserve_order
                                   ELSE [preserve_order EXCEPT ![l] = FALSE]
              /\ UNCHANGED task
              /\ Goto(t, "release")
         ELSE /\ task' = [task EXCEPT ![o].in_overdue_use = FALSE]
              /\ UNCHANGED preserve_order
              /\ crew' = [crew EXCEPT ![t].pc = "team_begin", ![t].ends = NULL]
      /\ UNCHANGED <<runtimeVars, poolVarsOmpt, stored_task, is_ompt_location,
                     thread_team, stamps>>

(* RELEASE_AT_TEAM_END *)
(* (mutant: do not wait for the thread that ends the task)                 *)
NoWaitForOverdueUse(o) == TRUE
NotInOverdueUse(o) == ~task[o].in_overdue_use
Release(t) ==
  LET o == crew[t].ptr
  IN  /\ At(t, "release")
      /\ NotInOverdueUse(o)
      /\ release_parallel_region(task[o].parallel)
      /\ tasks_free_list' = [tasks_free_list EXCEPT ![t] = << o >> \o @]
      /\ omp' = [omp EXCEPT !.mutex = IF @ = t THEN NULL ELSE @]
      /\ crew' = [crew EXCEPT ![t] = IF t = Primary
                                     THEN [NotInTeam EXCEPT !.pc = "join", !.parallel = crew[t].parallel]
                                     ELSE NotInTeam]
      /\ UNCHANGED <<taken, arrived, task, locationData, thread_team, stamps, log>>

(* parallel_end *)
ParallelEnd ==
  /\ At(Primary, "join")
  /\ release_parallel_region(crew[Primary].parallel)
  /\ stored_task' = [stored_task EXCEPT ![0] = Encountering]
  /\ crew' = [crew EXCEPT ![Primary] = NotInTeam]
  /\ UNCHANGED <<runtimeVars, task, tasks_free_list, preserve_order, is_ompt_location,
                 thread_team, stamps, log>>

(* ompt_subsystem_end calls ompt_finalize_tool, which reports what is left.*)
FinalizeTool ==
  /\ At(Primary, "idle") /\ omp.region = Len(omp.setup.sizes) /\ ~omp.finalizing
  /\ omp' = [omp EXCEPT !.finalizing = TRUE]
  /\ UNCHANGED <<taken, arrived, crew, parallel, task, poolVarsOmpt, locationData,
                 thread_team, stamps, log>>

OmptFinished == omp.finalizing /\ \A t \in OmpThreads : At(t, "idle")
OmptStop == OmptFinished /\ UNCHANGED omptVars

OmptNext ==
  \/ ParallelBegin \/ ParallelEnd \/ FinalizeTool \/ OmptStop
  \/ \E t \in Workers, index \in LocationIds \ {0} : JoinTeam(t, index)
  \/ \E t \in OmpThreads :
       \/ ImplicitTaskBegin(t) \/ TriggerOverdue(t) \/ NothingOverdue(t) \/ TeamBegin(t)
       \/ BarrierBegin(t) \/ LockOrder(t) \/ Exchange(t) \/ FinalizeBarrierEnd(t)
       \/ BarrierEndTime(t) \/ BarrierEnd(t) \/ LeftBarrier(t)
       \/ ImplicitTaskEndTime(t) \/ ImplicitTaskEnd(t) \/ Release(t)

OmptSpec == OmptInit /\ [][OmptNext]_omptVars

---------------------------------------------------------------------------
(* Every location sees each team begin, its barrier begin and end, and the *)
(* team end, once each and in this order, whoever writes them and whenever *)
(* the runtime reports them; at the end of the measurement nothing is      *)
(* missing (scorep_ompt_subsystem_trigger_overdue_events and               *)
(* barrier_implicit_parallel_end between them).                            *)
InOrder == {<<"team_begin", "ibarrier_begin">>, <<"ibarrier_begin", "ibarrier_end">>,
            <<"ibarrier_end", "team_end">>, <<"team_end", "team_begin">>}

EndedOnce ==
  \A l \in LocationIds :
    /\ \A i \in 1 .. Len(log[l]) - 1 :
         \/ <<log[l][i].event, log[l][i + 1].event>> \in InOrder
         \/ log[l][i].event = "team_begin" /\ log[l][i + 1].event = "team_end"
            /\ log[l][i].team = 1
    /\ OmptFinished /\ log[l] # << >> => log[l][Len(log[l])].event = "team_end"

(* The times of the events of a location never decrease, although an       *)
(* overdue event has a time of the past                                    *)
(* (SCOREP_Location_SetLastTimestamp aborts the measurement if they do).   *)
TimesInOrder ==
  \A l \in LocationIds : \A i \in 1 .. Len(log[l]) - 1 :
    log[l][i].time <= log[l][i + 1].time
TimesInOrderIfLate == omp.setup.runtime = "late" => TimesInOrder

(* A task or region object is not in a pool while a thread has it still to *)
(* end, and never twice; all are returned in the end.  Objects stored for  *)
(* a location are live (but after a region of one thread, until            *)
(* parallel_end).                                                          *)
InUse(t) == {crew[t].ptr, crew[t].ends, crew[t].parallel}
            \cup {task[o].parallel : o \in {crew[t].ptr, crew[t].ends} \ {NULL}}
Pools == {parallel_regions_free_list} \cup {tasks_free_list[t] : t \in OmpThreads}
Pooled == UNION {{pool[i] : i \in DOMAIN pool} : pool \in Pools}
PooledOnce ==
  Cardinality(Pooled) =
    Len(parallel_regions_free_list)
      + Cardinality({place \in OmpThreads \X (1 .. Cardinality(TaskObjects)) :
                       place[2] \in DOMAIN tasks_free_list[place[1]]})

ObjectsLive ==
  LET pooled == Pooled
  IN
  /\ PooledOnce
  /\ \A t \in OmpThreads : InUse(t) \cap pooled = {}
  /\ \A l \in LocationIds : stored_task[l] \in pooled => At(Primary, "join")
  /\ OmptFinished =>
       pooled = (ParallelObjects \ NewParallels) \cup (TaskObjects \ NewTasks)
=============================================================================
