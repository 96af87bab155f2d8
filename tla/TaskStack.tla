----------------------------- MODULE TaskStack -----------------------------
(***************************************************************************)
(* Tasks and their region stacks (src/measurement/SCOREP_Task.c), driven   *)
(* by the tasking events of SCOREP_ThreadForkJoin_Task* and by region      *)
(* events.                                                                 *)
(*                                                                         *)
(* A task's stack is a chain of frames of SCOREP_TASK_STACK_SIZE regions.  *)
(* A location allocates tasks and frames from its own memory, which is     *)
(* never returned, and keeps the ones that are not in use in lists of its  *)
(* own.  A task may begin on one location and go on or complete on another *)
(* one; then tasks and frames change hands.  A location's data, and the    *)
(* data of the task it executes, are touched by its own thread only, so    *)
(* every call is one step.                                                 *)
(*                                                                         *)
(* The linked lists are sequences: `frames' of a task starts with its      *)
(* oldest frame and ends with current_frame; a list of recycled tasks or   *)
(* frames starts with its head.                                            *)
(***************************************************************************)
EXTENDS Integers, Sequences, FiniteSets, Functions, Null

CONSTANTS
  Locations,
  Tasks, Frames,            (* bound: the addresses AllocForMisc returns   *)
  Regions,                  (* handles of region definitions               *)
  SCOREP_FILTERED_REGION,   (* pushed for a region the filter excludes     *)
  SCOREP_TASK_STACK_SIZE,
  MaxDepth                  (* bound: nesting of regions in one task       *)

ASSUME TaskStackAssumption ==
  /\ SCOREP_TASK_STACK_SIZE \in Nat \ {0}
  /\ MaxDepth \in Nat
  /\ Tasks \cap Frames = {}
  /\ SCOREP_FILTERED_REGION \notin Regions
  /\ NULL \notin Tasks \cup Frames \cup Regions \cup {SCOREP_FILTERED_REGION}

VARIABLES
  frames, current_index,    (* the fields of each task                     *)
  regions,                  (* the regions of each frame                   *)
  current_task, implicit_task, recycled_tasks, recycled_frames,
                            (* scorep_location_task_data of each location  *)
  misc_memory,              (* memory obtained with AllocForMisc           *)
  live,                     (* history: tasks begun and not completed      *)
  finalized

taskVars == <<frames, current_index>>
locationVars == <<current_task, implicit_task, recycled_tasks, recycled_frames>>
taskStackVars == <<taskVars, regions, locationVars, misc_memory, live, finalized>>

Handles == Regions \cup {SCOREP_FILTERED_REGION}
Slots == 0 .. SCOREP_TASK_STACK_SIZE - 1

TaskStackInit ==
  /\ frames = [t \in Tasks |-> << >>]
  /\ current_index = [t \in Tasks |-> SCOREP_TASK_STACK_SIZE - 1]
  /\ regions = [f \in Frames |-> [i \in Slots |-> NULL]]
  /\ current_task = [l \in Locations |-> NULL]
  /\ implicit_task = [l \in Locations |-> NULL]
  /\ recycled_tasks = [l \in Locations |-> << >>]
  /\ recycled_frames = [l \in Locations |-> << >>]
  /\ misc_memory = {}
  /\ live = {}
  /\ finalized = FALSE

-----------------------------------------------------------------------------
(* Creation and completion of tasks *)

(* A list after its head was taken, or memory if it is empty.              *)
Rest(list) == IF list = << >> THEN list ELSE Tail(list)

(* New memory is an object not used before; it does not matter which.      *)
NewMemory(objects) ==
  IF objects \subseteq misc_memory THEN {} ELSE {CHOOSE o \in objects \ misc_memory : TRUE}

(* The object scorep_task_create takes, from the list or from memory.      *)
TaskFor(l, t) ==
  IF recycled_tasks[l] # << >> THEN t = Head(recycled_tasks[l]) ELSE t \in NewMemory(Tasks)

(* scorep_task_create; the new task is empty before the hash is taken.     *)
Create(l, t) ==
  /\ TaskFor(l, t)
  /\ misc_memory' = misc_memory \cup {t}
  /\ live' = live \cup {t}
  /\ recycled_tasks' = [recycled_tasks EXCEPT ![l] = Rest(@)]
  /\ frames' = [frames EXCEPT ![t] = << >>]
  /\ current_index' = [current_index EXCEPT ![t] = SCOREP_TASK_STACK_SIZE - 1]

(* task_subsystem_init_location: the implicit task of a new location. *)
InitLocation(l) ==
  /\ ~finalized /\ implicit_task[l] = NULL
  /\ \E t \in Tasks :
       /\ Create(l, t)
       /\ current_task' = [current_task EXCEPT ![l] = t]
       /\ implicit_task' = [implicit_task EXCEPT ![l] = t]
  /\ UNCHANGED <<regions, recycled_frames, finalized>>

(* SCOREP_ThreadForkJoin_TaskBegin.  The location may still have a         *)
(* completed task as its current one.                                      *)
TaskBegin(l) ==
  /\ ~finalized /\ current_task[l] # NULL
  /\ \E t \in Tasks :
       /\ Create(l, t)
       /\ current_task' = [current_task EXCEPT ![l] = t]
  /\ UNCHANGED <<regions, implicit_task, recycled_frames, finalized>>

(* SCOREP_ThreadForkJoin_TaskSwitch, to a task that no location executes.  *)
(* Implicit tasks stay where they are.                                     *)
TaskSwitch(l, t) ==
  /\ ~finalized /\ current_task[l] # NULL
  /\ t \in live /\ \A m \in Locations : current_task[m] # t
  /\ \A m \in Locations : t = implicit_task[m] => m = l
  /\ current_task' = [current_task EXCEPT ![l] = t]
  /\ UNCHANGED <<taskVars, regions, implicit_task, recycled_tasks, recycled_frames,
                 misc_memory, live, finalized>>

Executing(l) == ~finalized /\ current_task[l] \in live

(* SCOREP_ThreadForkJoin_TaskEnd of the explicit task the location         *)
(* executes, all of whose regions have been left; scorep_task_complete.    *)
TaskEnd(l) ==
  LET t == current_task[l]
  IN  /\ Executing(l) /\ t # implicit_task[l] /\ frames[t] = << >>
      /\ recycled_tasks' = [recycled_tasks EXCEPT ![l] = <<t>> \o @]
      /\ live' = live \ {t}
      /\ UNCHANGED <<taskVars, regions, current_task, implicit_task, recycled_frames,
                     misc_memory, finalized>>

-----------------------------------------------------------------------------
(* The stack *)

Full(t) == current_index[t] = SCOREP_TASK_STACK_SIZE - 1
Depth(t) == IF frames[t] = << >> THEN 0
            ELSE SCOREP_TASK_STACK_SIZE * (Len(frames[t]) - 1) + current_index[t] + 1

(* alloc_new_stack_frame *)
FrameFor(l, f) ==
  IF recycled_frames[l] # << >> THEN f = Head(recycled_frames[l]) ELSE f \in NewMemory(Frames)

(* SCOREP_Task_Enter, from SCOREP_EnterRegion, or by an adapter for a      *)
(* region that is filtered.                                                *)
(* (mutant: overwrites the top region before it moves the index)           *)
EnterInFrameWritesFirst(l, region) ==
  LET t == current_task[l]
      f == frames[t][Len(frames[t])]
  IN  /\ Executing(l) /\ Depth(t) < MaxDepth
      /\ ~Full(t)
      /\ current_index' = [current_index EXCEPT ![t] = @ + 1]
      /\ regions' = [regions EXCEPT ![f][current_index[t]] = region]
      /\ UNCHANGED <<frames, locationVars, misc_memory, live, finalized>>

EnterInFrame(l, region) ==
  LET t == current_task[l]
      f == frames[t][Len(frames[t])]
  IN  /\ Executing(l) /\ Depth(t) < MaxDepth
      /\ ~Full(t)
      /\ current_index' = [current_index EXCEPT ![t] = @ + 1]
      /\ regions' = [regions EXCEPT ![f][current_index[t] + 1] = region]
      /\ UNCHANGED <<frames, locationVars, misc_memory, live, finalized>>

EnterNewFrame(l, region) ==
  LET t == current_task[l]
  IN  /\ Executing(l) /\ Depth(t) < MaxDepth
      /\ Full(t)
      /\ \E f \in Frames :
           /\ FrameFor(l, f)
           /\ misc_memory' = misc_memory \cup {f}
           /\ frames' = [frames EXCEPT ![t] = Append(@, f)]
           /\ regions' = [regions EXCEPT ![f][0] = region]
      /\ recycled_frames' = [recycled_frames EXCEPT ![l] = Rest(@)]
      /\ current_index' = [current_index EXCEPT ![t] = 0]
      /\ UNCHANGED <<current_task, implicit_task, recycled_tasks, live, finalized>>

(* task_pop_stack, called by SCOREP_Task_Exit; UTILS_BUG_ON ends the       *)
(* program when the stack is empty.                                        *)
ExitInFrame(l) ==
  LET t == current_task[l]
  IN  /\ Executing(l) /\ frames[t] # << >>
      /\ current_index[t] # 0
      /\ current_index' = [current_index EXCEPT ![t] = @ - 1]
      /\ UNCHANGED <<frames, regions, locationVars, misc_memory, live, finalized>>

ExitFrame(l) ==
  LET t == current_task[l]
      last == Len(frames[t])
  IN  /\ Executing(l) /\ frames[t] # << >>
      /\ current_index[t] = 0
      /\ frames' = [frames EXCEPT ![t] = SubSeq(@, 1, last - 1)]
      /\ current_index' = [current_index EXCEPT ![t] = SCOREP_TASK_STACK_SIZE - 1]
      /\ recycled_frames' = [recycled_frames EXCEPT ![l] = <<frames[t][last]>> \o @]
      /\ UNCHANGED <<regions, current_task, implicit_task, recycled_tasks,
                     misc_memory, live, finalized>>

(* SCOREP_Task_ExitAllRegions and SCOREP_Task_ClearStack of the current    *)
(* task: the frames go to the list one by one, the current one first.      *)
(* (mutant: drops all frames but recycles one)                             *)
ExitAllRegionsLeaks(l) ==
  LET t == current_task[l]
  IN  /\ Executing(l) /\ frames[t] # << >>
      /\ frames' = [frames EXCEPT ![t] = << >>]
      /\ current_index' = [current_index EXCEPT ![t] = SCOREP_TASK_STACK_SIZE - 1]
      /\ recycled_frames' = [recycled_frames EXCEPT ![l] = <<frames[t][Len(frames[t])]>> \o @]
      /\ UNCHANGED <<regions, current_task, implicit_task, recycled_tasks,
                     misc_memory, live, finalized>>

ExitAllRegions(l) ==
  LET t == current_task[l]
  IN  /\ Executing(l) /\ frames[t] # << >>
      /\ frames' = [frames EXCEPT ![t] = << >>]
      /\ current_index' = [current_index EXCEPT ![t] = SCOREP_TASK_STACK_SIZE - 1]
      /\ recycled_frames' = [recycled_frames EXCEPT ![l] = frames[t] \o @]
      /\ UNCHANGED <<regions, current_task, implicit_task, recycled_tasks,
                     misc_memory, live, finalized>>

(* task_subsystem_finalize_location of every location, after the last      *)
(* parallel region has ended.                                              *)
FinalizeLocations ==
  /\ ~finalized
  /\ \A l \in Locations : current_task[l] = implicit_task[l]
  /\ recycled_tasks' = [l \in Locations |-> IF current_task[l] = NULL THEN << >>
                                            ELSE <<current_task[l]>> \o recycled_tasks[l]]
  /\ finalized' = TRUE
  /\ live' = {}
  /\ UNCHANGED <<taskVars, regions, current_task, implicit_task, recycled_frames,
                 misc_memory>>

TaskStackStop == finalized /\ UNCHANGED taskStackVars

TaskStackNext ==
  \/ FinalizeLocations \/ TaskStackStop
  \/ \E l \in Locations :
       \/ InitLocation(l) \/ TaskBegin(l) \/ TaskEnd(l)
       \/ \E t \in Tasks : TaskSwitch(l, t)
       \/ \E region \in Handles : EnterInFrame(l, region) \/ EnterNewFrame(l, region)
       \/ ExitInFrame(l) \/ ExitFrame(l) \/ ExitAllRegions(l)

TaskStackSpec == TaskStackInit /\ [][TaskStackNext]_taskStackVars

-----------------------------------------------------------------------------
(* The lists that hold frames: of the tasks, and of the locations.         *)
Holders == [type : {"task"}, id : Tasks] \cup [type : {"location"}, id : Locations]
Held(h) == IF h.type = "task" THEN frames[h.id] ELSE recycled_frames[h.id]

(* Type invariant. *)
TaskStackTypeOK ==
  /\ frames \in [Tasks -> Seq(Frames)]
  /\ current_index \in [Tasks -> Slots]
  /\ regions \in [Frames -> [Slots -> Handles \cup {NULL}]]
  /\ current_task \in [Locations -> Tasks \cup {NULL}]
  /\ implicit_task \in [Locations -> Tasks \cup {NULL}]
  /\ recycled_tasks \in [Locations -> Seq(Tasks)]
  /\ recycled_frames \in [Locations -> Seq(Frames)]
  /\ misc_memory \subseteq Tasks \cup Frames
  /\ live \subseteq Tasks
  /\ finalized \in BOOLEAN

(* Every frame is on one stack or in one location's list, once, wherever   *)
(* its task began and ended: two tasks never write to the same frame, and  *)
(* the memory of the locations is not used up by tasks that come and go.   *)
FramesOwnedOnce ==
  /\ \A h \in Holders : IsInjective(Held(h))
  /\ \A g, h \in Holders : g # h => Range(Held(g)) \cap Range(Held(h)) = {}
  /\ misc_memory \cap Frames = UNION {Range(Held(h)) : h \in Holders}

(* A task object is in use, or in one list, once: no two locations execute *)
(* or recreate the same task, and completed tasks are used again.          *)
TasksOwnedOnce ==
  /\ \A l \in Locations :
       /\ IsInjective(recycled_tasks[l])
       /\ ~finalized => Range(recycled_tasks[l]) \cap live = {}
       /\ ~finalized => implicit_task[l] \in live \cup {NULL}
  /\ \A l, m \in Locations : l # m =>
       /\ Range(recycled_tasks[l]) \cap Range(recycled_tasks[m]) = {}
       /\ current_task[l] = current_task[m] => current_task[l] \notin live
  /\ ~finalized =>
       misc_memory \cap Tasks = live \cup UNION {Range(recycled_tasks[l]) : l \in Locations}

(* Together, with the types: no memory of a location is shared or lost,    *)
(* whatever tasks begin here and complete there                            *)
(* (recycle_stack_frame, scorep_task_complete).                            *)
OwnedOnce == TaskStackTypeOK /\ FramesOwnedOnce /\ TasksOwnedOnce

(* Each task has a stack of its own, which does what the interface says.   *)
Content(t) == [n \in 1 .. Depth(t) |->
  regions[frames[t][((n - 1) \div SCOREP_TASK_STACK_SIZE) + 1]][(n - 1) % SCOREP_TASK_STACK_SIZE]]

Abstract == INSTANCE AbstractTaskStack WITH
  stack <- [t \in Tasks |-> Content(t)],
  current <- current_task
Implements == Abstract!Spec
=============================================================================
