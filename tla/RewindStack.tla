--------------------------- MODULE RewindStack ----------------------------
(***************************************************************************)
(* The rewind regions of one location: the stack of                        *)
(* src/measurement/tracing/scorep_rewind_stack_management.c, the events of *)
(* SCOREP_Tracing_Events.c that use it, and the flush of the trace buffer  *)
(* that discards it.                                                       *)
(*                                                                         *)
(* Entering a rewind region saves the state of OTF2's event buffer; when   *)
(* the region is left, the events since then may be cut off.  The stack    *)
(* orders the regions that are entered; OTF2 keeps the saved states in a   *)
(* list of its own, by id.  The two have to agree at all times, although a *)
(* region may be entered again before it is left, a region may be left     *)
(* while regions entered later are not, and a full buffer is flushed in    *)
(* the middle of any event.                                                *)
(***************************************************************************)
EXTENDS Integers, Sequences, SequencesExt, Functions

CONSTANTS
  RewindRegions,
  Paradigms,      (* SCOREP_Rewind_Paradigm                                *)
  Other,          (* an event of no such paradigm                          *)
  BufferSize,     (* events that fit into the memory of the location       *)
  MaxTime,        (* bound: calls of the application                       *)
  Programs        (* how it enters its regions: "nested" or "recursive"    *)

ASSUME RewindAssumption ==
  /\ Other \notin Paradigms
  /\ BufferSize \in Nat \ {0}
  /\ MaxTime \in Nat
  /\ Programs \subseteq {"nested", "recursive"}

VARIABLES
  program,
  clock,            (* the timestamp of the latest event                    *)
  rewind_stack,     (* records of struct scorep_rewind_stack, top first    *)
  trace,            (* OTF2: [buffer, disk, rewindlist]                    *)
  invalidated,      (* paradigms whose property SCOREP_InvalidateProperty  *)
                    (* declared not to hold                                *)
  removed           (* history: paradigms of the events cut off            *)

rewindVars == <<program, clock, rewind_stack, trace, invalidated, removed>>

RewindInit ==
  /\ program \in Programs
  /\ clock = 0
  /\ rewind_stack = << >>
  /\ trace = [buffer |-> << >>, disk |-> 0,
              rewindlist |-> << >>]
  /\ invalidated = {}
  /\ removed = {}

---------------------------------------------------------------------------
(* OTF2.  `disk' is the time of the last event that was flushed.           *)

Saved(tr) == DOMAIN tr.rewindlist
StorePoint(tr, id) ==
  [tr EXCEPT !.rewindlist = [i \in Saved(tr) \cup {id} |->
                               IF i = id THEN tr.buffer ELSE @[i]]]
ClearPoints(tr, ids) == [tr EXCEPT !.rewindlist = Restrict(@, Saved(tr) \ ids)]
(* The memory the saved state refers to has not been used for other events *)
(* as long as what was saved is a beginning of the buffer: PointsAgree.    *)
RewindBuffer(tr, id) == [tr EXCEPT !.buffer = tr.rewindlist[id]]

(* A record that does not fit is preceded by a flush.  Its callback,       *)
(* scorep_on_trace_pre_flush, deletes the rewind stack.                    *)
BufferFull(tr) == Len(tr.buffer) = BufferSize
FlushBuffer(tr) == [buffer |-> << >>, disk |-> Last(tr.buffer).time,
              rewindlist |-> << >>]
WriteRecord(tr, record) ==
  [(IF BufferFull(tr) THEN FlushBuffer(tr) ELSE tr) EXCEPT !.buffer = @ \o << record >>]
StackAfterWrite(stack, tr) == IF BufferFull(tr) THEN << >> ELSE stack

Event(time, paradigm) == [time |-> time, paradigm |-> paradigm]

---------------------------------------------------------------------------
(* The stack.                                                              *)

IsEntered(stack, id) == \E i \in DOMAIN stack : stack[i].id = id
DepthOf(stack, id) == CHOOSE i \in DOMAIN stack : stack[i].id = id

(* The item behind the head stays where it is, and the head, which is      *)
(* another region's, gets the time: the test compares the item before the  *)
(* one found with the head.                                                *)
Push(stack, id, time) ==
  IF IsEntered(stack, id)
  THEN LET i == DepthOf(stack, id)
           moved == IF i > 2 THEN << stack[i] >> \o RemoveAt(stack, i) ELSE stack
       IN  [moved EXCEPT ![1].entertimestamp = time]
  ELSE << [id |-> id, entertimestamp |-> time, affected |-> {}] >> \o stack

(* (mutant: only the region on top)                                         *)
SetAffectedOnTop(stack, paradigms) ==
  IF stack = << >> THEN stack
  ELSE [stack EXCEPT ![1].affected = @ \cup paradigms]

SetAffected(stack, paradigms) ==
  [i \in DOMAIN stack |-> [stack[i] EXCEPT !.affected = @ \cup paradigms]]

---------------------------------------------------------------------------
(* The events.                                                             *)

Tick == /\ clock < MaxTime
        /\ clock' = clock + 1

(* A nested program does not enter the second region from the top again.   *)
MayEnter(id) ==
  program = "nested" => ~(Len(rewind_stack) > 1 /\ rewind_stack[2].id = id)

store_rewind_point(id) ==
  /\ Tick
  /\ MayEnter(id)
  /\ trace' = StorePoint(trace, id)
  /\ rewind_stack' = Push(rewind_stack, id, clock')
  /\ UNCHANGED <<program, invalidated, removed>>

(* Any event written; those of a paradigm mark all regions entered.        *)
WriteEvent(paradigm) ==
  /\ Tick
  /\ trace' = WriteRecord(trace, Event(clock', paradigm))
  /\ rewind_stack' = SetAffected(StackAfterWrite(rewind_stack, trace),
                                 {paradigm} \ {Other})
  /\ UNCHANGED <<program, invalidated, removed>>

(* The region is not found if the buffer was flushed since it was entered, *)
(* or if a region around it was left before: a warning, and nothing else.  *)
ExitOfUnknown(id) ==
  /\ Tick
  /\ ~IsEntered(rewind_stack, id)
  /\ UNCHANGED <<program, rewind_stack, trace, invalidated, removed>>

(* Everything above the region is popped as well, with its rewind point.   *)
(* (mutant: the regions above keep their rewind points)                     *)
PoppedAlone(id) == {id}
Popped(id) == {rewind_stack[i].id : i \in 1 .. DepthOf(rewind_stack, id)}
Above(id) == Popped(id) \ {id}
Below(id) == SubSeq(rewind_stack, DepthOf(rewind_stack, id) + 1, Len(rewind_stack))

(* SCOREP_ExitRewindRegion that keeps the section. *)
ExitKeeping(id) ==
  /\ Tick
  /\ IsEntered(rewind_stack, id)
  /\ rewind_stack' = Below(id)
  /\ trace' = ClearPoints(trace, Popped(id))
  /\ UNCHANGED <<program, invalidated, removed>>

(* The events of the section are replaced by a pair of MeasurementOnOff    *)
(* with the time the region was entered at.  Each of them may flush.       *)
ExitWithRewind(id) ==
  /\ Tick
  /\ IsEntered(rewind_stack, id)
  /\ LET item == rewind_stack[DepthOf(rewind_stack, id)]
         onOff == Event(item.entertimestamp, Other)
         rewound == RewindBuffer(ClearPoints(trace, Above(id)), id)
         off == WriteRecord(rewound, onOff)
     IN  /\ trace' = ClearPoints(WriteRecord(off, onOff), {id})
         /\ rewind_stack' = StackAfterWrite(StackAfterWrite(Below(id), rewound), off)
         /\ invalidated' = invalidated \cup item.affected
         /\ removed' = removed \cup
              ({trace.buffer[i].paradigm :
                  i \in Len(rewound.buffer) + 1 .. Len(trace.buffer)} \ {Other})
  /\ UNCHANGED program

(* SCOREP_Tracing finalises the location: the last flush. *)
RewindFinalize ==
  /\ clock = MaxTime
  /\ UNCHANGED rewindVars

RewindNext ==
  \/ \E id \in RewindRegions : store_rewind_point(id)
  \/ \E p \in Paradigms \cup {Other} : WriteEvent(p)
  \/ \E id \in RewindRegions : ExitOfUnknown(id)
  \/ \E id \in RewindRegions : ExitKeeping(id)
  \/ \E id \in RewindRegions : ExitWithRewind(id)
  \/ RewindFinalize

RewindSpec == RewindInit /\ [][RewindNext]_rewindVars

---------------------------------------------------------------------------
(* The stack and OTF2's list know the same regions.  What OTF2 saved for a *)
(* region is a beginning of the buffer, never beyond what was saved for a  *)
(* region above it on the stack, so that rewinding one never brings events *)
(* back nor leaves a saved state that points behind the end of the buffer. *)
(* (exit_rewind_point pops down to the region; the pre-flush callback      *)
(* deletes the stack when OTF2 forgets its list.)                          *)
PointOf(item) == trace.rewindlist[item.id]

PointsAgree ==
  /\ Saved(trace) = {rewind_stack[i].id : i \in DOMAIN rewind_stack}
  /\ \A i \in DOMAIN rewind_stack :
       /\ IsPrefix(PointOf(rewind_stack[i]), trace.buffer)
       /\ \A j \in 1 .. i - 1 :
            IsPrefix(PointOf(rewind_stack[i]), PointOf(rewind_stack[j]))

(* The times of the events in a trace never decrease, also across a flush, *)
(* although rewinding writes two events with a time of the past.           *)
TraceInOrder ==
  LET times == << trace.disk >> \o [i \in DOMAIN trace.buffer |-> trace.buffer[i].time]
  IN  \A i \in 1 .. Len(times) - 1 : times[i] <= times[i + 1]

(* A trace that lost events of a paradigm by rewinding does not claim to   *)
(* hold all of them: the trace property of the paradigm is invalidated.    *)
RemovedIsDeclared == removed \subseteq invalidated

RewindConsistent == PointsAgree /\ TraceInOrder

(* "If id is NOT on top of the stack, then move id on top": the region     *)
(* entered last is the head, with the time it was entered at               *)
(* (scorep_rewind_stack_push).                                             *)
EnteredIsOnTop ==
  [][\A id \in RewindRegions :
       store_rewind_point(id) =>
         /\ rewind_stack'[1].id = id
         /\ rewind_stack'[1].entertimestamp = clock']_rewindVars
=============================================================================
