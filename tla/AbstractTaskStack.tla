------------------------- MODULE AbstractTaskStack -------------------------
(***************************************************************************)
(* What the rest of the measurement system expects from SCOREP_Task.h: a   *)
(* location executes one task at a time, and every task has a stack of the *)
(* regions entered and not yet left, which nobody but the location that    *)
(* executes the task touches, whatever happens to other tasks.             *)
(***************************************************************************)
EXTENDS Integers, Sequences

CONSTANTS Locations, Tasks, Handles, NULL

VARIABLES
  live,                 (* tasks that have begun and not completed         *)
  stack,                (* the regions of each task, the top one last      *)
  current               (* the task each location executes, or NULL        *)

vars == <<live, stack, current>>

Init ==
  /\ live = {}
  /\ stack = [t \in Tasks |-> << >>]
  /\ current = [l \in Locations |-> NULL]

Begin(l, t) ==
  /\ t \notin live
  /\ live' = live \cup {t}
  /\ stack' = [stack EXCEPT ![t] = << >>]
  /\ current' = [current EXCEPT ![l] = t]

Switch(l, t) ==
  /\ t \in live /\ \A m \in Locations : current[m] # t
  /\ current' = [current EXCEPT ![l] = t]
  /\ UNCHANGED <<live, stack>>

(* The task stays the current one until the location switches. *)
End(l) ==
  /\ current[l] \in live
  /\ live' = live \ {current[l]}
  /\ stack' = [stack EXCEPT ![current[l]] = << >>]
  /\ UNCHANGED current

Enter(l, region) ==
  /\ current[l] \in live
  /\ stack' = [stack EXCEPT ![current[l]] = Append(@, region)]
  /\ UNCHANGED <<live, current>>

Exit(l) ==
  /\ current[l] \in live /\ stack[current[l]] # << >>
  /\ stack' = [stack EXCEPT ![current[l]] = SubSeq(@, 1, Len(@) - 1)]
  /\ UNCHANGED <<live, current>>

ExitAll(l) ==
  /\ current[l] \in live
  /\ stack' = [stack EXCEPT ![current[l]] = << >>]
  /\ UNCHANGED <<live, current>>

(* The end of the measurement. *)
EndAll == live' = {} /\ UNCHANGED <<stack, current>>

Next == EndAll \/ \E l \in Locations :
  \/ \E t \in Tasks : Begin(l, t) \/ Switch(l, t)
  \/ \E region \in Handles : Enter(l, region)
  \/ Exit(l) \/ ExitAll(l) \/ End(l)

Spec == Init /\ [][Next]_vars
=============================================================================
