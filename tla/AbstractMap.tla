---------------------------- MODULE AbstractMap ----------------------------
(***************************************************************************)
(* What the documentation of SCOREP_FastHashtab.h promises: a map whose    *)
(* operations take effect at one instant between call and return, however  *)
(* many threads use it.  remove_if is a sequence of single removals.       *)
(***************************************************************************)
CONSTANTS Threads, Keys, Values, Calls, NULL

VARIABLES
  map,                  (* the value of each key, or NULL                  *)
  call,                 (* what each thread is executing                   *)
  done,                 (* has its call taken effect                       *)
  result                (* and what does (or did) it return                *)

vars == <<map, call, done, result>>

NoCall == [op |-> "none"]
KeyCalls == [op : Calls \ {"remove_if"}, key : Keys]
RemoveIfCalls == [op : Calls \cap {"remove_if"}, accepts : SUBSET Keys]
Result(value, flag) == [value |-> value, flag |-> flag]

Init ==
  /\ map = [k \in Keys |-> NULL]
  /\ call = [t \in Threads |-> NoCall]
  /\ done = [t \in Threads |-> FALSE]
  /\ result = [t \in Threads |-> Result(NULL, FALSE)]

Invoke(t) ==
  /\ call[t] = NoCall
  /\ \E c \in KeyCalls \cup RemoveIfCalls : call' = [call EXCEPT ![t] = c]
  /\ result' = [result EXCEPT ![t] = Result(NULL, FALSE)]
  /\ UNCHANGED <<map, done>>

Pending(t, op) == call[t].op = op /\ ~done[t]
Answer(t, r) == result' = [result EXCEPT ![t] = r] /\ done' = [done EXCEPT ![t] = TRUE]

Get(t) ==
  /\ Pending(t, "get")
  /\ Answer(t, Result(map[call[t].key], map[call[t].key] # NULL))
  /\ UNCHANGED <<map, call>>

Insert(t) ==
  /\ Pending(t, "insert") /\ map[call[t].key] = NULL
  /\ \E v \in Values :
       /\ map' = [map EXCEPT ![call[t].key] = v]
       /\ Answer(t, Result(v, TRUE))
  /\ UNCHANGED call

GetInsteadOfInsert(t) ==
  /\ Pending(t, "insert") /\ map[call[t].key] # NULL
  /\ Answer(t, Result(map[call[t].key], FALSE))
  /\ UNCHANGED <<map, call>>

Remove(t) ==
  /\ Pending(t, "remove")
  /\ map' = [map EXCEPT ![call[t].key] = NULL]
  /\ Answer(t, Result(map[call[t].key], map[call[t].key] # NULL))
  /\ UNCHANGED call

Drop(t) ==
  /\ Pending(t, "remove_if")
  /\ \E k \in call[t].accepts : map[k] # NULL /\ map' = [map EXCEPT ![k] = NULL]
  /\ UNCHANGED <<call, done, result>>

Return(t) ==
  /\ done[t] \/ call[t].op = "remove_if"
  /\ call' = [call EXCEPT ![t] = NoCall]
  /\ done' = [done EXCEPT ![t] = FALSE]
  /\ UNCHANGED <<map, result>>

(* free_chunks: "the table will be empty", in a serial context. *)
Clear ==
  /\ \A t \in Threads : call[t] = NoCall
  /\ map' = [k \in Keys |-> NULL]
  /\ UNCHANGED <<call, done, result>>

Next == Clear \/ \E t \in Threads : \/ Invoke(t) \/ Return(t) \/ Get(t) \/ Insert(t)
                                    \/ GetInsteadOfInsert(t) \/ Remove(t) \/ Drop(t)

Spec == Init /\ [][Next]_vars
=============================================================================
