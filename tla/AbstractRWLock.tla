--------------------------- MODULE AbstractRWLock ---------------------------
(***************************************************************************)
(* What SCOREP_ReaderWriterLock.h promises its users: at any time either   *)
(* any number of readers or a single writer is inside.                     *)
(***************************************************************************)
CONSTANT Threads

VARIABLE mode   (* what each thread may do with the protected data         *)

Outside(t) == mode[t] = "out"
NoWriter == \A t \in Threads : mode[t] # "write"

Init == mode = [t \in Threads |-> "out"]

BeginRead(t) == Outside(t) /\ NoWriter /\ mode' = [mode EXCEPT ![t] = "read"]
BeginWrite(t) == (\A u \in Threads : Outside(u)) /\ mode' = [mode EXCEPT ![t] = "write"]
End(t) == ~Outside(t) /\ mode' = [mode EXCEPT ![t] = "out"]

Next == \E t \in Threads : BeginRead(t) \/ BeginWrite(t) \/ End(t)

Spec == Init /\ [][Next]_mode
=============================================================================
