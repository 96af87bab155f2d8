---------------------------- MODULE MpiRequests ----------------------------
(***************************************************************************)
(* The requests Score-P keeps for non-blocking MPI operations              *)
(* (src/adapters/mpi/scorep_mpi_request_mgmt.c) and the wrappers of        *)
(* SCOREP_Mpi_Request.c that use them.                                     *)
(*                                                                         *)
(* A request is found by its MPI_Request value.  The value need not be     *)
(* unique: MPI may return one dummy value for all operations it completes  *)
(* at once, and gives a value out again as soon as PMPI_Wait has released  *)
(* it, when the wrapper that called PMPI_Wait has not looked the request   *)
(* up yet.  A table entry therefore heads a list of requests, and a        *)
(* request that a wrapper works on is marked.                              *)
(*                                                                         *)
(* The table is used through the meaning of its operations (FastHashtab    *)
(* implements AbstractMap).  Between a lookup and the lock of the entry    *)
(* that was found others can remove the entry; entries and requests are    *)
(* recycled.                                                               *)
(***************************************************************************)
EXTENDS Integers, Sequences, FiniteSets, Functions, Null

CONSTANTS
  Threads,
  Keys,              (* MPI_Request values                                 *)
  Dummy,             (* the one that MPI may return any number of times    *)
  Requests, Entries, (* bound: the objects AllocForMisc returns            *)
  MaxStarts,         (* bound: times a persistent request is started       *)
  MpiSetups          (* what program and MPI library may do, and a bound   *)
                     (* on the operations that are created                 *)

Features == {"multiple",          (* threads call MPI concurrently         *)
             "early",             (* values used again before the wrapper  *)
                                  (* that released them has returned       *)
             "dummy", "persistent",
             "calls on dummy",    (* calls that do not complete it         *)
             "status of inactive", (* MPI_Request_get_status of a request  *)
                                  (* that is not started                   *)
             "free of active"}    (* MPI_Request_free of a started one     *)

WithRequest == {"Wait", "Test", "Start", "Request_free", "Request_get_status"}

ASSUME MpiRequestsAssumption ==
  /\ Dummy \in Keys /\ IsFiniteSet(Requests)
  /\ Requests \cap Entries = {} /\ NULL \notin Requests \cup Entries
  /\ NULL \notin Threads /\ NULL \notin WithRequest
  /\ MaxStarts \in Nat
  /\ \A s \in MpiSetups : s.features \subseteq Features /\ s.operations \in Nat

VARIABLES
  setup,
  request_table,         (* entry of each value, or NULL                   *)
  payload, request_lock, (* of each entry                                  *)
  request,               (* of each request: what the struct holds         *)
  request_table_entry_free_list, request_free_list,
  allocated,             (* objects obtained from the memory management    *)
  mpi_last_request_id,
  th,                    (* what each thread does                          *)
  op,                    (* MPI: the operation with each id                *)
  completions,           (* history: completion events written for an id   *)
  errors                 (* messages of UTILS_ERROR                        *)

poolVars == <<request_table_entry_free_list, request_free_list, allocated>>
mpiVars == <<setup, request_table, payload, request_lock, request, poolVars,
          mpi_last_request_id, th, op, completions, errors>>

Ids == 1 .. setup.operations
IdleThread == [pc |-> "idle", call |-> NULL, id |-> 0, key |-> Dummy, value |-> NULL,
         control |-> NULL, req |-> NULL, after |-> "idle"]
NoRequest == [request |-> Dummy, id |-> 0, flags |-> {}, next |-> NULL, marker |-> FALSE]
NoOp == [key |-> Dummy, state |-> "none", persistent |-> FALSE, known |-> FALSE,
         thread |-> NULL, starts |-> 0, observed |-> 0]

MpiInit ==
  /\ setup \in MpiSetups
  /\ request_table = [k \in Keys |-> NULL]
  /\ payload = [e \in Entries |-> NULL]
  /\ request_lock = [e \in Entries |-> FALSE]
  /\ request = [r \in Requests |-> NoRequest]
  /\ request_table_entry_free_list = << >>
  /\ request_free_list = << >>
  /\ allocated = {}
  /\ mpi_last_request_id = 0
  /\ th = [t \in Threads |-> IdleThread]
  /\ op = [i \in Ids |-> NoOp]
  /\ completions = [i \in Ids |-> 0]
  /\ errors = {}

ThreadAt(t, pc) == th[t].pc = pc
MoveTo(t, pc) == th' = [th EXCEPT ![t].pc = pc]

(* A free list: its head, or new memory if it is empty; the rest; the      *)
(* `next' its new head gets.                                               *)
NewOf(pool, objects) == IF pool # << >> THEN Head(pool) ELSE CHOOSE x \in objects \ allocated : TRUE
Available(pool, objects) == pool # << >> \/ objects \ allocated # {}
RestOfPool(pool) == IF pool # << >> THEN Tail(pool) ELSE pool
FirstOfPool(pool) == IF pool # << >> THEN Head(pool) ELSE NULL

(* The list an entry heads: from the first request by their `next'.        *)
ItemsFrom(first, requests) ==
  LET node[n \in Nat] ==
        IF n = 0 THEN first
        ELSE IF node[n - 1] \in Requests THEN requests[node[n - 1]].next ELSE NULL
      length == Cardinality({n \in 0 .. Cardinality(Requests) : node[n] \in Requests})
  IN  [n \in 1 .. length |-> node[n - 1]]
List(e) == ItemsFrom(payload[e], request)

-----------------------------------------------------------------------------
(* MPI, and the start of a wrapper *)

Allows(feature) == feature \in setup.features

(* Without MPI_THREAD_MULTIPLE one thread is inside of MPI at a time.      *)
MayCall(t) == ThreadAt(t, "idle") /\ (Allows("multiple") \/ \A u \in Threads : ThreadAt(u, "idle"))

(* The values MPI may return for a new operation.                          *)
Values(persistent) ==
  {k \in Keys :
     \/ k = Dummy /\ Allows("dummy") /\ ~persistent
     \/ /\ k # Dummy
        /\ \A i \in Ids : op[i].key = k => op[i].state \in {"none", "done"}
        /\ Allows("early") \/ \A t \in Threads : ThreadAt(t, "idle") \/ th[t].key # k}

(* What scorep_mpi_request_p2p_create enters for id.                       *)
DataOf(id) ==
  [request |-> op[id].key, id |-> id, next |-> NULL, marker |-> FALSE,
   flags |-> IF op[id].persistent THEN {"IS_PERSISTENT"} ELSE {}]

(* MPI_Isend and its like, MPI_Send_init and its like up to the insertion. *)
(* No request is kept of an operation to or from MPI_PROC_NULL, which is   *)
(* complete at once.                                                       *)
CreateOperation(t, k, persistent, known) ==
  /\ MayCall(t) /\ mpi_last_request_id < setup.operations
  /\ persistent => Allows("persistent")
  /\ k \in Values(persistent) /\ (known \/ k = Dummy)
  /\ mpi_last_request_id' = mpi_last_request_id + 1
  /\ op' = [op EXCEPT ![mpi_last_request_id + 1] =
              [key |-> k, state |-> IF persistent THEN "inactive" ELSE "active",
               persistent |-> persistent, known |-> known,
               thread |-> IF Allows("multiple") THEN t ELSE NULL, starts |-> 0, observed |-> 0]]
  /\ th' = IF known THEN [th EXCEPT ![t] = [IdleThread EXCEPT !.pc = "insert",
                                             !.id = mpi_last_request_id + 1, !.key = k]]
           ELSE th
  /\ UNCHANGED <<setup, request_table, payload, request_lock, request, poolVars,
                 completions, errors>>

(* The calls that look a request up, by the thread that created it, or by  *)
(* any if one thread is inside of MPI at a time.  MPI_Wait and MPI_Test    *)
(* that return a completed request do so after PMPI_Wait, which has        *)
(* released the value of a request that is not persistent and which an     *)
(* inactive one does not block; the others do so before they call MPI.     *)
Finish(o) ==
  [o EXCEPT !.state = IF o.persistent THEN "inactive" ELSE "done",
            !.observed = IF o.state = "active" /\ o.known THEN @ + 1 ELSE @]

CallWithRequest(t, id, call) ==
  LET o == op[id]
  IN  /\ MayCall(t) /\ o.thread \in {t, NULL} /\ o.state \in {"active", "complete", "inactive"}
      /\ \/ call \in {"Wait", "Request_free"}
         \/ call = "Start" /\ o.state = "inactive" /\ o.starts < MaxStarts
         \/ call = "Test" /\ o.state = "active"
         \/ /\ call = "Request_get_status"
            /\ (o.state = "inactive") => Allows("status of inactive")
      /\ (call = "Request_free" /\ o.persistent /\ o.state # "inactive") =>
           Allows("free of active")
      /\ (o.key = Dummy /\ call # "Wait") => Allows("calls on dummy")
      /\ op' = IF call = "Wait" THEN [op EXCEPT ![id] = Finish(@)] ELSE op
      /\ th' = [th EXCEPT ![t] = [IdleThread EXCEPT !.pc = "lookup", !.call = call, !.id = id,
                                              !.key = o.key, !.after = "get"]]
      /\ UNCHANGED <<setup, request_table, payload, request_lock, request, poolVars,
                     mpi_last_request_id, completions, errors>>

-----------------------------------------------------------------------------
(* The table and its values *)

(* request_table_value_ctor, in request_table_get_and_insert.              *)
Construct(k, id) ==
  LET e == NewOf(request_table_entry_free_list, Entries)
      r == NewOf(request_free_list, Requests)
  IN  /\ Available(request_table_entry_free_list, Entries)
      /\ Available(request_free_list, Requests)
      /\ request_table' = [request_table EXCEPT ![k] = e]
      /\ payload' = [payload EXCEPT ![e] = r]
      /\ request_lock' = [request_lock EXCEPT ![e] = FALSE]
      /\ request' = [request EXCEPT ![r] = DataOf(id)]
      /\ request_table_entry_free_list' = RestOfPool(request_table_entry_free_list)
      /\ request_free_list' = RestOfPool(request_free_list)
      /\ allocated' = allocated \cup {e, r}

(* request_table_value_dtor, in request_table_remove.                      *)
Destroy(k) ==
  LET e == request_table[k]
      r == payload[e]
  IN  /\ request_table' = [request_table EXCEPT ![k] = NULL]
      /\ request' = [request EXCEPT ![r].next = FirstOfPool(request_free_list)]
      /\ request_free_list' = <<r>> \o request_free_list
      /\ payload' = [payload EXCEPT ![e] = FirstOfPool(request_table_entry_free_list)]
      /\ request_table_entry_free_list' = <<e>> \o request_table_entry_free_list

(* insert_scorep_mpi_request: the first attempt; a value that is in the    *)
(* table already takes a request from the pool.                            *)
InsertNew(t) ==
  /\ ThreadAt(t, "insert") /\ request_table[th[t].key] = NULL
  /\ Construct(th[t].key, th[t].id)
  /\ th' = [th EXCEPT ![t] = IdleThread]
  /\ UNCHANGED <<setup, mpi_last_request_id, op, completions, errors>>

InsertDuplicate(t) ==
  LET r == NewOf(request_free_list, Requests)
  IN  /\ ThreadAt(t, "insert") /\ request_table[th[t].key] # NULL
      /\ Available(request_free_list, Requests)
      /\ request' = [request EXCEPT ![r] = DataOf(th[t].id)]
      /\ request_free_list' = RestOfPool(request_free_list)
      /\ allocated' = allocated \cup {r}
      /\ th' = [th EXCEPT ![t].pc = "lock", ![t].value = request_table[th[t].key],
                          ![t].req = r, ![t].after = "append"]
      /\ UNCHANGED <<setup, request_table, payload, request_lock,
                     request_table_entry_free_list, mpi_last_request_id, op,
                     completions, errors>>

(* request_table_get in scorep_mpi_request_get and _free.                  *)
Lookup(t) ==
  /\ ThreadAt(t, "lookup")
  /\ IF request_table[th[t].key] # NULL
     THEN /\ th' = [th EXCEPT ![t].pc = "lock", ![t].value = request_table[th[t].key]]
          /\ UNCHANGED errors
     ELSE /\ th' = [th EXCEPT ![t].pc = IF th[t].after = "get" THEN "use" ELSE "unmark"]
          /\ errors' = IF th[t].after = "get" THEN errors ELSE errors \cup {"not found"}
  /\ UNCHANGED <<setup, request_table, payload, request_lock, request, poolVars,
                 mpi_last_request_id, op, completions>>

(* UTILS_MutexLock of the entry found. *)
LockEntry(t) ==
  /\ ThreadAt(t, "lock") /\ ~request_lock[th[t].value]
  /\ request_lock' = [request_lock EXCEPT ![th[t].value] = TRUE]
  /\ MoveTo(t, "control")
  /\ UNCHANGED <<setup, request_table, payload, request, poolVars,
                 mpi_last_request_id, op, completions, errors>>

(* The second look into the table, under the lock.                         *)
Control(t) ==
  /\ ThreadAt(t, "control") /\ request_table[th[t].key] # NULL
  /\ th' = IF request_table[th[t].key] = th[t].value
           THEN [th EXCEPT ![t].pc = th[t].after]
           ELSE [th EXCEPT ![t].pc = "unlock", ![t].control = request_table[th[t].key]]
  /\ UNCHANGED <<setup, request_table, payload, request_lock, request, poolVars,
                 mpi_last_request_id, op, completions, errors>>

(* The same when the value has gone: an insertion succeeds now, and its    *)
(* spare request goes back to the pool after the unlock.                   *)
ControlInsert(t) ==
  /\ ThreadAt(t, "control") /\ request_table[th[t].key] = NULL /\ th[t].after = "append"
  /\ Construct(th[t].key, th[t].id)
  /\ th' = [th EXCEPT ![t].pc = "unlock", ![t].after = "release"]
  /\ UNCHANGED <<setup, mpi_last_request_id, op, completions, errors>>

ControlGone(t) ==
  /\ ThreadAt(t, "control") /\ request_table[th[t].key] = NULL /\ th[t].after # "append"
  /\ th' = [th EXCEPT ![t].pc = "unlock",
                      ![t].after = IF @ = "get" THEN "use" ELSE "unmark"]
  /\ errors' = IF th[t].after = "get" THEN errors ELSE errors \cup {"not found on control"}
  /\ UNCHANGED <<setup, request_table, payload, request_lock, request, poolVars,
                 mpi_last_request_id, op, completions>>

UnlockEntry(t) ==
  /\ ThreadAt(t, "unlock")
  /\ request_lock' = [request_lock EXCEPT ![th[t].value] = FALSE]
  /\ th' = IF th[t].control # NULL
           THEN [th EXCEPT ![t].pc = "lock", ![t].value = th[t].control, ![t].control = NULL]
           ELSE [th EXCEPT ![t].pc = th[t].after]
  /\ UNCHANGED <<setup, request_table, payload, request, poolVars,
                 mpi_last_request_id, op, completions, errors>>

-----------------------------------------------------------------------------
(* The critical sections *)

(* insert_scorep_mpi_request appends to the list.                          *)
AppendRequest(t) ==
  LET list == List(th[t].value)
  IN  /\ ThreadAt(t, "append") /\ list # << >>
      /\ request' = [request EXCEPT ![list[Len(list)]].next = th[t].req,
                                    ![th[t].req].next = NULL]
      /\ th' = [th EXCEPT ![t].pc = "unlock", ![t].after = "idle"]
      /\ UNCHANGED <<setup, request_table, payload, request_lock, poolVars,
                     mpi_last_request_id, op, completions, errors>>

(* The first request of a list that nobody works on.                       *)
FirstUnmarked(list) ==
  LET unmarked == {n \in DOMAIN list : ~request[list[n]].marker}
  IN  IF unmarked = {} THEN NULL
      ELSE list[CHOOSE n \in unmarked : \A m \in unmarked : n <= m]

(* scorep_mpi_request_get marks it.                                        *)
(* (mutant: does not mark it)                                              *)
GetUnmarked(t) ==
  LET r == FirstUnmarked(List(th[t].value))
  IN  /\ ThreadAt(t, "get")
      /\ th' = [th EXCEPT ![t].pc = "unlock", ![t].after = "use", ![t].req = r]
      /\ UNCHANGED <<setup, request_table, payload, request_lock, request, poolVars,
                     mpi_last_request_id, op, completions, errors>>

Get(t) ==
  LET r == FirstUnmarked(List(th[t].value))
  IN  /\ ThreadAt(t, "get")
      /\ request' = IF r = NULL THEN request ELSE [request EXCEPT ![r].marker = TRUE]
      /\ th' = [th EXCEPT ![t].pc = "unlock", ![t].after = "use", ![t].req = r]
      /\ UNCHANGED <<setup, request_table, payload, request_lock, poolVars,
                     mpi_last_request_id, op, completions, errors>>

(* scorep_mpi_request_free of the only request: the table destroys the     *)
(* entry, whose lock is released afterwards.                               *)
FreeLast(t) ==
  /\ ThreadAt(t, "free") /\ List(th[t].value) = <<th[t].req>>
  /\ IF request_table[th[t].key] # NULL
     THEN Destroy(th[t].key) /\ UNCHANGED errors
     ELSE errors' = errors \cup {"removing failed"}
          /\ UNCHANGED <<request_table, payload, request, request_table_entry_free_list,
                         request_free_list>>
  /\ th' = [th EXCEPT ![t].pc = "unlock", ![t].after = "unmark"]
  /\ UNCHANGED <<setup, request_lock, allocated, mpi_last_request_id, op, completions>>

(* ... of another one, which is unlinked, and released after the unlock.   *)
(* (mutant: the head is not replaced)                                      *)
FreeOneKeepsHead(t) ==
  LET list == List(th[t].value)
      r == th[t].req
      n == CHOOSE n \in DOMAIN list : list[n] = r
  IN  /\ ThreadAt(t, "free") /\ list # <<r>>
      /\ request' = IF n = 1 THEN request
                    ELSE [request EXCEPT ![list[n - 1]].next = request[r].next]
      /\ th' = [th EXCEPT ![t].pc = "unlock", ![t].after = "release"]
      /\ UNCHANGED <<setup, request_table, payload, request_lock, poolVars,
                     mpi_last_request_id, op, completions, errors>>

FreeOne(t) ==
  LET list == List(th[t].value)
      r == th[t].req
      n == CHOOSE n \in DOMAIN list : list[n] = r
      present == r \in Range(list)
  IN  /\ ThreadAt(t, "free") /\ list # <<r>>
      /\ payload' = IF present /\ n = 1
                    THEN [payload EXCEPT ![th[t].value] = request[r].next] ELSE payload
      /\ request' = IF present /\ n # 1
                    THEN [request EXCEPT ![list[n - 1]].next = request[r].next] ELSE request
      /\ errors' = IF present THEN errors
                   ELSE errors \cup {IF list = << >> THEN "list empty" ELSE "not found in list"}
      /\ th' = [th EXCEPT ![t].pc = "unlock", ![t].after = IF present THEN "release" ELSE "unmark"]
      /\ UNCHANGED <<setup, request_table, request_lock, poolVars,
                     mpi_last_request_id, op, completions>>

(* release_scorep_request_to_pool of the spare or of the unlinked request. *)
ReleaseRequest(t) ==
  LET r == th[t].req
  IN  /\ ThreadAt(t, "release")
      /\ request' = [request EXCEPT ![r].next = FirstOfPool(request_free_list)]
      /\ request_free_list' = <<r>> \o request_free_list
      /\ th' = IF th[t].call = NULL THEN [th EXCEPT ![t] = IdleThread]
               ELSE [th EXCEPT ![t].pc = "unmark"]
      /\ UNCHANGED <<setup, request_table, payload, request_lock, allocated,
                     request_table_entry_free_list, mpi_last_request_id, op,
                     completions, errors>>

-----------------------------------------------------------------------------
(* What the wrappers do with the request *)

Flags(t) == request[th[t].req].flags
InactivePersistent(t) == "IS_PERSISTENT" \in Flags(t) /\ "IS_ACTIVE" \notin Flags(t)

(* scorep_mpi_check_request                                                *)
Check(t) ==
  completions' =
    IF "IS_COMPLETED" \in Flags(t) \/ InactivePersistent(t) THEN completions
    ELSE [completions EXCEPT ![request[th[t].req].id] = @ + 1]

(* scorep_mpi_request_free begins with the value in the request.           *)
ToFree(t) ==
  th' = [th EXCEPT ![t].pc = "lookup", ![t].after = "free",
                   ![t].key = request[th[t].req].request]

(* Completion: scorep_mpi_check_request, scorep_mpi_cleanup_request.       *)
UseWait(t) ==
  LET left == Flags(t) \ {"IS_ACTIVE", "IS_COMPLETED"}
  IN  /\ ThreadAt(t, "use") /\ th[t].call = "Wait" /\ th[t].req # NULL
      /\ Check(t)
      /\ \/ InactivePersistent(t) /\ MoveTo(t, "unmark") /\ UNCHANGED request
         \/ /\ "IS_PERSISTENT" \in Flags(t) /\ ~InactivePersistent(t)
            /\ request' = [request EXCEPT ![th[t].req].flags = left]
            /\ IF "DEALLOCATE" \in Flags(t) THEN ToFree(t) ELSE MoveTo(t, "unmark")
         \/ "IS_PERSISTENT" \notin Flags(t) /\ ToFree(t) /\ UNCHANGED request
      /\ UNCHANGED <<setup, request_table, payload, request_lock, poolVars,
                     mpi_last_request_id, op, errors>>

(* MPI_Start before PMPI_Start. *)
UseStart(t) ==
  /\ ThreadAt(t, "use") /\ th[t].call = "Start" /\ th[t].req # NULL
  /\ request' = IF "IS_PERSISTENT" \in Flags(t)
                THEN [request EXCEPT ![th[t].req].flags = @ \cup {"IS_ACTIVE"}] ELSE request
  /\ MoveTo(t, "unmark")
  /\ UNCHANGED <<setup, request_table, payload, request_lock, poolVars,
                 mpi_last_request_id, op, completions, errors>>

(* MPI_Request_free before PMPI_Request_free. *)
UseRequestFree(t) ==
  /\ ThreadAt(t, "use") /\ th[t].call = "Request_free" /\ th[t].req # NULL
  /\ IF {"IS_PERSISTENT", "IS_ACTIVE"} \subseteq Flags(t)
     THEN /\ request' = [request EXCEPT ![th[t].req].flags = @ \cup {"DEALLOCATE"}]
          /\ MoveTo(t, "unmark")
     ELSE ToFree(t) /\ UNCHANGED request
  /\ UNCHANGED <<setup, request_table, payload, request_lock, poolVars,
                 mpi_last_request_id, op, completions, errors>>

(* MPI_Request_get_status from PMPI_Request_get_status on, which says that *)
(* the operation is complete, or inactive.                                 *)
UseGetStatus(t) ==
  LET id == th[t].id
  IN  /\ ThreadAt(t, "use") /\ th[t].call = "Request_get_status" /\ th[t].req # NULL
      /\ op' = IF op[id].state = "active"
               THEN [op EXCEPT ![id].state = "complete", ![id].observed = @ + 1] ELSE op
      /\ Check(t)
      /\ request' = [request EXCEPT ![th[t].req].flags = @ \cup {"IS_COMPLETED"}]
      /\ MoveTo(t, "unmark")
      /\ UNCHANGED <<setup, request_table, payload, request_lock, poolVars,
                     mpi_last_request_id, errors>>

(* MPI_Test and MPI_Request_get_status of an operation under way, and any  *)
(* call that has found no request: nothing is written.                     *)
UseNothing(t) ==
  /\ ThreadAt(t, "use")
  /\ \/ th[t].req = NULL
     \/ th[t].call = "Test"
     \/ th[t].call = "Request_get_status" /\ op[th[t].id].state = "active"
  /\ MoveTo(t, "unmark")
  /\ UNCHANGED <<setup, request_table, payload, request_lock, request, poolVars,
                 mpi_last_request_id, op, completions, errors>>

(* scorep_mpi_unmark_request, whatever the request is by now.              *)
Unmark(t) ==
  /\ ThreadAt(t, "unmark")
  /\ request' = IF th[t].req = NULL THEN request
                ELSE [request EXCEPT ![th[t].req].marker = FALSE]
  /\ MoveTo(t, "return")
  /\ UNCHANGED <<setup, request_table, payload, request_lock, poolVars,
                 mpi_last_request_id, op, completions, errors>>

(* PMPI_Start and PMPI_Request_free; the wrapper returns.                  *)
ReturnFromMpi(t) ==
  LET id == th[t].id
  IN  /\ ThreadAt(t, "return")
      /\ op' = CASE th[t].call = "Start" ->
                      [op EXCEPT ![id].state = "active", ![id].starts = @ + 1]
                 [] th[t].call = "Request_free" -> [op EXCEPT ![id].state = "done"]
                 [] OTHER -> op
      /\ th' = [th EXCEPT ![t] = IdleThread]
      /\ UNCHANGED <<setup, request_table, payload, request_lock, request, poolVars,
                     mpi_last_request_id, completions, errors>>

WrapperStep(t) ==
  \/ InsertNew(t) \/ InsertDuplicate(t) \/ Lookup(t) \/ LockEntry(t)
  \/ Control(t) \/ ControlInsert(t) \/ ControlGone(t) \/ UnlockEntry(t)
  \/ AppendRequest(t) \/ Get(t) \/ FreeLast(t) \/ FreeOne(t) \/ ReleaseRequest(t)
  \/ UseWait(t) \/ UseStart(t) \/ UseRequestFree(t) \/ UseGetStatus(t) \/ UseNothing(t)
  \/ Unmark(t) \/ ReturnFromMpi(t)

NoWrapper == \A t \in Threads : ThreadAt(t, "idle")

(* The program makes no further call.                                      *)
MpiStop == NoWrapper /\ UNCHANGED mpiVars

MpiNext ==
  \/ MpiStop
  \/ \E t \in Threads :
       \/ WrapperStep(t)
       \/ \E k \in Keys, persistent, known \in BOOLEAN : CreateOperation(t, k, persistent, known)
       \/ \E id \in Ids, call \in WithRequest : CallWithRequest(t, id, call)

MpiSpec == MpiInit /\ [][MpiNext]_mpiVars
-----------------------------------------------------------------------------

(* Whenever no wrapper is running, every completion that the program has   *)
(* observed has been recorded once, under the id of its operation.  Those  *)
(* with the dummy value may stand for each other; when all of them are     *)
(* over, each has been recorded once.  No wrapper has reported that a      *)
(* request it had to remove was not there.                                 *)
CompletionsRecorded ==
  /\ errors = {}
  /\ NoWrapper =>
    LET dummies == {i \in Ids : op[i].key = Dummy /\ op[i].known}
    IN  /\ \A i \in Ids \ dummies : completions[i] = op[i].observed
        /\ \A i \in dummies : completions[i] <= 1
        /\ (\A i \in dummies : op[i].state = "done") =>
             Cardinality({i \in dummies : completions[i] = 1})
               = Cardinality({i \in dummies : op[i].observed = 1})

InTable == {request_table[k] : k \in Keys} \ {NULL}

(* Each request and each entry is in the table or in a free list, once,    *)
(* whenever no wrapper is running; nothing that was allocated is lost.     *)
ObjectsOwnedOnce ==
  NoWrapper =>
    LET listed == UNION {Range(List(e)) : e \in InTable}
    IN  /\ IsInjective(request_free_list) /\ IsInjective(request_table_entry_free_list)
        /\ \A e \in InTable : IsInjective(List(e)) /\ List(e) # << >>
        /\ \A k, l \in Keys : k # l /\ request_table[k] # NULL => request_table[k] # request_table[l]
        /\ \A d, e \in InTable : d # e => Range(List(d)) \cap Range(List(e)) = {}
        /\ listed \cap Range(request_free_list) = {}
        /\ InTable \cap Range(request_table_entry_free_list) = {}
        /\ allocated = listed \cup InTable \cup Range(request_free_list)
                       \cup Range(request_table_entry_free_list)
=============================================================================
