----------------------------- MODULE CreateWait -----------------------------
(***************************************************************************)
(* Threads created by pthread_create and their locations: the wrappers of  *)
(* the pthread adapter (scorep_pthread_event.c), the create/wait threading *)
(* layer (scorep_thread_create_wait_generic.c) and its pthread model       *)
(* (scorep_thread_create_wait_pthread.c), with the part of scorep_finalize *)
(* that ends the threads that are still running.                           *)
(*                                                                         *)
(* A thread obtains a location when it begins, an unused one of its reuse  *)
(* pool if there is one, and gives it back when it ends.  The private data *)
(* (tpd) of a thread belongs to one location for good, and is not told     *)
(* apart from it.  Functions that hold a mutex are one step; everything    *)
(* another thread can come between is a step of its own, the test of the   *)
(* measurement phase and what is done after it in particular.              *)
(*                                                                         *)
(* Locations, start arguments and subsystem data are numbered in the order *)
(* in which they are allocated; 0 is NULL.  Every thread runs once.  Steps *)
(* that touch nothing another thread reads in between are merged with the  *)
(* next one: a region event and its test of the phase, getting a location  *)
(* and init_thread, the end event, giving the location back and            *)
(* terminate_thread.                                                       *)
(***************************************************************************)
EXTENDS Integers, SequencesExt, FiniteSetsExt

CONSTANTS
    Main,           \* the thread that finalises the measurement
    Workers,        \* threads created through the wrapper of pthread_create
    Orphans,        \* threads that come from elsewhere
    Routine,        \* the start routine of each worker
    MayDetach,      \* workers that may be created detached
    MayExit,        \* workers that may call pthread_exit
    MayCancel,      \* workers that may be cancelled
    Policy,         \* create_wait_reuse_policy
    MaxDepth,       \* bound: regions a thread is in
    MaxThreads,     \* bound: threads that begin, besides the main one
    MaxAlive,       \* bound: threads alive at the same time, besides the main one
    None            \* no key, value or result

Others == Workers \cup Orphans
Threads == {Main} \cup Others

ASSUME ThreadsAssumption ==
    /\ IsFiniteSet(Others) /\ Main \notin Others /\ Workers \cap Orphans = {}
    /\ (MayDetach \cup MayExit \cup MayCancel) \subseteq Workers
    /\ DOMAIN Routine = Workers
    /\ Range(Routine) \cap {"any", "orphan", None} = {}
    /\ Policy \in {"never", "same_start_routine", "always"}
    /\ {MaxDepth, MaxThreads, MaxAlive} \subseteq Nat

VARIABLES
    phase, is_finalized,
    crashed,            \* why the process was stopped, or None
    pc,                 \* per thread
    loc,                \* per thread, its location (and tpd)
    terminate,          \* per thread, the subsystem data it is about to release
    start_arg,          \* per worker, the wrapped_arg its start routine got
    cleanup_arg,        \* per worker, the wrapped_arg of cleanup_handler
    result,             \* per worker, what the thread returned
    late,               \* history: threads that began after the measurement
    joined,             \* history: per worker, the value pthread_join delivered
    \* create/wait layer
    locations,          \* how many locations there are
    subsystem_data,     \* per location
    active_locations,
    data_allocated, subsystem_data_free_list,
    tpd_reuse_key, tpd_reuse_pool,
    cursor,             \* end_latecomer's position in the list of locations
    \* what the locations record
    depth,              \* per location, how many regions are open
    begun,              \* per location, begin events without their end events
    \* pthread adapter
    args, args_allocated,
    wrapped_arg, free_list      \* per location

threadVars == <<pc, loc, terminate, start_arg, cleanup_arg, result, late, joined>>
poolVars == <<locations, tpd_reuse_key, tpd_reuse_pool>>
dataVars == <<subsystem_data, active_locations, data_allocated, subsystem_data_free_list>>
eventVars == <<depth, begun>>
argVars == <<args, args_allocated, wrapped_arg, free_list>>
phaseVars == <<phase, is_finalized, crashed, cursor>>
vars == <<phaseVars, threadVars, poolVars, dataVars, eventVars, argVars>>

LocationIds == 1 .. Cardinality(Others) + 1
DataIds == 1 .. Cardinality(Others)
ArgIds == 1 .. Cardinality(Workers)
Keys == Range(Routine) \cup {"any", "orphan"}

NoArg == [next |-> 0, detached |-> FALSE, cancelled |-> FALSE, exited |-> FALSE,
          orig_ret_val |-> None]

Init ==
    /\ phase = "WITHIN" /\ is_finalized = FALSE /\ crashed = None
    /\ pc = [t \in Threads |-> IF t = Main THEN "run" ELSE "unborn"]
    /\ loc = [t \in Threads |-> IF t = Main THEN 1 ELSE 0]
    /\ terminate = [t \in Threads |-> 0]
    /\ start_arg = [t \in Workers |-> 0] /\ cleanup_arg = [t \in Workers |-> 0]
    /\ result = [t \in Workers |-> None] /\ joined = [t \in Workers |-> None]
    /\ late = {}
    /\ locations = 1
    /\ subsystem_data = [l \in LocationIds |-> 0]
    /\ active_locations = 0
    /\ data_allocated = 0 /\ subsystem_data_free_list = <<>>
    /\ tpd_reuse_key = [l \in LocationIds |-> None]
    /\ tpd_reuse_pool = [k \in Keys |-> <<>>]
    /\ cursor = 1
    /\ depth = [l \in LocationIds |-> 0]
    /\ begun = [l \in LocationIds |-> 0]
    /\ args = [a \in ArgIds |-> NoArg] /\ args_allocated = 0
    /\ wrapped_arg = [l \in LocationIds |-> 0]
    /\ free_list = [l \in LocationIds |-> 0]

At(t, label) == crashed = None /\ pc[t] = label
MoreThreads ==
    /\ Cardinality({t \in Others : pc[t] # "unborn"}) < MaxThreads
    /\ Cardinality({t \in Others : pc[t] \notin {"unborn", "finished"}}) < MaxAlive
(* A thread that has finished has no location any more.                    *)
Goto(t, label) ==
    /\ pc' = [pc EXCEPT ![t] = label]
    /\ loc' = IF label = "finished" THEN [loc EXCEPT ![t] = 0] ELSE loc
Crash(reason) == crashed' = reason

-----------------------------------------------------------------------------
(* The creator: the wrapper of pthread_create.                             *)

Create(t, u) ==
    LET l == loc[t]
        a == IF free_list[l] # 0 THEN free_list[l] ELSE args_allocated + 1
    IN
    /\ At(t, "run") /\ phase = "WITHIN" /\ pc[u] = "unborn"
    /\ MoreThreads
    /\ IF free_list[l] # 0
       THEN /\ free_list' = [free_list EXCEPT ![l] = args[a].next]
            /\ UNCHANGED args_allocated
       ELSE args_allocated' = a /\ UNCHANGED free_list
    /\ \E detached \in IF u \in MayDetach THEN BOOLEAN ELSE {FALSE} :
          args' = [args EXCEPT ![a] = [NoArg EXCEPT !.cancelled = TRUE, !.detached = detached]]
    /\ start_arg' = [start_arg EXCEPT ![u] = a]
    /\ Goto(u, "start")
    /\ UNCHANGED <<terminate, cleanup_arg, result, late, joined, wrapped_arg,
                   phaseVars, poolVars, dataVars, eventVars>>

(* An orphan's first event: SCOREP_Location_GetCurrentCPULocation finds no *)
(* tpd.                                                                    *)
OrphanAppears(t) ==
    /\ t \in Orphans /\ At(t, "unborn") /\ phase = "WITHIN" /\ MoreThreads
    /\ Goto(t, "start")
    /\ UNCHANGED <<terminate, start_arg, cleanup_arg, result, late, joined,
                   phaseVars, poolVars, dataVars, eventVars, argVars>>

-----------------------------------------------------------------------------
(* The beginning of a thread: scorep_pthread_wrapped_start_routine with    *)
(* SCOREP_ThreadCreateWait_Begin, or scorep_thread_create_wait_orphan_begin. *)

ReuseKey(t) ==
    CASE Policy = "never"    -> None
      [] Policy # "never" /\ t \in Orphans -> "orphan"
      [] Policy = "always" /\ t \in Workers -> "any"
      [] Policy = "same_start_routine" /\ t \in Workers -> Routine[t]

(* mutant: the tpd stays in the pool                                       *)
PoolUnchanged(key) == tpd_reuse_pool
PoolWithoutFirst(key) == [tpd_reuse_pool EXCEPT ![key] = Tail(@)]

(* pop_from_tpd_reuse_pool, else a new location; then init_thread.  From   *)
(* here on the location can be terminated.                                 *)
InitThread(t) ==
    LET key == ReuseKey(t)
        reuse == key # None /\ tpd_reuse_pool[key] # <<>>
        l == IF reuse THEN Head(tpd_reuse_pool[key]) ELSE locations + 1
        pooled == subsystem_data_free_list # <<>>
        d == IF pooled THEN Head(subsystem_data_free_list) ELSE data_allocated + 1
    IN
    /\ At(t, "start")
    /\ tpd_reuse_pool' = IF reuse THEN PoolWithoutFirst(key) ELSE tpd_reuse_pool
    /\ locations' = IF reuse THEN locations ELSE l
    /\ tpd_reuse_key' = [tpd_reuse_key EXCEPT ![l] = key]
    /\ loc' = [loc EXCEPT ![t] = l]
    /\ active_locations' = active_locations + 1
    /\ data_allocated' = IF pooled THEN data_allocated ELSE d
    /\ subsystem_data_free_list' =
          IF pooled THEN Tail(subsystem_data_free_list) ELSE subsystem_data_free_list
    /\ subsystem_data' = [subsystem_data EXCEPT ![l] = d]
    /\ late' = IF phase = "WITHIN" THEN late ELSE late \cup {t}
    /\ pc' = [pc EXCEPT ![t] = "begin"]
    /\ UNCHANGED <<terminate, start_arg, cleanup_arg, result, joined,
                   phaseVars, eventVars, argVars>>

BeginEvent(t) ==
    /\ At(t, "begin")
    /\ begun' = [begun EXCEPT ![loc[t]] = @ + 1]
    /\ wrapped_arg' = IF t \in Workers
                      THEN [wrapped_arg EXCEPT ![loc[t]] = start_arg[t]] ELSE wrapped_arg
    /\ Goto(t, "run")
    /\ UNCHANGED <<depth, args, args_allocated, free_list, terminate, start_arg,
                   cleanup_arg, result, late, joined, phaseVars, poolVars, dataVars>>

-----------------------------------------------------------------------------
(* While it runs, a thread enters and leaves instrumented regions.         *)
Record(t) ==
    LET l == loc[t] IN
    /\ t \in Others /\ At(t, "run") /\ phase = "WITHIN"
    /\ \E d \in {depth[l] - 1, depth[l] + 1} \cap 0 .. MaxDepth : depth' = [depth EXCEPT ![l] = d]
    /\ UNCHANGED <<begun, phaseVars, threadVars, poolVars, dataVars, argVars>>

(* The user's start routine returns with all its regions left.             *)
MayReturn(t) == phase = "WITHIN" => depth[loc[t]] = 0

Return(t) ==
    /\ t \in Workers /\ At(t, "run") /\ MayReturn(t)
    /\ phase = "WITHIN"
    /\ args' = [args EXCEPT ![start_arg[t]].orig_ret_val = t,
                            ![start_arg[t]].cancelled = FALSE]
    /\ result' = [result EXCEPT ![t] = <<"wrapped_arg", start_arg[t]>>]
    /\ Goto(t, "cleanup")
    /\ UNCHANGED <<args_allocated, wrapped_arg, free_list, terminate, start_arg,
                   cleanup_arg, late, joined, phaseVars, poolVars, dataVars, eventVars>>

ReturnOutside(t) ==
    /\ t \in Workers /\ At(t, "run") /\ MayReturn(t)
    /\ phase # "WITHIN"
    /\ result' = [result EXCEPT ![t] = <<"value", t>>]
    /\ Goto(t, "finished")
    /\ UNCHANGED <<terminate, start_arg, cleanup_arg, late, joined,
                   phaseVars, poolVars, dataVars, eventVars, argVars>>

(* An orphan ends in any way; orphan_dtor follows.                         *)
OrphanEnds(t) ==
    /\ t \in Orphans /\ At(t, "run")
    /\ Goto(t, "cleanup")
    /\ UNCHANGED <<terminate, start_arg, cleanup_arg, result, late, joined,
                   phaseVars, poolVars, dataVars, eventVars, argVars>>

(* pthread_exit with regions open.  It enters its own region, which        *)
(* cleanup_handler leaves.  A worker whose location has lost its           *)
(* wrapped_arg is taken for the main thread.                               *)
PthreadExit(t) ==
    LET l == loc[t]  a == wrapped_arg[l] IN
    /\ t \in MayExit /\ At(t, "run") /\ phase = "WITHIN"
    /\ IF a = 0
       THEN /\ result' = [result EXCEPT ![t] = <<"value", t>>]
            /\ UNCHANGED <<args, depth, crashed>>
       ELSE /\ result' = [result EXCEPT ![t] = <<"wrapped_arg", a>>]
            /\ args' = [args EXCEPT ![a].orig_ret_val = t, ![a].cancelled = FALSE,
                                    ![a].exited = TRUE]
            /\ depth' = [depth EXCEPT ![l] = @ + 1]
            /\ IF args[a].orig_ret_val = None THEN UNCHANGED crashed
                                              ELSE Crash("exited twice")
    /\ Goto(t, "cleanup")
    /\ UNCHANGED <<phase, is_finalized, cursor, begun, args_allocated, wrapped_arg,
                   free_list, terminate, start_arg, cleanup_arg, late, joined,
                   poolVars, dataVars>>

PthreadExitOutside(t) ==
    /\ t \in MayExit /\ At(t, "run") /\ phase # "WITHIN"
    /\ result' = [result EXCEPT ![t] = <<"value", t>>]
    /\ Goto(t, "cleanup")
    /\ UNCHANGED <<terminate, start_arg, cleanup_arg, late, joined,
                   phaseVars, poolVars, dataVars, eventVars, argVars>>

ActOnCancel(t) ==
    /\ t \in MayCancel /\ At(t, "run")
    /\ result' = [result EXCEPT ![t] = <<"PTHREAD_CANCELED", t>>]
    /\ Goto(t, "cleanup")
    /\ UNCHANGED <<terminate, start_arg, cleanup_arg, late, joined,
                   phaseVars, poolVars, dataVars, eventVars, argVars>>

-----------------------------------------------------------------------------
(* The end of a thread: cleanup_handler with SCOREP_ThreadCreateWait_End,  *)
(* or orphan_dtor with scorep_thread_create_wait_orphan_end.               *)

CleanupTest(t) ==
    /\ At(t, "cleanup")
    /\ Goto(t, IF phase = "WITHIN" THEN "try" ELSE "finished")
    /\ UNCHANGED <<terminate, start_arg, cleanup_arg, result, late, joined,
                   phaseVars, poolVars, dataVars, eventVars, argVars>>

(* mutant: the location keeps its subsystem data                           *)
DataAfterTryKept(l) == subsystem_data
DataAfterTry(l) == [subsystem_data EXCEPT ![l] = 0]

(* SCOREP_ThreadCreateWait_TryTerminate: one caller gets the data.         *)
TryTerminate(t) ==
    LET l == loc[t]  a == IF t \in Workers THEN wrapped_arg[l] ELSE 0 IN
    /\ At(t, "try")
    /\ Goto(t, IF subsystem_data[l] # 0 THEN "end"
               ELSE IF t \in Workers THEN "tail" ELSE "finished")
    /\ terminate' = [terminate EXCEPT ![t] = subsystem_data[l]]
    /\ subsystem_data' = DataAfterTry(l)
    /\ cleanup_arg' = IF t \in Workers THEN [cleanup_arg EXCEPT ![t] = a] ELSE cleanup_arg
    /\ IF is_finalized THEN Crash("terminate after finalize")
       ELSE IF t \in Workers /\ a = 0 THEN Crash("no wrapped_arg")
       ELSE UNCHANGED crashed
    /\ UNCHANGED <<phase, is_finalized, cursor, active_locations, data_allocated,
                   subsystem_data_free_list, start_arg, result, late, joined,
                   poolVars, eventVars, argVars>>

(* mutant: only the regions of a cancelled thread are left                 *)
DepthAtEndOfCancelled(t) ==
    LET a == args[cleanup_arg[t]] IN
    IF t \in Workers /\ ~a.cancelled THEN depth[loc[t]] - (IF a.exited THEN 1 ELSE 0) ELSE 0

(* SCOREP_Task_ExitAllRegions, for threads that did not return.            *)
DepthAtEnd(t) ==
    IF t \in Workers /\ ~args[cleanup_arg[t]].exited /\ ~args[cleanup_arg[t]].cancelled
    THEN depth[loc[t]] ELSE 0

(* terminate_thread                                                        *)
ReleaseData(t) ==
    /\ active_locations' = active_locations - 1
    /\ subsystem_data_free_list' = <<terminate[t]>> \o subsystem_data_free_list
    /\ terminate' = [terminate EXCEPT ![t] = 0]
    /\ UNCHANGED <<subsystem_data, data_allocated>>

(* The end event, push_to_tpd_reuse_pool, and terminate_thread.            *)
EndThread(t) ==
    LET l == loc[t]  key == tpd_reuse_key[l] IN
    /\ At(t, "end")
    /\ depth' = [depth EXCEPT ![l] = DepthAtEnd(t)]
    /\ begun' = [begun EXCEPT ![l] = @ - 1]
    /\ tpd_reuse_pool' = IF key = None THEN tpd_reuse_pool
                         ELSE [tpd_reuse_pool EXCEPT ![key] = <<l>> \o @]
    /\ ReleaseData(t)
    /\ Goto(t, IF t \in Workers THEN "tail" ELSE "finished")
    /\ UNCHANGED <<locations, tpd_reuse_key, start_arg, cleanup_arg,
                   result, late, joined, phaseVars, argVars>>

(* mutant: the argument of a thread that was not cancelled is taken, too   *)
AlwaysUnused(a) == TRUE

(* "wrapped_arg will not be used as return value wrapper"                  *)
Unused(a) == args[a].cancelled \/ args[a].detached

(* "put it in our own free list for later reuse": of the location, which   *)
(* may have got another thread by now.                                     *)
LinkArg(t) ==
    LET a == cleanup_arg[t] IN
    /\ At(t, "tail") /\ Unused(a)
    /\ args' = [args EXCEPT ![a].next = free_list[loc[t]]]
    /\ Goto(t, "put")
    /\ UNCHANGED <<args_allocated, wrapped_arg, free_list, terminate, start_arg,
                   cleanup_arg, result, late, joined, phaseVars, poolVars, dataVars, eventVars>>

PutArg(t) ==
    /\ At(t, "put")
    /\ free_list' = [free_list EXCEPT ![loc[t]] = cleanup_arg[t]]
    /\ Goto(t, "clear")
    /\ UNCHANGED <<args, args_allocated, wrapped_arg, terminate, start_arg,
                   cleanup_arg, result, late, joined, phaseVars, poolVars, dataVars, eventVars>>

ClearArg(t) ==
    /\ At(t, "clear")
    /\ wrapped_arg' = [wrapped_arg EXCEPT ![loc[t]] = 0]
    /\ Goto(t, "finished")
    /\ cleanup_arg' = [cleanup_arg EXCEPT ![t] = 0]
    /\ UNCHANGED <<args, args_allocated, free_list, terminate, start_arg,
                   result, late, joined, phaseVars, poolVars, dataVars, eventVars>>

KeepArg(t) ==
    /\ At(t, "tail") /\ ~Unused(cleanup_arg[t])
    /\ Goto(t, "finished")
    /\ cleanup_arg' = [cleanup_arg EXCEPT ![t] = 0]
    /\ UNCHANGED <<terminate, start_arg, result, late, joined,
                   phaseVars, poolVars, dataVars, eventVars, argVars>>

-----------------------------------------------------------------------------
(* pthread_join of a thread that is not detached and not joined yet.       *)

MayJoin(t, u) ==
    /\ At(t, "run")
    /\ pc[u] = "finished" /\ joined[u] = None /\ ~args[start_arg[u]].detached

JoinCanceled(t, u) ==
    /\ MayJoin(t, u) /\ phase = "WITHIN" /\ result[u][1] = "PTHREAD_CANCELED"
    /\ joined' = [joined EXCEPT ![u] = "PTHREAD_CANCELED"]
    /\ UNCHANGED <<pc, loc, terminate, start_arg, cleanup_arg, result, late,
                   phaseVars, poolVars, dataVars, eventVars, argVars>>

JoinWithin(t, u) ==
    LET a == result[u][2] IN
    /\ MayJoin(t, u) /\ phase = "WITHIN" /\ result[u][1] # "PTHREAD_CANCELED"
    /\ IF result[u][1] = "value"
       THEN Crash("not a wrapped_arg") /\ UNCHANGED <<joined, args, free_list>>
       ELSE /\ joined' = [joined EXCEPT ![u] = args[a].orig_ret_val]
            /\ args' = [args EXCEPT ![a].next = free_list[loc[t]]]
            /\ free_list' = [free_list EXCEPT ![loc[t]] = a]
            /\ UNCHANGED crashed
    /\ UNCHANGED <<phase, is_finalized, cursor, args_allocated, wrapped_arg, pc, loc,
                   terminate, start_arg, cleanup_arg, result, late, poolVars, dataVars, eventVars>>

-----------------------------------------------------------------------------
(* scorep_finalize of the main thread.                                     *)

LeaveMeasurement ==
    /\ At(Main, "run")
    /\ phase' = "POST"
    /\ Goto(Main, "late_try")
    /\ UNCHANGED <<is_finalized, crashed, cursor, terminate, start_arg, cleanup_arg,
                   result, late, joined, poolVars, dataVars, eventVars, argVars>>

(* end_latecomer of the next location of the list.                         *)
LateTryTerminate ==
    LET d == subsystem_data[cursor] IN
    /\ At(Main, "late_try") /\ cursor <= locations
    /\ terminate' = [terminate EXCEPT ![Main] = d]
    /\ subsystem_data' = DataAfterTry(cursor)
    /\ Goto(Main, IF d # 0 THEN "late_end" ELSE "late_try")
    /\ cursor' = IF d # 0 THEN cursor ELSE cursor + 1
    /\ UNCHANGED <<phase, is_finalized, crashed, active_locations, data_allocated,
                   subsystem_data_free_list, start_arg, cleanup_arg, result, late,
                   joined, poolVars, eventVars, argVars>>

LateEnd ==
    /\ At(Main, "late_end")
    /\ depth' = [depth EXCEPT ![cursor] = 0]
    /\ begun' = [begun EXCEPT ![cursor] = @ - 1]
    /\ ReleaseData(Main)
    /\ cursor' = cursor + 1
    /\ Goto(Main, "late_try")
    /\ UNCHANGED <<phase, is_finalized, crashed, start_arg, cleanup_arg, result, late, joined,
                   poolVars, argVars>>

(* mutant: the last location is not looked at                              *)
AllVisitedTooEarly == cursor >= locations
AllVisited == cursor > locations

InParallel == ~is_finalized /\ active_locations > 1

(* SCOREP_Location_FinalizeLocations insists on being alone; then the      *)
(* subsystems are finalised.                                               *)
FinalizeSubsystems ==
    /\ At(Main, "late_try") /\ AllVisited
    /\ IF InParallel THEN Crash("not alone") /\ UNCHANGED is_finalized
                     ELSE is_finalized' = TRUE /\ UNCHANGED crashed
    /\ Goto(Main, "finished")
    /\ UNCHANGED <<phase, cursor, terminate, start_arg, cleanup_arg, result, late,
                   joined, poolVars, dataVars, eventVars, argVars>>

-----------------------------------------------------------------------------
Begin(t) == InitThread(t) \/ BeginEvent(t)
Execute(t) == Record(t) \/ Return(t) \/ ReturnOutside(t) \/ OrphanEnds(t)
              \/ PthreadExit(t) \/ PthreadExitOutside(t) \/ ActOnCancel(t)
End(t) == CleanupTest(t) \/ TryTerminate(t) \/ EndThread(t)
          \/ LinkArg(t) \/ PutArg(t) \/ ClearArg(t) \/ KeepArg(t)
Finalize == LeaveMeasurement \/ LateTryTerminate \/ LateEnd \/ FinalizeSubsystems

Next ==
    \/ Finalize
    \/ \E t \in Threads, u \in Workers : Create(t, u) \/ JoinCanceled(t, u) \/ JoinWithin(t, u)
    \/ \E t \in Others : OrphanAppears(t) \/ Begin(t) \/ Execute(t) \/ End(t)

Spec == Init /\ [][Next]_vars

-----------------------------------------------------------------------------
(* Properties.                                                             *)

Labels == {"unborn", "start", "begin", "run", "cleanup", "try",
           "end", "tail", "put", "clear", "finished",
           "late_try", "late_end"}
Results == {None} \cup ({"value", "PTHREAD_CANCELED"} \X Workers)
           \cup ({"wrapped_arg"} \X ArgIds)

TypeOK ==
    /\ phase \in {"WITHIN", "POST"} /\ is_finalized \in BOOLEAN
    /\ crashed \in {None, "exited twice", "no wrapped_arg", "not a wrapped_arg",
                    "terminate after finalize", "not alone"}
    /\ pc \in [Threads -> Labels]
    /\ loc \in [Threads -> LocationIds \cup {0}]
    /\ terminate \in [Threads -> DataIds \cup {0}]
    /\ start_arg \in [Workers -> ArgIds \cup {0}]
    /\ cleanup_arg \in [Workers -> ArgIds \cup {0}]
    /\ result \in [Workers -> Results]
    /\ late \subseteq Others
    /\ joined \in [Workers -> Workers \cup {None, "PTHREAD_CANCELED"}]
    /\ locations \in LocationIds
    /\ subsystem_data \in [LocationIds -> DataIds \cup {0}]
    /\ active_locations \in 0 .. Cardinality(Others)
    /\ data_allocated \in DataIds \cup {0}
    /\ subsystem_data_free_list \in Seq(DataIds)
    /\ tpd_reuse_key \in [LocationIds -> Keys \cup {None}]
    /\ tpd_reuse_pool \in [Keys -> Seq(LocationIds)]
    /\ cursor \in 1 .. Cardinality(Others) + 2
    /\ depth \in [LocationIds -> 0 .. MaxDepth + 1]
    /\ begun \in [LocationIds -> {-1, 0, 1}]
    /\ args \in [ArgIds -> [next : ArgIds \cup {0}, detached : BOOLEAN, cancelled : BOOLEAN,
                            exited : BOOLEAN, orig_ret_val : Workers \cup {None}]]
    /\ args_allocated \in ArgIds \cup {0}
    /\ wrapped_arg \in [LocationIds -> ArgIds \cup {0}]
    /\ free_list \in [LocationIds -> ArgIds \cup {0}]

Owning == {"begin", "run", "cleanup", "try", "end"}
Pooled(l) == \E k \in Keys : l \in Range(tpd_reuse_pool[k])

(* A location belongs to one thread at a time: threads that run at the     *)
(* same time never record on the same location, and a location in a reuse  *)
(* pool is in one place of one pool and belongs to nobody.                 *)
LocationOwnedOnce ==
    /\ \A t, u \in Others : t # u /\ pc[t] \in Owning /\ pc[u] \in Owning => loc[t] # loc[u]
    /\ \A t \in Others : pc[t] \in Owning => ~Pooled(loc[t])
    /\ \A k \in Keys : \A i, j \in DOMAIN tpd_reuse_pool[k] :
          tpd_reuse_pool[k][i] = tpd_reuse_pool[k][j] => i = j
    /\ \A j, k \in Keys : j # k => Range(tpd_reuse_pool[j]) \cap Range(tpd_reuse_pool[k]) = {}

(* What a thread hands to the next one: a location in a reuse pool has no  *)
(* region open, has recorded the end of every thread that began on it, and *)
(* cannot be terminated a second time.                                     *)
PooledIsClosed ==
    \A l \in LocationIds : Pooled(l) =>
      depth[l] = 0 /\ begun[l] = 0 /\ subsystem_data[l] = 0

(* The threads' own ends and those the finalising thread writes for them   *)
(* exclude each other: between two begins of a location there is one end.  *)
(* A thread that is about to begin may be ended before.                    *)
EndsFollowBegins ==
    \A l \in LocationIds :
      begun[l] \in (IF \E t \in Others : loc[t] = l /\ pc[t] = "begin" THEN {-1, 0} ELSE {0, 1})

(* active_locations counts the subsystem data in use, whichever thread     *)
(* releases it; no data is released twice, lost, or used by two locations. *)
DataConserved ==
    LET free == Range(subsystem_data_free_list)
        used == ({subsystem_data[l] : l \in LocationIds} \cup {terminate[t] : t \in Threads})
                \ {0}
    IN
    /\ Cardinality(free) = Len(subsystem_data_free_list)
    /\ free \cap used = {} /\ free \cup used = 1 .. data_allocated
    /\ active_locations = Cardinality(used)
    /\ \A l, m \in LocationIds : l # m /\ subsystem_data[l] # 0
          => subsystem_data[l] # subsystem_data[m]
    /\ \A l \in LocationIds, t \in Threads : terminate[t] # 0 => subsystem_data[l] # terminate[t]

(* "Create-wait threads might still be active": when the subsystems are    *)
(* finalised, every thread that began within the measurement and is still  *)
(* running has had its end recorded.                                       *)
LatecomersEnded ==
    is_finalized =>
      \A t \in Others \ late : pc[t] \in {"run", "cleanup"} =>
        subsystem_data[loc[t]] = 0

(* pthread_join gives the application what the thread returned, although   *)
(* the thread returns a wrapper that is recycled, or its own value when it *)
(* ends after the measurement: no thread misses its wrapped_arg, meets the *)
(* assertion of pthread_exit, or takes a value for a wrapped_arg.          *)
JoinDeliversValue ==
    /\ crashed \in {None, "terminate after finalize", "not alone"}
    /\ \A u \in Workers : joined[u] # None =>
         joined[u] = IF result[u][1] = "PTHREAD_CANCELED" THEN "PTHREAD_CANCELED" ELSE u

FreeArgs(l) ==
    LET from[n \in 0 .. Cardinality(ArgIds), a \in ArgIds \cup {0}] ==
          IF a = 0 \/ n = 0 THEN {} ELSE {a} \cup from[n - 1, args[a].next]
    IN from[Cardinality(ArgIds), free_list[l]]

(* A wrapped_arg in a free list is in no other one, and no thread still    *)
(* starts with it, runs with it or waits to be joined with it.             *)
ArgsOwnedOnce ==
    /\ \A l, m \in LocationIds : l # m => FreeArgs(l) \cap FreeArgs(m) = {}
    /\ \A u \in Workers : \A l \in LocationIds :
          \/ pc[u] \in {"start", "begin", "run", "cleanup", "try",
                        "end", "tail", "put"}
          \/ pc[u] = "finished" /\ joined[u] = None /\ result[u] = <<"wrapped_arg", start_arg[u]>>
             /\ ~args[start_arg[u]].detached
          => start_arg[u] \notin FreeArgs(l)

(* A location and a wrapped_arg have at most one user at a time, whichever *)
(* order threads end, are joined and begin in                              *)
(* (scorep_thread_create_wait_pthread.c, scorep_pthread_event.c).          *)
OwnedOnce == TypeOK /\ LocationOwnedOnce /\ ArgsOwnedOnce
=============================================================================
