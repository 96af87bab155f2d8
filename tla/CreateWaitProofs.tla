-------------------------- MODULE CreateWaitProofs --------------------------
(***************************************************************************)
(* Proofs about CreateWait: who owns a location, its subsystem data and    *)
(* its begin and end events, for any number of threads, every reuse policy *)
(* and every way a thread may end.                                         *)
(***************************************************************************)
EXTENDS CreateWait, ListLemmas, FiniteSetTheorems

-----------------------------------------------------------------------------
(* The inductive invariant.                                                *)

BegunThreads == {t \in Others : pc[t] \notin {"unborn", "start"}}
Pools == UNION {Range(tpd_reuse_pool[k]) : k \in Keys}

(* Only the main thread ends latecomers, and it does nothing but that once *)
(* it has left the measurement.                                            *)
ThreadsOK ==
  /\ pc \in [Threads -> Labels]
  /\ loc \in [Threads -> LocationIds \cup {0}]
  /\ pc[Main] \in {"run", "late_try", "late_end", "finished"}
  /\ \A t \in Others : pc[t] \notin {"late_try", "late_end"}

(* There are no more locations than threads have begun; the locations that *)
(* threads own and those in the pools are some of them.                    *)
LocationsOK ==
  /\ locations \in 1 .. Cardinality(BegunThreads) + 1
  /\ tpd_reuse_key \in [LocationIds -> Keys \cup {None}]
  /\ tpd_reuse_pool \in [Keys -> Seq(LocationIds)]
  /\ \A t \in Others : pc[t] \in Owning => loc[t] \in 1 .. locations
  /\ Pools \subseteq 1 .. locations
  /\ LocationOwnedOnce

Free == Range(subsystem_data_free_list)
Used == ({subsystem_data[l] : l \in LocationIds} \cup {terminate[t] : t \in Threads}) \ {0}

(* Subsystem data is held by one location or by one thread that is about   *)
(* to release it, or lies in the free list.                                *)
HeldOnce ==
  /\ \A l, m \in LocationIds : l # m /\ subsystem_data[l] # 0 => subsystem_data[l] # subsystem_data[m]
  /\ \A t, u \in Threads : t # u /\ terminate[t] # 0 => terminate[t] # terminate[u]
  /\ \A l \in LocationIds, t \in Threads : terminate[t] # 0 => subsystem_data[l] # terminate[t]

DataOK ==
  /\ subsystem_data \in [LocationIds -> Nat]
  /\ terminate \in [Threads -> Nat]
  /\ data_allocated \in Nat
  /\ subsystem_data_free_list \in Seq(Nat)
  /\ IsInjective(subsystem_data_free_list)
  /\ Free \cap Used = {}
  /\ Free \cup Used = 1 .. data_allocated
  /\ active_locations = Cardinality(Used)
  /\ HeldOnce
  /\ \A t \in Others : terminate[t] # 0 <=> pc[t] = "end"
  /\ terminate[Main] # 0 <=> pc[Main] = "late_end"

(* A location whose end event is still to be recorded: it can be           *)
(* terminated, or one thread is about to record the event.                 *)
Terminable(l) == subsystem_data[l] # 0
EndedLate(l) == pc[Main] = "late_end" /\ cursor = l
EndedBy(t, l) == pc[t] = "end" /\ loc[t] = l
EndDue(l) == Terminable(l) \/ EndedLate(l) \/ \E t \in Others : EndedBy(t, l)
BeginDue(l) == \E t \in Others : pc[t] = "begin" /\ loc[t] = l

EventsOK ==
  /\ begun \in [LocationIds -> Int]
  /\ cursor \in Nat \ {0}
  /\ \A l \in LocationIds :
       /\ EndDue(l) => l <= locations /\ l \notin Pools
       /\ Terminable(l) => ~EndedLate(l)
       /\ \A t \in Others : EndedBy(t, l) => ~Terminable(l) /\ ~EndedLate(l)
       /\ begun[l] = (IF EndDue(l) THEN 1 ELSE 0) - (IF BeginDue(l) THEN 1 ELSE 0)
  /\ pc[Main] = "late_end" => cursor <= locations

(* What end_latecomer has done with the locations it has been to.          *)
LateOK ==
  /\ phase = "WITHIN" <=> pc[Main] = "run"
  /\ phase = "WITHIN" => cursor = 1 /\ ~is_finalized
  /\ is_finalized \in BOOLEAN
  /\ \A t \in Others \ late : pc[t] \in Owning /\ (loc[t] < cursor \/ is_finalized) =>
       ~Terminable(loc[t])

CreateWaitIInv == ThreadsOK /\ LocationsOK /\ DataOK /\ EventsOK /\ LateOK

-----------------------------------------------------------------------------
(* What a step leaves alone.                                               *)

(* A thread that goes on to another label.                                 *)
LEMMA Moved ==
  ASSUME ThreadsOK, NEW t \in Threads, NEW label \in Labels, Goto(t, label)
  PROVE  /\ pc' \in [Threads -> Labels] /\ loc' \in [Threads -> LocationIds \cup {0}]
         /\ pc'[t] = label
         /\ \A u \in Threads : u # t => pc'[u] = pc[u] /\ loc'[u] = loc[u]
         /\ label # "finished" => loc' = loc
<1>1. pc' = [pc EXCEPT ![t] = label] /\ pc \in [Threads -> Labels]
  BY DEF ThreadsOK, Goto
<1>2. loc' = (IF label = "finished" THEN [loc EXCEPT ![t] = 0] ELSE loc)
      /\ loc \in [Threads -> LocationIds \cup {0}]
  BY DEF ThreadsOK, Goto
<1> QED BY <1>1, <1>2

(* The owners of the locations: nobody becomes one, no pool changes.       *)
LEMMA LocationsKept ==
  ASSUME LocationsOK, UNCHANGED poolVars,
         \A u \in Others : pc'[u] \in Owning => pc[u] \in Owning /\ loc'[u] = loc[u],
         \A u \in Others : pc'[u] \in {"unborn", "start"} <=> pc[u] \in {"unborn", "start"}
  PROVE  LocationsOK' /\ Pools' = Pools
<1>1. UNCHANGED <<locations, tpd_reuse_key, tpd_reuse_pool>>
  BY DEF poolVars
<1>2. BegunThreads' = BegunThreads
  BY DEF BegunThreads
<1>3. Pools' = Pools
  BY <1>1 DEF Pools
<1>4. LocationOwnedOnce'
  BY <1>1 DEF LocationsOK, LocationOwnedOnce, Pooled
<1> QED BY <1>1, <1>2, <1>3, <1>4 DEF LocationsOK

(* The subsystem data: none changes hands.                                 *)
LEMMA DataKept ==
  ASSUME DataOK, UNCHANGED <<dataVars, terminate>>,
         \A u \in Others : pc'[u] = "end" <=> pc[u] = "end",
         pc'[Main] = "late_end" <=> pc[Main] = "late_end"
  PROVE  DataOK'
<1>1. UNCHANGED <<subsystem_data, active_locations, data_allocated, subsystem_data_free_list, terminate>>
  BY DEF dataVars
<1>2. Free' = Free /\ Used' = Used
  BY <1>1 DEF Free, Used
<1>3. HeldOnce'
  BY <1>1 DEF DataOK, HeldOnce
<1> QED BY <1>1, <1>2, <1>3 DEF DataOK

(* The events: none is recorded, none becomes due.                         *)
LEMMA EventsKept ==
  ASSUME EventsOK, UNCHANGED <<subsystem_data, begun, locations>>, Pools' = Pools,
         \A u \in Others : pc'[u] = "end" <=> pc[u] = "end",
         \A u \in Others : pc'[u] = "begin" <=> pc[u] = "begin",
         \A u \in Others : pc[u] \in {"begin", "end"} => loc'[u] = loc[u],
         pc'[Main] = "late_end" <=> pc[Main] = "late_end",
         cursor' \in Nat \ {0}, pc[Main] = "late_end" => cursor' = cursor
  PROVE  EventsOK'
<1>1. ASSUME NEW l \in LocationIds
      PROVE  /\ Terminable(l)' = Terminable(l) /\ EndedLate(l)' = EndedLate(l)
             /\ \A t \in Others : EndedBy(t, l)' = EndedBy(t, l)
             /\ EndDue(l)' = EndDue(l) /\ BeginDue(l)' = BeginDue(l)
  <2>1. Terminable(l)' = Terminable(l)
    BY DEF Terminable
  <2>2. EndedLate(l)' = EndedLate(l)
    BY DEF EndedLate
  <2>3. \A t \in Others : EndedBy(t, l)' = EndedBy(t, l)
    BY DEF EndedBy
  <2>4. EndDue(l)' = EndDue(l)
    BY <2>1, <2>2, <2>3 DEF EndDue
  <2>5. BeginDue(l)' = BeginDue(l)
    BY DEF BeginDue
  <2> QED BY <2>1, <2>2, <2>3, <2>4, <2>5
<1>2. begun' \in [LocationIds -> Int] /\ (pc'[Main] = "late_end" => cursor' <= locations')
  BY DEF EventsOK
<1>3. ASSUME NEW l \in LocationIds
      PROVE  /\ EndDue(l)' => l <= locations' /\ l \notin Pools'
             /\ Terminable(l)' => ~EndedLate(l)'
             /\ \A t \in Others : EndedBy(t, l)' => ~Terminable(l)' /\ ~EndedLate(l)'
             /\ begun'[l] = (IF EndDue(l)' THEN 1 ELSE 0) - (IF BeginDue(l)' THEN 1 ELSE 0)
  BY <1>1 DEF EventsOK
<1> QED BY <1>2, <1>3 DEF EventsOK

(* The latecomers: the finalising thread does not go on to another         *)
(* location, and no location gets subsystem data.                          *)
LEMMA LateKept ==
  ASSUME LateOK, UNCHANGED <<phase, is_finalized, cursor, late>>,
         \A u \in Others : pc'[u] \in Owning =>
           pc[u] \in Owning /\ loc'[u] = loc[u] /\ (Terminable(loc[u])' => Terminable(loc[u])),
         pc'[Main] = "run" <=> pc[Main] = "run"
  PROVE  LateOK'
BY DEF LateOK, Terminable

(* What the invariant is about.                                            *)
ownershipVars ==
  <<pc, loc, late, terminate, phase, is_finalized, cursor, poolVars, dataVars, begun>>

(* A step that leaves all of these alone preserves the invariant.          *)
LEMMA NothingOwnedChanges ==
  ASSUME CreateWaitIInv, UNCHANGED ownershipVars
  PROVE  CreateWaitIInv'
<1>1. /\ UNCHANGED <<pc, loc, late, terminate, phase, is_finalized, cursor, poolVars, dataVars, begun>>
      /\ UNCHANGED <<subsystem_data, locations>>
  BY DEF ownershipVars, poolVars, dataVars
<1>2. ThreadsOK' /\ LateOK'
  BY <1>1 DEF CreateWaitIInv, ThreadsOK, LateOK, Terminable
<1>3. LocationsOK' /\ Pools' = Pools
  BY <1>1, LocationsKept DEF CreateWaitIInv
<1>4. DataOK'
  BY <1>1, DataKept DEF CreateWaitIInv
<1>5. EventsOK'
  BY <1>1, <1>3, EventsKept DEF CreateWaitIInv, EventsOK
<1> QED BY <1>2, <1>3, <1>4, <1>5 DEF CreateWaitIInv

(* A thread goes on without recording its begin or end, and without        *)
(* becoming the owner of a location.                                       *)
LEMMA ThreadGoesOn ==
  ASSUME ThreadsAssumption, CreateWaitIInv, NEW t \in Others, NEW label \in Labels, Goto(t, label),
         label \notin {"begin", "end", "late_try", "late_end"}, pc[t] \notin {"begin", "end"},
         label \in Owning => pc[t] \in Owning,
         label \in {"unborn", "start"} <=> pc[t] \in {"unborn", "start"},
         UNCHANGED <<late, terminate, phase, is_finalized, cursor, poolVars, dataVars, begun>>
  PROVE  CreateWaitIInv'
<1>1. ThreadsOK /\ LocationsOK /\ DataOK /\ EventsOK /\ LateOK
  BY DEF CreateWaitIInv
<1>2. t \in Threads /\ t # Main /\ Main \in Threads
  BY DEF ThreadsAssumption, Threads
<1>3. /\ pc' \in [Threads -> Labels] /\ loc' \in [Threads -> LocationIds \cup {0}]
      /\ pc'[t] = label
      /\ \A u \in Threads : u # t => pc'[u] = pc[u] /\ loc'[u] = loc[u]
      /\ label # "finished" => loc' = loc
  BY <1>1, <1>2, Moved
<1>4. pc'[Main] = pc[Main] /\ \A u \in Others : u # t => pc'[u] = pc[u] /\ loc'[u] = loc[u]
  BY <1>2, <1>3 DEF Threads
<1>5. \A u \in Others : pc'[u] \in Owning => pc[u] \in Owning /\ loc'[u] = loc[u]
  BY <1>3, <1>4 DEF Owning
<1>6. ThreadsOK'
  BY <1>1, <1>3, <1>4 DEF ThreadsOK
<1>7. LocationsOK' /\ Pools' = Pools
  BY <1>1, <1>3, <1>4, <1>5, LocationsKept
<1>8. DataOK'
  BY <1>1, <1>3, <1>4, DataKept
<1>9. UNCHANGED <<subsystem_data, begun, locations, cursor>>
  BY DEF poolVars, dataVars
<1>10. EventsOK'
  <2>1. \A u \in Others : pc'[u] = "end" <=> pc[u] = "end"
    BY <1>3, <1>4
  <2>2. \A u \in Others : pc'[u] = "begin" <=> pc[u] = "begin"
    BY <1>3, <1>4
  <2>3. \A u \in Others : pc[u] \in {"begin", "end"} => loc'[u] = loc[u]
    BY <1>3, <1>4
  <2>4. cursor' \in Nat \ {0}
    BY <1>1, <1>9 DEF EventsOK
  <2> QED BY <1>1, <1>4, <1>7, <1>9, <2>1, <2>2, <2>3, <2>4, EventsKept
<1>11. LateOK'
  <2>1. \A u \in Others : pc'[u] \in Owning =>
           pc[u] \in Owning /\ loc'[u] = loc[u] /\ (Terminable(loc[u])' => Terminable(loc[u]))
    BY <1>5, <1>9 DEF Terminable
  <2> QED BY <1>1, <1>4, <1>9, <2>1, LateKept
<1> QED BY <1>6, <1>7, <1>8, <1>10, <1>11 DEF CreateWaitIInv

-----------------------------------------------------------------------------
(* Subsystem data changes hands.                                           *)

(* The caller of SCOREP_ThreadCreateWait_TryTerminate gets it.             *)
LEMMA DataTaken ==
  ASSUME ThreadsAssumption, ThreadsOK, DataOK, NEW t \in Threads, NEW l \in LocationIds,
         terminate[t] = 0, subsystem_data[l] # 0,
         terminate' = [terminate EXCEPT ![t] = subsystem_data[l]],
         subsystem_data' = [subsystem_data EXCEPT ![l] = 0],
         UNCHANGED <<active_locations, data_allocated, subsystem_data_free_list>>,
         \A u \in Threads : u # t => pc'[u] = pc[u],
         t # Main => pc'[t] = "end", t = Main => pc'[t] = "late_end"
  PROVE  DataOK'
<1>1. /\ subsystem_data \in [LocationIds -> Nat] /\ terminate \in [Threads -> Nat]
      /\ terminate'[t] = subsystem_data[l] /\ subsystem_data'[l] = 0
      /\ \A u \in Threads : u # t => terminate'[u] = terminate[u]
      /\ \A m \in LocationIds : m # l => subsystem_data'[m] = subsystem_data[m]
  BY DEF DataOK
<1>2. subsystem_data' \in [LocationIds -> Nat] /\ terminate' \in [Threads -> Nat]
  BY <1>1
<1>3. Used' = Used
  <2>1. ASSUME NEW d, d # 0
        PROVE  (\E m \in LocationIds : subsystem_data'[m] = d) \/ (\E u \in Threads : terminate'[u] = d)
               <=> (\E m \in LocationIds : subsystem_data[m] = d) \/ (\E u \in Threads : terminate[u] = d)
    BY <1>1, <2>1
  <2> QED BY <2>1 DEF Used
<1>4. Free' = Free
  BY DEF Free
<1>5. HeldOnce'
  BY <1>1 DEF DataOK, HeldOnce
<1>6. Main \in Threads /\ Others \subseteq Threads /\ Main \notin Others
  BY DEF Threads, ThreadsAssumption
<1>7. /\ \A u \in Others : terminate'[u] # 0 <=> pc'[u] = "end"
      /\ terminate'[Main] # 0 <=> pc'[Main] = "late_end"
  BY <1>1, <1>6 DEF DataOK
<1> QED BY <1>2, <1>3, <1>4, <1>5, <1>7 DEF DataOK

(* The thread that has recorded the end gives it back.                     *)
LEMMA DataReleased ==
  ASSUME ThreadsAssumption, ThreadsOK, DataOK, NEW t \in Threads, terminate[t] # 0,
         ReleaseData(t),
         \A u \in Threads : u # t => pc'[u] = pc[u],
         pc'[t] \notin {"end", "late_end"}
  PROVE  DataOK'
<1> DEFINE d == terminate[t]
<1>1. /\ subsystem_data \in [LocationIds -> Nat] /\ terminate \in [Threads -> Nat]
      /\ UNCHANGED subsystem_data /\ UNCHANGED data_allocated
      /\ active_locations' = active_locations - 1
      /\ subsystem_data_free_list' = <<d>> \o subsystem_data_free_list
      /\ terminate'[t] = 0
      /\ \A u \in Threads : u # t => terminate'[u] = terminate[u]
  BY DEF DataOK, ReleaseData
<1>2. terminate' \in [Threads -> Nat]
  BY <1>1 DEF ReleaseData
<1>3. d \in Used /\ d \in Nat
  BY <1>1 DEF Used
<1>4. Used' = Used \ {d}
  <2>1. (\A m \in LocationIds : subsystem_data[m] # d) /\ (\A u \in Threads : u # t => terminate[u] # d)
    BY DEF DataOK, HeldOnce
  <2>2. ASSUME NEW e \in Used' PROVE e \in Used /\ e # d
    <3>1. e # 0 /\ ((\E m \in LocationIds : subsystem_data[m] = e) \/ (\E u \in Threads : terminate'[u] = e))
      BY <1>1, <2>2 DEF Used
    <3> QED BY <1>1, <2>1, <3>1 DEF Used
  <2>3. ASSUME NEW e \in Used, e # d PROVE e \in Used'
    <3>1. e # 0 /\ ((\E m \in LocationIds : subsystem_data[m] = e) \/ (\E u \in Threads \ {t} : terminate[u] = e))
      BY <2>3 DEF Used
    <3> QED BY <1>1, <3>1 DEF Used
  <2> QED BY <1>3, <2>2, <2>3
<1>5. d \notin Free
  BY <1>3 DEF DataOK
<1>6. /\ subsystem_data_free_list' \in Seq(Nat)
      /\ Free' = {d} \cup Free /\ IsInjective(subsystem_data_free_list)'
  <2>1. /\ subsystem_data_free_list \in Seq(Nat) /\ IsInjective(subsystem_data_free_list)
        /\ d \notin Range(subsystem_data_free_list)
    BY <1>5 DEF DataOK, Free
  <2>2. /\ <<d>> \o subsystem_data_free_list \in Seq(Nat)
        /\ Range(<<d>> \o subsystem_data_free_list) = {d} \cup Range(subsystem_data_free_list)
        /\ IsInjective(<<d>> \o subsystem_data_free_list)
    BY <1>3, <2>1, Prepend
  <2> QED BY <1>1, <2>2 DEF Free, IsInjective
<1>7. active_locations' = Cardinality(Used')
  <2>0. data_allocated \in Int
    BY DEF DataOK
  <2>1. IsFiniteSet(1 .. data_allocated)
    BY <2>0, FS_Interval
  <2>2. IsFiniteSet(Used)
    BY <2>1, FS_Subset DEF DataOK
  <2> QED BY <1>1, <1>3, <1>4, <2>2, FS_RemoveElement DEF DataOK
<1>8. Free' \cap Used' = {} /\ Free' \cup Used' = 1 .. data_allocated'
  BY <1>1, <1>3, <1>4, <1>6 DEF DataOK
<1>9. HeldOnce'
  <2>1. \A u \in Threads : terminate'[u] # 0 => u # t /\ terminate'[u] = terminate[u]
    BY <1>1
  <2> QED BY <1>1, <2>1 DEF DataOK, HeldOnce
<1>10. Main \in Threads /\ Others \subseteq Threads /\ Main \notin Others
  BY DEF Threads, ThreadsAssumption
<1>11. /\ \A u \in Others : terminate'[u] # 0 <=> pc'[u] = "end"
       /\ terminate'[Main] # 0 <=> pc'[Main] = "late_end"
  BY <1>1, <1>10 DEF DataOK
<1> QED BY <1>1, <1>2, <1>6, <1>7, <1>8, <1>9, <1>11 DEF DataOK

(* A thread that begins gets some for its location, which has none.        *)
LEMMA DataObtained ==
  ASSUME ThreadsAssumption, ThreadsOK, DataOK, NEW l \in LocationIds, subsystem_data[l] = 0, NEW d,
         d = IF subsystem_data_free_list # << >> THEN Head(subsystem_data_free_list)
                                               ELSE data_allocated + 1,
         subsystem_data' = [subsystem_data EXCEPT ![l] = d],
         data_allocated' = IF subsystem_data_free_list # << >> THEN data_allocated ELSE d,
         subsystem_data_free_list' = IF subsystem_data_free_list # << >>
                                     THEN Tail(subsystem_data_free_list) ELSE subsystem_data_free_list,
         active_locations' = active_locations + 1, UNCHANGED terminate,
         \A u \in Others : pc'[u] = "end" <=> pc[u] = "end",
         pc'[Main] = "late_end" <=> pc[Main] = "late_end"
  PROVE  DataOK' /\ subsystem_data'[l] # 0
<1>1. /\ d \in Nat /\ d # 0 /\ d \notin Used
      /\ data_allocated' \in Nat
      /\ subsystem_data_free_list' \in Seq(Nat) /\ IsInjective(subsystem_data_free_list)'
      /\ Free' \cap (Used \cup {d}) = {}
      /\ Free' \cup (Used \cup {d}) = 1 .. data_allocated'
  <2>1. CASE subsystem_data_free_list # << >>
    <3>1. /\ Tail(subsystem_data_free_list) \in Seq(Nat) /\ d \in Free
          /\ IsInjective(Tail(subsystem_data_free_list))
          /\ Range(Tail(subsystem_data_free_list)) = Free \ {d}
      BY <2>1, WithoutHead DEF DataOK, Free
    <3>2. subsystem_data_free_list' = Tail(subsystem_data_free_list) /\ data_allocated' = data_allocated
      BY <2>1
    <3>3. Free' = Free \ {d}
      BY <3>1, <3>2 DEF Free
    <3>4. d \in 1 .. data_allocated /\ data_allocated \in Nat
      BY <3>1 DEF DataOK
    <3>5. d \notin Used
      BY <3>1 DEF DataOK
    <3>6. IsInjective(subsystem_data_free_list)'
      BY <3>1, <3>2 DEF IsInjective
    <3> QED BY <3>1, <3>2, <3>3, <3>4, <3>5, <3>6 DEF DataOK
  <2>2. CASE subsystem_data_free_list = << >>
    <3>1. /\ UNCHANGED subsystem_data_free_list /\ d = data_allocated + 1 /\ data_allocated' = d
          /\ data_allocated \in Nat
      BY <2>2 DEF DataOK
    <3>2. Free' = Free
      BY <3>1 DEF Free
    <3>3. IsInjective(subsystem_data_free_list)'
      BY <3>1 DEF DataOK, IsInjective
    <3>4. Free \cup Used = 1 .. data_allocated /\ Free \cap Used = {}
      BY DEF DataOK
    <3>5. d \notin 1 .. data_allocated /\ 1 .. data_allocated' = 1 .. data_allocated \cup {d}
      BY <3>1
    <3> QED BY <3>1, <3>2, <3>3, <3>4, <3>5 DEF DataOK
  <2> QED BY <2>1, <2>2
<1>2. /\ subsystem_data' \in [LocationIds -> Nat] /\ subsystem_data'[l] = d
      /\ \A m \in LocationIds : m # l => subsystem_data'[m] = subsystem_data[m]
  BY <1>1 DEF DataOK
<1>3. Used' = Used \cup {d}
  <2>1. ASSUME NEW e \in Used' PROVE e \in Used \cup {d}
    BY <1>2, <2>1 DEF Used
  <2>2. ASSUME NEW e \in Used PROVE e \in Used'
    BY <1>2, <2>2 DEF Used
  <2>3. d \in Used'
    BY <1>1, <1>2 DEF Used
  <2> QED BY <2>1, <2>2, <2>3
<1>4. active_locations' = Cardinality(Used')
  <2>0. data_allocated \in Int
    BY DEF DataOK
  <2>1. IsFiniteSet(1 .. data_allocated)
    BY <2>0, FS_Interval
  <2>2. IsFiniteSet(Used)
    BY <2>1, FS_Subset DEF DataOK
  <2> QED BY <1>1, <1>3, <2>2, FS_AddElement DEF DataOK
<1>5. HeldOnce'
  <2>1. \A m \in LocationIds : subsystem_data[m] # d
    BY <1>1 DEF Used
  <2>2. \A u \in Threads : terminate[u] # d
    BY <1>1 DEF Used
  <2> QED BY <1>2, <2>1, <2>2 DEF DataOK, HeldOnce
<1>6. /\ \A u \in Others : terminate'[u] # 0 <=> pc'[u] = "end"
      /\ terminate'[Main] # 0 <=> pc'[Main] = "late_end"
  BY DEF DataOK
<1>7. terminate' \in [Threads -> Nat]
  BY DEF DataOK
<1> QED BY <1>1, <1>2, <1>3, <1>4, <1>5, <1>6, <1>7 DEF DataOK

(* A list without duplicates is as long as it has elements.                *)
LEMMA LengthOfInjective ==
  ASSUME NEW S, NEW s \in Seq(S), IsInjective(s)
  PROVE  Cardinality(Range(s)) = Len(s)
<1>1. Len(s) \in Nat /\ DOMAIN s = 1 .. Len(s) /\ s \in [1 .. Len(s) -> S]
  BY LenProperties
<1>2. Range(s) = {s[i] : i \in 1 .. Len(s)}
  BY <1>1 DEF Range
<1>3. s \in Bijection(1 .. Len(s), Range(s))
  BY <1>1, <1>2 DEF IsInjective, Bijection, Injection, Surjection
<1>4. ExistsBijection(1 .. Len(s), Range(s))
  BY <1>3 DEF ExistsBijection
<1>5. IsFiniteSet(1 .. Len(s)) /\ Cardinality(1 .. Len(s)) = Len(s)
  BY <1>1, FS_Interval
<1> QED BY <1>4, <1>5, FS_Bijection

-----------------------------------------------------------------------------
(* Locations change hands.                                                 *)

(* There are numbers for as many locations as threads may need.            *)
LEMMA LocationNumbers ==
  ASSUME ThreadsAssumption, LocationsOK
  PROVE  LocationIds \subseteq Nat \ {0} /\ locations \in LocationIds
<1>1. /\ IsFiniteSet(Others) /\ IsFiniteSet(BegunThreads) /\ BegunThreads \in SUBSET Others
      /\ Cardinality(BegunThreads) <= Cardinality(Others)
  BY FS_Subset DEF ThreadsAssumption, BegunThreads
<1>2. Cardinality(BegunThreads) \in Nat /\ Cardinality(Others) \in Nat
  BY <1>1, FS_CardinalityType
<1> QED BY <1>1, <1>2 DEF LocationIds, LocationsOK

(* A thread's location is one of them.                                     *)
LEMMA LocationOfOwner ==
  ASSUME ThreadsOK, LocationsOK, NEW t \in Others, pc[t] \in Owning
  PROVE  loc[t] \in LocationIds
<1>1. loc[t] \in 1 .. locations
  BY DEF LocationsOK
<1>2. loc[t] \in LocationIds \cup {0} /\ loc[t] # 0
  BY <1>1 DEF ThreadsOK, Threads
<1> QED BY <1>2

(* What the invariant says about one pool.                                 *)
LEMMA PoolsOfKeys ==
  ASSUME LocationsOK, NEW k \in Keys
  PROVE  /\ tpd_reuse_pool[k] \in Seq(LocationIds) /\ IsInjective(tpd_reuse_pool[k])
         /\ Range(tpd_reuse_pool[k]) \subseteq Pools
         /\ \A j \in Keys : j # k => Range(tpd_reuse_pool[j]) \cap Range(tpd_reuse_pool[k]) = {}
<1>1. tpd_reuse_pool[k] \in Seq(LocationIds)
  BY DEF LocationsOK
<1>2. IsInjective(tpd_reuse_pool[k])
  BY DEF LocationsOK, LocationOwnedOnce, IsInjective
<1>3. Range(tpd_reuse_pool[k]) \subseteq Pools
  BY DEF Pools
<1>4. \A j \in Keys : j # k => Range(tpd_reuse_pool[j]) \cap Range(tpd_reuse_pool[k]) = {}
  BY DEF LocationsOK, LocationOwnedOnce
<1> QED BY <1>1, <1>2, <1>3, <1>4

(* A thread that begins gets a location that is its own: one that was in a *)
(* pool and is in none now, or a new one.                                  *)
LEMMA LocationObtained ==
  ASSUME ThreadsAssumption, CreateWaitIInv, NEW t \in Others, InitThread(t)
  PROVE  /\ LocationsOK'
         /\ Pools' \subseteq Pools /\ locations <= locations'
         /\ loc'[t] \in LocationIds /\ loc'[t] <= locations' /\ loc'[t] \notin Pools'
         /\ loc'[t] \in Pools \/ loc'[t] > locations
         /\ \A u \in Others : pc[u] \in Owning => loc[u] # loc'[t]
<1> DEFINE key == ReuseKey(t)
           reuse == key # None /\ tpd_reuse_pool[key] # << >>
           l == IF reuse THEN Head(tpd_reuse_pool[key]) ELSE locations + 1
<1>1. /\ tpd_reuse_pool' = IF reuse THEN [tpd_reuse_pool EXCEPT ![key] = Tail(@)] ELSE tpd_reuse_pool
      /\ locations' = IF reuse THEN locations ELSE l
      /\ tpd_reuse_key' = [tpd_reuse_key EXCEPT ![l] = key]
      /\ loc' = [loc EXCEPT ![t] = l] /\ pc' = [pc EXCEPT ![t] = "begin"] /\ pc[t] = "start"
  BY DEF InitThread, PoolWithoutFirst, At
<1>2. ThreadsOK /\ LocationsOK /\ t \in Threads
  BY DEF CreateWaitIInv, Threads
<1>3. key \in Keys \cup {None}
  BY DEF ReuseKey, Keys, ThreadsAssumption, Others, Range
<1>4. IsFiniteSet(Others) /\ IsFiniteSet(BegunThreads) /\ BegunThreads \subseteq Others
  BY FS_Subset DEF ThreadsAssumption, BegunThreads
<1>5. BegunThreads' = BegunThreads \cup {t} /\ t \notin BegunThreads
  BY <1>1, <1>2 DEF BegunThreads, ThreadsOK, Threads
<1>6. /\ Cardinality(BegunThreads') = Cardinality(BegunThreads) + 1
      /\ Cardinality(BegunThreads) \in Nat /\ Cardinality(Others) \in Nat
      /\ Cardinality(BegunThreads') <= Cardinality(Others)
  <2>1. BegunThreads' \in SUBSET Others
    BY <1>4, <1>5
  <2> QED BY <1>4, <1>5, <2>1, FS_AddElement, FS_Subset, FS_CardinalityType
<1>7. locations \in Nat /\ 1 <= locations /\ locations <= Cardinality(BegunThreads) + 1
  BY <1>2, <1>6 DEF LocationsOK
<1>8. /\ l \in LocationIds /\ locations' \in 1 .. Cardinality(BegunThreads') + 1
      /\ locations <= locations' /\ l \in 1 .. locations'
      /\ l \in Pools \/ l > locations
      /\ Pools' \subseteq Pools \ {l} /\ tpd_reuse_pool' \in [Keys -> Seq(LocationIds)]
      /\ \A k \in Keys : IsInjective(tpd_reuse_pool'[k])
                         /\ Range(tpd_reuse_pool'[k]) \subseteq Range(tpd_reuse_pool[k])
  <2>1. CASE reuse
    <3>1. key \in Keys
      BY <1>3, <2>1
    <3>2. /\ tpd_reuse_pool[key] \in Seq(LocationIds) /\ IsInjective(tpd_reuse_pool[key])
          /\ Range(tpd_reuse_pool[key]) \subseteq Pools
          /\ \A j \in Keys : j # key => Range(tpd_reuse_pool[j]) \cap Range(tpd_reuse_pool[key]) = {}
      BY <1>2, <3>1, PoolsOfKeys
    <3>3. /\ l \in LocationIds /\ l \in Range(tpd_reuse_pool[key])
          /\ Tail(tpd_reuse_pool[key]) \in Seq(LocationIds) /\ IsInjective(Tail(tpd_reuse_pool[key]))
          /\ Range(Tail(tpd_reuse_pool[key])) = Range(tpd_reuse_pool[key]) \ {l}
      BY <2>1, <3>2, WithoutHead
    <3>4. /\ tpd_reuse_pool'[key] = Tail(tpd_reuse_pool[key])
          /\ \A j \in Keys : j # key => tpd_reuse_pool'[j] = tpd_reuse_pool[j]
          /\ tpd_reuse_pool' \in [Keys -> Seq(LocationIds)] /\ locations' = locations
      BY <1>1, <1>2, <2>1, <3>1, <3>3 DEF LocationsOK
    <3> HIDE DEF reuse, l, key
    <3>5. \A k \in Keys : IsInjective(tpd_reuse_pool'[k])
      BY <1>2, <3>3, <3>4, PoolsOfKeys
    <3>6. \A k \in Keys : Range(tpd_reuse_pool'[k]) \subseteq Range(tpd_reuse_pool[k])
      BY <3>3, <3>4
    <3>7. ASSUME NEW k \in Keys, l \in Range(tpd_reuse_pool'[k]) PROVE FALSE
      BY <3>2, <3>3, <3>4, <3>7
    <3>8. Pools' \subseteq Pools \ {l}
      BY <3>6, <3>7 DEF Pools
    <3>9. l \in Pools /\ Pools \subseteq 1 .. locations
      BY <1>2, <3>2, <3>3 DEF LocationsOK
    <3> QED BY <1>6, <1>7, <3>3, <3>4, <3>5, <3>6, <3>8, <3>9
  <2>2. CASE ~reuse
    <3>1. l = locations + 1 /\ locations' = l /\ UNCHANGED tpd_reuse_pool
      BY <1>1, <2>2
    <3>2. Pools' = Pools /\ Pools \subseteq 1 .. locations
      BY <1>2, <3>1 DEF Pools, LocationsOK
    <3>3. \A k \in Keys : IsInjective(tpd_reuse_pool'[k])
      BY <1>2, <3>1, PoolsOfKeys
    <3>4. tpd_reuse_pool' \in [Keys -> Seq(LocationIds)]
      BY <1>2, <3>1 DEF LocationsOK
    <3>5. l \in LocationIds
      BY <1>6, <1>7, <3>1 DEF LocationIds
    <3> HIDE DEF l, reuse, key
    <3> QED BY <1>6, <1>7, <3>1, <3>2, <3>3, <3>4, <3>5
  <2> QED BY <2>1, <2>2
<1>17. locations' \in Nat
  BY <1>6, <1>8
<1>20. l \in 1 .. locations' /\ locations <= locations'
  BY <1>8
<1>21. l \in Nat /\ 1 <= l /\ l <= locations'
  BY <1>17, <1>20
<1>9. /\ loc'[t] = l /\ pc'[t] = "begin"
      /\ \A u \in Others : u # t => loc'[u] = loc[u] /\ pc'[u] = pc[u]
  BY <1>1, <1>2 DEF ThreadsOK, Threads
<1>10. tpd_reuse_key' \in [LocationIds -> Keys \cup {None}]
  BY <1>1, <1>2, <1>3 DEF LocationsOK
<1> HIDE DEF l, reuse, key
<1>11. \A u \in Others : pc[u] \in Owning => loc[u] \in 1 .. locations /\ loc[u] \notin Pools
  BY <1>2 DEF LocationsOK, LocationOwnedOnce, Pooled, Pools
<1>12. \A u \in Others : pc[u] \in Owning => loc[u] # l
  BY <1>7, <1>8, <1>11
<1>13. LocationOwnedOnce'
  <2>1. ASSUME NEW u \in Others, NEW v \in Others, u # v, pc'[u] \in Owning, pc'[v] \in Owning
        PROVE  loc'[u] # loc'[v]
    BY <1>2, <1>9, <1>12, <2>1 DEF LocationsOK, LocationOwnedOnce
  <2>2. ASSUME NEW u \in Others, pc'[u] \in Owning PROVE loc'[u] \notin Pools'
    BY <1>8, <1>9, <1>11, <2>2
  <2>3. \A k \in Keys : \A i, j \in DOMAIN tpd_reuse_pool'[k] :
          tpd_reuse_pool'[k][i] = tpd_reuse_pool'[k][j] => i = j
    BY <1>8 DEF IsInjective
  <2>4. \A j, k \in Keys : j # k => Range(tpd_reuse_pool'[j]) \cap Range(tpd_reuse_pool'[k]) = {}
    BY <1>2, <1>8, PoolsOfKeys
  <2>5. ASSUME NEW u \in Others, pc'[u] \in Owning PROVE ~Pooled(loc[u])'
    BY <2>2, <2>5 DEF Pooled, Pools
  <2> QED BY <2>1, <2>3, <2>4, <2>5 DEF LocationOwnedOnce
<1>14. \A u \in Others : pc'[u] \in Owning => loc'[u] \in 1 .. locations'
  <2>1. ASSUME NEW u \in Others, pc'[u] \in Owning, u # t PROVE loc'[u] \in 1 .. locations'
    <3>1. loc'[u] \in 1 .. locations
      BY <1>9, <1>11, <2>1
    <3> QED BY <1>7, <1>17, <1>20, <3>1
  <2> QED BY <1>9, <1>20, <2>1
<1>15. Pools' \subseteq 1 .. locations'
  <2>1. Pools' \subseteq Pools /\ Pools \subseteq 1 .. locations
    BY <1>2, <1>8 DEF LocationsOK
  <2> QED BY <1>7, <1>17, <1>20, <2>1
<1>16. LocationsOK'
  BY <1>8, <1>10, <1>13, <1>14, <1>15 DEF LocationsOK
<1>18. loc'[t] \notin Pools' /\ Pools' \subseteq Pools
  BY <1>8, <1>9
<1>19. loc'[t] <= locations'
  BY <1>9, <1>21
<1>22. loc'[t] \in LocationIds /\ (loc'[t] \in Pools \/ loc'[t] > locations)
  BY <1>8, <1>9
<1> QED BY <1>9, <1>12, <1>16, <1>18, <1>19, <1>20, <1>22

-----------------------------------------------------------------------------
(* The steps of a thread.                                                  *)

(* A thread gets its location and subsystem data for it.                   *)
LEMMA InitThreadKeeps ==
  ASSUME ThreadsAssumption, CreateWaitIInv, NEW t \in Others, InitThread(t)
  PROVE  CreateWaitIInv'
<1> DEFINE d == IF subsystem_data_free_list # << >> THEN Head(subsystem_data_free_list)
                                                    ELSE data_allocated + 1
<1>1. ThreadsOK /\ LocationsOK /\ DataOK /\ EventsOK /\ LateOK
  BY DEF CreateWaitIInv
<1>2. t \in Threads /\ t # Main /\ Main \in Threads /\ Others \subseteq Threads
  BY DEF ThreadsAssumption, Threads
<1>3. /\ LocationsOK'
      /\ Pools' \subseteq Pools /\ locations <= locations'
      /\ loc'[t] \in LocationIds /\ loc'[t] <= locations' /\ loc'[t] \notin Pools'
      /\ loc'[t] \in Pools \/ loc'[t] > locations
      /\ \A u \in Others : pc[u] \in Owning => loc[u] # loc'[t]
  BY LocationObtained
<1> HIDE DEF d
<1>4. PICK l :
      /\ loc' = [loc EXCEPT ![t] = l] /\ pc' = [pc EXCEPT ![t] = "begin"] /\ pc[t] = "start"
      /\ subsystem_data' = [subsystem_data EXCEPT ![l] = d]
      /\ data_allocated' = IF subsystem_data_free_list # << >> THEN data_allocated ELSE d
      /\ subsystem_data_free_list' = IF subsystem_data_free_list # << >>
                                     THEN Tail(subsystem_data_free_list) ELSE subsystem_data_free_list
      /\ active_locations' = active_locations + 1
      /\ late' = IF phase = "WITHIN" THEN late ELSE late \cup {t}
      /\ UNCHANGED <<terminate, phase, is_finalized, cursor, begun>>
  BY DEF InitThread, At, phaseVars, eventVars, d
<1>5. /\ loc'[t] = l /\ pc'[t] = "begin" /\ pc'[Main] = pc[Main]
      /\ \A u \in Threads : u # t => loc'[u] = loc[u] /\ pc'[u] = pc[u]
  BY <1>1, <1>2, <1>4 DEF ThreadsOK
<1>6. ThreadsOK'
  <2>1. pc' \in [Threads -> Labels]
    BY <1>1, <1>4 DEF ThreadsOK, Labels
  <2>2. loc' \in [Threads -> LocationIds \cup {0}]
    BY <1>1, <1>3, <1>4, <1>5 DEF ThreadsOK
  <2> QED BY <1>1, <1>2, <1>5, <2>1, <2>2 DEF ThreadsOK
<1>7. ~EndDue(l)
  BY <1>1, <1>3, <1>5 DEF EventsOK, LocationIds, LocationsOK
<1>8. subsystem_data[l] = 0
  BY <1>7 DEF EndDue, Terminable
<1>9. DataOK' /\ subsystem_data'[l] # 0
  <2>1. \A u \in Others : pc'[u] = "end" <=> pc[u] = "end"
    BY <1>2, <1>4, <1>5
  <2>2. pc'[Main] = "late_end" <=> pc[Main] = "late_end"
    BY <1>5
  <2>3. l \in LocationIds
    BY <1>3, <1>5
  <2> QED BY <1>1, <1>4, <1>8, <2>1, <2>2, <2>3, DataObtained DEF d
<1>10. \A m \in LocationIds : m # l => subsystem_data'[m] = subsystem_data[m]
  BY <1>1, <1>4 DEF DataOK
<1>11. ASSUME NEW m \in LocationIds, m # l
       PROVE  /\ Terminable(m)' = Terminable(m) /\ EndedLate(m)' = EndedLate(m)
              /\ \A u \in Others : EndedBy(u, m)' = EndedBy(u, m)
              /\ EndDue(m)' = EndDue(m) /\ BeginDue(m)' = BeginDue(m)
  <2>1. Terminable(m)' = Terminable(m)
    BY <1>10, <1>11 DEF Terminable
  <2>2. EndedLate(m)' = EndedLate(m)
    BY <1>4, <1>5 DEF EndedLate
  <2>3. \A u \in Others : EndedBy(u, m)' = EndedBy(u, m)
    BY <1>2, <1>4, <1>5 DEF EndedBy
  <2>4. EndDue(m)' = EndDue(m)
    BY <2>1, <2>2, <2>3 DEF EndDue
  <2>5. BeginDue(m)' = BeginDue(m)
    BY <1>2, <1>4, <1>5, <1>11 DEF BeginDue
  <2> QED BY <2>1, <2>2, <2>3, <2>4, <2>5
<1>12. /\ Terminable(l)' /\ ~EndedLate(l)' /\ EndDue(l)' /\ BeginDue(l)'
       /\ ~BeginDue(l) /\ \A u \in Others : ~EndedBy(u, l)'
  <2>1. Terminable(l)' /\ EndDue(l)'
    BY <1>9 DEF Terminable, EndDue
  <2>2. ~EndedLate(l)'
    BY <1>4, <1>5, <1>7 DEF EndDue, EndedLate
  <2>3. BeginDue(l)'
    BY <1>5 DEF BeginDue
  <2>4. ~BeginDue(l)
    BY <1>3, <1>5 DEF BeginDue, Owning
  <2>5. \A u \in Others : ~EndedBy(u, l)'
    BY <1>2, <1>3, <1>5 DEF EndedBy, Owning
  <2> QED BY <2>1, <2>2, <2>3, <2>4, <2>5
<1>13. EventsOK'
  <2>1. begun' \in [LocationIds -> Int] /\ cursor' \in Nat \ {0}
    BY <1>1, <1>4 DEF EventsOK
  <2>2. locations \in Int /\ locations' \in Int /\ LocationIds \subseteq Int
    <3>1. Cardinality(BegunThreads') \in Int
      <4>1. IsFiniteSet(BegunThreads')
        BY FS_Subset DEF BegunThreads, ThreadsAssumption
      <4> QED BY <4>1, FS_CardinalityType
    <3> QED BY <1>1, <1>3, <3>1, LocationNumbers DEF LocationsOK
  <2>3. pc'[Main] = "late_end" => cursor' <= locations'
    BY <1>1, <1>3, <1>4, <1>5, <2>1, <2>2 DEF EventsOK
  <2>4. ASSUME NEW m \in LocationIds, m # l
        PROVE  /\ EndDue(m)' => m <= locations' /\ m \notin Pools'
               /\ Terminable(m)' => ~EndedLate(m)'
               /\ \A u \in Others : EndedBy(u, m)' => ~Terminable(m)' /\ ~EndedLate(m)'
               /\ begun'[m] = (IF EndDue(m)' THEN 1 ELSE 0) - (IF BeginDue(m)' THEN 1 ELSE 0)
    <3>1. EndDue(m)' => m <= locations' /\ m \notin Pools'
      BY <1>1, <1>3, <1>11, <2>2, <2>4 DEF EventsOK
    <3> QED BY <1>1, <1>4, <1>11, <2>4, <3>1 DEF EventsOK
  <2>5. begun'[l] = 0
    BY <1>1, <1>3, <1>4, <1>5, <1>7, <1>12 DEF EventsOK
  <2>6. l \in LocationIds /\ l <= locations' /\ l \notin Pools'
    BY <1>3, <1>5
  <2> QED BY <1>12, <2>1, <2>3, <2>4, <2>5, <2>6 DEF EventsOK
<1>14. LateOK'
  <2>1. ASSUME NEW u \in Others \ late', pc'[u] \in Owning, loc'[u] < cursor' \/ is_finalized'
        PROVE  ~Terminable(loc[u])'
    <3>1. CASE u = t
      <4>1. phase = "WITHIN" /\ cursor = 1 /\ ~is_finalized
        BY <1>1, <1>4, <2>1, <3>1 DEF LateOK
      <4>2. loc'[t] >= 1
        BY <1>1, <1>3, LocationNumbers
      <4>3. loc'[t] < 1
        BY <1>4, <2>1, <3>1, <4>1
      <4>4. loc'[t] \in Int
        BY <1>1, <1>3, LocationNumbers
      <4> QED BY <4>2, <4>3, <4>4
    <3>2. CASE u # t
      <4>1. u \in Others \ late /\ pc[u] \in Owning /\ loc'[u] = loc[u] /\ loc[u] # l
        BY <1>2, <1>3, <1>4, <1>5, <2>1, <3>2
      <4>2. ~Terminable(loc[u])
        BY <1>1, <1>4, <2>1, <4>1 DEF LateOK
      <4>3. loc[u] \in LocationIds
        BY <1>1, <4>1, LocationOfOwner
      <4> QED BY <1>10, <4>1, <4>2, <4>3 DEF Terminable
    <3> QED BY <3>1, <3>2
  <2> QED BY <1>1, <1>4, <1>5, <2>1 DEF LateOK
<1> QED BY <1>3, <1>6, <1>9, <1>13, <1>14 DEF CreateWaitIInv

(* Its begin event, which may follow the end event of the main thread.     *)
LEMMA BeginEventKeeps ==
  ASSUME ThreadsAssumption, CreateWaitIInv, NEW t \in Others, BeginEvent(t)
  PROVE  CreateWaitIInv'
<1>1. ThreadsOK /\ LocationsOK /\ DataOK /\ EventsOK /\ LateOK
  BY DEF CreateWaitIInv
<1>2. t \in Threads /\ t # Main /\ Main \in Threads /\ Others \subseteq Threads
  BY DEF ThreadsAssumption, Threads
<1>3. /\ begun' = [begun EXCEPT ![loc[t]] = @ + 1] /\ pc[t] = "begin" /\ Goto(t, "run")
      /\ UNCHANGED <<terminate, late, phase, is_finalized, cursor, poolVars, dataVars>>
      /\ UNCHANGED <<subsystem_data, locations>>
  BY DEF BeginEvent, At, phaseVars, poolVars, dataVars
<1>4. /\ pc' \in [Threads -> Labels] /\ loc' = loc /\ pc'[t] = "run"
      /\ \A u \in Threads : u # t => pc'[u] = pc[u]
  <2>1. "run" \in Labels /\ "run" # "finished"
    BY DEF Labels
  <2> QED BY <1>1, <1>2, <1>3, <2>1, Moved
<1>5. pc'[Main] = pc[Main] /\ \A u \in Others : u # t => pc'[u] = pc[u]
  BY <1>2, <1>4
<1>6. ThreadsOK'
  BY <1>1, <1>2, <1>4, <1>5 DEF ThreadsOK
<1>7. \A u \in Others : pc'[u] \in Owning => pc[u] \in Owning /\ loc'[u] = loc[u]
  BY <1>3, <1>4, <1>5 DEF Owning
<1>8. LocationsOK' /\ Pools' = Pools
  <2>1. \A u \in Others : pc'[u] \in {"unborn", "start"} <=> pc[u] \in {"unborn", "start"}
    BY <1>3, <1>4, <1>5
  <2> QED BY <1>1, <1>3, <1>7, <2>1, LocationsKept
<1>9. DataOK'
  <2>1. \A u \in Others : pc'[u] = "end" <=> pc[u] = "end"
    BY <1>3, <1>4, <1>5
  <2> QED BY <1>1, <1>3, <1>5, <2>1, DataKept
<1>10. LateOK'
  <2>1. \A u \in Others : pc'[u] \in Owning =>
           pc[u] \in Owning /\ loc'[u] = loc[u] /\ (Terminable(loc[u])' => Terminable(loc[u]))
    BY <1>3, <1>7 DEF Terminable
  <2> QED BY <1>1, <1>3, <1>5, <2>1, LateKept
<1>11. \A u \in Others : u # t /\ pc[u] \in Owning => loc[u] # loc[t]
  BY <1>1, <1>3 DEF LocationsOK, LocationOwnedOnce, Owning
<1>12. EventsOK'
  <2>1. ASSUME NEW m \in LocationIds
        PROVE  /\ Terminable(m)' = Terminable(m) /\ EndedLate(m)' = EndedLate(m)
               /\ \A u \in Others : EndedBy(u, m)' = EndedBy(u, m)
               /\ EndDue(m)' = EndDue(m)
               /\ BeginDue(m)' <=> BeginDue(m) /\ m # loc[t]
    <3>1. Terminable(m)' = Terminable(m)
      BY <1>3 DEF Terminable
    <3>2. EndedLate(m)' = EndedLate(m)
      BY <1>3, <1>5 DEF EndedLate
    <3>3. \A u \in Others : EndedBy(u, m)' = EndedBy(u, m)
      BY <1>3, <1>4, <1>5 DEF EndedBy
    <3>4. EndDue(m)' = EndDue(m)
      BY <3>1, <3>2, <3>3 DEF EndDue
    <3>5. BeginDue(m)' <=> BeginDue(m) /\ m # loc[t]
      BY <1>3, <1>4, <1>5, <1>11 DEF BeginDue, Owning
    <3> QED BY <3>1, <3>2, <3>3, <3>4, <3>5
  <2>2. begun' \in [LocationIds -> Int] /\ cursor' \in Nat \ {0}
        /\ (pc'[Main] = "late_end" => cursor' <= locations')
    <3>1. begun \in [LocationIds -> Int]
      BY <1>1 DEF EventsOK
    <3>2. begun' \in [LocationIds -> Int]
      <4>1. loc[t] \in LocationIds
        BY <1>1, <1>2, <1>3, LocationOfOwner DEF Owning
      <4> QED BY <1>3, <3>1, <4>1
    <3> QED BY <1>1, <1>3, <1>5, <3>2 DEF EventsOK
  <2>3. ASSUME NEW m \in LocationIds
        PROVE  begun'[m] = (IF EndDue(m)' THEN 1 ELSE 0) - (IF BeginDue(m)' THEN 1 ELSE 0)
    <3>1. begun[m] = (IF EndDue(m) THEN 1 ELSE 0) - (IF BeginDue(m) THEN 1 ELSE 0)
      BY <1>1 DEF EventsOK
    <3>2. CASE m = loc[t]
      <4>1. BeginDue(m) /\ begun'[m] = begun[m] + 1
        BY <1>1, <1>3, <3>2 DEF BeginDue, EventsOK
      <4> QED BY <2>1, <3>1, <3>2, <4>1
    <3>3. CASE m # loc[t]
      <4>1. begun'[m] = begun[m]
        BY <1>1, <1>3, <3>3 DEF EventsOK
      <4> QED BY <2>1, <3>1, <3>3, <4>1
    <3> QED BY <3>2, <3>3
  <2>4. ASSUME NEW m \in LocationIds
        PROVE  /\ EndDue(m)' => m <= locations' /\ m \notin Pools'
               /\ Terminable(m)' => ~EndedLate(m)'
               /\ \A u \in Others : EndedBy(u, m)' => ~Terminable(m)' /\ ~EndedLate(m)'
    BY <1>1, <1>3, <1>8, <2>1 DEF EventsOK
  <2> QED BY <2>2, <2>3, <2>4 DEF EventsOK
<1> QED BY <1>6, <1>8, <1>9, <1>10, <1>12 DEF CreateWaitIInv

(* One caller gets the data; for the others the location has none any      *)
(* more, and nothing changes.                                              *)
LEMMA TryTerminateKeeps ==
  ASSUME ThreadsAssumption, CreateWaitIInv, NEW t \in Others, TryTerminate(t)
  PROVE  CreateWaitIInv'
<1>1. ThreadsOK /\ LocationsOK /\ DataOK /\ EventsOK /\ LateOK
  BY DEF CreateWaitIInv
<1>2. t \in Threads /\ t # Main /\ Main \in Threads /\ Others \subseteq Threads
  BY DEF ThreadsAssumption, Threads
<1>3. pc[t] = "try" /\ terminate[t] = 0
  BY <1>1 DEF TryTerminate, At, DataOK
<1>4. PICK l \in LocationIds : l = loc[t]
  BY <1>1, <1>3, LocationOfOwner DEF Owning
<1>5. /\ Goto(t, IF subsystem_data[l] # 0 THEN "end" ELSE IF t \in Workers THEN "tail" ELSE "finished")
      /\ terminate' = [terminate EXCEPT ![t] = subsystem_data[l]]
      /\ subsystem_data' = [subsystem_data EXCEPT ![l] = 0]
      /\ UNCHANGED <<late, phase, is_finalized, cursor, poolVars, begun, active_locations,
                     data_allocated, subsystem_data_free_list>>
  BY <1>4 DEF TryTerminate, DataAfterTry, eventVars
<1>6. CASE subsystem_data[l] = 0
  <2>1. subsystem_data' = subsystem_data /\ terminate' = terminate
    BY <1>1, <1>3, <1>5, <1>6 DEF DataOK
  <2>2. PICK label \in {"tail", "finished"} : Goto(t, label)
    BY <1>5, <1>6
  <2>3. /\ label \in Labels /\ label \notin {"begin", "end", "late_try", "late_end"}
        /\ label \notin Owning /\ label \notin {"unborn", "start"}
        /\ pc[t] \notin {"begin", "end", "unborn", "start"}
    BY <1>3, <2>2 DEF Labels, Owning
  <2>4. UNCHANGED <<late, terminate, phase, is_finalized, cursor, poolVars, dataVars, begun>>
    BY <1>5, <2>1 DEF dataVars
  <2> QED BY <2>2, <2>3, <2>4, ThreadGoesOn
<1>7. CASE subsystem_data[l] # 0
  <2>1. Goto(t, "end")
    BY <1>5, <1>7
  <2>2. /\ pc' \in [Threads -> Labels] /\ loc' = loc /\ pc'[t] = "end"
        /\ \A u \in Threads : u # t => pc'[u] = pc[u]
    <3>1. "end" \in Labels /\ "end" # "finished"
      BY DEF Labels
    <3> QED BY <1>1, <1>2, <2>1, <3>1, Moved
  <2>3. pc'[Main] = pc[Main] /\ \A u \in Others : u # t => pc'[u] = pc[u]
    BY <1>2, <2>2
  <2>4. ThreadsOK'
    BY <1>1, <1>2, <2>2, <2>3 DEF ThreadsOK
  <2>5. \A u \in Others : pc'[u] \in Owning => pc[u] \in Owning /\ loc'[u] = loc[u]
    BY <1>3, <2>2, <2>3 DEF Owning
  <2>6. LocationsOK' /\ Pools' = Pools
    <3>1. \A u \in Others : pc'[u] \in {"unborn", "start"} <=> pc[u] \in {"unborn", "start"}
      BY <1>3, <2>2, <2>3
    <3> QED BY <1>1, <1>5, <2>5, <3>1, LocationsKept
  <2>7. DataOK'
    BY <1>1, <1>2, <1>3, <1>5, <1>7, <2>2, DataTaken
  <2>8. /\ \A m \in LocationIds : m # l => subsystem_data'[m] = subsystem_data[m]
        /\ subsystem_data'[l] = 0
    BY <1>1, <1>5 DEF DataOK
  <2>9. LateOK'
    <3>1. ASSUME NEW u \in Others, pc'[u] \in Owning
          PROVE  Terminable(loc[u])' => Terminable(loc[u])
      BY <1>1, <1>5, <2>2, <2>8, <3>1 DEF Terminable, DataOK
    <3> QED BY <1>1, <1>5, <2>3, <2>5, <3>1, LateKept
  <2>10. \A u \in Others : u # t /\ pc[u] \in Owning => loc[u] # l
    BY <1>1, <1>3, <1>4 DEF LocationsOK, LocationOwnedOnce, Owning
  <2>11. EventsOK'
    <3>1. ASSUME NEW m \in LocationIds
          PROVE  /\ Terminable(m)' <=> Terminable(m) /\ m # l
                 /\ EndedLate(m)' = EndedLate(m)
                 /\ \A u \in Others : EndedBy(u, m)' <=> EndedBy(u, m) \/ (u = t /\ m = l)
                 /\ EndDue(m)' <=> EndDue(m)
                 /\ BeginDue(m)' <=> BeginDue(m)
      <4>1. Terminable(m)' <=> Terminable(m) /\ m # l
        BY <2>8 DEF Terminable
      <4>2. EndedLate(m)' = EndedLate(m)
        BY <1>5, <2>3 DEF EndedLate
      <4>3. \A u \in Others : EndedBy(u, m)' <=> EndedBy(u, m) \/ (u = t /\ m = l)
        BY <1>3, <1>4, <2>2, <2>3 DEF EndedBy
      <4>4. EndDue(m)' <=> EndDue(m)
        <5>1. Terminable(l)
          BY <1>7 DEF Terminable
        <5> QED BY <4>1, <4>2, <4>3, <5>1 DEF EndDue
      <4>5. BeginDue(m)' <=> BeginDue(m)
        BY <1>3, <2>2, <2>3 DEF BeginDue
      <4> QED BY <4>1, <4>2, <4>3, <4>4, <4>5
    <3>2. /\ begun' \in [LocationIds -> Int] /\ cursor' \in Nat \ {0}
          /\ pc'[Main] = "late_end" => cursor' <= locations'
      BY <1>1, <1>5, <2>3 DEF EventsOK, poolVars
    <3>3. /\ Terminable(l) /\ ~EndedLate(l)
          /\ \A u \in Others : ~EndedBy(u, l)
      BY <1>1, <1>7 DEF EventsOK, Terminable
    <3>4. UNCHANGED <<locations, begun>>
      BY <1>5 DEF poolVars
    <3>5. ASSUME NEW m \in LocationIds
          PROVE  /\ EndDue(m)' => m <= locations' /\ m \notin Pools'
                 /\ Terminable(m)' => ~EndedLate(m)'
                 /\ \A u \in Others : EndedBy(u, m)' => ~Terminable(m)' /\ ~EndedLate(m)'
                 /\ begun'[m] = (IF EndDue(m)' THEN 1 ELSE 0) - (IF BeginDue(m)' THEN 1 ELSE 0)
      <4>1. EndDue(m)' => m <= locations' /\ m \notin Pools'
        BY <1>1, <2>6, <3>1, <3>4 DEF EventsOK
      <4>2. Terminable(m)' => ~EndedLate(m)'
        BY <1>1, <3>1 DEF EventsOK
      <4>3. \A u \in Others : EndedBy(u, m)' => ~Terminable(m)' /\ ~EndedLate(m)'
        BY <1>1, <3>1, <3>3 DEF EventsOK
      <4>4. begun'[m] = (IF EndDue(m)' THEN 1 ELSE 0) - (IF BeginDue(m)' THEN 1 ELSE 0)
        BY <1>1, <3>1, <3>4 DEF EventsOK
      <4> QED BY <4>1, <4>2, <4>3, <4>4
    <3> QED BY <3>2, <3>5 DEF EventsOK
  <2> QED BY <2>4, <2>6, <2>7, <2>9, <2>11 DEF CreateWaitIInv
<1> QED BY <1>6, <1>7

(* The location goes back to its pool.                                     *)
LEMMA LocationReturned ==
  ASSUME ThreadsAssumption, CreateWaitIInv, NEW t \in Others, EndThread(t)
  PROVE  /\ LocationsOK' /\ loc[t] \in LocationIds
         /\ Pools' \subseteq Pools \cup {loc[t]}
<1>1. ThreadsOK /\ LocationsOK /\ t \in Threads
  BY DEF CreateWaitIInv, Threads
<1>2. PICK l : l = loc[t]
  OBVIOUS
<1>3. PICK key : key = tpd_reuse_key[l]
  OBVIOUS
<1>4. PICK label \in {"tail", "finished"} : Goto(t, label)
  BY DEF EndThread
<1>5. /\ pc[t] = "end" /\ UNCHANGED <<locations, tpd_reuse_key>>
      /\ tpd_reuse_pool' = IF key = None THEN tpd_reuse_pool
                           ELSE [tpd_reuse_pool EXCEPT ![key] = <<l>> \o @]
  BY <1>2, <1>3 DEF EndThread, At
<1>6. label \in Labels /\ label \notin Owning \cup {"unborn", "start"}
  BY <1>4 DEF Labels, Owning
<1>7. pc'[t] = label /\ \A u \in Threads : u # t => pc'[u] = pc[u] /\ loc'[u] = loc[u]
  BY <1>1, <1>4, <1>6, Moved
<1>8. /\ \A u \in Others : pc'[u] \in Owning => u # t /\ pc[u] \in Owning /\ loc'[u] = loc[u]
      /\ \A u \in Others : pc'[u] \in {"unborn", "start"} <=> pc[u] \in {"unborn", "start"}
  BY <1>5, <1>6, <1>7 DEF Threads
<1>9. l \in 1 .. locations /\ l \notin Pools
  BY <1>1, <1>2, <1>5 DEF LocationsOK, LocationOwnedOnce, Owning, Pooled, Pools
<1>10. l \in LocationIds
  BY <1>1, <1>2, <1>5, LocationOfOwner DEF Owning
<1>11. BegunThreads' = BegunThreads
  BY <1>8 DEF BegunThreads
<1>12. /\ tpd_reuse_pool' \in [Keys -> Seq(LocationIds)]
       /\ \A k \in Keys : /\ IsInjective(tpd_reuse_pool'[k])
                          /\ Range(tpd_reuse_pool'[k]) \subseteq Range(tpd_reuse_pool[k]) \cup {l}
                          /\ l \in Range(tpd_reuse_pool'[k]) => k = key
  <2>1. \A k \in Keys : tpd_reuse_pool[k] \in Seq(LocationIds) /\ IsInjective(tpd_reuse_pool[k])
                        /\ l \notin Range(tpd_reuse_pool[k])
    BY <1>1, <1>9, PoolsOfKeys
  <2>2. CASE key = None
    BY <1>1, <1>5, <2>1, <2>2 DEF LocationsOK
  <2>3. CASE key # None
    <3>1. key \in Keys
      BY <1>1, <1>3, <1>10, <2>3 DEF LocationsOK
    <3>2. /\ <<l>> \o tpd_reuse_pool[key] \in Seq(LocationIds)
          /\ IsInjective(<<l>> \o tpd_reuse_pool[key])
          /\ Range(<<l>> \o tpd_reuse_pool[key]) = {l} \cup Range(tpd_reuse_pool[key])
      BY <1>10, <2>1, <3>1, Prepend
    <3>3. /\ tpd_reuse_pool' \in [Keys -> Seq(LocationIds)]
          /\ tpd_reuse_pool'[key] = <<l>> \o tpd_reuse_pool[key]
          /\ \A k \in Keys : k # key => tpd_reuse_pool'[k] = tpd_reuse_pool[k]
      BY <1>1, <1>5, <2>3, <3>1, <3>2 DEF LocationsOK
    <3>4. ASSUME NEW k \in Keys
          PROVE  /\ IsInjective(tpd_reuse_pool'[k])
                 /\ Range(tpd_reuse_pool'[k]) \subseteq Range(tpd_reuse_pool[k]) \cup {l}
                 /\ l \in Range(tpd_reuse_pool'[k]) => k = key
      <4>1. CASE k = key
        BY <3>2, <3>3, <4>1
      <4>2. CASE k # key
        BY <2>1, <3>3, <4>2
      <4> QED BY <4>1, <4>2
    <3> QED BY <3>3, <3>4
  <2> QED BY <2>2, <2>3
<1>13. Pools' \subseteq Pools \cup {l}
  BY <1>12 DEF Pools
<1>14. LocationOwnedOnce'
  <2>1. ASSUME NEW u \in Others, NEW v \in Others, u # v, pc'[u] \in Owning, pc'[v] \in Owning
        PROVE  loc'[u] # loc'[v]
    BY <1>1, <1>8, <2>1 DEF LocationsOK, LocationOwnedOnce
  <2>2. ASSUME NEW u \in Others, pc'[u] \in Owning PROVE loc'[u] \notin Pools'
    <3>1. loc[u] # l /\ loc[u] \notin Pools
      BY <1>1, <1>2, <1>5, <1>8, <2>2 DEF LocationsOK, LocationOwnedOnce, Owning, Pooled, Pools
    <3> QED BY <1>8, <1>13, <2>2, <3>1
  <2>3. \A k \in Keys : \A i, j \in DOMAIN tpd_reuse_pool'[k] :
          tpd_reuse_pool'[k][i] = tpd_reuse_pool'[k][j] => i = j
    BY <1>12 DEF IsInjective
  <2>4. ASSUME NEW j \in Keys, NEW k \in Keys, j # k
        PROVE  Range(tpd_reuse_pool'[j]) \cap Range(tpd_reuse_pool'[k]) = {}
    <3>1. Range(tpd_reuse_pool[j]) \cap Range(tpd_reuse_pool[k]) = {}
      BY <1>1, <2>4, PoolsOfKeys
    <3>2. l \notin Range(tpd_reuse_pool[j]) /\ l \notin Range(tpd_reuse_pool[k])
      BY <1>1, <1>9, PoolsOfKeys
    <3> QED BY <1>12, <2>4, <3>1, <3>2
  <2>5. ASSUME NEW u \in Others, pc'[u] \in Owning PROVE ~Pooled(loc[u])'
    BY <2>2, <2>5 DEF Pooled, Pools
  <2> QED BY <2>1, <2>3, <2>4, <2>5 DEF LocationOwnedOnce
<1>15. \A u \in Others : pc'[u] \in Owning => loc'[u] \in 1 .. locations'
  BY <1>1, <1>5, <1>8 DEF LocationsOK
<1>16. Pools' \subseteq 1 .. locations'
  BY <1>1, <1>5, <1>9, <1>13 DEF LocationsOK
<1>17. LocationsOK'
  BY <1>1, <1>5, <1>11, <1>12, <1>14, <1>15, <1>16 DEF LocationsOK
<1> QED BY <1>2, <1>10, <1>13, <1>17

(* A thread's own end event.                                               *)
LEMMA EndThreadKeeps ==
  ASSUME ThreadsAssumption, CreateWaitIInv, NEW t \in Others, EndThread(t)
  PROVE  CreateWaitIInv'
<1>1. ThreadsOK /\ LocationsOK /\ DataOK /\ EventsOK /\ LateOK
  BY DEF CreateWaitIInv
<1>2. t \in Threads /\ t # Main /\ Main \in Threads /\ Others \subseteq Threads
  BY DEF ThreadsAssumption, Threads
<1>3. LocationsOK' /\ loc[t] \in LocationIds /\ Pools' \subseteq Pools \cup {loc[t]}
  BY LocationReturned
<1>4. PICK l \in LocationIds : l = loc[t]
  BY <1>3
<1>5. PICK label \in {"tail", "finished"} : Goto(t, label)
  BY DEF EndThread
<1>6. /\ pc[t] = "end" /\ begun' = [begun EXCEPT ![l] = @ - 1] /\ ReleaseData(t)
      /\ UNCHANGED <<late, phase, is_finalized, cursor, locations, subsystem_data>>
  BY <1>4 DEF EndThread, At, phaseVars, ReleaseData
<1>7. label \in Labels /\ label \notin Owning \cup {"unborn", "start", "late_try", "late_end"}
  BY <1>5 DEF Labels, Owning
<1>8. /\ pc' \in [Threads -> Labels] /\ loc' \in [Threads -> LocationIds \cup {0}]
      /\ pc'[t] = label /\ \A u \in Threads : u # t => pc'[u] = pc[u] /\ loc'[u] = loc[u]
  BY <1>1, <1>2, <1>5, <1>7, Moved
<1>9. pc'[Main] = pc[Main] /\ \A u \in Others : u # t => pc'[u] = pc[u] /\ loc'[u] = loc[u]
  BY <1>2, <1>8
<1>10. ThreadsOK'
  BY <1>1, <1>2, <1>7, <1>8, <1>9 DEF ThreadsOK
<1>11. \A u \in Others : pc'[u] \in Owning => pc[u] \in Owning /\ loc'[u] = loc[u]
  BY <1>7, <1>8, <1>9
<1>12. DataOK'
  <2>1. terminate[t] # 0
    BY <1>1, <1>6 DEF DataOK
  <2>2. pc'[t] \notin {"end", "late_end"}
    BY <1>7, <1>8 DEF Owning
  <2> QED BY <1>1, <1>2, <1>6, <1>8, <2>1, <2>2, DataReleased
<1>13. LateOK'
  <2>1. \A u \in Others : pc'[u] \in Owning =>
           pc[u] \in Owning /\ loc'[u] = loc[u] /\ (Terminable(loc[u])' => Terminable(loc[u]))
    BY <1>6, <1>11 DEF Terminable
  <2> QED BY <1>1, <1>6, <1>9, <2>1, LateKept
<1>14. \A u \in Others : u # t /\ pc[u] \in Owning => loc[u] # l
  BY <1>1, <1>4, <1>6 DEF LocationsOK, LocationOwnedOnce, Owning
<1>15. EventsOK'
  <2>1. /\ EndedBy(t, l) /\ EndDue(l) /\ ~Terminable(l) /\ ~EndedLate(l)
        /\ \A u \in Others : u # t => ~EndedBy(u, l)
        /\ ~BeginDue(l)
    <3>1. EndedBy(t, l)
      BY <1>4, <1>6 DEF EndedBy
    <3>2. \A u \in Others : u # t => ~EndedBy(u, l)
      BY <1>14 DEF EndedBy, Owning
    <3>3. ~BeginDue(l)
      BY <1>6, <1>14 DEF BeginDue, Owning
    <3> QED BY <1>1, <3>1, <3>2, <3>3 DEF EndDue, EventsOK
  <2>2. ASSUME NEW m \in LocationIds
        PROVE  /\ Terminable(m)' = Terminable(m)
               /\ EndedLate(m)' = EndedLate(m)
               /\ \A u \in Others : EndedBy(u, m)' <=> EndedBy(u, m) /\ u # t
               /\ EndDue(m)' <=> EndDue(m) /\ m # l
               /\ BeginDue(m)' <=> BeginDue(m)
    <3>1. Terminable(m)' = Terminable(m)
      BY <1>6 DEF Terminable
    <3>2. EndedLate(m)' = EndedLate(m)
      BY <1>6, <1>9 DEF EndedLate
    <3>3. \A u \in Others : EndedBy(u, m)' <=> EndedBy(u, m) /\ u # t
      BY <1>7, <1>8, <1>9 DEF EndedBy, Owning
    <3>4. EndedBy(t, m) => m = l
      BY <1>4 DEF EndedBy
    <3>5. EndDue(m)' <=> EndDue(m) /\ m # l
      BY <2>1, <3>1, <3>2, <3>3, <3>4 DEF EndDue
    <3>6. BeginDue(m)' <=> BeginDue(m)
      BY <1>6, <1>7, <1>8, <1>9 DEF BeginDue, Owning
    <3> QED BY <3>1, <3>2, <3>3, <3>5, <3>6
  <2>3. begun \in [LocationIds -> Int]
    BY <1>1 DEF EventsOK
  <2>4. begun' \in [LocationIds -> Int] /\ cursor' \in Nat \ {0}
        /\ (pc'[Main] = "late_end" => cursor' <= locations')
    <3>1. begun' \in [LocationIds -> Int]
      BY <1>6, <2>3
    <3> QED BY <1>1, <1>6, <1>9, <3>1 DEF EventsOK
  <2>5. ASSUME NEW m \in LocationIds
        PROVE  begun'[m] = (IF EndDue(m)' THEN 1 ELSE 0) - (IF BeginDue(m)' THEN 1 ELSE 0)
    <3>1. begun[m] = (IF EndDue(m) THEN 1 ELSE 0) - (IF BeginDue(m) THEN 1 ELSE 0)
      BY <1>1 DEF EventsOK
    <3>2. CASE m = l
      <4>1. begun'[m] = begun[m] - 1
        BY <1>6, <2>3, <3>2
      <4> QED BY <2>1, <2>2, <3>1, <3>2, <4>1
    <3>3. CASE m # l
      <4>1. begun'[m] = begun[m]
        BY <1>6, <2>3, <3>3
      <4> QED BY <2>2, <3>1, <3>3, <4>1
    <3> QED BY <3>2, <3>3
  <2>6. ASSUME NEW m \in LocationIds
        PROVE  /\ EndDue(m)' => m <= locations' /\ m \notin Pools'
               /\ Terminable(m)' => ~EndedLate(m)'
               /\ \A u \in Others : EndedBy(u, m)' => ~Terminable(m)' /\ ~EndedLate(m)'
    <3>1. EndDue(m)' => m <= locations' /\ m \notin Pools'
      BY <1>1, <1>3, <1>4, <1>6, <2>2 DEF EventsOK
    <3> QED BY <1>1, <2>2, <3>1 DEF EventsOK
  <2> QED BY <2>4, <2>5, <2>6 DEF EventsOK
<1> QED BY <1>3, <1>10, <1>12, <1>13, <1>15 DEF CreateWaitIInv

-----------------------------------------------------------------------------
(* The steps of the main thread, which finalises the measurement.          *)

(* It goes on to another label; what it owns is the location it ends.      *)
LEMMA MainMoves ==
  ASSUME ThreadsAssumption, ThreadsOK, LocationsOK,
         NEW label \in {"late_try", "late_end", "finished"}, Goto(Main, label), UNCHANGED poolVars
  PROVE  /\ ThreadsOK' /\ LocationsOK' /\ Pools' = Pools /\ locations' = locations
         /\ pc'[Main] = label
         /\ \A u \in Threads : u # Main => pc'[u] = pc[u]
         /\ \A u \in Others : u # Main /\ u \in Threads /\ pc'[u] = pc[u] /\ loc'[u] = loc[u]
<1>1. /\ Main \in Threads /\ label \in Labels
      /\ \A u \in Others : u # Main /\ u \in Threads
  BY DEF Threads, Labels, ThreadsAssumption
<1>2. /\ pc' \in [Threads -> Labels] /\ loc' \in [Threads -> LocationIds \cup {0}]
      /\ pc'[Main] = label
      /\ \A u \in Threads : u # Main => pc'[u] = pc[u] /\ loc'[u] = loc[u]
  BY <1>1, Moved
<1>3. \A u \in Others : u # Main /\ u \in Threads /\ pc'[u] = pc[u] /\ loc'[u] = loc[u]
  BY <1>1, <1>2
<1>4. ThreadsOK'
  BY <1>2, <1>3 DEF ThreadsOK
<1>5. LocationsOK' /\ Pools' = Pools
  BY <1>3, LocationsKept
<1> QED BY <1>2, <1>3, <1>4, <1>5 DEF poolVars

(* No location has been visited yet.                                       *)
LEMMA LeaveMeasurementKeeps ==
  ASSUME ThreadsAssumption, CreateWaitIInv, LeaveMeasurement
  PROVE  CreateWaitIInv'
<1>1. ThreadsOK /\ LocationsOK /\ DataOK /\ EventsOK /\ LateOK
  BY DEF CreateWaitIInv
<1>2. /\ pc[Main] = "run" /\ phase' = "POST" /\ Goto(Main, "late_try")
      /\ UNCHANGED <<is_finalized, cursor, terminate, late, poolVars, dataVars, begun>>
      /\ UNCHANGED <<subsystem_data, begun, locations>>
  BY DEF LeaveMeasurement, At, dataVars, eventVars, poolVars
<1>3. /\ ThreadsOK' /\ LocationsOK' /\ Pools' = Pools
      /\ pc'[Main] = "late_try" /\ \A u \in Others : pc'[u] = pc[u] /\ loc'[u] = loc[u]
  BY <1>1, <1>2, MainMoves
<1>4. DataOK'
  BY <1>1, <1>2, <1>3, DataKept
<1>5. EventsOK'
  <2>1. cursor' \in Nat \ {0}
    BY <1>1, <1>2 DEF EventsOK
  <2> QED BY <1>1, <1>2, <1>3, <2>1, EventsKept
<1>6. LateOK'
  <2>1. cursor = 1 /\ ~is_finalized /\ is_finalized \in BOOLEAN
    BY <1>1, <1>2 DEF LateOK
  <2>2. ASSUME NEW u \in Others \ late', pc'[u] \in Owning, loc'[u] < cursor' \/ is_finalized'
        PROVE  FALSE
    <3>1. loc[u] \in LocationIds /\ loc[u] < 1
      BY <1>1, <1>2, <1>3, <2>1, <2>2, LocationOfOwner
    <3>2. loc[u] \in Nat \ {0}
      BY <1>1, <3>1, LocationNumbers
    <3> QED BY <3>1, <3>2
  <2> QED BY <1>2, <1>3, <2>1, <2>2 DEF LateOK
<1> QED BY <1>3, <1>4, <1>5, <1>6 DEF CreateWaitIInv

(* The next location: the main thread gets its data, or there is nothing   *)
(* to be done for it.                                                      *)
LEMMA LateTryTerminateKeeps ==
  ASSUME ThreadsAssumption, CreateWaitIInv, LateTryTerminate
  PROVE  CreateWaitIInv'
<1>1. ThreadsOK /\ LocationsOK /\ DataOK /\ EventsOK /\ LateOK
  BY DEF CreateWaitIInv
<1>2. /\ pc[Main] = "late_try" /\ cursor <= locations
      /\ terminate' = [terminate EXCEPT ![Main] = subsystem_data[cursor]]
      /\ subsystem_data' = [subsystem_data EXCEPT ![cursor] = 0]
      /\ Goto(Main, IF subsystem_data[cursor] # 0 THEN "late_end" ELSE "late_try")
      /\ cursor' = IF subsystem_data[cursor] # 0 THEN cursor ELSE cursor + 1
      /\ UNCHANGED <<phase, is_finalized, late, active_locations, data_allocated,
                     subsystem_data_free_list, poolVars, begun>>
      /\ UNCHANGED begun
  BY DEF LateTryTerminate, At, DataAfterTry, eventVars
<1>3. PICK label \in {"late_end", "late_try"} :
        Goto(Main, label) /\ (label = "late_end" <=> subsystem_data[cursor] # 0)
  BY <1>2
<1>4. /\ ThreadsOK' /\ LocationsOK' /\ Pools' = Pools /\ locations' = locations
      /\ pc'[Main] = label /\ \A u \in Threads : u # Main => pc'[u] = pc[u]
      /\ \A u \in Others : pc'[u] = pc[u] /\ loc'[u] = loc[u]
  BY <1>1, <1>2, <1>3, MainMoves
<1>5. cursor \in LocationIds /\ cursor \in Nat \ {0}
  <2>1. locations \in LocationIds /\ LocationIds \subseteq Nat \ {0}
    BY <1>1, LocationNumbers
  <2>2. Cardinality(Others) \in Nat
    BY FS_CardinalityType DEF ThreadsAssumption
  <2> QED BY <1>1, <1>2, <2>1, <2>2 DEF EventsOK, LocationIds
<1>6. Main \in Threads /\ terminate[Main] = 0 /\ terminate \in [Threads -> Nat]
      /\ subsystem_data \in [LocationIds -> Nat]
  BY <1>1, <1>2 DEF DataOK, Threads
<1>7. CASE subsystem_data[cursor] = 0
  <2>1. UNCHANGED <<subsystem_data, terminate>> /\ cursor' = cursor + 1 /\ label = "late_try"
    BY <1>2, <1>3, <1>5, <1>6, <1>7
  <2>2. DataOK'
    BY <1>1, <1>2, <1>4, <2>1, DataKept DEF dataVars
  <2>3. EventsOK'
    <3>1. cursor' \in Nat \ {0}
      BY <1>5, <2>1
    <3> QED BY <1>1, <1>2, <1>4, <2>1, <3>1, EventsKept
  <2>4. LateOK'
    <3>1. ASSUME NEW u \in Others \ late', pc'[u] \in Owning, loc'[u] < cursor' \/ is_finalized'
          PROVE  ~Terminable(loc[u])'
      <4>1. loc[u] \in LocationIds /\ LocationIds \subseteq Nat \ {0}
        BY <1>1, <1>4, <3>1, LocationNumbers, LocationOfOwner
      <4>2. loc[u] < cursor \/ loc[u] = cursor \/ is_finalized
        <5>1. loc[u] < cursor + 1 \/ is_finalized
          BY <1>2, <1>4, <2>1, <3>1
        <5>2. loc[u] \in Nat /\ cursor \in Nat
          BY <1>5, <4>1
        <5> QED BY <5>1, <5>2
      <4> QED BY <1>1, <1>2, <1>4, <1>7, <2>1, <3>1, <4>2 DEF LateOK, Terminable
    <3>2. phase # "WITHIN"
      BY <1>1, <1>2 DEF LateOK
    <3> QED BY <1>1, <1>2, <1>4, <2>1, <3>1, <3>2 DEF LateOK
  <2> QED BY <1>4, <2>2, <2>3, <2>4 DEF CreateWaitIInv
<1>8. CASE subsystem_data[cursor] # 0
  <2>1. PICK l \in LocationIds : l = cursor
    BY <1>5
  <2>2. label = "late_end" /\ cursor' = cursor /\ subsystem_data[l] # 0
        /\ subsystem_data' = [subsystem_data EXCEPT ![l] = 0]
        /\ terminate' = [terminate EXCEPT ![Main] = subsystem_data[l]]
    BY <1>2, <1>3, <1>8, <2>1
  <2>3. DataOK'
    <3>1. UNCHANGED <<active_locations, data_allocated, subsystem_data_free_list>>
      BY <1>2
    <3>2. pc'[Main] = "late_end"
      BY <1>4, <2>2
    <3> QED BY <1>1, <1>4, <1>6, <2>2, <3>1, <3>2, DataTaken
  <2>4. /\ \A m \in LocationIds : m # l => subsystem_data'[m] = subsystem_data[m]
        /\ subsystem_data'[l] = 0
    BY <1>6, <2>2
  <2>5. EventsOK'
    <3>1. ASSUME NEW m \in LocationIds
          PROVE  /\ Terminable(m)' <=> Terminable(m) /\ m # l
                 /\ EndedLate(m)' <=> m = l
                 /\ ~EndedLate(m)
                 /\ \A u \in Others : EndedBy(u, m)' = EndedBy(u, m)
                 /\ EndDue(m)' <=> EndDue(m)
                 /\ BeginDue(m)' <=> BeginDue(m)
      <4>1. Terminable(m)' <=> Terminable(m) /\ m # l
        BY <2>4 DEF Terminable
      <4>2. EndedLate(m)' <=> m = l
        BY <1>4, <2>1, <2>2 DEF EndedLate
      <4>3. ~EndedLate(m)
        BY <1>2 DEF EndedLate
      <4>4. \A u \in Others : EndedBy(u, m)' = EndedBy(u, m)
        BY <1>4 DEF EndedBy
      <4>5. Terminable(l)
        BY <2>2 DEF Terminable
      <4>6. EndDue(m)' <=> EndDue(m)
        BY <4>1, <4>2, <4>3, <4>4, <4>5 DEF EndDue
      <4>7. BeginDue(m)' <=> BeginDue(m)
        BY <1>4 DEF BeginDue
      <4> QED BY <4>1, <4>2, <4>3, <4>4, <4>6, <4>7
    <3>2. Terminable(l) /\ \A u \in Others : ~EndedBy(u, l)
      BY <1>1, <2>2 DEF EventsOK, Terminable
    <3>3. begun' \in [LocationIds -> Int] /\ cursor' \in Nat \ {0} /\ cursor' <= locations'
      BY <1>1, <1>2, <1>4, <2>2 DEF EventsOK
    <3>4. ASSUME NEW m \in LocationIds
          PROVE  /\ EndDue(m)' => m <= locations' /\ m \notin Pools'
                 /\ Terminable(m)' => ~EndedLate(m)'
                 /\ \A u \in Others : EndedBy(u, m)' => ~Terminable(m)' /\ ~EndedLate(m)'
                 /\ begun'[m] = (IF EndDue(m)' THEN 1 ELSE 0) - (IF BeginDue(m)' THEN 1 ELSE 0)
      <4>1. EndDue(m)' => m <= locations' /\ m \notin Pools'
        BY <1>1, <1>4, <3>1 DEF EventsOK
      <4>2. Terminable(m)' => ~EndedLate(m)'
        BY <3>1
      <4>3. \A u \in Others : EndedBy(u, m)' => ~Terminable(m)' /\ ~EndedLate(m)'
        BY <1>1, <3>1, <3>2 DEF EventsOK
      <4>4. begun'[m] = (IF EndDue(m)' THEN 1 ELSE 0) - (IF BeginDue(m)' THEN 1 ELSE 0)
        BY <1>1, <1>2, <3>1 DEF EventsOK
      <4> QED BY <4>1, <4>2, <4>3, <4>4
    <3> QED BY <3>3, <3>4 DEF EventsOK
  <2>6. LateOK'
    <3>1. ASSUME NEW u \in Others, pc'[u] \in Owning
          PROVE  pc[u] \in Owning /\ loc'[u] = loc[u] /\ (Terminable(loc[u])' => Terminable(loc[u]))
      <4>1. pc[u] \in Owning /\ loc'[u] = loc[u]
        BY <1>4, <3>1
      <4>2. loc[u] \in LocationIds
        BY <1>1, <4>1, LocationOfOwner
      <4> QED BY <2>4, <4>1, <4>2 DEF Terminable
    <3>2. pc'[Main] = "run" <=> pc[Main] = "run"
      BY <1>2, <1>4, <2>2
    <3> QED BY <1>1, <1>2, <2>2, <3>1, <3>2, LateKept
  <2> QED BY <1>4, <2>3, <2>5, <2>6 DEF CreateWaitIInv
<1> QED BY <1>7, <1>8

(* The end event of a latecomer; its data is released.                     *)
LEMMA LateEndKeeps ==
  ASSUME ThreadsAssumption, CreateWaitIInv, LateEnd
  PROVE  CreateWaitIInv'
<1>1. ThreadsOK /\ LocationsOK /\ DataOK /\ EventsOK /\ LateOK
  BY DEF CreateWaitIInv
<1>2. /\ pc[Main] = "late_end" /\ begun' = [begun EXCEPT ![cursor] = @ - 1] /\ ReleaseData(Main)
      /\ cursor' = cursor + 1 /\ Goto(Main, "late_try")
      /\ UNCHANGED <<phase, is_finalized, late, poolVars>> /\ UNCHANGED subsystem_data
  BY DEF LateEnd, At, ReleaseData
<1>3. /\ ThreadsOK' /\ LocationsOK' /\ Pools' = Pools /\ locations' = locations
      /\ pc'[Main] = "late_try" /\ \A u \in Threads : u # Main => pc'[u] = pc[u]
      /\ \A u \in Others : pc'[u] = pc[u] /\ loc'[u] = loc[u]
  BY <1>1, <1>2, MainMoves
<1>4. DataOK'
  <2>1. Main \in Threads /\ terminate[Main] # 0
    BY <1>1, <1>2 DEF DataOK, Threads
  <2> QED BY <1>1, <1>2, <1>3, <2>1, DataReleased
<1>5. PICK l \in LocationIds : l = cursor
  <2>1. locations \in LocationIds /\ LocationIds \subseteq Nat \ {0}
    BY <1>1, LocationNumbers
  <2>2. Cardinality(Others) \in Nat
    BY FS_CardinalityType DEF ThreadsAssumption
  <2> QED BY <1>1, <1>2, <2>1, <2>2 DEF EventsOK, LocationIds
<1>6. EndedLate(l) /\ EndDue(l) /\ ~Terminable(l) /\ \A u \in Others : ~EndedBy(u, l)
  <2>1. EndedLate(l)
    BY <1>2, <1>5 DEF EndedLate
  <2> QED BY <1>1, <2>1 DEF EventsOK, EndDue
<1>7. EventsOK'
  <2>1. ASSUME NEW m \in LocationIds
        PROVE  /\ Terminable(m)' = Terminable(m)
               /\ ~EndedLate(m)'
               /\ EndedLate(m) => m = l
               /\ \A u \in Others : EndedBy(u, m)' = EndedBy(u, m)
               /\ EndDue(m)' <=> EndDue(m) /\ m # l
               /\ BeginDue(m)' <=> BeginDue(m)
    <3>1. Terminable(m)' = Terminable(m)
      BY <1>2 DEF Terminable
    <3>2. ~EndedLate(m)'
      BY <1>3 DEF EndedLate
    <3>3. EndedLate(m) => m = l
      BY <1>5 DEF EndedLate
    <3>4. \A u \in Others : EndedBy(u, m)' = EndedBy(u, m)
      BY <1>3 DEF EndedBy
    <3>5. EndDue(m)' <=> EndDue(m) /\ m # l
      BY <1>6, <3>1, <3>2, <3>3, <3>4 DEF EndDue
    <3>6. BeginDue(m)' <=> BeginDue(m)
      BY <1>3 DEF BeginDue
    <3> QED BY <3>1, <3>2, <3>3, <3>4, <3>5, <3>6
  <2>2. begun \in [LocationIds -> Int] /\ cursor \in Nat \ {0}
    BY <1>1 DEF EventsOK
  <2>3. begun' = [begun EXCEPT ![l] = @ - 1]
    BY <1>2, <1>5
  <2>4. begun' \in [LocationIds -> Int] /\ cursor' \in Nat \ {0} /\ pc'[Main] # "late_end"
    BY <1>2, <1>3, <2>2, <2>3
  <2>5. ASSUME NEW m \in LocationIds
        PROVE  begun'[m] = (IF EndDue(m)' THEN 1 ELSE 0) - (IF BeginDue(m)' THEN 1 ELSE 0)
    <3>1. begun[m] = (IF EndDue(m) THEN 1 ELSE 0) - (IF BeginDue(m) THEN 1 ELSE 0)
      BY <1>1 DEF EventsOK
    <3>2. CASE m = l
      <4>1. begun'[m] = begun[m] - 1
        BY <2>2, <2>3, <3>2
      <4> QED BY <1>6, <2>1, <3>1, <3>2, <4>1
    <3>3. CASE m # l
      <4>1. begun'[m] = begun[m]
        BY <2>2, <2>3, <3>3
      <4> QED BY <2>1, <3>1, <3>3, <4>1
    <3> QED BY <3>2, <3>3
  <2>6. ASSUME NEW m \in LocationIds
        PROVE  /\ EndDue(m)' => m <= locations' /\ m \notin Pools'
               /\ Terminable(m)' => ~EndedLate(m)'
               /\ \A u \in Others : EndedBy(u, m)' => ~Terminable(m)' /\ ~EndedLate(m)'
    <3>1. EndDue(m)' => m <= locations' /\ m \notin Pools'
      BY <1>1, <1>3, <2>1 DEF EventsOK
    <3> QED BY <1>1, <2>1, <3>1 DEF EventsOK
  <2> QED BY <2>4, <2>5, <2>6 DEF EventsOK
<1>8. LateOK'
  <2>1. ASSUME NEW u \in Others \ late', pc'[u] \in Owning, loc'[u] < cursor' \/ is_finalized'
        PROVE  ~Terminable(loc[u])'
    <3>1. loc[u] \in LocationIds /\ loc[u] \in Nat /\ cursor \in Nat
      BY <1>1, <1>3, <2>1, LocationNumbers, LocationOfOwner DEF EventsOK
    <3>2. loc[u] < cursor + 1 \/ is_finalized
      BY <1>2, <1>3, <2>1
    <3>3. loc[u] < cursor \/ loc[u] = cursor \/ is_finalized
      BY <3>1, <3>2
    <3>4. ~Terminable(loc[u])
      BY <1>1, <1>2, <1>3, <1>5, <1>6, <2>1, <3>3 DEF LateOK
    <3> QED BY <1>2, <1>3, <2>1, <3>4 DEF Terminable
  <2>2. phase # "WITHIN"
    BY <1>1, <1>2 DEF LateOK
  <2> QED BY <1>1, <1>2, <1>3, <2>1, <2>2 DEF LateOK
<1> QED BY <1>3, <1>4, <1>7, <1>8 DEF CreateWaitIInv

(* All locations have been visited.                                        *)
LEMMA FinalizeSubsystemsKeeps ==
  ASSUME ThreadsAssumption, CreateWaitIInv, FinalizeSubsystems
  PROVE  CreateWaitIInv'
<1>1. ThreadsOK /\ LocationsOK /\ DataOK /\ EventsOK /\ LateOK
  BY DEF CreateWaitIInv
<1>2. /\ pc[Main] = "late_try" /\ cursor > locations /\ Goto(Main, "finished")
      /\ is_finalized' \in {TRUE, is_finalized}
      /\ UNCHANGED <<phase, cursor, terminate, late, poolVars, dataVars, begun>>
      /\ UNCHANGED <<subsystem_data, begun, locations>>
  BY DEF FinalizeSubsystems, AllVisited, At, dataVars, eventVars, poolVars
<1>3. /\ ThreadsOK' /\ LocationsOK' /\ Pools' = Pools
      /\ pc'[Main] = "finished" /\ \A u \in Others : pc'[u] = pc[u] /\ loc'[u] = loc[u]
  BY <1>1, <1>2, MainMoves
<1>4. DataOK'
  BY <1>1, <1>2, <1>3, DataKept
<1>5. EventsOK'
  <2>1. cursor' \in Nat \ {0}
    BY <1>1, <1>2 DEF EventsOK
  <2> QED BY <1>1, <1>2, <1>3, <2>1, EventsKept
<1>6. LateOK'
  <2>1. ASSUME NEW u \in Others \ late', pc'[u] \in Owning
        PROVE  ~Terminable(loc[u])'
    <3>1. loc[u] \in 1 .. locations /\ locations \in Nat /\ cursor \in Nat
      BY <1>1, <1>3, <2>1, LocationNumbers DEF LocationsOK, EventsOK
    <3>2. loc[u] < cursor
      BY <1>2, <3>1
    <3> QED BY <1>1, <1>2, <1>3, <2>1, <3>2 DEF LateOK, Terminable
  <2>2. phase # "WITHIN"
    BY <1>1, <1>2 DEF LateOK
  <2> QED BY <1>1, <1>2, <1>3, <2>1, <2>2 DEF LateOK
<1> QED BY <1>3, <1>4, <1>5, <1>6 DEF CreateWaitIInv

-----------------------------------------------------------------------------
(* The invariant.                                                          *)

(* In the beginning there is only the main thread.                         *)
LEMMA InitiallyOwned ==
  ASSUME ThreadsAssumption, Init
  PROVE  CreateWaitIInv
<1>1. Cardinality(Others) \in Nat
  BY FS_CardinalityType DEF ThreadsAssumption
<1>2. LocationIds \subseteq Nat /\ 1 \in LocationIds
  BY <1>1 DEF LocationIds
<1>3. /\ Main \in Threads /\ Main \notin Others /\ Others \subseteq Threads
      /\ pc[Main] = "run" /\ \A t \in Others : pc[t] = "unborn"
  BY DEF Init, Threads, ThreadsAssumption
<1>4. ThreadsOK
  <2>1. pc \in [Threads -> Labels]
    BY DEF Init, Labels
  <2>2. loc \in [Threads -> LocationIds \cup {0}]
    BY <1>2 DEF Init
  <2> QED BY <1>3, <2>1, <2>2 DEF ThreadsOK
<1>5. \A k \in Keys : tpd_reuse_pool[k] = << >>
  BY DEF Init
<1>6. Pools = {}
  BY <1>5, EmptyList DEF Pools
<1>7. LocationsOK
  <2>1. BegunThreads = {}
    BY <1>3 DEF BegunThreads
  <2>2. Cardinality(BegunThreads) = 0
    BY <2>1, FS_EmptySet
  <2>3. tpd_reuse_pool \in [Keys -> Seq(LocationIds)]
    <3>1. << >> \in Seq(LocationIds)
      OBVIOUS
    <3> QED BY <3>1 DEF Init
  <2>4. LocationOwnedOnce
    <3>1. \A k \in Keys : Range(tpd_reuse_pool[k]) = {} /\ DOMAIN tpd_reuse_pool[k] = {}
      BY <1>5, EmptyList
    <3> QED BY <1>3, <3>1 DEF LocationOwnedOnce, Owning, Pooled
  <2>5. tpd_reuse_key \in [LocationIds -> Keys \cup {None}]
    BY DEF Init
  <2>6. locations \in 1 .. Cardinality(BegunThreads) + 1
    BY <2>2 DEF Init
  <2> QED BY <1>3, <1>6, <2>3, <2>4, <2>5, <2>6 DEF LocationsOK, Owning
<1>8. DataOK
  <2>1. /\ subsystem_data = [l \in LocationIds |-> 0] /\ terminate = [t \in Threads |-> 0]
        /\ data_allocated = 0 /\ subsystem_data_free_list = << >> /\ active_locations = 0
    BY DEF Init
  <2>2. Used = {} /\ Cardinality(Used) = 0
    BY <2>1, FS_EmptySet DEF Used
  <2>3. Free = {} /\ subsystem_data_free_list \in Seq(Nat) /\ IsInjective(subsystem_data_free_list)
    BY <2>1, EmptyList DEF Free
  <2>4. HeldOnce
    BY <2>1 DEF HeldOnce
  <2> QED BY <1>3, <2>1, <2>2, <2>3, <2>4 DEF DataOK
<1>9. EventsOK
  <2>1. \A l \in LocationIds : begun[l] = 0 /\ ~Terminable(l) /\ ~EndedLate(l)
    BY <1>3 DEF Init, Terminable, EndedLate
  <2>2. \A l \in LocationIds : ~EndDue(l) /\ ~BeginDue(l) /\ \A t \in Others : ~EndedBy(t, l)
    BY <1>3, <2>1 DEF EndDue, BeginDue, EndedBy
  <2>3. begun \in [LocationIds -> Int] /\ cursor = 1
    BY DEF Init
  <2> QED BY <1>3, <2>1, <2>2, <2>3 DEF EventsOK
<1>10. LateOK
  BY <1>3 DEF Init, LateOK, Owning
<1> QED BY <1>4, <1>7, <1>8, <1>9, <1>10 DEF CreateWaitIInv

(* The steps of the other threads that record neither begin nor end.       *)
LEMMA OtherThreadStepKeeps ==
  ASSUME ThreadsAssumption, CreateWaitIInv, NEW t \in Others,
         \/ OrphanAppears(t) \/ Execute(t) \/ CleanupTest(t)
         \/ LinkArg(t) \/ PutArg(t) \/ ClearArg(t) \/ KeepArg(t)
  PROVE  CreateWaitIInv'
<1> DEFINE same == UNCHANGED <<late, terminate, phase, is_finalized, cursor, poolVars, dataVars, begun>>
<1> USE DEF phaseVars, eventVars
<1>1. CASE Record(t)
  <2>1. UNCHANGED ownershipVars
    BY <1>1 DEF Record, ownershipVars, threadVars
  <2> QED BY <2>1, NothingOwnedChanges
<1>2. CASE OrphanAppears(t)
  <2>1. pc[t] = "unborn" /\ Goto(t, "start") /\ same
    BY <1>2 DEF OrphanAppears, At
  <2> QED BY <2>1, ThreadGoesOn DEF Labels, Owning
<1>3. CASE Return(t) \/ PthreadExit(t) \/ PthreadExitOutside(t) \/ OrphanEnds(t) \/ ActOnCancel(t)
  <2>1. pc[t] = "run" /\ Goto(t, "cleanup") /\ same
    BY <1>3 DEF Return, PthreadExit, PthreadExitOutside, OrphanEnds, ActOnCancel, At
  <2> QED BY <2>1, ThreadGoesOn DEF Labels, Owning
<1>4. CASE ReturnOutside(t)
  <2>1. pc[t] = "run" /\ Goto(t, "finished") /\ same
    BY <1>4 DEF ReturnOutside, At
  <2> QED BY <2>1, ThreadGoesOn DEF Labels, Owning
<1>5. CASE CleanupTest(t)
  <2>1. pc[t] = "cleanup" /\ same
    BY <1>5 DEF CleanupTest, At
  <2>2. PICK label \in {"try", "finished"} : Goto(t, label)
    BY <1>5 DEF CleanupTest
  <2> QED BY <2>1, <2>2, ThreadGoesOn DEF Labels, Owning
<1>6. CASE LinkArg(t)
  <2>1. pc[t] = "tail" /\ Goto(t, "put") /\ same
    BY <1>6 DEF LinkArg, At
  <2> QED BY <2>1, ThreadGoesOn DEF Labels, Owning
<1>7. CASE PutArg(t)
  <2>1. pc[t] = "put" /\ Goto(t, "clear") /\ same
    BY <1>7 DEF PutArg, At
  <2> QED BY <2>1, ThreadGoesOn DEF Labels, Owning
<1>8. CASE ClearArg(t)
  <2>1. pc[t] = "clear" /\ Goto(t, "finished") /\ same
    BY <1>8 DEF ClearArg, At
  <2> QED BY <2>1, ThreadGoesOn DEF Labels, Owning
<1>9. CASE KeepArg(t)
  <2>1. pc[t] = "tail" /\ Goto(t, "finished") /\ same
    BY <1>9 DEF KeepArg, At
  <2> QED BY <2>1, ThreadGoesOn DEF Labels, Owning
<1> QED BY <1>1, <1>2, <1>3, <1>4, <1>5, <1>6, <1>7, <1>8, <1>9 DEF Execute

(* The steps of a thread that creates and joins others.                    *)
LEMMA CreatorStepKeeps ==
  ASSUME ThreadsAssumption, CreateWaitIInv, NEW t \in Threads, NEW u \in Workers,
         Create(t, u) \/ JoinCanceled(t, u) \/ JoinWithin(t, u)
  PROVE  CreateWaitIInv'
<1> USE DEF phaseVars, eventVars
<1>1. CASE Create(t, u)
  <2>1. pc[u] = "unborn" /\ Goto(u, "start") /\ u \in Others
        /\ UNCHANGED <<late, terminate, phase, is_finalized, cursor, poolVars, dataVars, begun>>
    BY <1>1 DEF Create, Others
  <2> QED BY <2>1, ThreadGoesOn DEF Labels, Owning
<1>2. CASE JoinCanceled(t, u)
  <2>1. UNCHANGED ownershipVars
    BY <1>2 DEF JoinCanceled, ownershipVars
  <2> QED BY <2>1, NothingOwnedChanges
<1>3. CASE JoinWithin(t, u)
  <2>1. UNCHANGED ownershipVars
    BY <1>3 DEF JoinWithin, ownershipVars
  <2> QED BY <2>1, NothingOwnedChanges
<1> QED BY <1>1, <1>2, <1>3

(* The invariant is inductive.                                             *)
LEMMA NextKeepsOwnership ==
  ASSUME ThreadsAssumption, CreateWaitIInv, [Next]_vars
  PROVE  CreateWaitIInv'
<1>1. CASE UNCHANGED vars
  <2>1. UNCHANGED ownershipVars
    BY <1>1 DEF vars, ownershipVars, phaseVars, threadVars, eventVars
  <2> QED BY <2>1, NothingOwnedChanges
<1>2. CASE Finalize
  BY <1>2, LeaveMeasurementKeeps, LateTryTerminateKeeps, LateEndKeeps, FinalizeSubsystemsKeeps
  DEF Finalize
<1>3. ASSUME NEW t \in Threads, NEW u \in Workers,
             Create(t, u) \/ JoinCanceled(t, u) \/ JoinWithin(t, u)
      PROVE  CreateWaitIInv'
  BY <1>3, CreatorStepKeeps
<1>4. ASSUME NEW t \in Others, OrphanAppears(t) \/ Begin(t) \/ Execute(t) \/ End(t)
      PROVE  CreateWaitIInv'
  <2>1. CASE InitThread(t)
    BY <2>1, InitThreadKeeps
  <2>2. CASE BeginEvent(t)
    BY <2>2, BeginEventKeeps
  <2>3. CASE TryTerminate(t)
    BY <2>3, TryTerminateKeeps
  <2>4. CASE EndThread(t)
    BY <2>4, EndThreadKeeps
  <2>5. CASE \/ OrphanAppears(t) \/ Execute(t) \/ CleanupTest(t)
             \/ LinkArg(t) \/ PutArg(t) \/ ClearArg(t) \/ KeepArg(t)
    BY <2>5, OtherThreadStepKeeps
  <2> QED BY <1>4, <2>1, <2>2, <2>3, <2>4, <2>5 DEF Begin, End
<1> QED BY <1>1, <1>2, <1>3, <1>4 DEF Next

(* Locations, their subsystem data and their events have one owner each, in *)
(* every reachable state.                                                  *)
THEOREM Ownership == Spec => []CreateWaitIInv
<1>1. Init => CreateWaitIInv
  BY ThreadsAssumption, InitiallyOwned
<1>2. CreateWaitIInv /\ [Next]_vars => CreateWaitIInv'
  BY ThreadsAssumption, NextKeepsOwnership
<1> QED BY <1>1, <1>2, PTL DEF Spec

-----------------------------------------------------------------------------
(* The properties.                                                         *)

(* Threads that run at the same time never record on the same location,    *)
(* whatever the reuse policy and however the threads before them ended.    *)
THEOREM LocationsOwnedOnce == Spec => []LocationOwnedOnce
<1>1. CreateWaitIInv => LocationOwnedOnce
  BY DEF CreateWaitIInv, LocationsOK
<1> QED BY <1>1, Ownership, PTL

(* Between two begins of a location there is one end, the thread's own or  *)
(* the one that the finalising thread writes for it.                       *)
THEOREM OneEndPerBegin == Spec => []EndsFollowBegins
<1>1. CreateWaitIInv => EndsFollowBegins
  BY DEF CreateWaitIInv, EventsOK, EndsFollowBegins, BeginDue
<1> QED BY <1>1, Ownership, PTL

(* No subsystem data is lost, released twice or used by two locations, and *)
(* active_locations counts what is in use.                                 *)
THEOREM DataIsConserved == Spec => []DataConserved
<1>1. ASSUME DataOK PROVE Cardinality(Free) = Len(subsystem_data_free_list)
  BY <1>1, LengthOfInjective DEF DataOK, Free
<1>2. DataOK => DataConserved
  BY <1>1 DEF DataOK, HeldOnce, DataConserved, Free, Used
<1> QED BY <1>2, Ownership, PTL DEF CreateWaitIInv

(* When the subsystems are finalised, every thread that began within the   *)
(* measurement and still runs has had its end recorded.                    *)
THEOREM AllLatecomersEnded == Spec => []LatecomersEnded
<1>1. CreateWaitIInv => LatecomersEnded
  BY DEF CreateWaitIInv, LateOK, LatecomersEnded, Terminable, Owning
<1> QED BY <1>1, Ownership, PTL
=============================================================================
