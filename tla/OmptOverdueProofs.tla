------------------------- MODULE OmptOverdueProofs -------------------------
(***************************************************************************)
(* Proofs that every location sees each team of the OMPT adapter end once, *)
(* that its task and region objects outlive their use, and that its times  *)
(* never decrease with a runtime that reports late (OmptOverdue), for any  *)
(* number of threads, objects and regions.                                 *)
(*                                                                         *)
(* The events of a location are written by whoever has a claim to it: the  *)
(* thread whose task is stored there, the thread that has taken the task   *)
(* out to end it, or the one that trigger_overdue_events makes end it for  *)
(* another.  OmptIInv says that there is one at a time, and where it is    *)
(* tells the last event of the location.  Which thread may take a task out *)
(* is a matter of the exchange (StoredOK), of the lock of the location     *)
(* (LocksOK) and of the wait for overdue use (TasksOK, FreeOK); that no    *)
(* thread of the current region is taken for one of the past is a matter   *)
(* of counting those that have arrived in the barrier (TeamOK, CountOK).   *)
(*                                                                         *)
(* ObjectsOK adds what the reference count of a region counts: the threads *)
(* that have still to release it, the indices not given out yet and        *)
(* parallel_end, so that it is zero, and the region in the pool, when no   *)
(* thread has it; a task is in a pool when no thread has it.               *)
(*                                                                         *)
(* TimesOK adds, for a runtime that reports the end of a worker's barrier  *)
(* after the end of the primary thread's task, what the times are: the     *)
(* primary thread takes those of a region when all have arrived, and a     *)
(* thread writes an end, its own or the overdue one of an earlier region,  *)
(* when both are stored.                                                   *)
(***************************************************************************)
EXTENDS OmptOverdue, ListLemmas, FiniteSetTheorems

(* The places of a thread that writes the end of a task, its own or the      *)
(* overdue one of another thread (on_implicit_task_end and                   *)
(* trigger_overdue_events).                                                  *)
Ending == {"ibarrier_end", "write ibarrier_end", "left", "task_end", "write task_end"}

(* Where a thread can be. *)
Places == {"idle", "begin", "overdue", "team_begin", "work", "barrier", "exchange", "release", "join"} \cup Ending

(* What a location's log can hold. *)
Events == [event : {"team_begin", "ibarrier_begin", "ibarrier_end", "team_end"}, team : Nat, time : Nat]

(* The values of a thread's record and of a parallel object. *)
CrewRecords == [pc : Places, index : LocationIds, parallel : ParallelObjects \cup {NULL},
                ptr : TaskObjects \cup {NULL}, ends : TaskObjects \cup {NULL}, time : Nat]
ParallelRecords == [region : Nat, ref_count : Int, ibarrier_end : Nat, itask_end : Nat]

(* The types of the variables; the current region is one of those planned. *)
TypesOK ==
  /\ omp \in [setup : OmptSetups, region : Nat, finalizing : BOOLEAN, mutex : OmpThreads \cup {NULL}]
  /\ omp.region \in 0 .. Len(omp.setup.sizes)
  /\ crew \in [OmpThreads -> CrewRecords]
  /\ taken \in [RegionIds -> SUBSET LocationIds]
  /\ arrived \in [RegionIds -> Nat]
  /\ parallel \in [ParallelObjects -> ParallelRecords]
  /\ parallel_regions_free_list \in Seq(ParallelObjects)
  /\ task \in [TaskObjects -> [index : LocationIds, parallel : ParallelObjects \cup {NULL}, in_overdue_use : BOOLEAN]]
  /\ tasks_free_list \in [OmpThreads -> Seq(TaskObjects)]
  /\ stored_task \in [LocationIds -> TaskObjects \cup {NULL, Encountering}]
  /\ preserve_order \in [LocationIds -> BOOLEAN]
  /\ is_ompt_location \in [LocationIds -> BOOLEAN]
  /\ thread_team \in [LocationIds -> Nat]
  /\ stamps \in Nat
  /\ log \in [LocationIds -> Seq(Events)]

(* Where a thread is; whether it writes an end that is overdue, left by      *)
(* another thread; whether it has yet to arrive in the barrier of the        *)
(* current region.                                                           *)
Pc(t) == crew[t].pc
Overdue(t) == Pc(t) \in Ending /\ crew[t].ptr = NULL
Early(t) == Pc(t) \in {"begin", "overdue", "team_begin", "work"} \/ Overdue(t)
EarlyThreads == {t \in OmpThreads : Early(t)}

(* The primary thread is in its region and has not left its barrier. *)
PrimaryPhase == Pc(Primary) \in {"begin", "overdue", "team_begin", "work", "barrier"}

(* The team: a thread in it has an index of its own, and an early thread     *)
(* belongs to the primary's region, which nobody has finished.               *)
TeamOK ==
  /\ crew[Primary].index = 0
  /\ \A t \in Workers : Pc(t) # "idle" => crew[t].index # 0 /\ Pc(t) # "join"
  /\ \A t \in OmpThreads : Pc(t) # "idle" => crew[t].parallel \in ParallelObjects
  /\ Pc(Primary) # "idle" => omp.region > 0 /\ parallel[crew[Primary].parallel].region = omp.region
  /\ \A t \in OmpThreads : Early(t) =>
       PrimaryPhase /\ crew[t].parallel = crew[Primary].parallel /\ crew[t].index \in taken[omp.region]
  /\ \A t, u \in OmpThreads : Early(t) /\ Early(u) /\ crew[t].index = crew[u].index => t = u
  /\ \A t \in OmpThreads : Pc(t) \in {"overdue", "team_begin"} \/ Overdue(t) =>
       thread_team[crew[t].index] = Size(omp.region)

(* The early threads and the arrived ones are no more than the indices       *)
(* taken, so that the barrier opens only when no thread of the region is     *)
(* early.                                                                    *)
CountOK ==
  /\ omp.region > 0 =>
       /\ 0 \in taken[omp.region] /\ taken[omp.region] \subseteq 0 .. Size(omp.region) - 1
       /\ Cardinality(EarlyThreads) + arrived[omp.region] <= Cardinality(taken[omp.region])
       /\ ~PrimaryPhase => taken[omp.region] = 0 .. Size(omp.region) - 1
  /\ \A r \in RegionIds : r > omp.region => arrived[r] = 0
  /\ omp.finalizing => Pc(Primary) = "idle" /\ omp.region = Len(omp.setup.sizes)

(* The task objects in the pool of a thread. *)
Free(t) == Range(tasks_free_list[t])

(* Who has which task: a thread from its first event to its release, and     *)
(* nobody else; an overdue end is written for a task whose thread waits for  *)
(* that.                                                                     *)
TasksOK ==
  /\ \A t \in OmpThreads :
       /\ Pc(t) \in {"work", "barrier", "exchange", "release"} => crew[t].ptr \in TaskObjects
       /\ Pc(t) \in {"idle", "begin", "overdue", "team_begin", "join"} => crew[t].ptr = NULL
       /\ Pc(t) \in Ending => crew[t].ends \in TaskObjects /\ crew[t].ptr \in {NULL, crew[t].ends}
       /\ crew[t].ptr # NULL =>
            /\ task[crew[t].ptr].index = crew[t].index /\ task[crew[t].ptr].parallel \in ParallelObjects
            /\ is_ompt_location[crew[t].index]
  /\ \A t, u \in OmpThreads : crew[t].ptr # NULL /\ crew[t].ptr = crew[u].ptr => t = u
  /\ \A t \in OmpThreads : Overdue(t) =>
       \E u \in OmpThreads \ {t} :
         /\ crew[u].ptr = crew[t].ends /\ crew[u].index = crew[t].index
         /\ Pc(u) \in {"barrier", "exchange", "release"} /\ task[crew[t].ends].in_overdue_use

(* A task in a pool is used by nobody, and is in one pool, once. *)
FreeOK ==
  /\ \A t, u \in OmpThreads : crew[t].ptr \notin Free(u)
  /\ \A t \in OmpThreads : Free(t) \cap NewTasks = {}
  /\ \A t, u \in OmpThreads : t # u => Free(t) \cap Free(u) = {}
  /\ \A t \in OmpThreads : IsInjective(tasks_free_list[t])

(* The task of a thread is still the one stored at its location, so that the *)
(* thread is the one that will write its end.                                *)
Owns(t) == Pc(t) \in {"work", "barrier", "exchange"} /\ stored_task[crew[t].index] = crew[t].ptr

(* The task stored at a location other than the initial one belongs to a     *)
(* thread that owns it: whoever takes it out has to end it.                  *)
StoredOK ==
  /\ \A l \in LocationIds \ {0} : stored_task[l] # NULL => \E t \in OmpThreads : crew[t].index = l /\ Owns(t)
  /\ \A t \in OmpThreads : Pc(t) = "work" => Owns(t)
  /\ Pc(Primary) \in {"barrier", "exchange"} => Owns(Primary)
  /\ Pc(Primary) \in {"begin", "overdue", "team_begin"} => stored_task[0] = NULL

(* The thread holds the location's lock that keeps its events in order. *)
Locks(t) == Pc(t) = "exchange" \/ (Pc(t) \in Ending /\ crew[t].ptr # NULL /\ omp.mutex # t)

(* One thread holds the lock of a location; the finalising thread holds its  *)
(* own.                                                                      *)
LocksOK ==
  /\ \A t \in OmpThreads : Locks(t) /\ crew[t].index # 0 => preserve_order[crew[t].index]
  /\ \A t, u \in OmpThreads : Locks(t) /\ Locks(u) /\ crew[t].index = crew[u].index => t = u
  /\ omp.mutex # NULL => omp.finalizing /\ Pc(omp.mutex) \in Ending \cup {"release"} /\ crew[omp.mutex].ptr # NULL

(* The thread has begun its events of the region at its location, or is the  *)
(* one that writes the rest of another thread's.                             *)
Claims(t) == Pc(t) \in Ending \/ Owns(t)

(* One thread has a claim to a location, and none when a team begins there. *)
ClaimsOK ==
  /\ \A t, u \in OmpThreads : Claims(t) /\ Claims(u) /\ crew[t].index = crew[u].index => t = u
  /\ \A t, u \in OmpThreads : Pc(t) = "team_begin" /\ Claims(u) => crew[u].index # crew[t].index

(* The last event of a location; it began a team of one thread; nobody has a *)
(* claim to the location.                                                    *)
LastIs(l, event) == log[l] # << >> /\ log[l][Len(log[l])].event = event
OneThread(l) == LastIs(l, "team_begin") /\ log[l][Len(log[l])].team = 1
Unclaimed(l) == \A t \in OmpThreads : Claims(t) => crew[t].index # l

(* Where a thread with a claim is says what the last event of its location   *)
(* is.                                                                       *)
PlaceOfLog(t, l) ==
  /\ Pc(t) = "work" => LastIs(l, "team_begin")
  /\ Pc(t) \in {"barrier", "exchange", "ibarrier_end", "write ibarrier_end"} => LastIs(l, "ibarrier_begin")
  /\ Pc(t) = "left" => LastIs(l, "ibarrier_end")
  /\ Pc(t) \in {"task_end", "write task_end"} => LastIs(l, "ibarrier_end") \/ OneThread(l)

(* One event may come after the other. *)
Follows(first, second) ==
  \/ <<first.event, second.event>> \in InOrder
  \/ first.event = "team_begin" /\ second.event = "team_end" /\ first.team = 1

(* The log of a location is where the thread with the claim to it is, and    *)
(* ends with a team_end when there is none; its events follow one another.   *)
LogOK ==
  /\ \A t \in OmpThreads : Claims(t) => PlaceOfLog(t, crew[t].index)
  /\ \A l \in LocationIds : Unclaimed(l) => log[l] = << >> \/ LastIs(l, "team_end")
  /\ \A l \in LocationIds : \A i \in 1 .. Len(log[l]) - 1 : Follows(log[l][i], log[l][i + 1])

(* The inductive invariant. *)
OmptIInv == TypesOK /\ TeamOK /\ CountOK /\ TasksOK /\ FreeOK /\ StoredOK /\ LocksOK /\ ClaimsOK /\ LogOK

-----------------------------------------------------------------------------
(* What the assumption on the constants says of the sets of the model. *)
LEMMA Setting ==
  ASSUME TypesOK
  PROVE  /\ Primary \in OmpThreads /\ IsFiniteSet(OmpThreads) /\ Workers = OmpThreads \ {Primary}
         /\ Cardinality(Workers) \in Nat /\ 0 \in LocationIds /\ LocationIds \subseteq Nat
         /\ Len(omp.setup.sizes) \in Nat /\ RegionIds = 1 .. Len(omp.setup.sizes)
         /\ \A r \in RegionIds : /\ Size(r) \in Nat \ {0} /\ Size(r) <= Cardinality(Workers) + 1
                                 /\ 0 .. Size(r) - 1 \subseteq LocationIds
         /\ NULL \notin OmpThreads /\ NULL \notin TaskObjects /\ NULL \notin ParallelObjects
         /\ Encountering \notin TaskObjects /\ Encountering # NULL
<1>1. IsFiniteSet(OmpThreads)
  BY OmptAssumption, FS_AddElement DEF OmpThreads
<1>2. Cardinality(Workers) \in Nat
  BY OmptAssumption, FS_CardinalityType
<1>3. omp.setup \in OmptSetups
  BY DEF TypesOK
<1>4. omp.setup.sizes \in Seq(1 .. Cardinality(Workers) + 1)
  BY <1>3, OmptAssumption
<1>5. Len(omp.setup.sizes) \in Nat /\ RegionIds = 1 .. Len(omp.setup.sizes)
  BY <1>4, LenProperties DEF RegionIds
<1>6. \A r \in RegionIds : Size(r) \in 1 .. Cardinality(Workers) + 1
  BY <1>4, <1>5, ElementOfSeq DEF Size
<1>7. 0 \in LocationIds /\ LocationIds \subseteq Nat
  BY <1>2 DEF LocationIds
<1>8. \A r \in RegionIds : /\ Size(r) \in Nat \ {0} /\ Size(r) <= Cardinality(Workers) + 1
                           /\ 0 .. Size(r) - 1 \subseteq LocationIds
  BY <1>2, <1>6 DEF LocationIds
<1> QED BY <1>1, <1>2, <1>5, <1>7, <1>8, OmptAssumption DEF OmpThreads

(* A log with one more event. *)
LEMMA LogWritten ==
  ASSUME NEW s \in Seq(Events), NEW e \in Events
  PROVE  /\ s \o <<e>> \in Seq(Events) /\ s \o <<e>> # << >>
         /\ Len(s) \in Nat /\ Len(s \o <<e>>) = Len(s) + 1
         /\ \A i \in 1 .. Len(s) : (s \o <<e>>)[i] = s[i]
         /\ (s \o <<e>>)[Len(s) + 1] = e
<1>1. <<e>> \in Seq(Events) /\ Len(<<e>>) = 1 /\ <<e>>[1] = e
  OBVIOUS
<1>2. Len(s) \in Nat
  BY LenProperties
<1>3. /\ s \o <<e>> \in Seq(Events) /\ Len(s \o <<e>>) = Len(s) + 1
      /\ \A i \in 1 .. Len(s) + 1 : (s \o <<e>>)[i] = IF i <= Len(s) THEN s[i] ELSE <<e>>[i - Len(s)]
  BY <1>1, ConcatProperties
<1>4. (s \o <<e>>)[Len(s) + 1] = e
  <2>1. Len(s) + 1 \in 1 .. Len(s) + 1 /\ ~(Len(s) + 1 <= Len(s)) /\ Len(s) + 1 - Len(s) = 1
    BY <1>2
  <2> QED BY <1>1, <1>3, <2>1
<1>5. \A i \in 1 .. Len(s) : i \in 1 .. Len(s) + 1 /\ i <= Len(s)
  BY <1>2
<1>6. s \o <<e>> # << >>
  BY <1>2, <1>3, EmptySeq
<1> QED BY <1>2, <1>3, <1>4, <1>5, <1>6

(* What each thread is doing.                                              *)
LEMMA Member ==
  ASSUME TypesOK, NEW t \in OmpThreads
  PROVE  /\ crew[t] = [pc |-> crew[t].pc, index |-> crew[t].index, parallel |-> crew[t].parallel,
                       ptr |-> crew[t].ptr, ends |-> crew[t].ends, time |-> crew[t].time]
         /\ Pc(t) \in Places /\ crew[t].index \in LocationIds /\ crew[t].index \in Nat
         /\ crew[t].parallel \in ParallelObjects \cup {NULL}
         /\ crew[t].ptr \in TaskObjects \cup {NULL} /\ crew[t].ends \in TaskObjects \cup {NULL}
         /\ crew[t].time \in Nat
<1>1. LocationIds \subseteq Nat
  BY Setting
<1> QED BY <1>1 DEF TypesOK, CrewRecords, Pc

(* A thread goes on in the code, keeping its place in the team.            *)
LEMMA GoesOn ==
  ASSUME TypesOK, NEW t \in OmpThreads, NEW pc, crew' = [crew EXCEPT ![t].pc = pc]
  PROVE  /\ \A u \in OmpThreads \ {t} : crew'[u] = crew[u]
         /\ crew'[t].pc = pc /\ crew'[t].index = crew[t].index /\ crew'[t].parallel = crew[t].parallel
         /\ crew'[t].ptr = crew[t].ptr /\ crew'[t].ends = crew[t].ends /\ crew'[t].time = crew[t].time
  BY DEF TypesOK, CrewRecords

(* The task whose end a thread writes.                                     *)
LEMMA EndsFacts ==
  ASSUME TypesOK, TasksOK, NEW t \in OmpThreads, Pc(t) \in Ending
  PROVE  /\ crew[t].ends \in TaskObjects /\ Ends(t).index = crew[t].index
         /\ EndsParallel(t) \in ParallelObjects /\ is_ompt_location[crew[t].index]
         /\ crew[t].ptr \in {NULL, crew[t].ends}
<1>1. crew[t].ends \in TaskObjects /\ crew[t].ptr \in {NULL, crew[t].ends} /\ crew[t].ends # NULL
  BY Setting DEF TasksOK
<1>2. CASE crew[t].ptr = crew[t].ends
  BY <1>1, <1>2 DEF TasksOK, Ends, EndsParallel
<1>3. CASE crew[t].ptr = NULL
  <2>1. PICK u \in OmpThreads : crew[u].ptr = crew[t].ends /\ crew[u].index = crew[t].index
    BY <1>3 DEF TasksOK, Overdue
  <2> QED BY <1>1, <2>1 DEF TasksOK, Ends, EndsParallel
<1> QED BY <1>1, <1>2, <1>3

(* An object taken from a pool was in the pool or is new, and has left the   *)
(* pool.                                                                     *)
LEMMA PoolFacts ==
  ASSUME NEW S, NEW list \in Seq(S), NEW new \in SUBSET S, InPool(list, new)
  PROVE  /\ FromPool(list, new) \in S /\ AfterPool(list) \in Seq(S)
         /\ FromPool(list, new) \in Range(list) \cup new
         /\ IsInjective(list) => IsInjective(AfterPool(list))
         /\ IsInjective(list) => Range(AfterPool(list)) = Range(list) \ {FromPool(list, new)} \/ list = << >>
         /\ list = << >> => AfterPool(list) = << >> /\ FromPool(list, new) \in new
<1>1. CASE list = << >>
  BY <1>1 DEF InPool, FromPool, AfterPool
<1>2. CASE list # << >>
  <2>1. Head(list) \in S /\ Tail(list) \in Seq(S) /\ Head(list) \in Range(list)
    BY <1>2, HeadTailProperties, EmptySeq, LenProperties, ElementOfSeq DEF Range
  <2>2. IsInjective(list) => IsInjective(Tail(list)) /\ Range(Tail(list)) = Range(list) \ {Head(list)}
    BY <1>2, WithoutHead
  <2> QED BY <1>2, <2>1, <2>2 DEF FromPool, AfterPool
<1> QED BY <1>1, <1>2

(* Finding out the time of an event changes the record of that thread alone. *)
LEMMA TimeTaken ==
  ASSUME TypesOK, NEW t \in OmpThreads, NEW stored \in Nat, NEW next \in Places, TakeTime(t, stored, next)
  PROVE  /\ TypesOK' 
         /\ \A u \in OmpThreads \ {t} : crew'[u] = crew[u]
         /\ crew'[t].pc = next /\ crew'[t].index = crew[t].index /\ crew'[t].parallel = crew[t].parallel
         /\ crew'[t].ptr = crew[t].ptr /\ crew'[t].ends = crew[t].ends /\ crew'[t].time \in Nat
         /\ UNCHANGED <<runtimeVars, parallel, task, poolVarsOmpt, locationData, thread_team, log>>
<1>1. PICK time \in Nat : crew' = [crew EXCEPT ![t].pc = next, ![t].time = time]
  <2>1. CASE Ends(t).index = 0
    <3>1. stamps' = stamps + 1 /\ crew' = [crew EXCEPT ![t].pc = next, ![t].time = 2 * stamps']
      BY <2>1 DEF TakeTime
    <3>2. 2 * stamps' \in Nat
      BY <3>1 DEF TypesOK
    <3> QED BY <3>1, <3>2
  <2>2. CASE Ends(t).index # 0
    BY <2>2 DEF TakeTime
  <2> QED BY <2>1, <2>2
<1>2. stamps' \in Nat
  BY DEF TakeTime, TypesOK
<1>3. UNCHANGED <<runtimeVars, parallel, task, poolVarsOmpt, locationData, thread_team, log>>
  BY DEF TakeTime
<1>4. crew' \in [OmpThreads -> CrewRecords]
  <2>1. crew \in [OmpThreads -> CrewRecords]
    BY DEF TypesOK
  <2>2. \A r \in CrewRecords : [r EXCEPT !.pc = next] \in CrewRecords
    BY DEF CrewRecords
  <2>3. \A r \in CrewRecords : [r EXCEPT !.time = time] \in CrewRecords
    BY DEF CrewRecords
  <2> QED BY <1>1, <2>1, <2>2, <2>3
<1>5. TypesOK'
  BY <1>2, <1>3, <1>4 DEF TypesOK, runtimeVars, poolVarsOmpt, locationData, RegionIds
<1> QED BY <1>1, <1>3, <1>5 DEF TypesOK, CrewRecords

-----------------------------------------------------------------------------
(* A step within the region. *)
SameRegion == omp'.region = omp.region /\ omp'.setup = omp.setup

(* A step after which every early thread was early before keeps the team. *)
LEMMA TeamKept ==
  ASSUME TypesOK, TeamOK, SameRegion, UNCHANGED taken,
         \A p \in ParallelObjects : parallel'[p].region = parallel[p].region,
         \A u \in OmpThreads : Pc(u)' # "idle" \/ u = Primary => crew'[u].index = crew[u].index,
         \A u \in OmpThreads : Pc(u)' # "idle" => crew'[u].parallel = crew[u].parallel,
         \A u \in OmpThreads : Pc(u)' # "idle" => Pc(u) # "idle" /\ (Pc(u)' = "join" => u = Primary),
         \A u \in OmpThreads : Early(u)' => Early(u),
         \A u \in OmpThreads : Pc(u)' \in {"overdue", "team_begin"} \/ Overdue(u)' =>
            thread_team'[crew[u].index] = Size(omp.region),
         \A u \in OmpThreads : Early(u)' /\ PrimaryPhase => PrimaryPhase'
  PROVE  TeamOK'
<1>0. /\ Primary \in OmpThreads /\ Workers = OmpThreads \ {Primary} /\ \A r : Size(r)' = Size(r)
  BY Setting DEF SameRegion, Size
<1>1. Pc(Primary)' # "idle" => crew[Primary].parallel \in ParallelObjects
  BY <1>0 DEF TeamOK
<1>2. /\ crew'[Primary].index = 0
      /\ \A u \in Workers : Pc(u)' # "idle" => crew'[u].index # 0 /\ Pc(u)' # "join"
      /\ \A u \in OmpThreads : Pc(u)' # "idle" => crew'[u].parallel \in ParallelObjects
  BY <1>0 DEF TeamOK
<1>3. Pc(Primary)' # "idle" => omp'.region > 0 /\ parallel'[crew'[Primary].parallel].region = omp'.region
  BY <1>0, <1>1 DEF TeamOK, SameRegion
<1>4. ASSUME NEW u \in OmpThreads, Early(u)'
      PROVE  /\ PrimaryPhase' /\ crew'[u].parallel = crew'[Primary].parallel
             /\ crew'[u].index \in taken'[omp'.region]
  <2>1. Early(u) /\ Pc(u)' # "idle"
    BY <1>4 DEF Early, Overdue, Ending
  <2>2. PrimaryPhase' /\ Pc(Primary)' # "idle"
    BY <1>4, <2>1 DEF TeamOK, PrimaryPhase
  <2> QED BY <1>0, <2>1, <2>2 DEF TeamOK, SameRegion
<1>5. \A u, v \in OmpThreads : Early(u)' /\ Early(v)' /\ crew'[u].index = crew'[v].index => u = v
  <2>1. \A u \in OmpThreads : Early(u)' => Early(u) /\ crew'[u].index = crew[u].index
    BY DEF Early, Overdue, Ending
  <2> QED BY <2>1 DEF TeamOK
<1>6. \A u \in OmpThreads : Pc(u)' \in {"overdue", "team_begin"} \/ Overdue(u)' =>
            thread_team'[crew'[u].index] = Size(omp.region)'
  <2>1. \A u \in OmpThreads : Pc(u)' \in {"overdue", "team_begin"} \/ Overdue(u)' => Pc(u)' # "idle"
    BY DEF Overdue, Ending
  <2> QED BY <1>0, <2>1 DEF SameRegion
<1> QED BY <1>2, <1>3, <1>4, <1>5, <1>6 DEF TeamOK

(* How many threads are early. *)
LEMMA EarlyNumber ==
  ASSUME TypesOK
  PROVE  IsFiniteSet(EarlyThreads) /\ Cardinality(EarlyThreads) \in Nat
<1>1. EarlyThreads \subseteq OmpThreads /\ IsFiniteSet(OmpThreads)
  BY Setting DEF EarlyThreads
<1> QED BY <1>1, FS_Subset, FS_CardinalityType

(* Threads that are no longer early lower the number. *)
LEMMA FewerEarly ==
  ASSUME TypesOK, \A u \in OmpThreads : Early(u)' => Early(u)
  PROVE  /\ Cardinality(EarlyThreads) \in Nat /\ Cardinality(EarlyThreads') \in Nat
         /\ Cardinality(EarlyThreads') <= Cardinality(EarlyThreads)
         /\ \A t \in OmpThreads : Early(t) /\ ~Early(t)' => Cardinality(EarlyThreads') + 1 <= Cardinality(EarlyThreads)
<1>1. EarlyThreads' \subseteq EarlyThreads
  BY DEF EarlyThreads
<1>2. IsFiniteSet(EarlyThreads) /\ Cardinality(EarlyThreads) \in Nat
  BY EarlyNumber
<1>3. Cardinality(EarlyThreads') \in Nat /\ Cardinality(EarlyThreads') <= Cardinality(EarlyThreads)
  BY <1>1, <1>2, FS_Subset, FS_CardinalityType
<1>4. ASSUME NEW t \in OmpThreads, Early(t), ~Early(t)'
      PROVE  Cardinality(EarlyThreads') + 1 <= Cardinality(EarlyThreads)
  <2>1. t \in EarlyThreads /\ EarlyThreads' \subseteq EarlyThreads \ {t}
    BY <1>1, <1>4 DEF EarlyThreads
  <2>2. IsFiniteSet(EarlyThreads \ {t}) /\ Cardinality(EarlyThreads \ {t}) = Cardinality(EarlyThreads) - 1
    BY <1>2, <2>1, FS_RemoveElement
  <2>3. Cardinality(EarlyThreads') <= Cardinality(EarlyThreads \ {t})
    BY <2>1, <2>2, FS_Subset
  <2> QED BY <1>2, <1>3, <2>2, <2>3
<1> QED BY <1>2, <1>3, <1>4

(* The current region. *)
LEMMA RegionFacts ==
  ASSUME TypesOK, CountOK, omp.region > 0
  PROVE  /\ omp.region \in RegionIds /\ Size(omp.region) \in Nat \ {0}
         /\ arrived[omp.region] \in Nat
         /\ IsFiniteSet(taken[omp.region]) /\ Cardinality(taken[omp.region]) \in Nat
         /\ Cardinality(taken[omp.region]) <= Size(omp.region)
         /\ Cardinality(taken[omp.region]) = Size(omp.region) => taken[omp.region] = 0 .. Size(omp.region) - 1
<1>1. omp.region \in RegionIds
  BY Setting DEF TypesOK
<1>2. Size(omp.region) \in Nat \ {0}
  BY <1>1, Setting
<1>3. Size(omp.region) - 1 \in Int /\ ~(0 > Size(omp.region) - 1) /\ Size(omp.region) - 1 - 0 + 1 = Size(omp.region)
  BY <1>2
<1>4. IsFiniteSet(0 .. Size(omp.region) - 1) /\ Cardinality(0 .. Size(omp.region) - 1) = Size(omp.region)
  BY <1>3, FS_Interval
<1>5. taken[omp.region] \subseteq 0 .. Size(omp.region) - 1
  BY DEF CountOK
<1>6. arrived[omp.region] \in Nat
  BY <1>1 DEF TypesOK
<1>7. /\ IsFiniteSet(taken[omp.region]) /\ Cardinality(taken[omp.region]) <= Size(omp.region)
      /\ Cardinality(taken[omp.region]) = Size(omp.region) => taken[omp.region] = 0 .. Size(omp.region) - 1
  BY <1>4, <1>5, FS_Subset
<1>8. Cardinality(taken[omp.region]) \in Nat
  BY <1>7, FS_CardinalityType
<1> QED BY <1>1, <1>2, <1>6, <1>7, <1>8

(* When the last has arrived in the barrier, no thread is early.           *)
LEMMA AllArrived ==
  ASSUME TypesOK, CountOK, omp.region > 0, arrived[omp.region] = Size(omp.region)
  PROVE  EarlyThreads = {} /\ taken[omp.region] = 0 .. Size(omp.region) - 1
<1>1. /\ Cardinality(EarlyThreads) \in Nat /\ IsFiniteSet(EarlyThreads)
      /\ Cardinality(EarlyThreads) + arrived[omp.region] <= Cardinality(taken[omp.region])
  BY EarlyNumber DEF CountOK
<1>2. Cardinality(EarlyThreads) = 0 /\ Cardinality(taken[omp.region]) = Size(omp.region)
  BY <1>1, RegionFacts
<1> QED BY <1>1, <1>2, FS_EmptySet, RegionFacts

(* ... and the number of its threads, when each that is no longer early is   *)
(* counted in the barrier.                                                   *)
LEMMA CountKept ==
  ASSUME CountOK, SameRegion, UNCHANGED taken,
         \A r \in RegionIds : r > omp.region => arrived'[r] = arrived[r],
         omp.region > 0 =>
           Cardinality(EarlyThreads') + arrived'[omp.region] <= Cardinality(taken[omp.region]),
         omp.region > 0 /\ PrimaryPhase /\ ~PrimaryPhase' => taken[omp.region] = 0 .. Size(omp.region) - 1,
         omp'.finalizing => /\ omp.finalizing \/ omp.region = Len(omp.setup.sizes)
                            /\ Pc(Primary)' = "idle"
  PROVE  CountOK'
<1>0. RegionIds' = RegionIds /\ \A r : Size(r)' = Size(r)
  BY DEF SameRegion, RegionIds, Size
<1>1. omp'.region > 0 =>
        Cardinality(EarlyThreads') + arrived'[omp'.region] <= Cardinality(taken'[omp'.region])
  BY DEF SameRegion
<1>2. omp'.region > 0 =>
        /\ 0 \in taken'[omp'.region] /\ taken'[omp'.region] \subseteq 0 .. Size(omp.region)' - 1
        /\ ~PrimaryPhase' => taken'[omp'.region] = 0 .. Size(omp.region)' - 1
  BY <1>0 DEF CountOK, SameRegion
<1>3. /\ \A r \in RegionIds' : r > omp'.region => arrived'[r] = 0
      /\ omp'.finalizing => Pc(Primary)' = "idle" /\ omp'.region = Len(omp'.setup.sizes)
  BY <1>0 DEF CountOK, SameRegion
<1> QED BY <1>1, <1>2, <1>3 DEF CountOK

(* A thread that does not arrive in the barrier.                           *)
LEMMA CountUnmoved ==
  ASSUME TypesOK, CountOK, SameRegion, UNCHANGED <<taken, arrived>>,
         \A u \in OmpThreads : Early(u)' => Early(u),
         omp.region > 0 /\ PrimaryPhase /\ ~PrimaryPhase' => taken[omp.region] = 0 .. Size(omp.region) - 1,
         omp'.finalizing => /\ omp.finalizing \/ omp.region = Len(omp.setup.sizes)
                            /\ Pc(Primary)' = "idle"
  PROVE  CountOK'
<1>1. omp.region > 0 =>
        Cardinality(EarlyThreads') + arrived'[omp.region] <= Cardinality(taken[omp.region])
  <2> SUFFICES ASSUME omp.region > 0
               PROVE  Cardinality(EarlyThreads') + arrived[omp.region] <= Cardinality(taken[omp.region])
    OBVIOUS
  <2>1. arrived[omp.region] \in Nat /\ Cardinality(taken[omp.region]) \in Nat
    BY RegionFacts
  <2>2. /\ Cardinality(EarlyThreads) \in Nat /\ Cardinality(EarlyThreads') \in Nat
        /\ Cardinality(EarlyThreads') <= Cardinality(EarlyThreads)
    BY FewerEarly
  <2>3. Cardinality(EarlyThreads) + arrived[omp.region] <= Cardinality(taken[omp.region])
    BY DEF CountOK
  <2> QED BY <2>1, <2>2, <2>3
<1> QED BY <1>1, CountKept

(* The places where a thread has a task and where it has none. *)
HasTask == {"work", "barrier", "exchange", "release"}
HasNone == {"idle", "begin", "overdue", "team_begin", "join"}
Waiting == {"barrier", "exchange", "release"}

(* A step that gives no thread a task and takes none away keeps the owners. *)
LEMMA TasksKept ==
  ASSUME TasksOK, UNCHANGED is_ompt_location,
         \A u \in OmpThreads : /\ crew'[u].index = crew[u].index /\ crew'[u].ptr = crew[u].ptr
                               /\ crew'[u].ends = crew[u].ends,
         \A o \in TaskObjects : task'[o].index = task[o].index /\ task'[o].parallel = task[o].parallel,
         \A u \in OmpThreads : /\ Pc(u)' \in HasTask => Pc(u) \in HasTask
                               /\ Pc(u)' \in HasNone => Pc(u) \in HasNone \/ crew[u].ptr = NULL
                               /\ Pc(u)' \in Ending => Pc(u) \in Ending
                               /\ Pc(u) \in Waiting => Pc(u)' \in Waiting,
         \A u \in OmpThreads : crew[u].ptr # NULL => crew[u].ptr \in TaskObjects,
         \A u \in OmpThreads : Overdue(u)' /\ task[crew[u].ends].in_overdue_use => task'[crew[u].ends].in_overdue_use
  PROVE  TasksOK'
<1>1. ASSUME NEW u \in OmpThreads
      PROVE  /\ Pc(u)' \in HasTask => crew'[u].ptr \in TaskObjects
             /\ Pc(u)' \in HasNone => crew'[u].ptr = NULL
             /\ Pc(u)' \in Ending => crew'[u].ends \in TaskObjects /\ crew'[u].ptr \in {NULL, crew'[u].ends}
  BY DEF TasksOK, HasTask, HasNone
<1>2. ASSUME NEW u \in OmpThreads, crew'[u].ptr # NULL
      PROVE  /\ task'[crew'[u].ptr].index = crew'[u].index /\ task'[crew'[u].ptr].parallel \in ParallelObjects
             /\ is_ompt_location'[crew'[u].index]
  BY <1>2 DEF TasksOK
<1>3. \A u, v \in OmpThreads : crew'[u].ptr # NULL /\ crew'[u].ptr = crew'[v].ptr => u = v
  BY DEF TasksOK
<1>4. ASSUME NEW u \in OmpThreads, Overdue(u)'
      PROVE  \E v \in OmpThreads \ {u} :
               /\ crew'[v].ptr = crew'[u].ends /\ crew'[v].index = crew'[u].index
               /\ Pc(v)' \in Waiting /\ task'[crew'[u].ends].in_overdue_use
  <2>1. Overdue(u)
    BY <1>4 DEF Overdue
  <2>2. PICK v \in OmpThreads \ {u} :
               /\ crew[v].ptr = crew[u].ends /\ crew[v].index = crew[u].index
               /\ Pc(v) \in Waiting /\ task[crew[u].ends].in_overdue_use
    BY <2>1 DEF TasksOK, Waiting
  <2> QED BY <1>4, <2>2
<1> QED BY <1>1, <1>2, <1>3, <1>4 DEF TasksOK, HasTask, HasNone, Waiting

(* The pools do not change, and nobody has taken a task of theirs. *)
LEMMA FreeKept ==
  ASSUME TypesOK, FreeOK, UNCHANGED tasks_free_list,
         \A u \in OmpThreads : crew'[u].ptr \in {NULL, crew[u].ptr},
         \A o \in TaskObjects : task'[o].parallel = task[o].parallel
  PROVE  FreeOK'
<1>1. NewTasks' = NewTasks
  BY DEF NewTasks
<1>2. \A u \in OmpThreads : Free(u)' = Free(u)
  BY DEF Free
<1>3. \A u \in OmpThreads : NULL \notin Free(u)
  <2>1. \A u \in OmpThreads : tasks_free_list[u] \in Seq(TaskObjects)
    BY DEF TypesOK
  <2>2. \A u \in OmpThreads : Free(u) \subseteq TaskObjects
    BY <2>1, LenProperties, ElementOfSeq DEF Free, Range
  <2> QED BY <2>2, Setting
<1> QED BY <1>1, <1>2, <1>3 DEF FreeOK

(* The stored tasks do not change, and each still has its owner. *)
LEMMA StoredKept ==
  ASSUME StoredOK, UNCHANGED stored_task,
         \A u \in OmpThreads : Owns(u) => Owns(u)' /\ crew'[u].index = crew[u].index,
         \A u \in OmpThreads : Pc(u)' = "work" => Pc(u) = "work",
         Pc(Primary)' \in {"barrier", "exchange"} => Pc(Primary) \in {"work", "barrier", "exchange"},
         Pc(Primary)' \in {"begin", "overdue", "team_begin"} => Pc(Primary) \in {"begin", "overdue", "team_begin"},
         Primary \in OmpThreads
  PROVE  StoredOK'
<1>1. \A l \in LocationIds \ {0} : stored_task'[l] # NULL => \E u \in OmpThreads : crew'[u].index = l /\ Owns(u)'
  BY DEF StoredOK
<1>2. \A u \in OmpThreads : Pc(u)' = "work" => Owns(u)'
  BY DEF StoredOK
<1>3. Pc(Primary)' \in {"barrier", "exchange"} => Owns(Primary)'
  BY DEF StoredOK
<1>4. Pc(Primary)' \in {"begin", "overdue", "team_begin"} => stored_task'[0] = NULL
  BY DEF StoredOK
<1> QED BY <1>1, <1>2, <1>3, <1>4 DEF StoredOK

(* No thread takes a location's lock. *)
LEMMA LocksKept ==
  ASSUME LocksOK, UNCHANGED preserve_order,
         omp'.mutex = omp.mutex, omp.finalizing => omp'.finalizing,
         \A u \in OmpThreads : Locks(u)' => Locks(u) /\ crew'[u].index = crew[u].index,
         omp.mutex # NULL => crew'[omp.mutex].pc \in Ending \cup {"release"} /\ crew'[omp.mutex].ptr # NULL
  PROVE  LocksOK'
<1>1. \A u \in OmpThreads : Locks(u)' /\ crew'[u].index # 0 => preserve_order'[crew'[u].index]
  BY DEF LocksOK
<1>2. \A u, v \in OmpThreads : Locks(u)' /\ Locks(v)' /\ crew'[u].index = crew'[v].index => u = v
  BY DEF LocksOK
<1>3. omp'.mutex # NULL =>
        omp'.finalizing /\ Pc(omp.mutex)' \in Ending \cup {"release"} /\ crew'[omp'.mutex].ptr # NULL
  BY DEF LocksOK, Pc
<1> QED BY <1>1, <1>2, <1>3 DEF LocksOK, Pc

(* No thread gets a claim to a location. *)
LEMMA ClaimsKept ==
  ASSUME ClaimsOK,
         \A u \in OmpThreads : Claims(u)' => Claims(u) /\ crew'[u].index = crew[u].index,
         \A u \in OmpThreads : Pc(u)' = "team_begin" => Pc(u) = "team_begin" /\ crew'[u].index = crew[u].index
  PROVE  ClaimsOK'
<1>1. \A u, v \in OmpThreads : Claims(u)' /\ Claims(v)' /\ crew'[u].index = crew'[v].index => u = v
  BY DEF ClaimsOK
<1>2. \A u, v \in OmpThreads : Pc(u)' = "team_begin" /\ Claims(v)' => crew'[v].index # crew'[u].index
  BY DEF ClaimsOK
<1> QED BY <1>1, <1>2 DEF ClaimsOK

(* The logs do not change, and the threads with a claim are where they       *)
(* allow.                                                                    *)
LEMMA LogKept ==
  ASSUME LogOK, UNCHANGED log,
         \A u \in OmpThreads : (Claims(u)' <=> Claims(u)) /\ (Claims(u) => crew'[u].index = crew[u].index),
         \A u \in OmpThreads, l \in LocationIds : Claims(u) /\ PlaceOfLog(u, l) => PlaceOfLog(u, l)',
         \A u \in OmpThreads : crew[u].index \in LocationIds
  PROVE  LogOK'
<1>1. \A u \in OmpThreads : Claims(u)' => PlaceOfLog(u, crew[u].index)'
  <2> SUFFICES ASSUME NEW u \in OmpThreads, Claims(u)' PROVE PlaceOfLog(u, crew[u].index)'
    OBVIOUS
  <2>1. PICK l \in LocationIds : l = crew[u].index
    OBVIOUS
  <2>2. PlaceOfLog(u, l)'
    BY <2>1 DEF LogOK
  <2> QED BY <2>1, <2>2 DEF PlaceOfLog, LastIs, OneThread, Pc
<1>2. \A l \in LocationIds : Unclaimed(l)' => log'[l] = << >> \/ LastIs(l, "team_end")'
  BY DEF LogOK, Unclaimed, LastIs
<1>3. \A l \in LocationIds : \A i \in 1 .. Len(log'[l]) - 1 : Follows(log'[l][i], log'[l][i + 1])
  BY DEF LogOK
<1> QED BY <1>1, <1>2, <1>3 DEF LogOK

-----------------------------------------------------------------------------
(* A thread t goes from one place to another; the others do not move.      *)
Others(t) == \A u \in OmpThreads \ {t} : crew'[u] = crew[u]
Keeps(t) == /\ crew'[t].index = crew[t].index /\ crew'[t].parallel = crew[t].parallel
            /\ crew'[t].ptr = crew[t].ptr /\ crew'[t].ends = crew[t].ends

(* The record of a thread that goes on is one. *)
LEMMA GoesOnTyped ==
  ASSUME TypesOK, NEW t \in OmpThreads, NEW pc \in Places, crew' = [crew EXCEPT ![t].pc = pc]
  PROVE  Others(t) /\ Keeps(t) /\ Pc(t)' = pc /\ crew' \in [OmpThreads -> CrewRecords]
<1>1. \A r \in CrewRecords : [r EXCEPT !.pc = pc] \in CrewRecords
  BY DEF CrewRecords
<1>2. crew' \in [OmpThreads -> CrewRecords]
  BY <1>1 DEF TypesOK
<1> QED BY <1>2, GoesOn DEF Others, Keeps, Pc

(* Every thread's index is a location's, its task a task object. *)
LEMMA AllPlaces ==
  ASSUME TypesOK
  PROVE  /\ \A u \in OmpThreads : crew[u].index \in LocationIds
         /\ \A u \in OmpThreads : crew[u].ptr # NULL => crew[u].ptr \in TaskObjects
  BY Member

(* The time a thread writes is a number. *)
LEMMA TimeIsNat ==
  ASSUME TypesOK, NEW t \in OmpThreads
  PROVE  TimeOf(t) \in Nat /\ Now \in Nat
<1>1. stamps \in Nat
  BY DEF TypesOK
<1>2. Now \in Nat
  BY <1>1 DEF Now
<1>3. crew[t].time \in Nat
  BY Member
<1> QED BY <1>2, <1>3 DEF TimeOf

(* A parallel object with another count or time keeps its region. *)
LEMMA ParallelField ==
  ASSUME TypesOK, NEW p \in ParallelObjects, NEW n \in Int
  PROVE  /\ n \in Nat => /\ [parallel EXCEPT ![p].ibarrier_end = n] \in [ParallelObjects -> ParallelRecords]
                        /\ [parallel EXCEPT ![p].itask_end = n] \in [ParallelObjects -> ParallelRecords]
         /\ [parallel EXCEPT ![p].ref_count = n] \in [ParallelObjects -> ParallelRecords]
         /\ parallel \in [ParallelObjects -> ParallelRecords]
         /\ \A q \in ParallelObjects : /\ [parallel EXCEPT ![p].ibarrier_end = n][q].region = parallel[q].region
                                      /\ [parallel EXCEPT ![p].itask_end = n][q].region = parallel[q].region
                                      /\ [parallel EXCEPT ![p].ref_count = n][q].region = parallel[q].region
<1>1. parallel \in [ParallelObjects -> ParallelRecords]
  BY DEF TypesOK
<1>2. \A r \in ParallelRecords : /\ n \in Nat => /\ [r EXCEPT !.ibarrier_end = n] \in ParallelRecords
                                               /\ [r EXCEPT !.itask_end = n] \in ParallelRecords
                                 /\ [r EXCEPT !.ref_count = n] \in ParallelRecords
                                 /\ [r EXCEPT !.ibarrier_end = n].region = r.region
                                 /\ [r EXCEPT !.itask_end = n].region = r.region
                                 /\ [r EXCEPT !.ref_count = n].region = r.region
  BY DEF ParallelRecords
<1> QED BY <1>1, <1>2

(* Between two events of the end of a task, nothing changes hands.         *)
EndingStep(t) ==
  /\ Pc(t) \in Ending /\ Pc(t)' \in Ending /\ Others(t) /\ Keeps(t)
  /\ \A p \in ParallelObjects : parallel'[p].region = parallel[p].region
  /\ UNCHANGED <<runtimeVars, task, poolVarsOmpt, locationData, thread_team>>

(* Such a step keeps all but what is said of types and logs. *)
LEMMA EndingStepKeeps ==
  ASSUME TypesOK, TeamOK, CountOK, TasksOK, FreeOK, StoredOK, LocksOK, ClaimsOK,
         NEW t \in OmpThreads, EndingStep(t)
  PROVE  /\ TeamOK' /\ CountOK' /\ TasksOK' /\ FreeOK' /\ StoredOK' /\ LocksOK' /\ ClaimsOK'
         /\ \A u \in OmpThreads : (Claims(u)' <=> Claims(u)) /\ crew'[u].index = crew[u].index
<1>0. Primary \in OmpThreads /\ omp' = omp /\ UNCHANGED <<taken, arrived, stored_task, preserve_order, is_ompt_location, tasks_free_list>>
  BY Setting DEF EndingStep, runtimeVars, locationData, poolVarsOmpt
<1>1. \A u \in OmpThreads : /\ crew'[u].index = crew[u].index /\ crew'[u].parallel = crew[u].parallel
                            /\ crew'[u].ptr = crew[u].ptr /\ crew'[u].ends = crew[u].ends
  BY DEF EndingStep, Others, Keeps
<1>2. \A u \in OmpThreads : Pc(u)' = Pc(u) \/ (u = t /\ Pc(u) \in Ending /\ Pc(u)' \in Ending)
  BY DEF EndingStep, Others, Pc
<1>3. \A u \in OmpThreads : (Overdue(u)' <=> Overdue(u)) /\ (Early(u)' <=> Early(u))
  BY <1>1, <1>2 DEF Overdue, Early, Ending
<1>4. \A u \in OmpThreads : (Owns(u)' <=> Owns(u)) /\ (Claims(u)' <=> Claims(u))
  BY <1>0, <1>1, <1>2 DEF Owns, Claims, Ending
<1>5. \A u \in OmpThreads : Locks(u)' <=> Locks(u)
  BY <1>0, <1>1, <1>2 DEF Locks, Ending
<1>6. PrimaryPhase' <=> PrimaryPhase
  BY <1>0, <1>2 DEF PrimaryPhase, Ending
<1>7. Pc(t) \notin {"idle", "join", "overdue", "team_begin", "work", "barrier", "exchange", "release", "begin"}
      /\ Pc(t)' \notin {"idle", "join", "overdue", "team_begin", "work", "barrier", "exchange", "release", "begin"}
  BY DEF EndingStep, Ending
<1>8. TeamOK' /\ CountOK'
  <2>1. SameRegion
    BY <1>0 DEF SameRegion
  <2>2. \A u \in OmpThreads : Pc(u)' # "idle" => Pc(u) # "idle" /\ (Pc(u)' = "join" => u = Primary)
    BY <1>0, <1>2, <1>7, Setting DEF TeamOK
  <2>3. \A u \in OmpThreads : Pc(u)' \in {"overdue", "team_begin"} \/ Overdue(u)' =>
            thread_team'[crew[u].index] = Size(omp.region)
    BY <1>2, <1>3, <1>7 DEF TeamOK, EndingStep
  <2>4. Pc(Primary) = "idle" => Pc(Primary)' = "idle"
    BY <1>0, <1>2, <1>7
  <2>5. \A p \in ParallelObjects : parallel'[p].region = parallel[p].region
    BY DEF EndingStep
  <2>6. TeamOK'
    BY <1>0, <1>1, <1>3, <1>6, <2>1, <2>2, <2>3, <2>5, TeamKept
  <2>7. omp'.finalizing => omp.finalizing /\ Pc(Primary)' = "idle"
    BY <1>0, <2>4 DEF CountOK
  <2>8. CountOK'
    BY <1>0, <1>3, <1>6, <2>1, <2>7, CountUnmoved
  <2> QED BY <2>6, <2>8
<1>9. TasksOK'
  <2>1. UNCHANGED task
    BY DEF EndingStep
  <2>2. \A u \in OmpThreads : /\ Pc(u)' \in HasTask => Pc(u) \in HasTask
                              /\ Pc(u)' \in HasNone => Pc(u) \in HasNone
                              /\ Pc(u)' \in Ending => Pc(u) \in Ending
                              /\ Pc(u) \in Waiting => Pc(u)' \in Waiting
    BY <1>2, <1>7 DEF HasTask, HasNone, Waiting
  <2> QED BY <1>0, <1>1, <2>1, <2>2, AllPlaces, TasksKept
<1>10. FreeOK'
  <2>1. UNCHANGED task
    BY DEF EndingStep
  <2> QED BY <1>0, <1>1, <2>1, FreeKept
<1>11. StoredOK'
  BY <1>0, <1>1, <1>2, <1>4, <1>7, StoredKept
<1>12. LocksOK'
  <2>1. omp.mutex # NULL => crew'[omp.mutex].pc \in Ending \cup {"release"} /\ crew'[omp.mutex].ptr # NULL
    <3>1. omp.mutex \in OmpThreads \cup {NULL}
      BY DEF TypesOK
    <3> QED BY <1>1, <1>2, <3>1 DEF LocksOK, Pc
  <2> QED BY <1>0, <1>1, <1>5, <2>1, LocksKept
<1>13. ClaimsOK'
  BY <1>1, <1>2, <1>4, <1>7, ClaimsKept
<1> QED BY <1>1, <1>4, <1>8, <1>9, <1>10, <1>11, <1>12, <1>13

(* A thread writes to its location.                                        *)
LEMMA LogWrites ==
  ASSUME TypesOK, NEW l \in LocationIds, NEW e \in Events, log' = [log EXCEPT ![l] = @ \o <<e>>],
         \A m \in LocationIds : \A i \in 1 .. Len(log[m]) - 1 : Follows(log[m][i], log[m][i + 1]),
         log[l] = << >> \/ Follows(log[l][Len(log[l])], e)
  PROVE  /\ log' \in [LocationIds -> Seq(Events)]
         /\ LastIs(l, e.event)' /\ (e.event = "team_begin" /\ e.team = 1 => OneThread(l)')
         /\ \A m \in LocationIds \ {l} : log'[m] = log[m]
         /\ \A m \in LocationIds : \A i \in 1 .. Len(log'[m]) - 1 : Follows(log'[m][i], log'[m][i + 1])
<1>1. log \in [LocationIds -> Seq(Events)] /\ log[l] \in Seq(Events)
  BY DEF TypesOK
<1> DEFINE s == log[l]  new == s \o <<e>>
<1>2. /\ new \in Seq(Events) /\ new # << >>
      /\ Len(s) \in Nat /\ Len(new) = Len(s) + 1
      /\ \A i \in 1 .. Len(s) : new[i] = s[i]
      /\ new[Len(s) + 1] = e
  BY <1>1, LogWritten
<1>3. log'[l] = new /\ \A m \in LocationIds \ {l} : log'[m] = log[m]
  BY <1>1
<1>4. log' \in [LocationIds -> Seq(Events)]
  BY <1>1, <1>2
<1> HIDE DEF new
<1>5. LastIs(l, e.event)' /\ (e.event = "team_begin" /\ e.team = 1 => OneThread(l)')
  BY <1>2, <1>3 DEF LastIs, OneThread
<1>6. ASSUME NEW i \in 1 .. Len(new) - 1 PROVE Follows(new[i], new[i + 1])
  <2>1. CASE i = Len(s)
    <3>1. s # << >>
      BY <1>2, <2>1
    <3> QED BY <1>2, <2>1, <3>1
  <2>2. CASE i # Len(s)
    <3>1. i \in 1 .. Len(s) - 1 /\ i \in 1 .. Len(s) /\ i + 1 \in 1 .. Len(s)
      BY <1>2, <2>2
    <3> QED BY <1>2, <3>1
  <2> QED BY <2>1, <2>2
<1>7. \A m \in LocationIds : \A i \in 1 .. Len(log'[m]) - 1 : Follows(log'[m][i], log'[m][i + 1])
  BY <1>3, <1>6
<1> QED BY <1>3, <1>4, <1>5, <1>7

-----------------------------------------------------------------------------
(* BarrierEndTime and ImplicitTaskEndTime: the thread finds out the time of  *)
(* the event it is about to write.                                           *)
LEMMA BarrierEndTimeKeeps ==
  ASSUME OmptIInv, NEW t \in OmpThreads, BarrierEndTime(t) \/ ImplicitTaskEndTime(t)
  PROVE  OmptIInv'
<1>0. /\ TypesOK /\ TeamOK /\ CountOK /\ TasksOK /\ FreeOK /\ StoredOK /\ LocksOK /\ ClaimsOK /\ LogOK
  BY DEF OmptIInv
<1>1. PICK stored \in Nat, next \in Places :
        /\ TakeTime(t, stored, next) /\ Pc(t) \in Ending /\ next \in Ending
        /\ \/ Pc(t) = "ibarrier_end" /\ next = "write ibarrier_end"
           \/ Pc(t) = "task_end" /\ next = "write task_end"
  <2>1. CASE BarrierEndTime(t)
    <3>1. Pc(t) = "ibarrier_end" /\ Pc(t) \in Ending
      BY <2>1 DEF BarrierEndTime, At, Pc, Ending
    <3>2. parallel[EndsParallel(t)].ibarrier_end \in Nat
      BY <1>0, <3>1, EndsFacts DEF TypesOK, ParallelRecords
    <3> QED BY <2>1, <3>1, <3>2 DEF BarrierEndTime, Places, Ending
  <2>2. CASE ImplicitTaskEndTime(t)
    <3>1. Pc(t) = "task_end" /\ Pc(t) \in Ending
      BY <2>2 DEF ImplicitTaskEndTime, At, Pc, Ending
    <3>2. parallel[EndsParallel(t)].itask_end \in Nat
      BY <1>0, <3>1, EndsFacts DEF TypesOK, ParallelRecords
    <3> QED BY <2>2, <3>1, <3>2 DEF ImplicitTaskEndTime, Places, Ending
  <2> QED BY <2>1, <2>2
<1>2. /\ TypesOK' /\ Others(t) /\ Keeps(t) /\ Pc(t)' = next
      /\ UNCHANGED <<runtimeVars, parallel, task, poolVarsOmpt, locationData, thread_team, log>>
  BY <1>0, <1>1, TimeTaken DEF Others, Keeps, Pc
<1>3. EndingStep(t)
  BY <1>1, <1>2 DEF EndingStep
<1>4. /\ TeamOK' /\ CountOK' /\ TasksOK' /\ FreeOK' /\ StoredOK' /\ LocksOK' /\ ClaimsOK'
      /\ \A u \in OmpThreads : (Claims(u)' <=> Claims(u)) /\ crew'[u].index = crew[u].index
  BY <1>0, <1>3, EndingStepKeeps
<1>5. \A u \in OmpThreads : Pc(u)' = Pc(u) \/ u = t
  BY <1>2 DEF Others, Pc
<1>6. \A u \in OmpThreads, l \in LocationIds : Claims(u) /\ PlaceOfLog(u, l) => PlaceOfLog(u, l)'
  <2>1. ASSUME NEW l \in LocationIds, NEW e PROVE (LastIs(l, e)' <=> LastIs(l, e)) /\ (OneThread(l)' <=> OneThread(l))
    BY <1>2 DEF LastIs, OneThread
  <2> QED BY <1>1, <1>2, <1>5, <2>1 DEF PlaceOfLog
<1>7. LogOK'
  BY <1>0, <1>2, <1>4, <1>6, AllPlaces, LogKept
<1> QED BY <1>2, <1>4, <1>7 DEF OmptIInv

(* LeftBarrier: the thread goes on to the end of the task. *)
LEMMA LeftBarrierKeeps ==
  ASSUME OmptIInv, NEW t \in OmpThreads, LeftBarrier(t)
  PROVE  OmptIInv'
<1>0. /\ TypesOK /\ TeamOK /\ CountOK /\ TasksOK /\ FreeOK /\ StoredOK /\ LocksOK /\ ClaimsOK /\ LogOK
  BY DEF OmptIInv
<1>1. /\ Pc(t) = "left" /\ crew' = [crew EXCEPT ![t].pc = "task_end"]
      /\ UNCHANGED <<runtimeVars, parallel, task, poolVarsOmpt, locationData, thread_team, stamps, log>>
  BY DEF LeftBarrier, At, Goto, Pc
<1>2. Others(t) /\ Keeps(t) /\ Pc(t)' = "task_end" /\ crew' \in [OmpThreads -> CrewRecords]
  BY <1>0, <1>1, GoesOnTyped DEF Places, Ending
<1>3. TypesOK'
  BY <1>0, <1>1, <1>2 DEF TypesOK, runtimeVars, poolVarsOmpt, locationData, RegionIds
<1>4. EndingStep(t)
  BY <1>1, <1>2 DEF EndingStep, Ending
<1>5. /\ TeamOK' /\ CountOK' /\ TasksOK' /\ FreeOK' /\ StoredOK' /\ LocksOK' /\ ClaimsOK'
      /\ \A u \in OmpThreads : (Claims(u)' <=> Claims(u)) /\ crew'[u].index = crew[u].index
  BY <1>0, <1>4, EndingStepKeeps
<1>6. \A u \in OmpThreads : Pc(u)' = Pc(u) \/ u = t
  BY <1>2 DEF Others, Pc
<1>7. \A u \in OmpThreads, l \in LocationIds : Claims(u) /\ PlaceOfLog(u, l) => PlaceOfLog(u, l)'
  <2>1. ASSUME NEW l \in LocationIds, NEW e PROVE (LastIs(l, e)' <=> LastIs(l, e)) /\ (OneThread(l)' <=> OneThread(l))
    BY <1>1 DEF LastIs, OneThread
  <2> QED BY <1>1, <1>2, <1>6, <2>1 DEF PlaceOfLog
<1>8. LogOK'
  BY <1>0, <1>1, <1>5, <1>7, AllPlaces, LogKept
<1> QED BY <1>3, <1>5, <1>8 DEF OmptIInv

(* BarrierEnd: the thread writes the end of the barrier. *)
LEMMA BarrierEndKeeps ==
  ASSUME OmptIInv, NEW t \in OmpThreads, BarrierEnd(t)
  PROVE  OmptIInv'
<1>0. /\ TypesOK /\ TeamOK /\ CountOK /\ TasksOK /\ FreeOK /\ StoredOK /\ LocksOK /\ ClaimsOK /\ LogOK
  BY DEF OmptIInv
<1>1. Pc(t) = "write ibarrier_end" /\ Pc(t) \in Ending
  BY DEF BarrierEnd, At, Pc, Ending
<1>2. /\ crew[t].ends \in TaskObjects /\ Ends(t).index = crew[t].index /\ EndsParallel(t) \in ParallelObjects
  BY <1>0, <1>1, EndsFacts
<1>3. PICK l \in LocationIds : l = crew[t].index
  BY <1>0, Member
<1>4. PICK pc \in {"left", "task_end"} : crew' = [crew EXCEPT ![t].pc = pc]
  BY DEF BarrierEnd, Goto
<1>5. Others(t) /\ Keeps(t) /\ Pc(t)' = pc /\ crew' \in [OmpThreads -> CrewRecords]
  BY <1>0, <1>4, GoesOnTyped DEF Places, Ending
<1>6. /\ UNCHANGED <<runtimeVars, task, poolVarsOmpt, locationData, thread_team, stamps>>
      /\ parallel' = parallel \/ parallel' = [parallel EXCEPT ![EndsParallel(t)].ibarrier_end = crew[t].time]
  BY DEF BarrierEnd
<1>7. /\ parallel' \in [ParallelObjects -> ParallelRecords]
      /\ \A p \in ParallelObjects : parallel'[p].region = parallel[p].region
  <2>1. crew[t].time \in Nat
    BY <1>0, Member
  <2>2. PICK p \in ParallelObjects, n \in Nat : p = EndsParallel(t) /\ n = crew[t].time
    BY <1>2, <2>1
  <2>3. parallel' = parallel \/ parallel' = [parallel EXCEPT ![p].ibarrier_end = n]
    BY <1>6, <2>2
  <2>4. n \in Int
    OBVIOUS
  <2>5. /\ [parallel EXCEPT ![p].ibarrier_end = n] \in [ParallelObjects -> ParallelRecords]
        /\ parallel \in [ParallelObjects -> ParallelRecords]
        /\ \A q \in ParallelObjects : [parallel EXCEPT ![p].ibarrier_end = n][q].region = parallel[q].region
    BY <1>0, <2>4, ParallelField
  <2> QED BY <2>3, <2>5, Zenon
<1>8. PICK e \in Events : /\ e.event = "ibarrier_end"
                          /\ log' = [log EXCEPT ![l] = @ \o <<e>>]
  <2>1. TimeOf(t) \in Nat
    BY <1>0, TimeIsNat
  <2>2. thread_team[l] \in Nat
    BY <1>0 DEF TypesOK
  <2> DEFINE e == [event |-> "ibarrier_end", team |-> thread_team[l], time |-> TimeOf(t)]
  <2>3. e \in Events /\ e.event = "ibarrier_end"
    BY <2>1, <2>2 DEF Events
  <2>4. log' = [log EXCEPT ![l] = @ \o <<e>>]
    BY <1>2, <1>3 DEF BarrierEnd, Write
  <2> QED BY <2>3, <2>4
<1>9. LastIs(l, "ibarrier_begin") /\ Claims(t)
  BY <1>0, <1>1, <1>3 DEF LogOK, Claims, PlaceOfLog
<1>10. log[l] = << >> \/ Follows(log[l][Len(log[l])], e)
  BY <1>8, <1>9 DEF LastIs, Follows, InOrder
<1>11. /\ log' \in [LocationIds -> Seq(Events)] /\ LastIs(l, "ibarrier_end")'
       /\ \A m \in LocationIds \ {l} : log'[m] = log[m]
       /\ \A m \in LocationIds : \A i \in 1 .. Len(log'[m]) - 1 : Follows(log'[m][i], log'[m][i + 1])
  BY <1>0, <1>8, <1>10, LogWrites DEF LogOK
<1>12. TypesOK'
  BY <1>0, <1>5, <1>6, <1>7, <1>11 DEF TypesOK, runtimeVars, poolVarsOmpt, locationData, RegionIds
<1>13. EndingStep(t)
  BY <1>1, <1>5, <1>6, <1>7 DEF EndingStep, Ending
<1>14. /\ TeamOK' /\ CountOK' /\ TasksOK' /\ FreeOK' /\ StoredOK' /\ LocksOK' /\ ClaimsOK'
       /\ \A u \in OmpThreads : (Claims(u)' <=> Claims(u)) /\ crew'[u].index = crew[u].index
  BY <1>0, <1>13, EndingStepKeeps
<1>15. LogOK'
  <2>1. ASSUME NEW u \in OmpThreads, Claims(u)' PROVE PlaceOfLog(u, crew[u].index)'
    <3>1. CASE u = t
      <4>1. PlaceOfLog(t, l)'
        BY <1>5, <1>11 DEF PlaceOfLog
      <4> QED BY <1>3, <1>14, <3>1, <4>1 DEF PlaceOfLog, LastIs, OneThread, Pc
    <3>2. CASE u # t
      <4>1. Claims(u) /\ crew'[u].index = crew[u].index /\ crew[u].index # l
        BY <1>0, <1>3, <1>9, <1>14, <2>1, <3>2 DEF ClaimsOK
      <4>2. PICK m \in LocationIds \ {l} : m = crew[u].index
        BY <1>0, <4>1, Member
      <4>3. PlaceOfLog(u, m) /\ log'[m] = log[m] /\ Pc(u)' = Pc(u)
        BY <1>0, <1>5, <1>11, <3>2, <4>1, <4>2 DEF LogOK, Others, Pc
      <4> QED BY <4>1, <4>2, <4>3 DEF PlaceOfLog, LastIs, OneThread, Pc
    <3> QED BY <3>1, <3>2
  <2>2. ASSUME NEW m \in LocationIds, Unclaimed(m)' PROVE log'[m] = << >> \/ LastIs(m, "team_end")'
    <3>1. Unclaimed(m) /\ m # l
      BY <1>3, <1>9, <1>14, <2>2 DEF Unclaimed
    <3> QED BY <1>0, <1>11, <3>1 DEF LogOK, LastIs
  <2> QED BY <1>11, <2>1, <2>2 DEF LogOK
<1> QED BY <1>12, <1>14, <1>15 DEF OmptIInv

-----------------------------------------------------------------------------
(* In a team, index 0 is the primary thread's and nobody else's. *)
LEMMA FirstIndex ==
  ASSUME TypesOK, TeamOK, NEW t \in OmpThreads, Pc(t) # "idle"
  PROVE  crew[t].index = 0 <=> t = Primary
  BY Setting DEF TeamOK

(* An early thread is in the current region, with an index taken from it. *)
LEMMA EarlyRegion ==
  ASSUME TypesOK, TeamOK, NEW t \in OmpThreads, Early(t)
  PROVE  /\ omp.region > 0 /\ Region(t) = omp.region /\ PrimaryPhase
         /\ crew[t].parallel = crew[Primary].parallel /\ crew[t].parallel \in ParallelObjects
         /\ crew[t].index \in taken[omp.region]
<1>1. /\ PrimaryPhase /\ crew[t].parallel = crew[Primary].parallel
      /\ crew[t].index \in taken[omp.region]
  BY DEF TeamOK
<1>2. Pc(Primary) # "idle" /\ Primary \in OmpThreads
  BY <1>1, Setting DEF PrimaryPhase
<1>3. omp.region > 0 /\ parallel[crew[Primary].parallel].region = omp.region
  BY <1>2 DEF TeamOK
<1> QED BY <1>1, <1>2, <1>3 DEF Region, TeamOK

(* Before a task of its own. *)
EarlyStep(t) ==
  /\ Pc(t) \in {"begin", "overdue"} /\ Pc(t)' \in {"overdue", "team_begin"} /\ Others(t) /\ Keeps(t)
  /\ \A p \in ParallelObjects : parallel'[p].region = parallel[p].region
  /\ thread_team'[crew[t].index] = Size(omp.region)
  /\ \A l \in LocationIds \ {crew[t].index} : thread_team'[l] = thread_team[l]
  /\ UNCHANGED <<runtimeVars, task, poolVarsOmpt, locationData, log>>

(* A thread that has no task yet goes on to begin its team. *)
LEMMA EarlyStepKeeps ==
  ASSUME TypesOK, TeamOK, CountOK, TasksOK, FreeOK, StoredOK, LocksOK, LogOK,
         NEW t \in OmpThreads, EarlyStep(t)
  PROVE  /\ TeamOK' /\ CountOK' /\ TasksOK' /\ FreeOK' /\ StoredOK' /\ LocksOK' /\ LogOK'
         /\ \A u \in OmpThreads : (Claims(u)' <=> Claims(u)) /\ crew'[u].index = crew[u].index
<1>0. Primary \in OmpThreads /\ omp' = omp /\ UNCHANGED <<taken, arrived, task, stored_task, preserve_order, is_ompt_location, tasks_free_list, log>>
  BY Setting DEF EarlyStep, runtimeVars, locationData, poolVarsOmpt
<1>1. \A u \in OmpThreads : /\ crew'[u].index = crew[u].index /\ crew'[u].parallel = crew[u].parallel
                            /\ crew'[u].ptr = crew[u].ptr /\ crew'[u].ends = crew[u].ends
  BY DEF EarlyStep, Others, Keeps
<1>2. /\ \A u \in OmpThreads : Pc(u)' = Pc(u) \/ u = t
      /\ Pc(t) \in {"begin", "overdue"} /\ Pc(t)' \in {"overdue", "team_begin"}
  BY DEF EarlyStep, Others, Pc
<1>3. \A u \in OmpThreads : (Overdue(u)' <=> Overdue(u)) /\ (Early(u)' <=> Early(u))
  BY <1>1, <1>2 DEF Overdue, Early, Ending
<1>4. \A u \in OmpThreads : (Owns(u)' <=> Owns(u)) /\ (Claims(u)' <=> Claims(u))
  BY <1>0, <1>1, <1>2 DEF Owns, Claims, Ending
<1>5. \A u \in OmpThreads : Locks(u)' <=> Locks(u)
  BY <1>0, <1>1, <1>2 DEF Locks, Ending
<1>6. PrimaryPhase' <=> PrimaryPhase
  BY <1>0, <1>2 DEF PrimaryPhase
<1>7. SameRegion
  BY <1>0 DEF SameRegion
<1>8. TeamOK'
  <2>1. \A u \in OmpThreads : Pc(u)' # "idle" => Pc(u) # "idle" /\ (Pc(u)' = "join" => u = Primary)
    BY <1>0, <1>2, Setting DEF TeamOK
  <2>2. ASSUME NEW u \in OmpThreads, Pc(u)' \in {"overdue", "team_begin"} \/ Overdue(u)'
        PROVE  thread_team'[crew[u].index] = Size(omp.region)
    <3>1. CASE u = t
      BY <3>1 DEF EarlyStep
    <3>2. CASE u # t
      <4>1. Pc(u) \in {"overdue", "team_begin"} \/ Overdue(u)
        BY <1>2, <1>3, <2>2, <3>2
      <4>2. Early(u) /\ Early(t)
        BY <1>2, <4>1 DEF Early
      <4>3. crew[u].index \in LocationIds \ {crew[t].index}
        BY <3>2, <4>2, AllPlaces DEF TeamOK
      <4> QED BY <4>1, <4>3 DEF EarlyStep, TeamOK
    <3> QED BY <3>1, <3>2
  <2>3. \A p \in ParallelObjects : parallel'[p].region = parallel[p].region
    BY DEF EarlyStep
  <2> QED BY <1>0, <1>1, <1>3, <1>6, <1>7, <2>1, <2>2, <2>3, TeamKept
<1>9. CountOK'
  <2>1. omp'.finalizing => omp.finalizing /\ Pc(Primary)' = "idle"
    BY <1>0, <1>2 DEF CountOK
  <2> QED BY <1>0, <1>3, <1>6, <1>7, <2>1, CountUnmoved
<1>10. TasksOK'
  <2>1. \A u \in OmpThreads : /\ Pc(u)' \in HasTask => Pc(u) \in HasTask
                              /\ Pc(u)' \in HasNone => Pc(u) \in HasNone
                              /\ Pc(u)' \in Ending => Pc(u) \in Ending
                              /\ Pc(u) \in Waiting => Pc(u)' \in Waiting
    BY <1>2 DEF HasTask, HasNone, Waiting, Ending
  <2> QED BY <1>0, <1>1, <2>1, AllPlaces, TasksKept
<1>11. FreeOK'
  BY <1>0, <1>1, FreeKept
<1>12. StoredOK'
  BY <1>0, <1>1, <1>2, <1>4, StoredKept
<1>13. LocksOK'
  <2>1. omp.mutex # NULL => crew'[omp.mutex].pc \in Ending \cup {"release"} /\ crew'[omp.mutex].ptr # NULL
    <3>1. omp.mutex \in OmpThreads \cup {NULL}
      BY DEF TypesOK
    <3> QED BY <1>1, <1>2, <3>1 DEF LocksOK, Pc, Ending
  <2> QED BY <1>0, <1>1, <1>5, <2>1, LocksKept
<1>14. LogOK'
  <2>1. \A u \in OmpThreads, l \in LocationIds : Claims(u) /\ PlaceOfLog(u, l) => PlaceOfLog(u, l)'
    <3>1. ASSUME NEW l \in LocationIds, NEW e PROVE (LastIs(l, e)' <=> LastIs(l, e)) /\ (OneThread(l)' <=> OneThread(l))
      BY <1>0 DEF LastIs, OneThread
    <3> QED BY <1>2, <3>1 DEF PlaceOfLog
  <2> QED BY <1>0, <1>1, <1>4, <2>1, AllPlaces, LogKept
<1> QED BY <1>1, <1>4, <1>8, <1>9, <1>10, <1>11, <1>12, <1>13, <1>14

(* ImplicitTaskBegin is such a step. *)
LEMMA ImplicitTaskBeginKeeps ==
  ASSUME OmptIInv, NEW t \in OmpThreads, ImplicitTaskBegin(t)
  PROVE  OmptIInv'
<1>0. /\ TypesOK /\ TeamOK /\ CountOK /\ TasksOK /\ FreeOK /\ StoredOK /\ LocksOK /\ ClaimsOK /\ LogOK
  BY DEF OmptIInv
<1>1. /\ Pc(t) = "begin" /\ crew' = [crew EXCEPT ![t].pc = "overdue"]
      /\ thread_team' = [thread_team EXCEPT ![crew[t].index] = Size(Region(t))]
      /\ parallel' \in {parallel, [parallel EXCEPT ![crew[t].parallel].ref_count = Size(Region(t)) + 1]}
      /\ UNCHANGED <<runtimeVars, task, poolVarsOmpt, locationData, stamps, log>>
  BY DEF ImplicitTaskBegin, At, Goto, Pc
<1>2. Others(t) /\ Keeps(t) /\ Pc(t)' = "overdue" /\ crew' \in [OmpThreads -> CrewRecords]
  BY <1>0, <1>1, GoesOnTyped DEF Places, Ending
<1>3. Early(t) /\ Region(t) = omp.region /\ omp.region > 0 /\ crew[t].parallel \in ParallelObjects
  BY <1>0, <1>1, EarlyRegion DEF Early
<1>4. Size(omp.region) \in Nat /\ Size(omp.region) + 1 \in Int
  BY <1>0, <1>3, RegionFacts
<1>5. crew[t].index \in LocationIds
  BY <1>0, Member
<1>6. PICK p \in ParallelObjects, n \in Int : p = crew[t].parallel /\ n = Size(omp.region) + 1
  BY <1>3, <1>4
<1>7. parallel' \in {parallel, [parallel EXCEPT ![p].ref_count = n]}
  BY <1>1, <1>3, <1>6
<1>8. /\ parallel' \in [ParallelObjects -> ParallelRecords]
      /\ \A q \in ParallelObjects : parallel'[q].region = parallel[q].region
  <2>1. /\ [parallel EXCEPT ![p].ref_count = n] \in [ParallelObjects -> ParallelRecords]
        /\ parallel \in [ParallelObjects -> ParallelRecords]
        /\ \A q \in ParallelObjects : [parallel EXCEPT ![p].ref_count = n][q].region = parallel[q].region
    BY <1>0, ParallelField
  <2> QED BY <1>7, <2>1, Zenon
<1>9. /\ thread_team' \in [LocationIds -> Nat] /\ thread_team'[crew[t].index] = Size(omp.region)
      /\ \A l \in LocationIds \ {crew[t].index} : thread_team'[l] = thread_team[l]
  BY <1>0, <1>1, <1>3, <1>4, <1>5 DEF TypesOK
<1>10. TypesOK'
  BY <1>0, <1>1, <1>2, <1>8, <1>9 DEF TypesOK, runtimeVars, poolVarsOmpt, locationData, RegionIds
<1>11. EarlyStep(t)
  BY <1>1, <1>2, <1>8, <1>9 DEF EarlyStep
<1>12. /\ TeamOK' /\ CountOK' /\ TasksOK' /\ FreeOK' /\ StoredOK' /\ LocksOK' /\ LogOK'
       /\ \A u \in OmpThreads : (Claims(u)' <=> Claims(u)) /\ crew'[u].index = crew[u].index
  BY <1>0, <1>11, EarlyStepKeeps
<1>13. ClaimsOK'
  <2>1. \A u \in OmpThreads : Pc(u)' = "team_begin" => Pc(u) = "team_begin"
    BY <1>2 DEF Others, Pc
  <2> QED BY <1>0, <1>12, <2>1, ClaimsKept
<1> QED BY <1>10, <1>12, <1>13 DEF OmptIInv

(* NothingOverdue is such a step: no task is left at the location. *)
LEMMA NothingOverdueKeeps ==
  ASSUME OmptIInv, NEW t \in OmpThreads, NothingOverdue(t)
  PROVE  OmptIInv'
<1>0. /\ TypesOK /\ TeamOK /\ CountOK /\ TasksOK /\ FreeOK /\ StoredOK /\ LocksOK /\ ClaimsOK /\ LogOK
  BY DEF OmptIInv
<1>1. /\ Pc(t) = "overdue" /\ crew' = [crew EXCEPT ![t].pc = "team_begin"]
      /\ is_ompt_location[crew[t].index] => stored_task[crew[t].index] = NULL /\ ~preserve_order[crew[t].index]
      /\ UNCHANGED <<runtimeVars, parallel, task, poolVarsOmpt, locationData, thread_team, stamps, log>>
  BY DEF NothingOverdue, At, Goto, Pc, OrderPreserved
<1>2. Others(t) /\ Keeps(t) /\ Pc(t)' = "team_begin" /\ crew' \in [OmpThreads -> CrewRecords]
  BY <1>0, <1>1, GoesOnTyped DEF Places, Ending
<1>3. Early(t) /\ PrimaryPhase
  BY <1>0, <1>1, EarlyRegion DEF Early
<1>4. TypesOK'
  BY <1>0, <1>1, <1>2 DEF TypesOK, runtimeVars, poolVarsOmpt, locationData, RegionIds
<1>5. EarlyStep(t)
  <2>1. thread_team[crew[t].index] = Size(omp.region)
    BY <1>0, <1>1 DEF TeamOK
  <2> QED BY <1>1, <1>2, <2>1 DEF EarlyStep
<1>6. /\ TeamOK' /\ CountOK' /\ TasksOK' /\ FreeOK' /\ StoredOK' /\ LocksOK' /\ LogOK'
      /\ \A u \in OmpThreads : (Claims(u)' <=> Claims(u)) /\ crew'[u].index = crew[u].index
  BY <1>0, <1>5, EarlyStepKeeps
<1>7. ASSUME NEW u \in OmpThreads, Claims(u), crew[u].index = crew[t].index
      PROVE  FALSE
  <2>1. u # t /\ Pc(u) # "idle"
    BY <1>1, <1>7 DEF Claims, Owns, Ending
  <2>2. crew[t].index # 0
    BY <1>0, <1>1, <1>7, <2>1, FirstIndex
  <2>3. CASE Owns(u)
    <3>1. crew[u].ptr \in TaskObjects /\ crew[u].ptr # NULL
      BY <1>0, <2>3, Setting DEF TasksOK, Owns
    <3>2. is_ompt_location[crew[u].index] /\ stored_task[crew[u].index] = crew[u].ptr
      BY <1>0, <2>3, <3>1 DEF TasksOK, Owns
    <3> QED BY <1>1, <1>7, <3>1, <3>2
  <2>4. CASE Pc(u) \in Ending
    <3>1. crew[u].ptr # NULL
      <4>1. crew[u].ptr = NULL => Early(u)
        BY <2>4 DEF Early, Overdue
      <4> QED BY <1>0, <1>3, <1>7, <2>1, <4>1 DEF TeamOK
    <3>2. is_ompt_location[crew[u].index]
      BY <1>0, <3>1 DEF TasksOK
    <3>3. omp.mutex # u
      <4>1. omp.mutex = u => Pc(Primary) = "idle"
        BY <1>0, Setting DEF LocksOK, CountOK
      <4> QED BY <1>3, <4>1 DEF PrimaryPhase
    <3>4. Locks(u)
      BY <2>4, <3>1, <3>3 DEF Locks
    <3> QED BY <1>0, <1>1, <1>7, <2>2, <3>2, <3>4 DEF LocksOK
  <2> QED BY <1>7, <2>3, <2>4 DEF Claims
<1>8. ClaimsOK'
  <2>1. \A u, v \in OmpThreads : Claims(u)' /\ Claims(v)' /\ crew'[u].index = crew'[v].index => u = v
    BY <1>0, <1>6 DEF ClaimsOK
  <2>2. \A u \in OmpThreads : Pc(u)' = "team_begin" => Pc(u) = "team_begin" \/ u = t
    BY <1>2 DEF Others, Pc
  <2>3. \A u, v \in OmpThreads : Pc(u)' = "team_begin" /\ Claims(v)' => crew'[v].index # crew'[u].index
    BY <1>0, <1>6, <1>7, <2>2 DEF ClaimsOK
  <2> QED BY <2>1, <2>3 DEF ClaimsOK
<1> QED BY <1>4, <1>6, <1>8 DEF OmptIInv

(* The thread that has the task in hand writes to its location.            *)
LEMMA LogAdvances ==
  ASSUME TypesOK, ClaimsOK, LogOK, NEW t \in OmpThreads, NEW l \in LocationIds,
         l = crew[t].index, Claims(t), Others(t),
         \A m \in LocationIds \ {l} : log'[m] = log[m],
         \A m \in LocationIds : \A i \in 1 .. Len(log'[m]) - 1 : Follows(log'[m][i], log'[m][i + 1]),
         \A u \in OmpThreads : (Claims(u)' <=> Claims(u)) /\ crew'[u].index = crew[u].index,
         PlaceOfLog(t, l)'
  PROVE  LogOK'
<1>1. ASSUME NEW u \in OmpThreads, Claims(u)' PROVE PlaceOfLog(u, crew[u].index)'
  <2>1. CASE u = t
    BY <2>1 DEF PlaceOfLog, LastIs, OneThread, Pc
  <2>2. CASE u # t
    <3>1. Claims(u) /\ crew'[u].index = crew[u].index /\ crew[u].index # l
      BY <1>1, <2>2 DEF ClaimsOK
    <3>2. PICK m \in LocationIds \ {l} : m = crew[u].index
      BY <3>1, AllPlaces
    <3>3. PlaceOfLog(u, m) /\ log'[m] = log[m] /\ Pc(u)' = Pc(u)
      BY <2>2, <3>1, <3>2 DEF LogOK, Others, Pc
    <3> QED BY <3>1, <3>2, <3>3 DEF PlaceOfLog, LastIs, OneThread, Pc
  <2> QED BY <2>1, <2>2
<1>2. ASSUME NEW m \in LocationIds, Unclaimed(m)' PROVE log'[m] = << >> \/ LastIs(m, "team_end")'
  <2>1. Unclaimed(m) /\ m # l
    BY <1>2 DEF Unclaimed
  <2> QED BY <2>1 DEF LogOK, LastIs
<1> QED BY <1>1, <1>2 DEF LogOK

(* BarrierBegin: the thread writes that it waits, and is counted. *)
LEMMA BarrierBeginKeeps ==
  ASSUME OmptIInv, NEW t \in OmpThreads, BarrierBegin(t)
  PROVE  OmptIInv'
<1>0. /\ TypesOK /\ TeamOK /\ CountOK /\ TasksOK /\ FreeOK /\ StoredOK /\ LocksOK /\ ClaimsOK /\ LogOK
  BY DEF OmptIInv
<1>1. /\ Pc(t) = "work" /\ crew' = [crew EXCEPT ![t].pc = "barrier"]
      /\ arrived' = [arrived EXCEPT ![Region(t)] = @ + 1]
      /\ UNCHANGED <<omp, taken, parallel, task, poolVarsOmpt, locationData, thread_team, stamps>>
  BY DEF BarrierBegin, At, Goto, Pc
<1>2. Others(t) /\ Keeps(t) /\ Pc(t)' = "barrier" /\ crew' \in [OmpThreads -> CrewRecords]
  BY <1>0, <1>1, GoesOnTyped DEF Places, Ending
<1>3. Early(t) /\ Region(t) = omp.region /\ omp.region > 0
  BY <1>0, <1>1, EarlyRegion DEF Early
<1>4. /\ omp.region \in RegionIds /\ arrived[omp.region] \in Nat /\ Cardinality(taken[omp.region]) \in Nat
  BY <1>0, <1>3, RegionFacts
<1>5. /\ arrived' \in [RegionIds -> Nat] /\ arrived'[omp.region] = arrived[omp.region] + 1
      /\ \A r \in RegionIds : r > omp.region => arrived'[r] = arrived[r]
  <2>1. arrived' = [arrived EXCEPT ![omp.region] = @ + 1] /\ arrived \in [RegionIds -> Nat]
    BY <1>0, <1>1, <1>3 DEF TypesOK
  <2>2. omp.region \in Nat /\ \A r \in RegionIds : r > omp.region => r # omp.region
    BY <1>0 DEF TypesOK
  <2> QED BY <1>4, <2>1, <2>2
<1>6. PICK l \in LocationIds : l = crew[t].index
  BY <1>0, Member
<1>7. Owns(t) /\ Claims(t) /\ LastIs(l, "team_begin")
  BY <1>0, <1>1, <1>6 DEF StoredOK, Claims, LogOK, PlaceOfLog
<1>8. PICK e \in Events : e.event = "ibarrier_begin" /\ log' = [log EXCEPT ![l] = @ \o <<e>>]
  <2>1. Now \in Nat
    BY <1>0, TimeIsNat
  <2>2. thread_team[l] \in Nat
    BY <1>0 DEF TypesOK
  <2> DEFINE e == [event |-> "ibarrier_begin", team |-> thread_team[l], time |-> Now]
  <2>3. e \in Events /\ e.event = "ibarrier_begin"
    BY <2>1, <2>2 DEF Events
  <2>4. log' = [log EXCEPT ![l] = @ \o <<e>>]
    BY <1>6 DEF BarrierBegin, Write
  <2> QED BY <2>3, <2>4
<1>9. log[l] = << >> \/ Follows(log[l][Len(log[l])], e)
  BY <1>7, <1>8 DEF LastIs, Follows, InOrder
<1>10. /\ log' \in [LocationIds -> Seq(Events)] /\ LastIs(l, "ibarrier_begin")'
       /\ \A m \in LocationIds \ {l} : log'[m] = log[m]
       /\ \A m \in LocationIds : \A i \in 1 .. Len(log'[m]) - 1 : Follows(log'[m][i], log'[m][i + 1])
  BY <1>0, <1>8, <1>9, LogWrites DEF LogOK
<1>11. TypesOK'
  BY <1>0, <1>1, <1>2, <1>5, <1>10 DEF TypesOK, runtimeVars, poolVarsOmpt, locationData, RegionIds
<1>12. /\ Primary \in OmpThreads
       /\ UNCHANGED <<omp, taken, task, tasks_free_list, stored_task, preserve_order, is_ompt_location, thread_team, parallel>>
  BY <1>0, <1>1, Setting DEF poolVarsOmpt, locationData
<1>13. \A u \in OmpThreads : /\ crew'[u].index = crew[u].index /\ crew'[u].parallel = crew[u].parallel
                             /\ crew'[u].ptr = crew[u].ptr /\ crew'[u].ends = crew[u].ends
  BY <1>2 DEF Others, Keeps
<1>14. \A u \in OmpThreads : Pc(u)' = Pc(u) \/ u = t
  BY <1>2 DEF Others, Pc
<1>15. /\ \A u \in OmpThreads : (Overdue(u)' <=> Overdue(u)) /\ (Early(u)' => Early(u))
       /\ ~Early(t)'
  BY <1>1, <1>2, <1>13, <1>14 DEF Overdue, Early, Ending
<1>16. \A u \in OmpThreads : (Owns(u)' <=> Owns(u)) /\ (Claims(u)' <=> Claims(u))
  BY <1>1, <1>2, <1>12, <1>13, <1>14 DEF Owns, Claims, Ending
<1>17. \A u \in OmpThreads : Locks(u)' <=> Locks(u)
  BY <1>1, <1>2, <1>12, <1>13, <1>14 DEF Locks, Ending
<1>18. (PrimaryPhase' <=> PrimaryPhase) /\ SameRegion
  BY <1>1, <1>2, <1>12, <1>14 DEF PrimaryPhase, SameRegion
<1>19. TeamOK'
  <2>1. \A u \in OmpThreads : Pc(u)' # "idle" => Pc(u) # "idle" /\ (Pc(u)' = "join" => u = Primary)
    BY <1>0, <1>1, <1>2, <1>14, Setting DEF TeamOK
  <2>2. \A u \in OmpThreads : Pc(u)' \in {"overdue", "team_begin"} \/ Overdue(u)' =>
            thread_team'[crew[u].index] = Size(omp.region)
    BY <1>0, <1>2, <1>12, <1>14, <1>15 DEF TeamOK
  <2> QED BY <1>0, <1>12, <1>13, <1>15, <1>18, <2>1, <2>2, TeamKept
<1>20. CountOK'
  <2>1. omp'.finalizing => omp.finalizing /\ Pc(Primary)' = "idle"
    BY <1>0, <1>1, <1>12, <1>14 DEF CountOK
  <2>2. /\ Cardinality(EarlyThreads) \in Nat /\ Cardinality(EarlyThreads') \in Nat
        /\ Cardinality(EarlyThreads') + 1 <= Cardinality(EarlyThreads)
    BY <1>0, <1>3, <1>15, FewerEarly
  <2>3. Cardinality(EarlyThreads) + arrived[omp.region] <= Cardinality(taken[omp.region])
    BY <1>0, <1>3 DEF CountOK
  <2>4. Cardinality(EarlyThreads') + arrived'[omp.region] <= Cardinality(taken[omp.region])
    BY <1>4, <1>5, <2>2, <2>3
  <2> QED BY <1>0, <1>5, <1>12, <1>18, <2>1, <2>4, CountKept
<1>21. TasksOK'
  <2>1. \A u \in OmpThreads : /\ Pc(u)' \in HasTask => Pc(u) \in HasTask
                              /\ Pc(u)' \in HasNone => Pc(u) \in HasNone
                              /\ Pc(u)' \in Ending => Pc(u) \in Ending
                              /\ Pc(u) \in Waiting => Pc(u)' \in Waiting
    BY <1>1, <1>2, <1>14 DEF HasTask, HasNone, Waiting, Ending
  <2> QED BY <1>0, <1>12, <1>13, <2>1, AllPlaces, TasksKept
<1>22. FreeOK'
  BY <1>0, <1>12, <1>13, FreeKept
<1>23. StoredOK'
  BY <1>0, <1>1, <1>2, <1>12, <1>13, <1>14, <1>16, StoredKept
<1>24. LocksOK'
  <2>1. omp.mutex # NULL => crew'[omp.mutex].pc \in Ending \cup {"release"} /\ crew'[omp.mutex].ptr # NULL
    <3>1. omp.mutex \in OmpThreads \cup {NULL}
      BY <1>0 DEF TypesOK
    <3> QED BY <1>0, <1>1, <1>13, <1>14, <3>1 DEF LocksOK, Pc, Ending
  <2> QED BY <1>0, <1>12, <1>13, <1>17, <2>1, LocksKept
<1>25. ClaimsOK'
  BY <1>0, <1>2, <1>13, <1>14, <1>16, ClaimsKept
<1>26. LogOK'
  <2>1. PlaceOfLog(t, l)'
    BY <1>2, <1>10 DEF PlaceOfLog
  <2> QED BY <1>0, <1>2, <1>6, <1>7, <1>10, <1>13, <1>16, <2>1, LogAdvances
<1> QED BY <1>11, <1>19, <1>20, <1>21, <1>22, <1>23, <1>24, <1>25, <1>26 DEF OmptIInv

(* LockOrder: a thread told of the end of the barrier locks its location. *)
LEMMA LockOrderKeeps ==
  ASSUME OmptIInv, NEW t \in OmpThreads, LockOrder(t)
  PROVE  OmptIInv'
<1>0. /\ TypesOK /\ TeamOK /\ CountOK /\ TasksOK /\ FreeOK /\ StoredOK /\ LocksOK /\ ClaimsOK /\ LogOK
  BY DEF OmptIInv
<1>1. /\ Pc(t) = "barrier" /\ crew' = [crew EXCEPT ![t].pc = "exchange"]
      /\ arrived[Region(t)] = Size(Region(t)) /\ ~preserve_order[crew[t].index]
      /\ preserve_order' = [preserve_order EXCEPT ![crew[t].index] = TRUE]
      /\ UNCHANGED <<runtimeVars, parallel, task, poolVarsOmpt, stored_task,
                     is_ompt_location, thread_team, stamps, log>>
  BY DEF LockOrder, MayLeaveBarrier, At, Goto, Pc
<1>2. Others(t) /\ Keeps(t) /\ Pc(t)' = "exchange" /\ crew' \in [OmpThreads -> CrewRecords]
  BY <1>0, <1>1, GoesOnTyped DEF Places, Ending
<1>3. PICK l \in LocationIds : l = crew[t].index
  BY <1>0, Member
<1>4. /\ preserve_order' \in [LocationIds -> BOOLEAN] /\ preserve_order'[l]
      /\ \A m \in LocationIds \ {l} : preserve_order'[m] = preserve_order[m]
  BY <1>0, <1>1, <1>3 DEF TypesOK
<1>5. TypesOK'
  BY <1>0, <1>1, <1>2, <1>4 DEF TypesOK, runtimeVars, poolVarsOmpt, RegionIds
<1>6. /\ Primary \in OmpThreads
      /\ UNCHANGED <<omp, taken, arrived, task, tasks_free_list, stored_task, is_ompt_location, thread_team, parallel, log>>
  BY <1>0, <1>1, Setting DEF poolVarsOmpt, runtimeVars
<1>7. \A u \in OmpThreads : /\ crew'[u].index = crew[u].index /\ crew'[u].parallel = crew[u].parallel
                            /\ crew'[u].ptr = crew[u].ptr /\ crew'[u].ends = crew[u].ends
  BY <1>2 DEF Others, Keeps
<1>8. \A u \in OmpThreads : Pc(u)' = Pc(u) \/ u = t
  BY <1>2 DEF Others, Pc
<1>9. \A u \in OmpThreads : (Overdue(u)' <=> Overdue(u)) /\ (Early(u)' <=> Early(u))
  BY <1>1, <1>2, <1>7, <1>8 DEF Overdue, Early, Ending
<1>10. \A u \in OmpThreads : (Owns(u)' <=> Owns(u)) /\ (Claims(u)' <=> Claims(u))
  BY <1>1, <1>2, <1>6, <1>7, <1>8 DEF Owns, Claims, Ending
<1>11. \A u \in OmpThreads : Locks(u)' <=> Locks(u) \/ u = t
  BY <1>1, <1>2, <1>6, <1>7, <1>8 DEF Locks, Ending
<1>12. SameRegion
  BY <1>6 DEF SameRegion
<1>13. t = Primary => EarlyThreads = {} /\ taken[omp.region] = 0 .. Size(omp.region) - 1
  <2> SUFFICES ASSUME t = Primary PROVE EarlyThreads = {} /\ taken[omp.region] = 0 .. Size(omp.region) - 1
    OBVIOUS
  <2>1. Region(t) = omp.region /\ omp.region > 0
    BY <1>0, <1>1 DEF TeamOK, Region
  <2> QED BY <1>0, <1>1, <2>1, AllArrived
<1>14. t # Primary => (PrimaryPhase' <=> PrimaryPhase)
  BY <1>6, <1>8 DEF PrimaryPhase
<1>15. TeamOK'
  <2>1. \A u \in OmpThreads : Pc(u)' # "idle" => Pc(u) # "idle" /\ (Pc(u)' = "join" => u = Primary)
    BY <1>0, <1>1, <1>2, <1>8, Setting DEF TeamOK
  <2>2. \A u \in OmpThreads : Pc(u)' \in {"overdue", "team_begin"} \/ Overdue(u)' =>
            thread_team'[crew[u].index] = Size(omp.region)
    BY <1>0, <1>2, <1>6, <1>8, <1>9 DEF TeamOK
  <2>3. \A u \in OmpThreads : Early(u)' => t # Primary
    BY <1>9, <1>13 DEF EarlyThreads
  <2> QED BY <1>0, <1>6, <1>7, <1>9, <1>12, <1>14, <2>1, <2>2, <2>3, TeamKept
<1>16. CountOK'
  <2>1. omp'.finalizing => omp.finalizing /\ Pc(Primary)' = "idle"
    BY <1>0, <1>1, <1>6, <1>8 DEF CountOK
  <2> QED BY <1>0, <1>6, <1>9, <1>12, <1>13, <1>14, <2>1, CountUnmoved
<1>17. TasksOK'
  <2>1. \A u \in OmpThreads : /\ Pc(u)' \in HasTask => Pc(u) \in HasTask
                              /\ Pc(u)' \in HasNone => Pc(u) \in HasNone
                              /\ Pc(u)' \in Ending => Pc(u) \in Ending
                              /\ Pc(u) \in Waiting => Pc(u)' \in Waiting
    BY <1>1, <1>2, <1>8 DEF HasTask, HasNone, Waiting, Ending
  <2> QED BY <1>0, <1>6, <1>7, <2>1, AllPlaces, TasksKept
<1>18. FreeOK'
  BY <1>0, <1>6, <1>7, FreeKept
<1>19. StoredOK'
  BY <1>0, <1>1, <1>2, <1>6, <1>7, <1>8, <1>10, StoredKept
<1>20. LocksOK'
  <2>1. \A u \in OmpThreads : Locks(u)' /\ crew'[u].index # 0 => preserve_order'[crew'[u].index]
    BY <1>0, <1>3, <1>4, <1>7, <1>11, AllPlaces DEF LocksOK
  <2>2. ASSUME NEW u \in OmpThreads, Locks(u), crew[u].index = crew[t].index PROVE u = t
    <3>1. Pc(u) # "idle"
      BY <2>2 DEF Locks, Ending
    <3>2. CASE crew[t].index = 0
      BY <1>0, <1>1, <2>2, <3>1, <3>2, FirstIndex
    <3>3. CASE crew[t].index # 0
      BY <1>0, <1>1, <2>2, <3>3 DEF LocksOK
    <3> QED BY <3>2, <3>3
  <2>3. \A u, v \in OmpThreads : Locks(u)' /\ Locks(v)' /\ crew'[u].index = crew'[v].index => u = v
    BY <1>0, <1>7, <1>11, <2>2 DEF LocksOK
  <2>4. ASSUME omp.mutex # NULL
        PROVE  omp.finalizing /\ crew'[omp.mutex].pc \in Ending \cup {"release"} /\ crew'[omp.mutex].ptr # NULL
    <3>1. /\ omp.mutex \in OmpThreads /\ omp.finalizing
          /\ Pc(omp.mutex) \in Ending \cup {"release"} /\ crew[omp.mutex].ptr # NULL
      BY <1>0, <2>4 DEF TypesOK, LocksOK
    <3>2. omp.mutex # t
      BY <1>1, <3>1 DEF Ending
    <3> QED BY <1>2, <3>1, <3>2 DEF Others, Pc
  <2> QED BY <1>6, <2>1, <2>3, <2>4 DEF LocksOK, Pc
<1>21. ClaimsOK'
  BY <1>0, <1>2, <1>7, <1>8, <1>10, ClaimsKept
<1>22. LogOK'
  <2>1. \A u \in OmpThreads, m \in LocationIds : Claims(u) /\ PlaceOfLog(u, m) => PlaceOfLog(u, m)'
    <3>1. ASSUME NEW m \in LocationIds, NEW e PROVE (LastIs(m, e)' <=> LastIs(m, e)) /\ (OneThread(m)' <=> OneThread(m))
      BY <1>6 DEF LastIs, OneThread
    <3> QED BY <1>1, <1>2, <1>8, <3>1 DEF PlaceOfLog
  <2> QED BY <1>0, <1>6, <1>7, <1>10, <2>1, AllPlaces, LogKept
<1> QED BY <1>5, <1>15, <1>16, <1>17, <1>18, <1>19, <1>20, <1>21, <1>22 DEF OmptIInv

(* A thread with a task of its own goes on. *)
LEMMA TasksAfter ==
  ASSUME TasksOK, UNCHANGED <<is_ompt_location, task>>, NEW t \in OmpThreads, Others(t),
         crew'[t].index = crew[t].index, crew'[t].ptr = crew[t].ptr,
         crew[t].ptr \in TaskObjects, NULL \notin TaskObjects,
         \/ Pc(t)' \in HasTask
         \/ Pc(t)' \in Ending /\ crew'[t].ends = crew[t].ptr,
         Pc(t) \in Waiting /\ Pc(t)' \notin Waiting =>
            \A u \in OmpThreads \ {t} : Overdue(u) => crew[u].ends # crew[t].ptr
  PROVE  TasksOK'
<1>0. /\ crew[t].ptr # NULL /\ \A u \in OmpThreads \ {t} : crew'[u] = crew[u] /\ Pc(u)' = Pc(u)
      /\ \A u \in OmpThreads : crew'[u].index = crew[u].index /\ crew'[u].ptr = crew[u].ptr
  BY DEF Others, Pc
<1>1. ASSUME NEW u \in OmpThreads
      PROVE  /\ Pc(u)' \in HasTask => crew'[u].ptr \in TaskObjects
             /\ Pc(u)' \in HasNone => crew'[u].ptr = NULL
             /\ Pc(u)' \in Ending => crew'[u].ends \in TaskObjects /\ crew'[u].ptr \in {NULL, crew'[u].ends}
  <2>1. CASE u = t
    BY <2>1 DEF HasTask, HasNone, Ending
  <2>2. CASE u # t
    BY <1>0, <2>2 DEF TasksOK, HasTask, HasNone
  <2> QED BY <2>1, <2>2
<1>2. ASSUME NEW u \in OmpThreads, crew'[u].ptr # NULL
      PROVE  /\ task'[crew'[u].ptr].index = crew'[u].index /\ task'[crew'[u].ptr].parallel \in ParallelObjects
             /\ is_ompt_location'[crew'[u].index]
  BY <1>0, <1>2 DEF TasksOK
<1>3. \A u, v \in OmpThreads : crew'[u].ptr # NULL /\ crew'[u].ptr = crew'[v].ptr => u = v
  BY <1>0 DEF TasksOK
<1>4. ASSUME NEW u \in OmpThreads, Overdue(u)'
      PROVE  \E v \in OmpThreads \ {u} :
               /\ crew'[v].ptr = crew'[u].ends /\ crew'[v].index = crew'[u].index
               /\ Pc(v)' \in Waiting /\ task'[crew'[u].ends].in_overdue_use
  <2>1. u # t /\ Overdue(u)
    BY <1>0, <1>4 DEF Overdue
  <2>2. PICK v \in OmpThreads \ {u} :
               /\ crew[v].ptr = crew[u].ends /\ crew[v].index = crew[u].index
               /\ Pc(v) \in Waiting /\ task[crew[u].ends].in_overdue_use
    BY <2>1 DEF TasksOK, Waiting
  <2>3. Pc(v)' \in Waiting
    BY <1>0, <2>1, <2>2
  <2> QED BY <1>0, <2>1, <2>2, <2>3
<1> QED BY <1>1, <1>2, <1>3, <1>4 DEF TasksOK, HasTask, HasNone, Waiting

(* The end of the barrier is reported to a thread. *)
LeavesBarrier(t) ==
  /\ Pc(t) \in {"barrier", "exchange"} /\ Others(t)
  /\ crew'[t].index = crew[t].index /\ crew'[t].parallel = crew[t].parallel /\ crew'[t].ptr = crew[t].ptr
  /\ t = Primary => Pc(t) = "exchange"
  /\ IF StillStored(t)
     THEN /\ Pc(t)' = "ibarrier_end" /\ crew'[t].ends = crew[t].ptr
          /\ stored_task' = [stored_task EXCEPT ![crew[t].index] = NULL]
     ELSE Pc(t)' = "release" /\ UNCHANGED stored_task
  /\ SameRegion /\ omp'.finalizing = omp.finalizing
  /\ UNCHANGED <<taken, arrived, parallel, task, tasks_free_list, is_ompt_location, thread_team, log>>

(* It ends its task itself if the task is still stored, and otherwise leaves *)
(* that to the thread that took it.                                          *)
LEMMA LeavesBarrierKeeps ==
  ASSUME TypesOK, TeamOK, CountOK, TasksOK, FreeOK, StoredOK, ClaimsOK, LogOK,
         NEW t \in OmpThreads, LeavesBarrier(t)
  PROVE  TeamOK' /\ CountOK' /\ TasksOK' /\ FreeOK' /\ StoredOK' /\ ClaimsOK' /\ LogOK'
<1>0. /\ Primary \in OmpThreads /\ NULL \notin TaskObjects /\ SameRegion /\ omp'.finalizing = omp.finalizing
      /\ UNCHANGED <<taken, arrived, parallel, task, tasks_free_list, is_ompt_location, thread_team, log>>
  BY Setting DEF LeavesBarrier
<1>1. /\ \A u \in OmpThreads : /\ crew'[u].index = crew[u].index /\ crew'[u].parallel = crew[u].parallel
                               /\ crew'[u].ptr = crew[u].ptr
      /\ \A u \in OmpThreads \ {t} : crew'[u] = crew[u] /\ Pc(u)' = Pc(u)
  BY DEF LeavesBarrier, Others, Pc
<1>2. /\ Pc(t) \in {"barrier", "exchange"} /\ Pc(t)' \in {"ibarrier_end", "release"}
      /\ crew[t].ptr \in TaskObjects /\ crew[t].ptr # NULL
  BY <1>0 DEF LeavesBarrier, TasksOK
<1>3. PICK l \in LocationIds : l = crew[t].index
  BY Member
<1>4. StillStored(t) <=> Owns(t)
  BY <1>2 DEF StillStored, Owns
<1>5. /\ Owns(t) => stored_task'[l] = NULL /\ Pc(t)' = "ibarrier_end" /\ crew'[t].ends = crew[t].ptr
      /\ ~Owns(t) => stored_task'[l] = stored_task[l] /\ Pc(t)' = "release"
      /\ \A m \in LocationIds \ {l} : stored_task'[m] = stored_task[m]
  BY <1>3, <1>4 DEF LeavesBarrier, TypesOK
<1>6. \A u \in OmpThreads : (Overdue(u)' <=> Overdue(u)) /\ (Early(u)' <=> Early(u))
  <2>1. \A u \in OmpThreads \ {t} : (Overdue(u)' <=> Overdue(u)) /\ (Early(u)' <=> Early(u))
    BY <1>1 DEF Overdue, Early
  <2>2. ~Overdue(t) /\ ~Early(t) /\ ~Overdue(t)' /\ ~Early(t)'
    BY <1>1, <1>2 DEF Overdue, Early, Ending
  <2> QED BY <2>1, <2>2
<1>7. \A u \in OmpThreads \ {t} : (Owns(u)' <=> Owns(u)) /\ (Claims(u)' <=> Claims(u))
  <2> SUFFICES ASSUME NEW u \in OmpThreads \ {t} PROVE (Owns(u)' <=> Owns(u)) /\ (Claims(u)' <=> Claims(u))
    OBVIOUS
  <2>1. PICK m \in LocationIds : m = crew[u].index
    BY Member
  <2>2. CASE m # l
    BY <1>1, <1>5, <2>1, <2>2 DEF Owns, Claims
  <2>3. CASE m = l /\ Owns(t)
    <3>1. ~Claims(u)
      BY <1>3, <2>1, <2>3 DEF ClaimsOK, Claims
    <3>2. Pc(u) \in {"work", "barrier", "exchange"} => crew[u].ptr \in TaskObjects /\ stored_task'[m] = NULL
      BY <1>5, <2>3 DEF TasksOK
    <3> QED BY <1>0, <1>1, <2>1, <3>1, <3>2 DEF Owns, Claims
  <2>4. CASE m = l /\ ~Owns(t)
    BY <1>1, <1>5, <2>1, <2>4 DEF Owns, Claims
  <2> QED BY <2>2, <2>3, <2>4
<1>8. /\ Claims(t)' <=> Claims(t)
      /\ Claims(t) <=> Owns(t)
      /\ ~Owns(t)'
  BY <1>2, <1>5 DEF Owns, Claims, Ending
<1>9. \A u \in OmpThreads : Claims(u)' <=> Claims(u)
  BY <1>7, <1>8
<1>10. PrimaryPhase' <=> PrimaryPhase
  <2>1. CASE t = Primary
    BY <1>2, <2>1 DEF PrimaryPhase, LeavesBarrier
  <2>2. CASE t # Primary
    BY <1>0, <1>1, <2>2 DEF PrimaryPhase
  <2> QED BY <2>1, <2>2
<1>11. TeamOK'
  <2>1. \A u \in OmpThreads : Pc(u)' # "idle" => Pc(u) # "idle" /\ (Pc(u)' = "join" => u = Primary)
    BY <1>1, <1>2, Setting DEF TeamOK
  <2>2. \A u \in OmpThreads : Pc(u)' \in {"overdue", "team_begin"} \/ Overdue(u)' =>
            thread_team'[crew[u].index] = Size(omp.region)
    BY <1>0, <1>1, <1>2, <1>6 DEF TeamOK
  <2> QED BY <1>0, <1>1, <1>6, <1>10, <2>1, <2>2, TeamKept
<1>12. CountOK'
  <2>1. omp'.finalizing => omp.finalizing /\ Pc(Primary)' = "idle"
    BY <1>0, <1>1, <1>2 DEF CountOK
  <2> QED BY <1>0, <1>6, <1>10, <2>1, CountUnmoved
<1>13. TasksOK'
  <2>1. \/ Pc(t)' \in HasTask
        \/ Pc(t)' \in Ending /\ crew'[t].ends = crew[t].ptr
    BY <1>5 DEF HasTask, Ending
  <2>2. ASSUME Pc(t)' \notin Waiting, NEW u \in OmpThreads \ {t}, Overdue(u), crew[u].ends = crew[t].ptr
        PROVE  FALSE
    <3>1. Claims(t) /\ Claims(u)
      BY <1>5, <1>8, <2>2 DEF Waiting, Claims, Overdue
    <3>2. PICK v \in OmpThreads : crew[v].ptr = crew[u].ends /\ crew[v].index = crew[u].index
      BY <2>2 DEF TasksOK
    <3>3. v = t
      BY <1>2, <2>2, <3>2 DEF TasksOK
    <3> QED BY <3>1, <3>2, <3>3 DEF ClaimsOK
  <2>3. Others(t)
    BY DEF LeavesBarrier
  <2> QED BY <1>0, <1>1, <1>2, <2>1, <2>2, <2>3, TasksAfter
<1>14. FreeOK'
  BY <1>0, <1>1, FreeKept
<1>15. StoredOK'
  <2>1. ASSUME NEW m \in LocationIds \ {0}, stored_task'[m] # NULL
        PROVE  \E u \in OmpThreads : crew'[u].index = m /\ Owns(u)'
    <3>1. stored_task'[m] = stored_task[m] /\ (m = l => ~Owns(t))
      BY <1>5, <2>1
    <3>2. PICK u \in OmpThreads : crew[u].index = m /\ Owns(u)
      BY <2>1, <3>1 DEF StoredOK
    <3> QED BY <1>1, <1>3, <1>7, <3>1, <3>2
  <2>2. \A u \in OmpThreads : Pc(u)' = "work" => Owns(u)'
    BY <1>1, <1>2, <1>7 DEF StoredOK
  <2>3. Pc(Primary)' \in {"barrier", "exchange"} => Owns(Primary)'
    BY <1>0, <1>1, <1>2, <1>7 DEF StoredOK
  <2>4. Pc(Primary)' \in {"begin", "overdue", "team_begin"} => stored_task'[0] = NULL
    BY <1>0, <1>1, <1>2, <1>5, Setting DEF StoredOK
  <2> QED BY <2>1, <2>2, <2>3, <2>4 DEF StoredOK
<1>16. ClaimsOK'
  <2>1. \A u \in OmpThreads : Pc(u)' = "team_begin" => Pc(u) = "team_begin"
    BY <1>1, <1>2
  <2> QED BY <1>1, <1>9, <2>1, ClaimsKept
<1>17. LogOK'
  <2>1. \A u \in OmpThreads, m \in LocationIds : Claims(u) /\ PlaceOfLog(u, m) => PlaceOfLog(u, m)'
    <3>1. ASSUME NEW m \in LocationIds, NEW e PROVE (LastIs(m, e)' <=> LastIs(m, e)) /\ (OneThread(m)' <=> OneThread(m))
      BY <1>0 DEF LastIs, OneThread
    <3>2. ASSUME NEW u \in OmpThreads, NEW m \in LocationIds, PlaceOfLog(u, m) PROVE PlaceOfLog(u, m)'
      <4>1. CASE u = t
        BY <1>2, <3>1, <3>2, <4>1 DEF PlaceOfLog
      <4>2. CASE u # t
        BY <1>1, <3>1, <3>2, <4>2 DEF PlaceOfLog
      <4> QED BY <4>1, <4>2
    <3> QED BY <3>2
  <2> QED BY <1>0, <1>1, <1>9, <2>1, AllPlaces, LogKept
<1> QED BY <1>11, <1>12, <1>13, <1>14, <1>15, <1>16, <1>17

(* The task of a thread that is told of the end of the barrier. *)
TakesUp(t, pc, ends) == crew' = [crew EXCEPT ![t].pc = pc, ![t].ends = ends]

(* Its record is one. *)
LEMMA TakesTyped ==
  ASSUME TypesOK, NEW t \in OmpThreads, NEW pc \in Places, NEW ends \in TaskObjects \cup {NULL},
         TakesUp(t, pc, ends)
  PROVE  /\ Others(t) /\ Pc(t)' = pc /\ crew'[t].ends = ends /\ crew'[t].ptr = crew[t].ptr
         /\ crew'[t].index = crew[t].index /\ crew'[t].parallel = crew[t].parallel
         /\ crew' \in [OmpThreads -> CrewRecords]
<1>1. \A r \in CrewRecords : [r EXCEPT !.pc = pc] \in CrewRecords
  BY DEF CrewRecords
<1>2. \A r \in CrewRecords : [r EXCEPT !.ends = ends] \in CrewRecords
  BY DEF CrewRecords
<1>3. crew \in [OmpThreads -> CrewRecords]
  BY DEF TypesOK
<1>4. crew' \in [OmpThreads -> CrewRecords]
  BY <1>1, <1>2, <1>3 DEF TakesUp
<1>5. /\ \A u \in OmpThreads \ {t} : crew'[u] = crew[u]
      /\ crew'[t].pc = pc /\ crew'[t].ends = ends /\ crew'[t].ptr = crew[t].ptr
      /\ crew'[t].index = crew[t].index /\ crew'[t].parallel = crew[t].parallel
  BY <1>3 DEF CrewRecords, TakesUp
<1> QED BY <1>4, <1>5 DEF Others, Pc

(* Exchange: the thread takes its task out of the location, or finds it      *)
(* taken.                                                                    *)
LEMMA ExchangeKeeps ==
  ASSUME OmptIInv, NEW t \in OmpThreads, Exchange(t)
  PROVE  OmptIInv'
<1>0. /\ TypesOK /\ TeamOK /\ CountOK /\ TasksOK /\ FreeOK /\ StoredOK /\ LocksOK /\ ClaimsOK /\ LogOK
  BY DEF OmptIInv
<1>1. /\ Pc(t) = "exchange" /\ Pc(t) \notin Ending \cup {"release"}
      /\ UNCHANGED <<runtimeVars, parallel, task, poolVarsOmpt, is_ompt_location, thread_team, stamps, log>>
  BY DEF Exchange, At, Pc, Ending
<1>2. /\ UNCHANGED <<omp, taken, arrived, parallel, task, tasks_free_list, parallel_regions_free_list,
                     is_ompt_location, thread_team, stamps, log>>
      /\ SameRegion
  BY <1>1 DEF runtimeVars, poolVarsOmpt, SameRegion
<1>3. PICK l \in LocationIds : l = crew[t].index
  BY <1>0, Member
<1>4. crew[t].ptr \in TaskObjects /\ crew[t].ptr # NULL
  BY <1>0, <1>1, Setting DEF TasksOK
<1>5. \A u \in OmpThreads : omp.mutex = u => u # t
  BY <1>0, <1>1, Setting DEF LocksOK
<1>6. CASE StillStored(t)
  <2>1. /\ stored_task' = [stored_task EXCEPT ![l] = NULL] /\ UNCHANGED preserve_order
        /\ crew' = [crew EXCEPT ![t].pc = "ibarrier_end", ![t].ends = crew[t].ptr]
    BY <1>3, <1>6 DEF Exchange
  <2>2. /\ Others(t) /\ Pc(t)' = "ibarrier_end" /\ crew'[t].ends = crew[t].ptr /\ crew'[t].ptr = crew[t].ptr
        /\ crew'[t].index = crew[t].index /\ crew'[t].parallel = crew[t].parallel
        /\ crew' \in [OmpThreads -> CrewRecords]
    <3>1. PICK o \in TaskObjects \cup {NULL} : o = crew[t].ptr
      BY <1>4
    <3>2. TakesUp(t, "ibarrier_end", o) /\ "ibarrier_end" \in Places
      BY <2>1, <3>1 DEF TakesUp, Places, Ending
    <3> QED BY <1>0, <3>1, <3>2, TakesTyped
  <2>3. stored_task' \in [LocationIds -> TaskObjects \cup {NULL, Encountering}]
    BY <1>0, <2>1 DEF TypesOK
  <2>4. TypesOK'
    BY <1>0, <1>2, <2>1, <2>2, <2>3 DEF TypesOK, RegionIds
  <2>5. LeavesBarrier(t)
    BY <1>1, <1>2, <1>3, <1>6, <2>1, <2>2 DEF LeavesBarrier
  <2>6. TeamOK' /\ CountOK' /\ TasksOK' /\ FreeOK' /\ StoredOK' /\ ClaimsOK' /\ LogOK'
    BY <1>0, <2>5, LeavesBarrierKeeps
  <2>7. LocksOK'
    <3>1. \A u \in OmpThreads \ {t} : crew'[u] = crew[u] /\ Pc(u)' = Pc(u)
      BY <2>2 DEF Others, Pc
    <3>2. \A u \in OmpThreads : Locks(u)' => Locks(u) /\ crew'[u].index = crew[u].index
      BY <1>1, <1>2, <2>2, <3>1 DEF Locks
    <3>3. omp.mutex # NULL => crew'[omp.mutex].pc \in Ending \cup {"release"} /\ crew'[omp.mutex].ptr # NULL
      <4>1. omp.mutex \in OmpThreads \cup {NULL}
        BY <1>0 DEF TypesOK
      <4> QED BY <1>0, <1>5, <3>1, <4>1 DEF LocksOK, Pc
    <3> QED BY <1>0, <1>2, <2>1, <3>2, <3>3, LocksKept
  <2> QED BY <2>4, <2>6, <2>7 DEF OmptIInv
<1>7. CASE ~StillStored(t)
  <2>1. /\ preserve_order' = [preserve_order EXCEPT ![l] = FALSE] /\ UNCHANGED stored_task
        /\ crew' = [crew EXCEPT ![t].pc = "release"]
    BY <1>3, <1>7 DEF Exchange, Goto
  <2>2. Others(t) /\ Keeps(t) /\ Pc(t)' = "release" /\ crew' \in [OmpThreads -> CrewRecords]
    BY <1>0, <2>1, GoesOnTyped DEF Places, Ending
  <2>3. /\ preserve_order' \in [LocationIds -> BOOLEAN]
        /\ \A m \in LocationIds \ {l} : preserve_order'[m] = preserve_order[m]
    BY <1>0, <2>1 DEF TypesOK
  <2>4. TypesOK'
    BY <1>0, <1>2, <2>1, <2>2, <2>3 DEF TypesOK, RegionIds
  <2>5. LeavesBarrier(t)
    BY <1>1, <1>2, <1>7, <2>1, <2>2 DEF LeavesBarrier, Keeps
  <2>6. TeamOK' /\ CountOK' /\ TasksOK' /\ FreeOK' /\ StoredOK' /\ ClaimsOK' /\ LogOK'
    BY <1>0, <2>5, LeavesBarrierKeeps
  <2>7. LocksOK'
    <3>1. \A u \in OmpThreads \ {t} : crew'[u] = crew[u] /\ Pc(u)' = Pc(u)
      BY <2>2 DEF Others, Pc
    <3>2. ~Locks(t)' /\ Locks(t)
      BY <1>1, <2>2 DEF Locks, Ending
    <3>3. \A u \in OmpThreads : Locks(u)' => u # t /\ Locks(u) /\ crew'[u].index = crew[u].index
      BY <1>2, <3>1, <3>2 DEF Locks
    <3>4. \A u \in OmpThreads : Locks(u)' /\ crew'[u].index # 0 => preserve_order'[crew'[u].index]
      <4> SUFFICES ASSUME NEW u \in OmpThreads, Locks(u)', crew'[u].index # 0
                   PROVE  preserve_order'[crew'[u].index]
        OBVIOUS
      <4>1. u # t /\ Locks(u) /\ crew'[u].index = crew[u].index
        BY <3>3
      <4>2. crew[u].index \in LocationIds \ {l}
        BY <1>0, <1>3, <3>2, <4>1, AllPlaces DEF LocksOK
      <4> QED BY <1>0, <2>3, <4>1, <4>2 DEF LocksOK
    <3>5. \A u, v \in OmpThreads : Locks(u)' /\ Locks(v)' /\ crew'[u].index = crew'[v].index => u = v
      BY <1>0, <3>3 DEF LocksOK
    <3>6. omp.mutex # NULL =>
            omp.finalizing /\ crew'[omp.mutex].pc \in Ending \cup {"release"} /\ crew'[omp.mutex].ptr # NULL
      <4>1. omp.mutex \in OmpThreads \cup {NULL}
        BY <1>0 DEF TypesOK
      <4> QED BY <1>0, <1>5, <3>1, <4>1 DEF LocksOK, Pc
    <3> QED BY <1>2, <3>4, <3>5, <3>6 DEF LocksOK, Pc
  <2> QED BY <2>4, <2>6, <2>7 DEF OmptIInv
<1> QED BY <1>6, <1>7

(* FinalizeBarrierEnd: a thread is told of the end of its barrier by the     *)
(* finalisation, without the lock of its location.                           *)
LEMMA FinalizeBarrierEndKeeps ==
  ASSUME OmptIInv, NEW t \in OmpThreads, FinalizeBarrierEnd(t)
  PROVE  OmptIInv'
<1>0. /\ TypesOK /\ TeamOK /\ CountOK /\ TasksOK /\ FreeOK /\ StoredOK /\ LocksOK /\ ClaimsOK /\ LogOK
  BY DEF OmptIInv
<1>1. /\ Pc(t) = "barrier" /\ omp.finalizing /\ omp.mutex = NULL
      /\ omp' = [omp EXCEPT !.mutex = t]
      /\ UNCHANGED <<taken, arrived, parallel, task, poolVarsOmpt, preserve_order,
                     is_ompt_location, thread_team, stamps, log>>
  BY DEF FinalizeBarrierEnd, MayLeaveBarrier, At, Pc
<1>2. /\ omp' \in [setup : OmptSetups, region : Nat, finalizing : BOOLEAN, mutex : OmpThreads \cup {NULL}]
      /\ omp'.setup = omp.setup /\ omp'.region = omp.region /\ omp'.finalizing = omp.finalizing
      /\ omp'.mutex = t /\ SameRegion
      /\ UNCHANGED <<tasks_free_list, parallel_regions_free_list>>
  BY <1>0, <1>1 DEF TypesOK, SameRegion, poolVarsOmpt
<1>3. PICK l \in LocationIds : l = crew[t].index
  BY <1>0, Member
<1>4. crew[t].ptr \in TaskObjects /\ crew[t].ptr # NULL /\ NULL \notin OmpThreads /\ Primary \in OmpThreads
  BY <1>0, <1>1, Setting DEF TasksOK
<1>5. t # Primary
  BY <1>0, <1>1 DEF CountOK
<1>6. PICK pc \in {"ibarrier_end", "release"} :
        /\ crew' = [crew EXCEPT ![t].pc = pc, ![t].ends = crew[t].ptr]
        /\ IF StillStored(t) THEN pc = "ibarrier_end" /\ stored_task' = [stored_task EXCEPT ![l] = NULL]
           ELSE pc = "release" /\ UNCHANGED stored_task
  <2>1. CASE StillStored(t)
    BY <1>3, <2>1 DEF FinalizeBarrierEnd
  <2>2. CASE ~StillStored(t)
    <3>1. stored_task' = [stored_task EXCEPT ![l] = stored_task[l]]
      BY <1>3, <2>2 DEF FinalizeBarrierEnd
    <3>2. stored_task' = stored_task
      BY <1>0, <3>1 DEF TypesOK
    <3> QED BY <2>2, <3>2 DEF FinalizeBarrierEnd
  <2> QED BY <2>1, <2>2
<1>7. /\ Others(t) /\ Pc(t)' = pc /\ crew'[t].ends = crew[t].ptr /\ crew'[t].ptr = crew[t].ptr
      /\ crew'[t].index = crew[t].index /\ crew'[t].parallel = crew[t].parallel
      /\ crew' \in [OmpThreads -> CrewRecords]
  <2>1. TakesUp(t, pc, crew[t].ptr)
    BY <1>6 DEF TakesUp
  <2>2. PICK o \in TaskObjects \cup {NULL} : o = crew[t].ptr
    BY <1>4
  <2>3. TakesUp(t, pc, o) /\ pc \in Places
    BY <2>1, <2>2 DEF Places, Ending
  <2> QED BY <1>0, <2>2, <2>3, TakesTyped
<1>8. stored_task' \in [LocationIds -> TaskObjects \cup {NULL, Encountering}]
  BY <1>0, <1>6 DEF TypesOK
<1>9. TypesOK'
  BY <1>0, <1>1, <1>2, <1>7, <1>8 DEF TypesOK, RegionIds
<1>10. LeavesBarrier(t)
  BY <1>1, <1>2, <1>3, <1>5, <1>6, <1>7 DEF LeavesBarrier
<1>11. TeamOK' /\ CountOK' /\ TasksOK' /\ FreeOK' /\ StoredOK' /\ ClaimsOK' /\ LogOK'
  BY <1>0, <1>10, LeavesBarrierKeeps
<1>12. LocksOK'
  <2>1. \A u \in OmpThreads \ {t} : crew'[u] = crew[u] /\ Pc(u)' = Pc(u)
    BY <1>7 DEF Others, Pc
  <2>2. ~Locks(t)'
    BY <1>2, <1>6, <1>7 DEF Locks
  <2>3. \A u \in OmpThreads : Locks(u)' => u # t /\ Locks(u) /\ crew'[u].index = crew[u].index
    BY <1>1, <1>2, <1>4, <2>1, <2>2 DEF Locks
  <2>4. \A u \in OmpThreads : Locks(u)' /\ crew'[u].index # 0 => preserve_order'[crew'[u].index]
    BY <1>0, <1>1, <2>3 DEF LocksOK
  <2>5. \A u, v \in OmpThreads : Locks(u)' /\ Locks(v)' /\ crew'[u].index = crew'[v].index => u = v
    BY <1>0, <2>3 DEF LocksOK
  <2>6. Pc(t)' \in Ending \cup {"release"} /\ crew'[t].ptr # NULL
    BY <1>4, <1>6, <1>7 DEF Ending
  <2> QED BY <1>1, <1>2, <2>4, <2>5, <2>6 DEF LocksOK, Pc
<1> QED BY <1>9, <1>11, <1>12 DEF OmptIInv

(* FinalizeTool: the finalisation begins after the last region. *)
LEMMA FinalizeToolKeeps ==
  ASSUME OmptIInv, FinalizeTool
  PROVE  OmptIInv'
<1>0. /\ TypesOK /\ TeamOK /\ CountOK /\ TasksOK /\ FreeOK /\ StoredOK /\ LocksOK /\ ClaimsOK /\ LogOK
  BY DEF OmptIInv
<1>1. /\ Pc(Primary) = "idle" /\ omp.region = Len(omp.setup.sizes)
      /\ omp' = [omp EXCEPT !.finalizing = TRUE]
      /\ UNCHANGED <<taken, arrived, crew, parallel, task, parallel_regions_free_list, tasks_free_list,
                     stored_task, preserve_order, is_ompt_location, thread_team, stamps, log>>
  BY DEF FinalizeTool, At, Pc, poolVarsOmpt, locationData
<1>2. /\ omp' \in [setup : OmptSetups, region : Nat, finalizing : BOOLEAN, mutex : OmpThreads \cup {NULL}]
      /\ omp'.setup = omp.setup /\ omp'.region = omp.region /\ omp'.finalizing /\ omp'.mutex = omp.mutex
  BY <1>0, <1>1 DEF TypesOK
<1>3. TypesOK'
  BY <1>0, <1>1, <1>2 DEF TypesOK, RegionIds
<1>4. \A u \in OmpThreads : (Early(u)' <=> Early(u)) /\ (Overdue(u)' <=> Overdue(u)) /\ (Claims(u)' <=> Claims(u))
        /\ (Owns(u)' <=> Owns(u)) /\ (Locks(u)' <=> Locks(u)) /\ Pc(u)' = Pc(u)
  BY <1>1, <1>2 DEF Early, Overdue, Claims, Owns, Locks, Pc
<1>5. TeamOK'
  BY <1>0, <1>1, <1>2, <1>4, Setting DEF TeamOK, Pc, PrimaryPhase, Size
<1>6. CountOK'
  <2>1. EarlyThreads' = EarlyThreads
    BY <1>4 DEF EarlyThreads
  <2>2. PrimaryPhase' <=> PrimaryPhase
    BY <1>1 DEF PrimaryPhase, Pc
  <2>3. Pc(Primary)' = "idle" /\ RegionIds' = RegionIds /\ Size(omp.region)' = Size(omp.region)
    BY <1>1, <1>2 DEF Pc, RegionIds, Size
  <2> QED BY <1>0, <1>1, <1>2, <2>1, <2>2, <2>3 DEF CountOK
<1>7. TasksOK' /\ FreeOK'
  BY <1>0, <1>1, <1>4 DEF TasksOK, FreeOK, Free, NewTasks, Pc
<1>8. StoredOK' /\ ClaimsOK'
  <2>1. UNCHANGED <<crew, stored_task>> /\ Primary \in OmpThreads
    BY <1>0, <1>1, Setting
  <2>2. StoredOK'
    BY <1>0, <1>4, <2>1 DEF StoredOK, Pc
  <2>3. ClaimsOK'
    BY <1>0, <1>4, <2>1 DEF ClaimsOK, Pc
  <2> QED BY <2>2, <2>3
<1>9. LocksOK'
  BY <1>0, <1>1, <1>2, <1>4 DEF LocksOK, Pc
<1>10. LogOK'
  BY <1>0, <1>1, <1>4 DEF LogOK, Unclaimed, PlaceOfLog, LastIs, OneThread, Pc
<1> QED BY <1>3, <1>5, <1>6, <1>7, <1>8, <1>9, <1>10 DEF OmptIInv

(* Nothing changes. *)
LEMMA StutterKeeps ==
  ASSUME OmptIInv, UNCHANGED omptVars
  PROVE  OmptIInv'
<1>0. /\ TypesOK /\ TeamOK /\ CountOK /\ TasksOK /\ FreeOK /\ StoredOK /\ LocksOK /\ ClaimsOK /\ LogOK
  BY DEF OmptIInv
<1>1. UNCHANGED <<omp, taken, arrived, crew, parallel, task, parallel_regions_free_list, tasks_free_list,
                  stored_task, preserve_order, is_ompt_location, thread_team, stamps, log>>
  BY DEF omptVars, runtimeVars, poolVarsOmpt, locationData
<1>2. \A u \in OmpThreads : (Early(u)' <=> Early(u)) /\ (Overdue(u)' <=> Overdue(u)) /\ (Claims(u)' <=> Claims(u))
        /\ (Owns(u)' <=> Owns(u)) /\ (Locks(u)' <=> Locks(u)) /\ Pc(u)' = Pc(u)
  BY <1>1 DEF Early, Overdue, Claims, Owns, Locks, Pc
<1>3. TypesOK'
  BY <1>0, <1>1 DEF TypesOK, RegionIds
<1>4. TeamOK'
  BY <1>0, <1>1, <1>2, Setting DEF TeamOK, Pc, PrimaryPhase, Size
<1>5. CountOK'
  BY <1>0, <1>1 DEF CountOK, EarlyThreads, Early, Overdue, PrimaryPhase, RegionIds, Size, Pc
<1>6. TasksOK' /\ FreeOK'
  BY <1>0, <1>1, <1>2 DEF TasksOK, FreeOK, Free, NewTasks, Pc
<1>7. StoredOK' /\ ClaimsOK'
  <2>1. UNCHANGED <<crew, stored_task>> /\ Primary \in OmpThreads
    BY <1>0, <1>1, Setting
  <2>2. StoredOK'
    BY <1>0, <1>2, <2>1 DEF StoredOK, Pc
  <2>3. ClaimsOK'
    BY <1>0, <1>2, <2>1 DEF ClaimsOK, Pc
  <2> QED BY <2>2, <2>3
<1>8. LocksOK'
  BY <1>0, <1>1, <1>2 DEF LocksOK, Pc
<1>9. LogOK'
  BY <1>0, <1>1, <1>2 DEF LogOK, Unclaimed, PlaceOfLog, LastIs, OneThread, Pc
<1> QED BY <1>3, <1>4, <1>5, <1>6, <1>7, <1>8, <1>9 DEF OmptIInv

-----------------------------------------------------------------------------
(* A thread comes to a team or leaves it. *)
OutsideStep(t) ==
  /\ Pc(t) \in {"idle", "join", "release"} /\ Pc(t)' \in {"idle", "join", "begin"}
  /\ Others(t) /\ crew'[t].ptr = NULL
  /\ \A u \in OmpThreads \ {t} : Overdue(u) => crew[u].ends # crew[t].ptr
  /\ \A l \in LocationIds \ {0} : stored_task'[l] = stored_task[l]
  /\ stored_task' = stored_task \/ t = Primary
  /\ t = Primary /\ Pc(t)' = "begin" => stored_task'[0] = NULL
  /\ omp'.finalizing = omp.finalizing
  /\ omp'.mutex = IF omp.mutex = t THEN NULL ELSE omp.mutex
  /\ UNCHANGED <<task, preserve_order, is_ompt_location, log>>

(* A step of a thread outside of the team keeps the invariant when the team  *)
(* it leaves or joins is kept.                                               *)
LEMMA OutsideStepKeeps ==
  ASSUME TypesOK, TeamOK, TasksOK, StoredOK, LocksOK, ClaimsOK, LogOK,
         NEW t \in OmpThreads, OutsideStep(t)
  PROVE  TasksOK' /\ StoredOK' /\ LocksOK' /\ ClaimsOK' /\ LogOK'
<1>0. /\ Primary \in OmpThreads /\ NULL \notin TaskObjects /\ NULL \notin OmpThreads
      /\ UNCHANGED <<task, preserve_order, is_ompt_location, log>>
  BY Setting DEF OutsideStep
<1>1. \A u \in OmpThreads \ {t} : crew'[u] = crew[u] /\ Pc(u)' = Pc(u) /\ (Overdue(u)' <=> Overdue(u))
  BY DEF OutsideStep, Others, Pc, Overdue
<1>2. /\ Pc(t) \in {"idle", "join", "release"} /\ Pc(t)' \in {"idle", "join", "begin"}
      /\ crew'[t].ptr = NULL
  BY DEF OutsideStep
<1>3. ~Overdue(t) /\ ~Overdue(t)' /\ ~Owns(t) /\ ~Owns(t)' /\ ~Claims(t) /\ ~Claims(t)' /\ ~Locks(t) /\ ~Locks(t)'
  BY <1>2 DEF Overdue, Owns, Claims, Locks, Ending
<1>4. \A u \in OmpThreads \ {t} : (Owns(u)' <=> Owns(u)) /\ (Claims(u)' <=> Claims(u))
  <2> SUFFICES ASSUME NEW u \in OmpThreads \ {t} PROVE (Owns(u)' <=> Owns(u)) /\ (Claims(u)' <=> Claims(u))
    OBVIOUS
  <2>1. Owns(u)' <=> Owns(u)
    <3>1. CASE stored_task' = stored_task
      BY <1>1, <3>1 DEF Owns
    <3>2. CASE t = Primary
      <4>1. Pc(u) \in {"work", "barrier", "exchange"} => crew[u].index \in LocationIds \ {0}
        BY <3>2, FirstIndex, AllPlaces
      <4> QED BY <1>1, <4>1 DEF Owns, OutsideStep
    <3> QED BY <3>1, <3>2 DEF OutsideStep
  <2> QED BY <1>1, <2>1 DEF Claims
<1>5. \A u \in OmpThreads : /\ Owns(u)' <=> Owns(u)
                            /\ Claims(u)' <=> Claims(u)
                            /\ Claims(u) => crew'[u].index = crew[u].index /\ Pc(u)' = Pc(u)
                            /\ Owns(u) => crew'[u].index = crew[u].index
  BY <1>1, <1>3, <1>4
<1>6. \A u \in OmpThreads : Locks(u)' => u # t /\ Locks(u) /\ crew'[u].index = crew[u].index
  <2> SUFFICES ASSUME NEW u \in OmpThreads \ {t}, Locks(u)' PROVE Locks(u)
    BY <1>1, <1>3
  <2>1. omp'.mutex # u => omp.mutex # u
    BY <1>0 DEF OutsideStep
  <2> QED BY <1>1, <2>1 DEF Locks
<1>7. TasksOK'
  <2>1. ASSUME NEW u \in OmpThreads
        PROVE  /\ Pc(u)' \in HasTask => crew'[u].ptr \in TaskObjects
               /\ Pc(u)' \in HasNone => crew'[u].ptr = NULL
               /\ Pc(u)' \in Ending => crew'[u].ends \in TaskObjects /\ crew'[u].ptr \in {NULL, crew'[u].ends}
    <3>1. CASE u = t
      BY <1>2, <3>1 DEF HasTask, HasNone, Ending
    <3>2. CASE u # t
      BY <1>1, <3>2 DEF TasksOK, HasTask, HasNone
    <3> QED BY <3>1, <3>2
  <2>2. ASSUME NEW u \in OmpThreads, crew'[u].ptr # NULL
        PROVE  /\ task'[crew'[u].ptr].index = crew'[u].index /\ task'[crew'[u].ptr].parallel \in ParallelObjects
               /\ is_ompt_location'[crew'[u].index]
    BY <1>0, <1>1, <1>2, <2>2 DEF TasksOK
  <2>3. \A u, v \in OmpThreads : crew'[u].ptr # NULL /\ crew'[u].ptr = crew'[v].ptr => u = v
    BY <1>1, <1>2 DEF TasksOK
  <2>4. ASSUME NEW u \in OmpThreads, Overdue(u)'
        PROVE  \E v \in OmpThreads \ {u} :
                 /\ crew'[v].ptr = crew'[u].ends /\ crew'[v].index = crew'[u].index
                 /\ Pc(v)' \in Waiting /\ task'[crew'[u].ends].in_overdue_use
    <3>1. u # t /\ Overdue(u)
      BY <1>1, <1>3, <2>4
    <3>2. PICK v \in OmpThreads \ {u} :
                 /\ crew[v].ptr = crew[u].ends /\ crew[v].index = crew[u].index
                 /\ Pc(v) \in Waiting /\ task[crew[u].ends].in_overdue_use
      BY <3>1 DEF TasksOK, Waiting
    <3>3. v # t
      BY <3>1, <3>2 DEF OutsideStep
    <3> QED BY <1>0, <1>1, <3>1, <3>2, <3>3
  <2> QED BY <2>1, <2>2, <2>3, <2>4 DEF TasksOK, HasTask, HasNone, Waiting
<1>8. StoredOK'
  <2>1. \A l \in LocationIds \ {0} : stored_task'[l] # NULL => \E u \in OmpThreads : crew'[u].index = l /\ Owns(u)'
    BY <1>5 DEF StoredOK, OutsideStep
  <2>2. \A u \in OmpThreads : Pc(u)' = "work" => Owns(u)'
    BY <1>1, <1>2, <1>5 DEF StoredOK
  <2>3. Pc(Primary)' \in {"barrier", "exchange"} => Owns(Primary)'
    BY <1>0, <1>1, <1>2, <1>5 DEF StoredOK
  <2>4. Pc(Primary)' \in {"begin", "overdue", "team_begin"} => stored_task'[0] = NULL
    <3>1. CASE t = Primary
      BY <1>2, <3>1 DEF OutsideStep
    <3>2. CASE t # Primary
      BY <1>0, <1>1, <3>2 DEF StoredOK, OutsideStep
    <3> QED BY <3>1, <3>2
  <2> QED BY <2>1, <2>2, <2>3, <2>4 DEF StoredOK
<1>9. LocksOK'
  <2>1. \A u \in OmpThreads : Locks(u)' /\ crew'[u].index # 0 => preserve_order'[crew'[u].index]
    BY <1>0, <1>6 DEF LocksOK
  <2>2. \A u, v \in OmpThreads : Locks(u)' /\ Locks(v)' /\ crew'[u].index = crew'[v].index => u = v
    BY <1>6 DEF LocksOK
  <2>3. ASSUME omp'.mutex # NULL
        PROVE  omp'.finalizing /\ crew'[omp'.mutex].pc \in Ending \cup {"release"} /\ crew'[omp'.mutex].ptr # NULL
    <3>1. omp'.mutex = omp.mutex /\ omp.mutex \in OmpThreads \ {t}
      BY <2>3 DEF OutsideStep, TypesOK
    <3> QED BY <1>1, <2>3, <3>1 DEF LocksOK, OutsideStep, Pc
  <2> QED BY <2>1, <2>2, <2>3 DEF LocksOK, Pc
<1>10. ClaimsOK'
  <2>1. \A u \in OmpThreads : Pc(u)' = "team_begin" => Pc(u) = "team_begin" /\ crew'[u].index = crew[u].index
    BY <1>1, <1>2
  <2> QED BY <1>5, <2>1, ClaimsKept
<1>11. LogOK'
  <2>1. \A u \in OmpThreads, l \in LocationIds : Claims(u) /\ PlaceOfLog(u, l) => PlaceOfLog(u, l)'
    <3>1. ASSUME NEW l \in LocationIds, NEW e PROVE (LastIs(l, e)' <=> LastIs(l, e)) /\ (OneThread(l)' <=> OneThread(l))
      BY <1>0 DEF LastIs, OneThread
    <3> QED BY <1>5, <3>1 DEF PlaceOfLog
  <2> QED BY <1>0, <1>5, <2>1, AllPlaces, LogKept
<1> QED BY <1>7, <1>8, <1>9, <1>10, <1>11

(* The record of a thread outside of teams, or about to begin. *)
LEMMA CrewMoves ==
  ASSUME TypesOK, NEW t \in OmpThreads, NEW pc \in Places, NEW index \in LocationIds,
         NEW p \in ParallelObjects \cup {NULL},
         crew' \in {[crew EXCEPT ![t] = [NotInTeam EXCEPT !.pc = pc, !.index = index, !.parallel = p]],
                   [crew EXCEPT ![t] = [NotInTeam EXCEPT !.pc = pc, !.parallel = p]],
                   [crew EXCEPT ![t] = NotInTeam]}
  PROVE  /\ Others(t) /\ crew'[t].ptr = NULL /\ crew' \in [OmpThreads -> CrewRecords]
         /\ crew' = [crew EXCEPT ![t] = [NotInTeam EXCEPT !.pc = pc, !.index = index, !.parallel = p]] =>
              Pc(t)' = pc /\ crew'[t].index = index /\ crew'[t].parallel = p
         /\ crew' = [crew EXCEPT ![t] = [NotInTeam EXCEPT !.pc = pc, !.parallel = p]] =>
              Pc(t)' = pc /\ crew'[t].index = 0 /\ crew'[t].parallel = p
         /\ crew' = [crew EXCEPT ![t] = NotInTeam] =>
              Pc(t)' = "idle" /\ crew'[t].index = 0
<1>1. NotInTeam \in CrewRecords /\ NotInTeam.pc = "idle" /\ NotInTeam.index = 0 /\ NotInTeam.ptr = NULL
  BY Setting DEF NotInTeam, CrewRecords, Places
<1>2. \A r \in CrewRecords : /\ [r EXCEPT !.pc = pc, !.index = index, !.parallel = p] \in CrewRecords
                             /\ [r EXCEPT !.pc = pc, !.index = index, !.parallel = p].pc = pc
                             /\ [r EXCEPT !.pc = pc, !.index = index, !.parallel = p].index = index
                             /\ [r EXCEPT !.pc = pc, !.index = index, !.parallel = p].parallel = p
                             /\ [r EXCEPT !.pc = pc, !.index = index, !.parallel = p].ptr = r.ptr
  BY DEF CrewRecords
<1>3. \A r \in CrewRecords : /\ [r EXCEPT !.pc = pc, !.parallel = p] \in CrewRecords
                             /\ [r EXCEPT !.pc = pc, !.parallel = p].pc = pc
                             /\ [r EXCEPT !.pc = pc, !.parallel = p].index = r.index
                             /\ [r EXCEPT !.pc = pc, !.parallel = p].parallel = p
                             /\ [r EXCEPT !.pc = pc, !.parallel = p].ptr = r.ptr
  BY DEF CrewRecords
<1>4. PICK r \in CrewRecords :
        /\ crew' = [crew EXCEPT ![t] = r] /\ r.ptr = NULL
        /\ r \in {[NotInTeam EXCEPT !.pc = pc, !.index = index, !.parallel = p],
                  [NotInTeam EXCEPT !.pc = pc, !.parallel = p], NotInTeam}
  BY <1>1, <1>2, <1>3
<1>5. crew \in [OmpThreads -> CrewRecords]
  BY DEF TypesOK
<1>6. /\ crew' \in [OmpThreads -> CrewRecords] /\ crew'[t] = r
      /\ \A u \in OmpThreads \ {t} : crew'[u] = crew[u]
  BY <1>4, <1>5
<1>7. ASSUME crew' = [crew EXCEPT ![t] = [NotInTeam EXCEPT !.pc = pc, !.index = index, !.parallel = p]]
      PROVE  Pc(t)' = pc /\ crew'[t].index = index /\ crew'[t].parallel = p
  <2>1. crew'[t] = [NotInTeam EXCEPT !.pc = pc, !.index = index, !.parallel = p]
    BY <1>5, <1>7
  <2> QED BY <1>1, <1>2, <2>1 DEF Pc
<1>8. ASSUME crew' = [crew EXCEPT ![t] = [NotInTeam EXCEPT !.pc = pc, !.parallel = p]]
      PROVE  Pc(t)' = pc /\ crew'[t].index = 0 /\ crew'[t].parallel = p
  <2>1. crew'[t] = [NotInTeam EXCEPT !.pc = pc, !.parallel = p]
    BY <1>5, <1>8
  <2> QED BY <1>1, <1>3, <2>1 DEF Pc
<1>9. ASSUME crew' = [crew EXCEPT ![t] = NotInTeam]
      PROVE  Pc(t)' = "idle" /\ crew'[t].index = 0
  <2>1. crew'[t] = NotInTeam
    BY <1>5, <1>9
  <2> QED BY <1>1, <2>1 DEF Pc
<1>10. Others(t) /\ crew'[t].ptr = NULL
  BY <1>4, <1>6 DEF Others
<1> QED BY <1>6, <1>7, <1>8, <1>9, <1>10

(* JoinTeam: a worker takes an index of the region. *)
LEMMA JoinTeamKeeps ==
  ASSUME OmptIInv, NEW t \in Workers, NEW index \in LocationIds \ {0}, JoinTeam(t, index)
  PROVE  OmptIInv'
<1>0. /\ TypesOK /\ TeamOK /\ CountOK /\ TasksOK /\ FreeOK /\ StoredOK /\ LocksOK /\ ClaimsOK /\ LogOK
      /\ t \in OmpThreads /\ t # Primary /\ Primary \in OmpThreads
  BY Setting DEF OmptIInv
<1>1. /\ Pc(t) = "idle" /\ omp.region > 0 /\ index < Size(omp.region) /\ index \notin taken[omp.region]
      /\ taken' = [taken EXCEPT ![omp.region] = @ \cup {index}]
      /\ crew' = [crew EXCEPT ![t] = [NotInTeam EXCEPT !.pc = "begin", !.index = index,
                                              !.parallel = crew[Primary].parallel]]
      /\ UNCHANGED <<omp, arrived, parallel, task, poolVarsOmpt, locationData,
                     thread_team, stamps, log>>
  BY DEF JoinTeam, At, Pc
<1>2. /\ UNCHANGED <<omp, arrived, parallel, task, parallel_regions_free_list, tasks_free_list,
                     stored_task, preserve_order, is_ompt_location, thread_team, stamps, log>>
      /\ SameRegion
  BY <1>1 DEF poolVarsOmpt, locationData, SameRegion
<1>3. PrimaryPhase
  <2>1. ~PrimaryPhase => taken[omp.region] = 0 .. Size(omp.region) - 1
    BY <1>0, <1>1 DEF CountOK
  <2>2. index \in Nat /\ Size(omp.region) \in Nat
    BY <1>0, <1>1, RegionFacts, Setting
  <2>3. index \in 0 .. Size(omp.region) - 1
    BY <1>1, <2>2
  <2> QED BY <1>1, <2>1, <2>3
<1>4. Pc(Primary) # "idle" /\ crew[Primary].parallel \in ParallelObjects
  BY <1>0, <1>3 DEF PrimaryPhase, TeamOK
<1>5. /\ Others(t) /\ Pc(t)' = "begin" /\ crew'[t].index = index /\ crew'[t].ptr = NULL
      /\ crew'[t].parallel = crew[Primary].parallel
      /\ crew' \in [OmpThreads -> CrewRecords]
  <2>1. PICK p \in ParallelObjects : p = crew[Primary].parallel
    BY <1>4
  <2>2. crew' = [crew EXCEPT ![t] = [NotInTeam EXCEPT !.pc = "begin", !.index = index, !.parallel = p]]
    BY <1>1, <2>1
  <2>3. "begin" \in Places
    BY DEF Places
  <2>4. /\ crew' \in {[crew EXCEPT ![t] = [NotInTeam EXCEPT !.pc = "begin", !.index = index, !.parallel = p]],
                     [crew EXCEPT ![t] = [NotInTeam EXCEPT !.pc = "begin", !.parallel = p]],
                     [crew EXCEPT ![t] = NotInTeam]}
    BY <2>2, Zenon
  <2>6. t \in OmpThreads /\ index \in LocationIds /\ p \in ParallelObjects \cup {NULL}
    BY <1>0
  <2>5. /\ Others(t) /\ crew'[t].ptr = NULL /\ crew' \in [OmpThreads -> CrewRecords]
        /\ Pc(t)' = "begin" /\ crew'[t].index = index /\ crew'[t].parallel = p
    BY <1>0, <2>2, <2>3, <2>4, <2>6, CrewMoves
  <2> QED BY <2>1, <2>5
<1>6. /\ omp.region \in RegionIds /\ Size(omp.region) \in Nat /\ arrived[omp.region] \in Nat
      /\ IsFiniteSet(taken[omp.region]) /\ Cardinality(taken[omp.region]) \in Nat
  BY <1>0, <1>1, RegionFacts
<1>7. /\ taken' \in [RegionIds -> SUBSET LocationIds]
      /\ taken'[omp.region] = taken[omp.region] \cup {index}
  BY <1>0, <1>1, <1>6 DEF TypesOK
<1>8. TypesOK'
  BY <1>0, <1>2, <1>5, <1>7 DEF TypesOK, RegionIds
<1>9. /\ \A u \in OmpThreads \ {t} : /\ crew'[u] = crew[u] /\ Pc(u)' = Pc(u)
                                     /\ Early(u)' <=> Early(u)
                                     /\ Overdue(u)' <=> Overdue(u)
      /\ ~Early(t) /\ Early(t)' /\ ~Overdue(t)'
  BY <1>1, <1>5 DEF Others, Pc, Early, Overdue, Ending
<1>10. PrimaryPhase'
  BY <1>0, <1>3, <1>9 DEF PrimaryPhase
<1>11. TeamOK'
  <2>1. /\ crew'[Primary].index = 0
        /\ \A u \in Workers : Pc(u)' # "idle" => crew'[u].index # 0 /\ Pc(u)' # "join"
        /\ \A u \in OmpThreads : Pc(u)' # "idle" => crew'[u].parallel \in ParallelObjects
    BY <1>0, <1>4, <1>5, <1>9, Setting DEF TeamOK
  <2>2. omp'.region > 0 /\ parallel'[crew'[Primary].parallel].region = omp'.region
    BY <1>0, <1>2, <1>4, <1>9 DEF TeamOK
  <2>3. \A u \in OmpThreads : Early(u)' =>
          crew'[u].parallel = crew'[Primary].parallel /\ crew'[u].index \in taken'[omp'.region]
    BY <1>0, <1>2, <1>5, <1>7, <1>9 DEF TeamOK
  <2>4. \A u, v \in OmpThreads : Early(u)' /\ Early(v)' /\ crew'[u].index = crew'[v].index => u = v
    BY <1>0, <1>1, <1>5, <1>9 DEF TeamOK
  <2>5. \A u \in OmpThreads : Pc(u)' \in {"overdue", "team_begin"} \/ Overdue(u)' =>
          thread_team'[crew'[u].index] = Size(omp.region)'
    BY <1>0, <1>2, <1>5, <1>9 DEF TeamOK, Size
  <2> QED BY <1>10, <2>1, <2>2, <2>3, <2>4, <2>5 DEF TeamOK
<1>12. CountOK'
  <2>1. EarlyThreads' = EarlyThreads \cup {t} /\ t \notin EarlyThreads
    BY <1>0, <1>9 DEF EarlyThreads
  <2>2. IsFiniteSet(EarlyThreads) /\ Cardinality(EarlyThreads) \in Nat
    BY <1>0, EarlyNumber
  <2>3. Cardinality(EarlyThreads') = Cardinality(EarlyThreads) + 1
    BY <2>1, <2>2, FS_AddElement
  <2>4. Cardinality(taken'[omp.region]) = Cardinality(taken[omp.region]) + 1
    BY <1>1, <1>6, <1>7, FS_AddElement
  <2>5. Cardinality(EarlyThreads) + arrived[omp.region] <= Cardinality(taken[omp.region])
    BY <1>0, <1>1 DEF CountOK
  <2>6. Cardinality(EarlyThreads') + arrived'[omp.region] <= Cardinality(taken'[omp.region])
    BY <1>2, <1>6, <2>2, <2>3, <2>4, <2>5
  <2>7. 0 \in taken[omp.region] /\ taken[omp.region] \subseteq 0 .. Size(omp.region) - 1
    BY <1>0, <1>1 DEF CountOK
  <2>8. index \in 0 .. Size(omp.region) - 1
    BY <1>0, <1>1, <1>6, Setting
  <2>9. RegionIds' = RegionIds /\ Size(omp.region)' = Size(omp.region)
    BY <1>2 DEF RegionIds, Size
  <2>10. omp.finalizing => Pc(Primary)' = "idle"
    BY <1>0, <1>9 DEF CountOK
  <2>11. (\A r \in RegionIds : r > omp.region => arrived[r] = 0) /\ (omp.finalizing => omp.region = Len(omp.setup.sizes))
    BY <1>0 DEF CountOK
  <2> QED BY <1>2, <1>7, <1>10, <2>6, <2>7, <2>8, <2>9, <2>10, <2>11 DEF CountOK
<1>13. OutsideStep(t)
  <2>1. \A u \in OmpThreads \ {t} : Overdue(u) => crew[u].ends # crew[t].ptr
    <3>1. crew[t].ptr = NULL
      BY <1>0, <1>1 DEF TasksOK
    <3>2. \A u \in OmpThreads : Overdue(u) => crew[u].ends # NULL
      BY <1>0, Setting DEF TasksOK, Overdue
    <3> QED BY <3>1, <3>2
  <2>2. omp.mutex # t
    BY <1>0, <1>1, Setting DEF LocksOK, Ending
  <2> QED BY <1>0, <1>1, <1>2, <1>5, <2>1, <2>2 DEF OutsideStep
<1>14. TasksOK' /\ StoredOK' /\ LocksOK' /\ ClaimsOK' /\ LogOK'
  BY <1>0, <1>13, OutsideStepKeeps
<1>15. FreeOK'
  BY <1>0, <1>2, <1>5, <1>9, FreeKept
<1> QED BY <1>8, <1>11, <1>12, <1>14, <1>15 DEF OmptIInv

(* ParallelBegin: the primary thread begins the next region. *)
LEMMA ParallelBeginKeeps ==
  ASSUME OmptIInv, ParallelBegin
  PROVE  OmptIInv'
<1>0. /\ TypesOK /\ TeamOK /\ CountOK /\ TasksOK /\ FreeOK /\ StoredOK /\ LocksOK /\ ClaimsOK /\ LogOK
      /\ Primary \in OmpThreads /\ 0 \in LocationIds
  BY Setting DEF OmptIInv
<1>1. PICK r, p : r = omp.region + 1 /\ p = FromPool(parallel_regions_free_list, NewParallels)
  OBVIOUS
<1>2. /\ Pc(Primary) = "idle" /\ r \in RegionIds /\ InPool(parallel_regions_free_list, NewParallels)
      /\ omp' = [omp EXCEPT !.region = r]
      /\ taken' = [taken EXCEPT ![r] = {0}]
      /\ parallel' = [parallel EXCEPT ![p] = FreshParallel(r)]
      /\ parallel_regions_free_list' = AfterPool(parallel_regions_free_list)
      /\ stored_task' = [stored_task EXCEPT ![0] = NULL]
      /\ crew' = [crew EXCEPT ![Primary] = [NotInTeam EXCEPT !.pc = "begin", !.parallel = p]]
      /\ UNCHANGED <<arrived, task, tasks_free_list, preserve_order, is_ompt_location, thread_team, stamps, log>>
  BY <1>1 DEF ParallelBegin, At, Pc
<1>3. /\ p \in ParallelObjects /\ parallel_regions_free_list' \in Seq(ParallelObjects)
  <2>1. parallel_regions_free_list \in Seq(ParallelObjects) /\ NewParallels \in SUBSET ParallelObjects
    BY <1>0 DEF TypesOK, NewParallels
  <2> QED BY <1>1, <1>2, <2>1, PoolFacts
<1>4. /\ r \in Nat /\ r > omp.region /\ r > 0 /\ omp.region \in Nat /\ Len(omp.setup.sizes) \in Nat
      /\ r \in 0 .. Len(omp.setup.sizes) /\ omp.region # Len(omp.setup.sizes) /\ Size(r) \in Nat \ {0}
      /\ \A q \in RegionIds : q > r => q > omp.region
  <2>1. omp.region \in Nat /\ omp.region \in 0 .. Len(omp.setup.sizes)
    BY <1>0 DEF TypesOK
  <2>2. Len(omp.setup.sizes) \in Nat /\ RegionIds = 1 .. Len(omp.setup.sizes)
    BY <1>0, Setting
  <2>3. Size(r) \in Nat \ {0}
    BY <1>0, <1>2, Setting
  <2> QED BY <1>1, <1>2, <2>1, <2>2, <2>3
<1>5. /\ omp' \in [setup : OmptSetups, region : Nat, finalizing : BOOLEAN, mutex : OmpThreads \cup {NULL}]
      /\ omp'.setup = omp.setup /\ omp'.region = r /\ omp'.finalizing = omp.finalizing /\ omp'.mutex = omp.mutex
      /\ RegionIds' = RegionIds /\ Size(r)' = Size(r)
  BY <1>0, <1>2, <1>4 DEF TypesOK, RegionIds, Size
<1>6. taken' \in [RegionIds -> SUBSET LocationIds] /\ taken'[r] = {0}
  BY <1>0, <1>2 DEF TypesOK
<1>7. FreshParallel(r) \in ParallelRecords /\ FreshParallel(r).region = r
  BY <1>4 DEF FreshParallel, ParallelRecords
<1>8. parallel' \in [ParallelObjects -> ParallelRecords] /\ parallel'[p].region = r
  BY <1>0, <1>2, <1>3, <1>7 DEF TypesOK
<1>9. /\ stored_task' \in [LocationIds -> TaskObjects \cup {NULL, Encountering}] /\ stored_task'[0] = NULL
      /\ \A l \in LocationIds \ {0} : stored_task'[l] = stored_task[l]
  BY <1>0, <1>2 DEF TypesOK
<1>10. /\ Others(Primary) /\ crew'[Primary].ptr = NULL /\ crew' \in [OmpThreads -> CrewRecords]
       /\ Pc(Primary)' = "begin" /\ crew'[Primary].index = 0 /\ crew'[Primary].parallel = p
  <2>1. "begin" \in Places
    BY DEF Places
  <2> QED BY <1>0, <1>2, <1>3, <2>1, CrewMoves
<1>11. TypesOK'
  BY <1>0, <1>2, <1>3, <1>4, <1>5, <1>6, <1>8, <1>9, <1>10 DEF TypesOK
<1>12. \A u \in OmpThreads : ~Early(u)
  BY <1>0, <1>2 DEF TeamOK, PrimaryPhase
<1>13. /\ \A u \in OmpThreads \ {Primary} : crew'[u] = crew[u] /\ Pc(u)' = Pc(u) /\ ~Early(u)'
       /\ Early(Primary)' /\ PrimaryPhase'
  BY <1>10, <1>12 DEF Others, Pc, Early, Overdue, PrimaryPhase
<1>14. TeamOK'
  <2>1. /\ \A u \in Workers : Pc(u)' # "idle" => crew'[u].index # 0 /\ Pc(u)' # "join"
        /\ \A u \in OmpThreads : Pc(u)' # "idle" => crew'[u].parallel \in ParallelObjects
    BY <1>0, <1>3, <1>10, <1>13, Setting DEF TeamOK
  <2>2. \A u \in OmpThreads : Early(u)' => u = Primary
    BY <1>13
  <2>3. \A u \in OmpThreads : ~(Pc(u)' \in {"overdue", "team_begin"} \/ Overdue(u)')
    BY <1>10, <1>13 DEF Early, Overdue, Ending
  <2> QED BY <1>4, <1>5, <1>6, <1>8, <1>10, <1>13, <2>1, <2>2, <2>3 DEF TeamOK
<1>15. CountOK'
  <2>1. EarlyThreads' = {Primary} /\ Cardinality({Primary}) = 1 /\ Cardinality({0}) = 1
    BY <1>0, <1>13, FS_Singleton DEF EarlyThreads
  <2>2. arrived'[r] = 0 /\ \A q \in RegionIds : q > r => arrived'[q] = 0
    BY <1>0, <1>2, <1>4 DEF CountOK
  <2>3. Cardinality(EarlyThreads') + arrived'[r] <= Cardinality(taken'[r])
    BY <1>6, <2>1, <2>2
  <2>4. 0 \in taken'[r] /\ taken'[r] \subseteq 0 .. Size(r) - 1
    BY <1>4, <1>6
  <2>5. ~omp'.finalizing
    BY <1>0, <1>4, <1>5 DEF CountOK
  <2> QED BY <1>5, <1>13, <2>2, <2>3, <2>4, <2>5 DEF CountOK
<1>16. OutsideStep(Primary)
  <2>1. \A u \in OmpThreads : ~Overdue(u)
    BY <1>12 DEF Early
  <2>2. omp.mutex # Primary
    BY <1>0, <1>2, Setting DEF LocksOK, Ending
  <2> QED BY <1>2, <1>5, <1>9, <1>10, <2>1, <2>2 DEF OutsideStep
<1>17. TasksOK' /\ StoredOK' /\ LocksOK' /\ ClaimsOK' /\ LogOK'
  BY <1>0, <1>16, OutsideStepKeeps
<1>18. FreeOK'
  BY <1>0, <1>2, <1>10, <1>13, FreeKept
<1> QED BY <1>11, <1>14, <1>15, <1>17, <1>18 DEF OmptIInv

(* A reference to a parallel object is given back: it keeps its region. *)
LEMMA RegionReleased ==
  ASSUME TypesOK, NEW p \in ParallelObjects, release_parallel_region(p)
  PROVE  /\ parallel' \in [ParallelObjects -> ParallelRecords]
         /\ \A q \in ParallelObjects : parallel'[q].region = parallel[q].region
         /\ parallel_regions_free_list' \in Seq(ParallelObjects)
<1>1. parallel[p].ref_count \in Int /\ parallel_regions_free_list \in Seq(ParallelObjects)
  BY DEF TypesOK, ParallelRecords
<1>2. PICK n \in Int : n = parallel[p].ref_count - 1
  BY <1>1
<1>3. parallel' = [parallel EXCEPT ![p].ref_count = n]
  BY <1>2 DEF release_parallel_region
<1>4. /\ [parallel EXCEPT ![p].ref_count = n] \in [ParallelObjects -> ParallelRecords]
      /\ \A q \in ParallelObjects : [parallel EXCEPT ![p].ref_count = n][q].region = parallel[q].region
  BY ParallelField
<1>5. << p >> \o parallel_regions_free_list \in Seq(ParallelObjects)
  BY <1>1, Prepend
<1>6. parallel_regions_free_list' \in Seq(ParallelObjects)
  BY <1>1, <1>5 DEF release_parallel_region
<1> QED BY <1>3, <1>4, <1>6, Zenon

(* The team and the number of its threads when one has left. *)
LEMMA LeavesTeam ==
  ASSUME TypesOK, TeamOK, CountOK, NEW t \in OmpThreads, SameRegion, UNCHANGED <<taken, arrived, thread_team>>,
         omp'.finalizing = omp.finalizing,
         \A q \in ParallelObjects : parallel'[q].region = parallel[q].region,
         Others(t), Pc(t) \in {"release", "join"}, Pc(t)' \in {"join", "idle"},
         Pc(t)' = "join" => t = Primary /\ crew'[t].parallel = crew[t].parallel,
         t = Primary => crew'[t].index = 0
  PROVE  TeamOK' /\ CountOK'
<1>0. Primary \in OmpThreads
  BY Setting
<1>1. /\ \A u \in OmpThreads \ {t} : crew'[u] = crew[u] /\ Pc(u)' = Pc(u) /\ (Early(u)' <=> Early(u)) /\ (Overdue(u)' <=> Overdue(u))
      /\ ~Early(t) /\ ~Early(t)' /\ ~Overdue(t)'
  BY DEF Others, Pc, Early, Overdue, Ending
<1>2. PrimaryPhase' <=> PrimaryPhase
  <2>1. CASE t = Primary
    BY <2>1 DEF PrimaryPhase
  <2>2. CASE t # Primary
    BY <1>0, <1>1, <2>2 DEF PrimaryPhase
  <2> QED BY <2>1, <2>2
<1>3. TeamOK'
  <2>1. \A u \in OmpThreads : Pc(u)' # "idle" \/ u = Primary => crew'[u].index = crew[u].index
    BY <1>1 DEF TeamOK
  <2>2. \A u \in OmpThreads : Pc(u)' # "idle" => crew'[u].parallel = crew[u].parallel
    BY <1>1
  <2>3. \A u \in OmpThreads : Pc(u)' # "idle" => Pc(u) # "idle" /\ (Pc(u)' = "join" => u = Primary)
    BY <1>1, Setting DEF TeamOK
  <2>4. \A u \in OmpThreads : Pc(u)' \in {"overdue", "team_begin"} \/ Overdue(u)' =>
            thread_team'[crew[u].index] = Size(omp.region)
    BY <1>1 DEF TeamOK
  <2> QED BY <1>1, <1>2, <2>1, <2>2, <2>3, <2>4, TeamKept
<1>4. CountOK'
  <2>1. omp'.finalizing => omp.finalizing /\ Pc(Primary)' = "idle"
    BY <1>0, <1>1 DEF CountOK
  <2>2. \A u \in OmpThreads : Early(u)' => Early(u)
    BY <1>1
  <2> QED BY <1>2, <2>1, <2>2, CountUnmoved
<1> QED BY <1>3, <1>4

(* Release: a thread gives its task back to its pool. *)
LEMMA ReleaseKeeps ==
  ASSUME OmptIInv, NEW t \in OmpThreads, Release(t)
  PROVE  OmptIInv'
<1>0. /\ TypesOK /\ TeamOK /\ CountOK /\ TasksOK /\ FreeOK /\ StoredOK /\ LocksOK /\ ClaimsOK /\ LogOK
      /\ Primary \in OmpThreads /\ 0 \in LocationIds /\ NULL \notin TaskObjects
  BY Setting DEF OmptIInv
<1>1. PICK o : o = crew[t].ptr
  OBVIOUS
<1>2. /\ Pc(t) = "release" /\ ~task[o].in_overdue_use /\ release_parallel_region(task[o].parallel)
      /\ tasks_free_list' = [tasks_free_list EXCEPT ![t] = << o >> \o @]
      /\ omp' = [omp EXCEPT !.mutex = IF @ = t THEN NULL ELSE @]
      /\ crew' = [crew EXCEPT ![t] = IF t = Primary
                                     THEN [NotInTeam EXCEPT !.pc = "join", !.parallel = crew[t].parallel]
                                     ELSE NotInTeam]
      /\ UNCHANGED <<taken, arrived, task, locationData, thread_team, stamps, log>>
  BY <1>1 DEF Release, At, Pc, NotInOverdueUse
<1>3. /\ o \in TaskObjects /\ o # NULL /\ task[o].parallel \in ParallelObjects
  BY <1>0, <1>1, <1>2 DEF TasksOK
<1>4. /\ UNCHANGED <<stored_task, preserve_order, is_ompt_location>>
      /\ omp' \in [setup : OmptSetups, region : Nat, finalizing : BOOLEAN, mutex : OmpThreads \cup {NULL}]
      /\ omp'.setup = omp.setup /\ omp'.region = omp.region /\ omp'.finalizing = omp.finalizing
      /\ omp'.mutex = (IF omp.mutex = t THEN NULL ELSE omp.mutex) /\ SameRegion
  BY <1>0, <1>2 DEF TypesOK, SameRegion, locationData
<1>5. /\ parallel' \in [ParallelObjects -> ParallelRecords]
      /\ \A q \in ParallelObjects : parallel'[q].region = parallel[q].region
      /\ parallel_regions_free_list' \in Seq(ParallelObjects)
  BY <1>0, <1>2, <1>3, RegionReleased
<1>6. /\ Others(t) /\ crew'[t].ptr = NULL /\ crew' \in [OmpThreads -> CrewRecords]
      /\ Pc(t)' \in {"join", "idle"} /\ crew'[t].index = 0
      /\ Pc(t)' = "join" => t = Primary /\ crew'[t].parallel = crew[t].parallel
  <2>1. PICK p \in ParallelObjects \cup {NULL} : p = crew[t].parallel
    BY <1>0, Member
  <2>2. "join" \in Places
    BY DEF Places
  <2>3. CASE t = Primary
    <3>1. crew' = [crew EXCEPT ![t] = [NotInTeam EXCEPT !.pc = "join", !.parallel = p]]
      BY <1>2, <2>1, <2>3
    <3>2. /\ Others(t) /\ crew'[t].ptr = NULL /\ crew' \in [OmpThreads -> CrewRecords]
          /\ Pc(t)' = "join" /\ crew'[t].index = 0 /\ crew'[t].parallel = p
      BY <1>0, <2>2, <3>1, CrewMoves
    <3> QED BY <2>1, <2>3, <3>2
  <2>4. CASE t # Primary
    <3>1. crew' = [crew EXCEPT ![t] = NotInTeam]
      BY <1>2, <2>4
    <3>2. /\ Others(t) /\ crew'[t].ptr = NULL /\ crew' \in [OmpThreads -> CrewRecords]
          /\ Pc(t)' = "idle" /\ crew'[t].index = 0
      BY <1>0, <2>1, <2>2, <3>1, CrewMoves
    <3> QED BY <3>2
  <2> QED BY <2>3, <2>4
<1>7. /\ tasks_free_list[t] \in Seq(TaskObjects) /\ tasks_free_list \in [OmpThreads -> Seq(TaskObjects)]
      /\ << o >> \o tasks_free_list[t] \in Seq(TaskObjects)
      /\ Range(<< o >> \o tasks_free_list[t]) = {o} \cup Range(tasks_free_list[t])
      /\ IsInjective(tasks_free_list[t]) /\ o \notin Range(tasks_free_list[t]) =>
           IsInjective(<< o >> \o tasks_free_list[t])
  <2>1. tasks_free_list[t] \in Seq(TaskObjects) /\ tasks_free_list \in [OmpThreads -> Seq(TaskObjects)]
    BY <1>0 DEF TypesOK
  <2> QED BY <1>3, <2>1, Prepend
<1>8. /\ tasks_free_list' \in [OmpThreads -> Seq(TaskObjects)]
      /\ tasks_free_list'[t] = << o >> \o tasks_free_list[t]
      /\ \A u \in OmpThreads \ {t} : tasks_free_list'[u] = tasks_free_list[u]
  BY <1>2, <1>7
<1>9. TypesOK'
  BY <1>0, <1>2, <1>4, <1>5, <1>6, <1>8 DEF TypesOK, RegionIds
<1>10. TeamOK' /\ CountOK'
  BY <1>0, <1>2, <1>4, <1>5, <1>6, LeavesTeam
<1>11. OutsideStep(t)
  <2>1. ASSUME NEW u \in OmpThreads \ {t}, Overdue(u) PROVE crew[u].ends # crew[t].ptr
    BY <1>0, <1>1, <1>2, <2>1 DEF TasksOK
  <2>2. Pc(t) \in {"idle", "join", "release"} /\ Pc(t)' \in {"idle", "join", "begin"} /\ Pc(t)' # "begin"
    BY <1>2, <1>6
  <2> QED BY <1>2, <1>4, <1>6, <2>1, <2>2 DEF OutsideStep
<1>12. TasksOK' /\ StoredOK' /\ LocksOK' /\ ClaimsOK' /\ LogOK'
  BY <1>0, <1>11, OutsideStepKeeps
<1>13. FreeOK'
  <2>1. /\ \A u \in OmpThreads \ {t} : Free(u)' = Free(u) /\ crew'[u].ptr = crew[u].ptr /\ crew[u].ptr # o
        /\ Free(t)' = {o} \cup Free(t)
    <3>1. Free(t)' = {o} \cup Free(t)
      BY <1>7, <1>8 DEF Free
    <3>2. \A u \in OmpThreads \ {t} : Free(u)' = Free(u)
      BY <1>8 DEF Free
    <3> QED BY <1>0, <1>1, <1>3, <1>6, <3>1, <3>2 DEF Others, TasksOK
  <2>2. \A u \in OmpThreads : o \notin Free(u) /\ NULL \notin Free(u)'
    <3>1. \A u \in OmpThreads : o \notin Free(u)
      BY <1>0, <1>1 DEF FreeOK
    <3>2. \A u \in OmpThreads : tasks_free_list'[u] \in Seq(TaskObjects)
      BY <1>8
    <3>3. \A u \in OmpThreads : Free(u)' \subseteq TaskObjects
      BY <3>2, LenProperties, ElementOfSeq DEF Free, Range
    <3> QED BY <1>0, <3>1, <3>3
  <2>3. NewTasks' = NewTasks /\ o \notin NewTasks
    <3>1. task[o].parallel # NULL
      BY <1>0, <1>3, Setting
    <3> QED BY <1>2, <3>1 DEF NewTasks
  <2>4. \A u, v \in OmpThreads : crew'[u].ptr \notin Free(v)'
    BY <1>0, <1>6, <2>1, <2>2 DEF FreeOK
  <2>5. \A u \in OmpThreads : Free(u)' \cap NewTasks' = {}
    BY <1>0, <2>1, <2>3 DEF FreeOK
  <2>6. \A u, v \in OmpThreads : u # v => Free(u)' \cap Free(v)' = {}
    BY <1>0, <2>1, <2>2 DEF FreeOK
  <2>7. \A u \in OmpThreads : IsInjective(tasks_free_list'[u])
    BY <1>0, <1>7, <1>8, <2>2 DEF FreeOK, Free
  <2> QED BY <2>4, <2>5, <2>6, <2>7 DEF FreeOK
<1> QED BY <1>9, <1>10, <1>12, <1>13 DEF OmptIInv

(* ParallelEnd: the primary thread leaves the region. *)
LEMMA ParallelEndKeeps ==
  ASSUME OmptIInv, ParallelEnd
  PROVE  OmptIInv'
<1>0. /\ TypesOK /\ TeamOK /\ CountOK /\ TasksOK /\ FreeOK /\ StoredOK /\ LocksOK /\ ClaimsOK /\ LogOK
      /\ Primary \in OmpThreads /\ 0 \in LocationIds /\ NULL \notin TaskObjects
  BY Setting DEF OmptIInv
<1>1. /\ Pc(Primary) = "join" /\ release_parallel_region(crew[Primary].parallel)
      /\ stored_task' = [stored_task EXCEPT ![0] = Encountering]
      /\ crew' = [crew EXCEPT ![Primary] = NotInTeam]
      /\ UNCHANGED <<omp, taken, arrived, task, tasks_free_list, preserve_order, is_ompt_location,
                     thread_team, stamps, log>>
  BY DEF ParallelEnd, At, Pc, runtimeVars
<1>2. crew[Primary].parallel \in ParallelObjects
  BY <1>0, <1>1 DEF TeamOK
<1>3. /\ parallel' \in [ParallelObjects -> ParallelRecords]
      /\ \A q \in ParallelObjects : parallel'[q].region = parallel[q].region
      /\ parallel_regions_free_list' \in Seq(ParallelObjects)
  BY <1>0, <1>1, <1>2, RegionReleased
<1>4. /\ Others(Primary) /\ crew'[Primary].ptr = NULL /\ crew' \in [OmpThreads -> CrewRecords]
      /\ Pc(Primary)' = "idle" /\ crew'[Primary].index = 0
  <2>1. "join" \in Places
    BY DEF Places
  <2> QED BY <1>0, <1>1, <1>2, <2>1, CrewMoves
<1>5. /\ stored_task' \in [LocationIds -> TaskObjects \cup {NULL, Encountering}]
      /\ \A l \in LocationIds \ {0} : stored_task'[l] = stored_task[l]
  BY <1>0, <1>1 DEF TypesOK
<1>6. TypesOK'
  BY <1>0, <1>1, <1>3, <1>4, <1>5 DEF TypesOK, RegionIds
<1>7. SameRegion
  BY <1>1 DEF SameRegion
<1>8. TeamOK' /\ CountOK'
  BY <1>0, <1>1, <1>3, <1>4, <1>7, LeavesTeam
<1>9. OutsideStep(Primary)
  <2>1. crew[Primary].ptr = NULL
    BY <1>0, <1>1 DEF TasksOK
  <2>2. \A u \in OmpThreads : Overdue(u) => crew[u].ends # NULL
    BY <1>0 DEF TasksOK, Overdue
  <2>3. omp.mutex # Primary
    BY <1>0, <1>1, Setting DEF LocksOK, Ending
  <2> QED BY <1>1, <1>4, <1>5, <2>1, <2>2, <2>3 DEF OutsideStep
<1>10. TasksOK' /\ StoredOK' /\ LocksOK' /\ ClaimsOK' /\ LogOK'
  BY <1>0, <1>9, OutsideStepKeeps
<1>11. FreeOK'
  <2>1. \A u \in OmpThreads : crew'[u].ptr \in {NULL, crew[u].ptr}
    BY <1>4 DEF Others
  <2> QED BY <1>0, <1>1, <2>1, FreeKept
<1> QED BY <1>6, <1>8, <1>10, <1>11 DEF OmptIInv

-----------------------------------------------------------------------------
(* A task that is marked as used for an overdue end keeps its other fields. *)
LEMMA TaskUse ==
  ASSUME TypesOK, NEW o \in TaskObjects, NEW use \in BOOLEAN, task' = [task EXCEPT ![o].in_overdue_use = use]
  PROVE  /\ task' \in [TaskObjects -> [index : LocationIds, parallel : ParallelObjects \cup {NULL}, in_overdue_use : BOOLEAN]]
         /\ \A q \in TaskObjects : /\ task'[q].index = task[q].index /\ task'[q].parallel = task[q].parallel
                                   /\ task'[q].in_overdue_use = IF q = o THEN use ELSE task[q].in_overdue_use
<1> DEFINE Records == [index : LocationIds, parallel : ParallelObjects \cup {NULL}, in_overdue_use : BOOLEAN]
<1>1. task \in [TaskObjects -> Records]
  BY DEF TypesOK
<1>2. \A r \in Records : /\ [r EXCEPT !.in_overdue_use = use] \in Records
                         /\ [r EXCEPT !.in_overdue_use = use].index = r.index
                         /\ [r EXCEPT !.in_overdue_use = use].parallel = r.parallel
                         /\ [r EXCEPT !.in_overdue_use = use].in_overdue_use = use
  OBVIOUS
<1> HIDE DEF Records
<1>3. task' \in [TaskObjects -> Records]
  BY <1>1, <1>2
<1>4. \A q \in TaskObjects : /\ task'[q].index = task[q].index /\ task'[q].parallel = task[q].parallel
                             /\ task'[q].in_overdue_use = IF q = o THEN use ELSE task[q].in_overdue_use
  BY <1>1, <1>2
<1> QED BY <1>3, <1>4 DEF Records

(* TriggerOverdue: a thread finds the task of an earlier thread at its       *)
(* location and takes it out, to write the end the other has not written.    *)
LEMMA TriggerOverdueKeeps ==
  ASSUME OmptIInv, NEW t \in OmpThreads, TriggerOverdue(t)
  PROVE  OmptIInv'
<1>0. /\ TypesOK /\ TeamOK /\ CountOK /\ TasksOK /\ FreeOK /\ StoredOK /\ LocksOK /\ ClaimsOK /\ LogOK
      /\ Primary \in OmpThreads /\ NULL \notin TaskObjects /\ NULL \notin OmpThreads
  BY Setting DEF OmptIInv
<1>1. PICK l \in LocationIds, o \in TaskObjects \cup {NULL, Encountering} : l = crew[t].index /\ o = stored_task[l]
  BY <1>0, Member DEF TypesOK
<1>2. /\ Pc(t) = "overdue" /\ o # NULL
      /\ task' = [task EXCEPT ![o].in_overdue_use = TRUE]
      /\ crew' = [crew EXCEPT ![t].pc = "ibarrier_end", ![t].ends = o]
      /\ stored_task' = [stored_task EXCEPT ![l] = NULL]
      /\ UNCHANGED <<runtimeVars, parallel, poolVarsOmpt, preserve_order,
                     is_ompt_location, thread_team, stamps, log>>
  BY <1>1 DEF TriggerOverdue, At, Pc
<1>3. /\ UNCHANGED <<omp, taken, arrived, parallel, parallel_regions_free_list, tasks_free_list, preserve_order,
                     is_ompt_location, thread_team, stamps, log>>
      /\ SameRegion
  BY <1>2 DEF runtimeVars, poolVarsOmpt, SameRegion
<1>4. t # Primary /\ l # 0
  <2>1. t # Primary
    BY <1>0, <1>1, <1>2 DEF StoredOK, TeamOK
  <2> QED BY <1>0, <1>1, <1>2, <2>1, FirstIndex
(* The owner of the task waits at the end of the barrier. *)
<1>5. PICK u \in OmpThreads : crew[u].index = l /\ Owns(u)
  BY <1>0, <1>1, <1>2, <1>4 DEF StoredOK
<1>6. /\ u # t /\ u # Primary /\ Pc(u) \in {"barrier", "exchange"} /\ crew[u].ptr = o /\ o \in TaskObjects
  <2>1. u # t
    BY <1>2, <1>5 DEF Owns
  <2>2. Pc(u) # "work"
    BY <1>0, <1>1, <1>2, <1>5, <2>1 DEF TeamOK, Early
  <2>3. Pc(u) \in {"barrier", "exchange"} /\ crew[u].ptr = o
    BY <1>1, <1>5, <2>2 DEF Owns
  <2>4. o \in TaskObjects
    BY <1>0, <2>3 DEF TasksOK
  <2>5. u # Primary
    BY <1>0, <1>4, <1>5 DEF TeamOK
  <2> QED BY <2>1, <2>3, <2>4, <2>5
<1>7. /\ Others(t) /\ Pc(t)' = "ibarrier_end" /\ crew'[t].ends = o /\ crew'[t].ptr = crew[t].ptr
      /\ crew'[t].index = crew[t].index /\ crew'[t].parallel = crew[t].parallel
      /\ crew' \in [OmpThreads -> CrewRecords] /\ crew[t].ptr = NULL
  <2>1. "ibarrier_end" \in Places
    BY DEF Places, Ending
  <2>2. crew[t].ptr = NULL
    BY <1>0, <1>2 DEF TasksOK
  <2>3. o \in TaskObjects \cup {NULL} /\ TypesOK
    BY <1>0, <1>6
  <2>4. TakesUp(t, "ibarrier_end", o)
    BY <1>2 DEF TakesUp
  <2>5. /\ Others(t) /\ Pc(t)' = "ibarrier_end" /\ crew'[t].ends = o /\ crew'[t].ptr = crew[t].ptr
        /\ crew'[t].index = crew[t].index /\ crew'[t].parallel = crew[t].parallel
        /\ crew' \in [OmpThreads -> CrewRecords]
    BY <2>1, <2>3, <2>4, TakesTyped
  <2> QED BY <2>2, <2>5
<1>8. /\ task' \in [TaskObjects -> [index : LocationIds, parallel : ParallelObjects \cup {NULL}, in_overdue_use : BOOLEAN]]
      /\ \A q \in TaskObjects : /\ task'[q].index = task[q].index /\ task'[q].parallel = task[q].parallel
                                /\ task[q].in_overdue_use => task'[q].in_overdue_use
      /\ task'[o].in_overdue_use
  BY <1>0, <1>2, <1>6, TaskUse
<1>9. /\ stored_task' \in [LocationIds -> TaskObjects \cup {NULL, Encountering}] /\ stored_task'[l] = NULL
      /\ \A m \in LocationIds \ {l} : stored_task'[m] = stored_task[m]
  BY <1>0, <1>2 DEF TypesOK
<1>10. TypesOK'
  BY <1>0, <1>3, <1>7, <1>8, <1>9 DEF TypesOK, RegionIds
<1>11. /\ \A v \in OmpThreads : /\ crew'[v].index = crew[v].index /\ crew'[v].parallel = crew[v].parallel
                                /\ crew'[v].ptr = crew[v].ptr
       /\ \A v \in OmpThreads \ {t} : crew'[v] = crew[v] /\ Pc(v)' = Pc(v)
  BY <1>7 DEF Others, Pc
<1>12. /\ \A v \in OmpThreads \ {t} : (Overdue(v)' <=> Overdue(v)) /\ (Early(v)' <=> Early(v))
       /\ Early(t) /\ Early(t)' /\ Overdue(t)' /\ ~Overdue(t)
  BY <1>2, <1>7, <1>11 DEF Overdue, Early, Ending
<1>13. PrimaryPhase' <=> PrimaryPhase
  BY <1>0, <1>4, <1>11 DEF PrimaryPhase
<1>14. TeamOK'
  <2>1. \A v \in OmpThreads : Pc(v)' # "idle" => Pc(v) # "idle" /\ (Pc(v)' = "join" => v = Primary)
    BY <1>0, <1>2, <1>7, <1>11, Setting DEF TeamOK
  <2>2. \A v \in OmpThreads : Pc(v)' \in {"overdue", "team_begin"} \/ Overdue(v)' =>
            thread_team'[crew[v].index] = Size(omp.region)
    BY <1>0, <1>2, <1>3, <1>11, <1>12 DEF TeamOK
  <2>3. \A q \in ParallelObjects : parallel'[q].region = parallel[q].region
    BY <1>3
  <2> QED BY <1>0, <1>3, <1>11, <1>12, <1>13, <2>1, <2>2, <2>3, TeamKept
<1>15. CountOK'
  <2>1. omp'.finalizing => omp.finalizing /\ Pc(Primary)' = "idle"
    BY <1>0, <1>3, <1>4, <1>11 DEF CountOK
  <2>2. \A v \in OmpThreads : Early(v)' => Early(v)
    BY <1>12
  <2> QED BY <1>0, <1>3, <1>13, <2>1, <2>2, CountUnmoved
<1>16. TasksOK'
  <2>1. ASSUME NEW v \in OmpThreads
        PROVE  /\ Pc(v)' \in HasTask => crew'[v].ptr \in TaskObjects
               /\ Pc(v)' \in HasNone => crew'[v].ptr = NULL
               /\ Pc(v)' \in Ending => crew'[v].ends \in TaskObjects /\ crew'[v].ptr \in {NULL, crew'[v].ends}
    <3>1. CASE v = t
      BY <1>6, <1>7, <3>1 DEF HasTask, HasNone
    <3>2. CASE v # t
      BY <1>0, <1>11, <3>2 DEF TasksOK, HasTask, HasNone
    <3> QED BY <3>1, <3>2
  <2>2. ASSUME NEW v \in OmpThreads, crew'[v].ptr # NULL
        PROVE  /\ task'[crew'[v].ptr].index = crew'[v].index /\ task'[crew'[v].ptr].parallel \in ParallelObjects
               /\ is_ompt_location'[crew'[v].index]
    <3>1. crew[v].ptr \in TaskObjects
      BY <1>0, <1>11, <2>2, AllPlaces
    <3> QED BY <1>0, <1>3, <1>8, <1>11, <2>2, <3>1 DEF TasksOK
  <2>3. \A v, w \in OmpThreads : crew'[v].ptr # NULL /\ crew'[v].ptr = crew'[w].ptr => v = w
    BY <1>0, <1>11 DEF TasksOK
  <2>4. ASSUME NEW v \in OmpThreads, Overdue(v)'
        PROVE  \E w \in OmpThreads \ {v} :
                 /\ crew'[w].ptr = crew'[v].ends /\ crew'[w].index = crew'[v].index
                 /\ Pc(w)' \in Waiting /\ task'[crew'[v].ends].in_overdue_use
    <3>1. CASE v = t
      BY <1>1, <1>5, <1>6, <1>7, <1>8, <1>11, <3>1 DEF Waiting
    <3>2. CASE v # t
      <4>1. Overdue(v) /\ crew[v].ends \in TaskObjects
        BY <1>0, <1>12, <2>4, <3>2 DEF TasksOK, Overdue
      <4>2. PICK w \in OmpThreads \ {v} :
                 /\ crew[w].ptr = crew[v].ends /\ crew[w].index = crew[v].index
                 /\ Pc(w) \in Waiting /\ task[crew[v].ends].in_overdue_use
        BY <1>0, <4>1 DEF TasksOK, Waiting
      <4>3. w # t
        BY <1>2, <4>2 DEF Waiting
      <4> QED BY <1>8, <1>11, <3>2, <4>1, <4>2, <4>3
    <3> QED BY <3>1, <3>2
  <2> QED BY <2>1, <2>2, <2>3, <2>4 DEF TasksOK, HasTask, HasNone, Waiting
<1>17. FreeOK'
  BY <1>0, <1>3, <1>8, <1>11, FreeKept
<1>18. \A v \in OmpThreads : Owns(v)' <=> Owns(v) /\ v # u
  <2> SUFFICES ASSUME NEW v \in OmpThreads PROVE Owns(v)' <=> Owns(v) /\ v # u
    OBVIOUS
  <2>1. Owns(v) \/ Owns(v)' => v # t
    BY <1>2, <1>7 DEF Owns
  <2>2. Pc(v) \in {"work", "barrier", "exchange"} => crew[v].ptr \in TaskObjects /\ crew[v].ptr # NULL
    BY <1>0 DEF TasksOK
  <2>3. CASE crew[v].index = l
    <3>1. ~Owns(v)'
      BY <1>9, <1>11, <2>1, <2>2, <2>3 DEF Owns
    <3>2. Owns(v) => v = u
      BY <1>0, <1>5, <2>3 DEF ClaimsOK, Claims
    <3> QED BY <3>1, <3>2
  <2>4. CASE crew[v].index # l
    <3>1. crew[v].index \in LocationIds \ {l} /\ v # u
      BY <1>0, <1>5, <2>4, AllPlaces
    <3> QED BY <1>9, <1>11, <2>1, <3>1 DEF Owns
  <2> QED BY <2>3, <2>4
<1>19. /\ \A v \in OmpThreads : Claims(v)' <=> v = t \/ (Claims(v) /\ v # u)
       /\ ~Claims(t) /\ Claims(u)
  <2>1. Pc(u) \notin Ending /\ ~Claims(t) /\ Claims(u) /\ Claims(t)'
    BY <1>2, <1>5, <1>6, <1>7 DEF Ending, Claims, Owns
  <2> QED BY <1>11, <1>18, <2>1 DEF Claims
<1>20. StoredOK'
  <2>1. ASSUME NEW m \in LocationIds \ {0}, stored_task'[m] # NULL
        PROVE  \E v \in OmpThreads : crew'[v].index = m /\ Owns(v)'
    <3>1. m # l /\ stored_task[m] # NULL
      BY <1>9, <2>1
    <3>2. PICK v \in OmpThreads : crew[v].index = m /\ Owns(v)
      BY <1>0, <3>1 DEF StoredOK
    <3> QED BY <1>5, <1>11, <1>18, <3>1, <3>2
  <2>2. \A v \in OmpThreads : Pc(v)' = "work" => Owns(v)'
    BY <1>0, <1>6, <1>7, <1>11, <1>18 DEF StoredOK
  <2>3. Pc(Primary)' \in {"barrier", "exchange"} => Owns(Primary)'
    BY <1>0, <1>4, <1>6, <1>11, <1>18 DEF StoredOK
  <2>4. Pc(Primary)' \in {"begin", "overdue", "team_begin"} => stored_task'[0] = NULL
    <3>1. 0 \in LocationIds \ {l}
      BY <1>0, <1>4, Setting
    <3> QED BY <1>0, <1>4, <1>9, <1>11, <3>1 DEF StoredOK
  <2> QED BY <2>1, <2>2, <2>3, <2>4 DEF StoredOK
<1>21. LocksOK'
  <2>1. \A v \in OmpThreads : Locks(v)' => Locks(v) /\ crew'[v].index = crew[v].index
    BY <1>3, <1>7, <1>11 DEF Locks
  <2>2. omp.mutex # NULL => crew'[omp.mutex].pc \in Ending \cup {"release"} /\ crew'[omp.mutex].ptr # NULL
    <3>1. omp.mutex # NULL => omp.mutex \in OmpThreads \ {t}
      BY <1>0, <1>2 DEF TypesOK, LocksOK, Ending
    <3> QED BY <1>0, <1>11, <3>1 DEF LocksOK, Pc
  <2> QED BY <1>0, <1>3, <2>1, <2>2, LocksKept
<1>22. ClaimsOK'
  <2>1. \A v, w \in OmpThreads : Claims(v)' /\ Claims(w)' /\ crew'[v].index = crew'[w].index => v = w
    BY <1>0, <1>1, <1>5, <1>11, <1>19 DEF ClaimsOK
  <2>2. ASSUME NEW v \in OmpThreads, NEW w \in OmpThreads, Pc(v)' = "team_begin", Claims(w)'
        PROVE  crew'[w].index # crew'[v].index
    <3>1. v # t /\ Pc(v) = "team_begin" /\ Early(v)
      BY <1>7, <1>11, <2>2 DEF Early
    <3>2. CASE w = t
      BY <1>0, <1>11, <1>12, <3>1, <3>2 DEF TeamOK
    <3>3. CASE w # t
      BY <1>0, <1>11, <1>19, <2>2, <3>1, <3>3 DEF ClaimsOK
    <3> QED BY <3>2, <3>3
  <2> QED BY <2>1, <2>2 DEF ClaimsOK
<1>23. LogOK'
  <2>1. \A m \in LocationIds : \A e : (LastIs(m, e)' <=> LastIs(m, e)) /\ (OneThread(m)' <=> OneThread(m))
    BY <1>3 DEF LastIs, OneThread
  <2>2. ASSUME NEW v \in OmpThreads, Claims(v)' PROVE PlaceOfLog(v, crew[v].index)'
    <3>1. CASE v = t
      <4>1. LastIs(l, "ibarrier_begin")
        BY <1>0, <1>5, <1>6, <1>19 DEF LogOK, PlaceOfLog
      <4>2. PlaceOfLog(t, l)'
        BY <1>7, <2>1, <4>1 DEF PlaceOfLog
      <4> QED BY <1>1, <1>11, <3>1, <4>2 DEF PlaceOfLog, LastIs, OneThread, Pc
    <3>2. CASE v # t
      <4>1. PICK m \in LocationIds : m = crew[v].index
        BY <1>0, AllPlaces
      <4>2. PlaceOfLog(v, m)
        BY <1>0, <1>19, <2>2, <3>2, <4>1 DEF LogOK
      <4>3. PlaceOfLog(v, m)'
        BY <1>11, <2>1, <3>2, <4>2 DEF PlaceOfLog
      <4> QED BY <1>11, <4>1, <4>3 DEF PlaceOfLog, LastIs, OneThread, Pc
    <3> QED BY <3>1, <3>2
  <2>3. ASSUME NEW m \in LocationIds, Unclaimed(m)' PROVE log'[m] = << >> \/ LastIs(m, "team_end")'
    <3>1. m # l
      BY <1>1, <1>11, <1>19, <2>3 DEF Unclaimed
    <3>2. Unclaimed(m)
      BY <1>5, <1>11, <1>19, <2>3, <3>1 DEF Unclaimed
    <3> QED BY <1>0, <1>3, <2>1, <3>2 DEF LogOK
  <2>4. \A m \in LocationIds : \A i \in 1 .. Len(log'[m]) - 1 : Follows(log'[m][i], log'[m][i + 1])
    BY <1>0, <1>3 DEF LogOK
  <2> QED BY <1>11, <2>2, <2>3, <2>4 DEF LogOK
<1> QED BY <1>10, <1>14, <1>15, <1>16, <1>17, <1>20, <1>21, <1>22, <1>23 DEF OmptIInv

-----------------------------------------------------------------------------
(* After the end of a task there is nothing left to write to its location. *)
LEMMA LogEnds ==
  ASSUME TypesOK, ClaimsOK, LogOK, NEW t \in OmpThreads, NEW l \in LocationIds,
         l = crew[t].index, Claims(t), ~Claims(t)', Others(t), crew'[t].index = crew[t].index,
         LastIs(l, "team_end")',
         \A m \in LocationIds \ {l} : log'[m] = log[m],
         \A m \in LocationIds : \A i \in 1 .. Len(log'[m]) - 1 : Follows(log'[m][i], log'[m][i + 1]),
         \A u \in OmpThreads \ {t} : Claims(u)' <=> Claims(u)
  PROVE  LogOK'
<1>0. \A u \in OmpThreads \ {t} : crew'[u] = crew[u] /\ Pc(u)' = Pc(u)
  BY DEF Others, Pc
<1>1. ASSUME NEW u \in OmpThreads, Claims(u)' PROVE PlaceOfLog(u, crew[u].index)'
  <2>1. u # t /\ Claims(u) /\ crew'[u].index = crew[u].index /\ crew[u].index # l
    BY <1>0, <1>1 DEF ClaimsOK
  <2>2. PICK m \in LocationIds \ {l} : m = crew[u].index
    BY <2>1, AllPlaces
  <2>3. PlaceOfLog(u, m) /\ log'[m] = log[m] /\ Pc(u)' = Pc(u)
    BY <1>0, <2>1, <2>2 DEF LogOK
  <2> QED BY <2>1, <2>2, <2>3 DEF PlaceOfLog, LastIs, OneThread, Pc
<1>2. ASSUME NEW m \in LocationIds, Unclaimed(m)' PROVE log'[m] = << >> \/ LastIs(m, "team_end")'
  <2>1. CASE m = l
    BY <2>1
  <2>2. CASE m # l
    <3>1. Unclaimed(m)
      BY <1>0, <1>2, <2>2 DEF Unclaimed
    <3> QED BY <2>2, <3>1 DEF LogOK, LastIs
  <2> QED BY <2>1, <2>2
<1> QED BY <1>1, <1>2 DEF LogOK

(* ImplicitTaskEnd: the end of a task is written; a thread that wrote        *)
(* another's goes on to begin its own team.                                  *)
LEMMA ImplicitTaskEndKeeps ==
  ASSUME OmptIInv, NEW t \in OmpThreads, ImplicitTaskEnd(t)
  PROVE  OmptIInv'
<1>0. /\ TypesOK /\ TeamOK /\ CountOK /\ TasksOK /\ FreeOK /\ StoredOK /\ LocksOK /\ ClaimsOK /\ LogOK
      /\ Primary \in OmpThreads /\ NULL \notin TaskObjects /\ NULL \notin OmpThreads
  BY Setting DEF OmptIInv
<1>1. Pc(t) = "write task_end" /\ Pc(t) \in Ending
  BY DEF ImplicitTaskEnd, At, Pc, Ending
<1>2. /\ crew[t].ends \in TaskObjects /\ Ends(t).index = crew[t].index /\ EndsParallel(t) \in ParallelObjects
      /\ crew[t].ptr \in {NULL, crew[t].ends}
  BY <1>0, <1>1, EndsFacts
<1>3. PICK l \in LocationIds, o \in TaskObjects : l = crew[t].index /\ o = crew[t].ends /\ task[o].index = l
  BY <1>0, <1>2, Member DEF Ends
<1>4. /\ Write(l, "team_end", TimeOf(t))
      /\ parallel' \in {parallel, [parallel EXCEPT ![EndsParallel(t)].itask_end = crew[t].time]}
      /\ UNCHANGED <<runtimeVars, poolVarsOmpt, stored_task, is_ompt_location, thread_team, stamps>>
  BY <1>3 DEF ImplicitTaskEnd
<1>5. /\ UNCHANGED <<omp, taken, arrived, tasks_free_list, parallel_regions_free_list, stored_task,
                     is_ompt_location, thread_team, stamps>>
      /\ SameRegion
  BY <1>4 DEF runtimeVars, poolVarsOmpt, SameRegion
<1>6. /\ parallel' \in [ParallelObjects -> ParallelRecords]
      /\ \A p \in ParallelObjects : parallel'[p].region = parallel[p].region
  <2>1. crew[t].time \in Nat
    BY <1>0, Member
  <2>2. PICK p \in ParallelObjects, n \in Nat : p = EndsParallel(t) /\ n = crew[t].time
    BY <1>2, <2>1
  <2>3. parallel' = parallel \/ parallel' = [parallel EXCEPT ![p].itask_end = n]
    BY <1>4, <2>2
  <2>4. n \in Int
    OBVIOUS
  <2>5. /\ [parallel EXCEPT ![p].itask_end = n] \in [ParallelObjects -> ParallelRecords]
        /\ parallel \in [ParallelObjects -> ParallelRecords]
        /\ \A q \in ParallelObjects : [parallel EXCEPT ![p].itask_end = n][q].region = parallel[q].region
    <3>1. [parallel EXCEPT ![p].itask_end = n] \in [ParallelObjects -> ParallelRecords]
      BY <1>0, <2>4, ParallelField
    <3>2. parallel \in [ParallelObjects -> ParallelRecords]
      BY <1>0 DEF TypesOK
    <3>3. \A q \in ParallelObjects : [parallel EXCEPT ![p].itask_end = n][q].region = parallel[q].region
      BY <1>0, <2>4, ParallelField
    <3> QED BY <3>1, <3>2, <3>3
  <2> QED BY <2>3, <2>5, Zenon
<1>7. Claims(t) /\ (LastIs(l, "ibarrier_end") \/ OneThread(l))
  BY <1>0, <1>1, <1>3 DEF LogOK, Claims, PlaceOfLog
<1>8. /\ log' \in [LocationIds -> Seq(Events)] /\ LastIs(l, "team_end")'
      /\ \A m \in LocationIds \ {l} : log'[m] = log[m]
      /\ \A m \in LocationIds : \A i \in 1 .. Len(log'[m]) - 1 : Follows(log'[m][i], log'[m][i + 1])
  <2>1. PICK e \in Events : e.event = "team_end" /\ log' = [log EXCEPT ![l] = @ \o <<e>>]
    <3>1. TimeOf(t) \in Nat
      BY <1>0, TimeIsNat
    <3>2. thread_team[l] \in Nat
      BY <1>0 DEF TypesOK
    <3> DEFINE e == [event |-> "team_end", team |-> thread_team[l], time |-> TimeOf(t)]
    <3>3. e \in Events /\ e.event = "team_end"
      BY <3>1, <3>2 DEF Events
    <3>4. log' = [log EXCEPT ![l] = @ \o <<e>>]
      BY <1>4 DEF Write
    <3> QED BY <3>3, <3>4
  <2>2. log[l] = << >> \/ Follows(log[l][Len(log[l])], e)
    BY <1>7, <2>1 DEF LastIs, OneThread, Follows, InOrder
  <2> QED BY <1>0, <2>1, <2>2, LogWrites DEF LogOK
<1>9. CASE EndsOwn(t)
  <2>1. /\ preserve_order' = IF omp.mutex = t THEN preserve_order ELSE [preserve_order EXCEPT ![l] = FALSE]
        /\ UNCHANGED task /\ crew' = [crew EXCEPT ![t].pc = "release"]
        /\ crew[t].ptr \in TaskObjects /\ crew[t].ptr # NULL
    BY <1>0, <1>2, <1>3, <1>9 DEF ImplicitTaskEnd, Goto, EndsOwn
  <2>2. Others(t) /\ Keeps(t) /\ Pc(t)' = "release" /\ crew' \in [OmpThreads -> CrewRecords]
    BY <1>0, <2>1, GoesOnTyped DEF Places, Ending
  <2>3. /\ preserve_order' \in [LocationIds -> BOOLEAN]
        /\ \A m \in LocationIds \ {l} : preserve_order'[m] = preserve_order[m]
        /\ omp.mutex = t => preserve_order' = preserve_order
    BY <1>0, <2>1 DEF TypesOK
  <2>4. TypesOK'
    BY <1>0, <1>5, <1>6, <1>8, <2>1, <2>2, <2>3 DEF TypesOK, RegionIds
  <2>5. /\ \A u \in OmpThreads : /\ crew'[u].index = crew[u].index /\ crew'[u].parallel = crew[u].parallel
                                 /\ crew'[u].ptr = crew[u].ptr /\ crew'[u].ends = crew[u].ends
        /\ \A u \in OmpThreads \ {t} : crew'[u] = crew[u] /\ Pc(u)' = Pc(u)
    BY <2>2 DEF Others, Keeps, Pc
  <2>6. /\ \A u \in OmpThreads \ {t} : (Overdue(u)' <=> Overdue(u)) /\ (Early(u)' <=> Early(u))
        /\ ~Overdue(t) /\ ~Early(t) /\ ~Overdue(t)' /\ ~Early(t)'
    BY <1>1, <2>1, <2>2, <2>5 DEF Overdue, Early, Ending
  <2>7. /\ \A u \in OmpThreads \ {t} : (Owns(u)' <=> Owns(u)) /\ (Claims(u)' <=> Claims(u))
        /\ ~Owns(t) /\ ~Owns(t)' /\ ~Claims(t)'
    BY <1>1, <1>5, <2>2, <2>5 DEF Owns, Claims, Ending
  <2>8. PrimaryPhase' <=> PrimaryPhase
    <3>1. CASE t = Primary
      BY <1>1, <2>2, <3>1 DEF PrimaryPhase
    <3>2. CASE t # Primary
      BY <1>0, <2>5, <3>2 DEF PrimaryPhase
    <3> QED BY <3>1, <3>2
  <2>9. TeamOK'
    <3>1. \A u \in OmpThreads : Pc(u)' # "idle" => Pc(u) # "idle" /\ (Pc(u)' = "join" => u = Primary)
      <4>1. \A u \in Workers : Pc(u) # "join"
        BY <1>0 DEF TeamOK
      <4>2. \A u \in OmpThreads : u \in Workers \/ u = Primary
        BY <1>0, Setting
      <4>3. Pc(t) # "idle" /\ Pc(t)' # "join"
        BY <1>1, <2>2 DEF Ending
      <4> QED BY <2>5, <4>1, <4>2, <4>3
    <3>2. \A u \in OmpThreads : Pc(u)' \in {"overdue", "team_begin"} \/ Overdue(u)' =>
              thread_team'[crew[u].index] = Size(omp.region)
      BY <1>0, <1>5, <2>2, <2>5, <2>6 DEF TeamOK
    <3>3. \A u \in OmpThreads : Early(u)' => Early(u)
      BY <2>6
    <3> QED BY <1>0, <1>5, <1>6, <2>5, <2>8, <3>1, <3>2, <3>3, TeamKept
  <2>10. CountOK'
    <3>1. omp'.finalizing => omp.finalizing /\ Pc(Primary)' = "idle"
      BY <1>0, <1>1, <1>5, <2>5 DEF CountOK
    <3>2. \A u \in OmpThreads : Early(u)' => Early(u)
      BY <2>6
    <3> QED BY <1>0, <1>5, <2>8, <3>1, <3>2, CountUnmoved
  <2>11. TasksOK'
    <3>1. Pc(t)' \in HasTask /\ Pc(t) \notin Waiting
      BY <1>1, <2>2 DEF HasTask, Waiting
    <3> QED BY <1>0, <1>5, <2>1, <2>2, <2>5, <3>1, TasksAfter
  <2>12. FreeOK'
    BY <1>0, <1>5, <2>1, <2>5, FreeKept
  <2>13. StoredOK'
    <3>1. \A u \in OmpThreads : Owns(u) => Owns(u)' /\ crew'[u].index = crew[u].index
      BY <2>5, <2>7
    <3> QED BY <1>0, <1>1, <1>5, <2>2, <2>5, <3>1, StoredKept
  <2>14. LocksOK'
    <3>1. ~Locks(t)' /\ (omp.mutex # t => Locks(t))
      BY <1>1, <2>1, <2>2 DEF Locks, Ending
    <3>2. \A u \in OmpThreads : Locks(u)' => u # t /\ Locks(u) /\ crew'[u].index = crew[u].index
      BY <1>5, <2>5, <3>1 DEF Locks
    <3>3. ASSUME NEW u \in OmpThreads, Locks(u)', crew'[u].index # 0
          PROVE  preserve_order'[crew'[u].index]
      <4>1. /\ u # t /\ Locks(u) /\ crew'[u].index = crew[u].index /\ crew[u].index # 0
            /\ preserve_order[crew[u].index] /\ crew[u].index \in LocationIds
        BY <1>0, <3>2, <3>3, AllPlaces DEF LocksOK
      <4>2. CASE omp.mutex = t
        BY <2>3, <4>1, <4>2
      <4>3. CASE omp.mutex # t
        <5>1. crew[u].index # l
          BY <1>0, <1>3, <3>1, <4>1, <4>3 DEF LocksOK
        <5> QED BY <2>3, <4>1, <5>1
      <4> QED BY <4>2, <4>3
    <3>4. \A u, v \in OmpThreads : Locks(u)' /\ Locks(v)' /\ crew'[u].index = crew'[v].index => u = v
      BY <1>0, <3>2 DEF LocksOK
    <3>5. ASSUME omp.mutex # NULL
          PROVE  omp.finalizing /\ crew'[omp.mutex].pc \in Ending \cup {"release"} /\ crew'[omp.mutex].ptr # NULL
      <4>1. omp.mutex \in OmpThreads
        BY <1>0, <3>5 DEF TypesOK
      <4> QED BY <1>0, <2>2, <2>5, <3>5, <4>1 DEF LocksOK, Pc
    <3> QED BY <1>5, <3>3, <3>4, <3>5 DEF LocksOK, Pc
  <2>15. ClaimsOK'
    <3>1. \A u \in OmpThreads : Claims(u)' => Claims(u) /\ crew'[u].index = crew[u].index
      BY <2>5, <2>7
    <3>2. \A u \in OmpThreads : Pc(u)' = "team_begin" => Pc(u) = "team_begin" /\ crew'[u].index = crew[u].index
      BY <2>2, <2>5
    <3> QED BY <1>0, <3>1, <3>2, ClaimsKept
  <2>16. LogOK'
    BY <1>0, <1>3, <1>7, <1>8, <2>2, <2>5, <2>7, LogEnds
  <2> QED BY <2>4, <2>9, <2>10, <2>11, <2>12, <2>13, <2>14, <2>15, <2>16 DEF OmptIInv
<1>10. CASE ~EndsOwn(t)
  <2>1. /\ task' = [task EXCEPT ![o].in_overdue_use = FALSE] /\ UNCHANGED preserve_order
        /\ TakesUp(t, "team_begin", NULL)
        /\ crew[t].ptr = NULL /\ Overdue(t)
    BY <1>1, <1>2, <1>3, <1>10 DEF ImplicitTaskEnd, EndsOwn, TakesUp, Overdue
  <2>2. /\ Others(t) /\ Pc(t)' = "team_begin" /\ crew'[t].ptr = crew[t].ptr
        /\ crew'[t].index = crew[t].index /\ crew'[t].parallel = crew[t].parallel
        /\ crew' \in [OmpThreads -> CrewRecords]
    <3>1. "team_begin" \in Places /\ NULL \in TaskObjects \cup {NULL}
      BY DEF Places
    <3> QED BY <1>0, <2>1, <3>1, TakesTyped
  <2>3. /\ task' \in [TaskObjects -> [index : LocationIds, parallel : ParallelObjects \cup {NULL}, in_overdue_use : BOOLEAN]]
        /\ \A q \in TaskObjects : /\ task'[q].index = task[q].index /\ task'[q].parallel = task[q].parallel
                                  /\ q # o => task'[q].in_overdue_use = task[q].in_overdue_use
    BY <1>0, <2>1, TaskUse
  <2>4. TypesOK'
    BY <1>0, <1>5, <1>6, <1>8, <2>1, <2>2, <2>3 DEF TypesOK, RegionIds
  <2>5. /\ \A u \in OmpThreads : /\ crew'[u].index = crew[u].index /\ crew'[u].parallel = crew[u].parallel
                                 /\ crew'[u].ptr = crew[u].ptr
        /\ \A u \in OmpThreads \ {t} : crew'[u] = crew[u] /\ Pc(u)' = Pc(u)
    BY <2>2 DEF Others, Pc
  <2>6. /\ \A u \in OmpThreads \ {t} : (Overdue(u)' <=> Overdue(u)) /\ (Early(u)' <=> Early(u))
        /\ Early(t) /\ ~Overdue(t)'
    BY <2>1, <2>2, <2>5 DEF Overdue, Early, Ending
  <2>7. /\ \A u \in OmpThreads \ {t} : (Owns(u)' <=> Owns(u)) /\ (Claims(u)' <=> Claims(u))
        /\ ~Owns(t) /\ ~Owns(t)' /\ ~Claims(t)'
    BY <1>1, <1>5, <2>2, <2>5 DEF Owns, Claims, Ending
  <2>8. PrimaryPhase'
    <3>1. PrimaryPhase
      BY <1>0, <2>6 DEF TeamOK
    <3>2. CASE t = Primary
      BY <2>2, <3>2 DEF PrimaryPhase
    <3>3. CASE t # Primary
      BY <1>0, <2>5, <3>1, <3>3 DEF PrimaryPhase
    <3> QED BY <3>2, <3>3
  <2>9. TeamOK'
    <3>1. \A u \in OmpThreads : Pc(u)' # "idle" => Pc(u) # "idle" /\ (Pc(u)' = "join" => u = Primary)
      <4>1. \A u \in Workers : Pc(u) # "join"
        BY <1>0 DEF TeamOK
      <4>2. \A u \in OmpThreads : u \in Workers \/ u = Primary
        BY <1>0, Setting
      <4>3. Pc(t) # "idle" /\ Pc(t)' # "join"
        BY <1>1, <2>2 DEF Ending
      <4> QED BY <2>5, <4>1, <4>2, <4>3
    <3>2. \A u \in OmpThreads : Pc(u)' \in {"overdue", "team_begin"} \/ Overdue(u)' =>
              thread_team'[crew[u].index] = Size(omp.region)
      BY <1>0, <1>5, <2>1, <2>5, <2>6 DEF TeamOK
    <3>3. \A u \in OmpThreads : Early(u)' => Early(u)
      BY <2>6
    <3> QED BY <1>0, <1>5, <1>6, <2>5, <2>8, <3>1, <3>2, <3>3, TeamKept
  <2>10. CountOK'
    <3>1. omp'.finalizing => omp.finalizing /\ Pc(Primary)' = "idle"
      BY <1>0, <1>1, <1>5, <2>5 DEF CountOK
    <3>2. \A u \in OmpThreads : Early(u)' => Early(u)
      BY <2>6
    <3> QED BY <1>0, <1>5, <2>8, <3>1, <3>2, CountUnmoved
  <2>11. TasksOK'
    <3>1. ASSUME NEW u \in OmpThreads
          PROVE  /\ Pc(u)' \in HasTask => crew'[u].ptr \in TaskObjects
                 /\ Pc(u)' \in HasNone => crew'[u].ptr = NULL
                 /\ Pc(u)' \in Ending => crew'[u].ends \in TaskObjects /\ crew'[u].ptr \in {NULL, crew'[u].ends}
      <4>1. CASE u = t
        BY <2>1, <2>2, <4>1 DEF HasTask, HasNone, Ending
      <4>2. CASE u # t
        BY <1>0, <2>5, <4>2 DEF TasksOK, HasTask, HasNone
      <4> QED BY <4>1, <4>2
    <3>2. ASSUME NEW u \in OmpThreads, crew'[u].ptr # NULL
          PROVE  /\ task'[crew'[u].ptr].index = crew'[u].index /\ task'[crew'[u].ptr].parallel \in ParallelObjects
                 /\ is_ompt_location'[crew'[u].index]
      <4>1. crew[u].ptr \in TaskObjects
        BY <1>0, <2>5, <3>2, AllPlaces
      <4> QED BY <1>0, <1>5, <2>3, <2>5, <3>2, <4>1 DEF TasksOK
    <3>3. \A u, v \in OmpThreads : crew'[u].ptr # NULL /\ crew'[u].ptr = crew'[v].ptr => u = v
      BY <1>0, <2>5 DEF TasksOK
    <3>4. ASSUME NEW u \in OmpThreads, Overdue(u)'
          PROVE  \E v \in OmpThreads \ {u} :
                   /\ crew'[v].ptr = crew'[u].ends /\ crew'[v].index = crew'[u].index
                   /\ Pc(v)' \in Waiting /\ task'[crew'[u].ends].in_overdue_use
      <4>1. u # t /\ Overdue(u)
        BY <2>6, <3>4
      <4>2. PICK v \in OmpThreads \ {u} :
                   /\ crew[v].ptr = crew[u].ends /\ crew[v].index = crew[u].index
                   /\ Pc(v) \in Waiting /\ task[crew[u].ends].in_overdue_use
        BY <1>0, <4>1 DEF TasksOK, Waiting
      <4>3. v # t
        BY <1>1, <4>2 DEF Waiting
      <4>4. crew[u].ends \in TaskObjects /\ crew[u].ends # o
        <5>1. PICK w \in OmpThreads : crew[w].ptr = o /\ crew[w].index = l
          BY <1>0, <1>3, <2>1 DEF TasksOK
        <5>2. crew[u].ends = o => v = w
          BY <1>0, <1>3, <4>2, <5>1 DEF TasksOK
        <5>3. crew[u].ends = o => crew[u].index = crew[t].index
          BY <1>3, <4>2, <5>1, <5>2
        <5>4. Claims(u) /\ crew[u].ends \in TaskObjects
          BY <1>0, <4>1 DEF Claims, Overdue, TasksOK
        <5> QED BY <1>0, <1>7, <4>1, <5>3, <5>4 DEF ClaimsOK
      <4> QED BY <2>3, <2>5, <4>1, <4>2, <4>3, <4>4
    <3> QED BY <3>1, <3>2, <3>3, <3>4 DEF TasksOK, HasTask, HasNone, Waiting
  <2>12. FreeOK'
    BY <1>0, <1>5, <2>3, <2>5, FreeKept
  <2>13. StoredOK'
    <3>1. \A u \in OmpThreads : Owns(u) => Owns(u)' /\ crew'[u].index = crew[u].index
      BY <2>5, <2>7
    <3>2. t # Primary
      <4>1. PICK w \in OmpThreads \ {t} : crew[w].index = l /\ Pc(w) # "idle"
        BY <1>0, <1>3, <2>1 DEF TasksOK
      <4> QED BY <1>0, <1>1, <1>3, <4>1, FirstIndex
    <3> QED BY <1>0, <1>1, <1>5, <2>2, <2>5, <3>1, <3>2, StoredKept
  <2>14. LocksOK'
    <3>1. \A u \in OmpThreads : Locks(u)' => Locks(u) /\ crew'[u].index = crew[u].index
      BY <1>5, <2>2, <2>5 DEF Locks, Ending
    <3>2. omp.mutex # NULL => crew'[omp.mutex].pc \in Ending \cup {"release"} /\ crew'[omp.mutex].ptr # NULL
      <4>1. omp.mutex # NULL => omp.mutex \in OmpThreads \ {t}
        BY <1>0, <2>1 DEF TypesOK, LocksOK
      <4> QED BY <1>0, <2>5, <4>1 DEF LocksOK, Pc
    <3> QED BY <1>0, <1>5, <2>1, <3>1, <3>2, LocksKept
  <2>15. ClaimsOK'
    <3>1. \A u \in OmpThreads : Claims(u)' => u # t /\ Claims(u) /\ crew'[u].index = crew[u].index
      BY <2>5, <2>7
    <3>2. \A u, v \in OmpThreads : Claims(u)' /\ Claims(v)' /\ crew'[u].index = crew'[v].index => u = v
      BY <1>0, <3>1 DEF ClaimsOK
    <3>3. \A u, v \in OmpThreads : Pc(u)' = "team_begin" /\ Claims(v)' => crew'[v].index # crew'[u].index
      BY <1>0, <1>7, <2>5, <3>1 DEF ClaimsOK
    <3> QED BY <3>2, <3>3 DEF ClaimsOK
  <2>16. LogOK'
    BY <1>0, <1>3, <1>7, <1>8, <2>2, <2>5, <2>7, LogEnds
  <2> QED BY <2>4, <2>9, <2>10, <2>11, <2>12, <2>13, <2>14, <2>15, <2>16 DEF OmptIInv
<1> QED BY <1>9, <1>10

-----------------------------------------------------------------------------
(* An object from the pool of a thread is nobody else's. *)
LEMMA TaskFromPool ==
  ASSUME TypesOK, TasksOK, FreeOK, NEW t \in OmpThreads, InPool(tasks_free_list[t], NewTasks)
  PROVE  LET o == FromPool(tasks_free_list[t], NewTasks)
             rest == AfterPool(tasks_free_list[t])
         IN  /\ o \in TaskObjects /\ rest \in Seq(TaskObjects) /\ IsInjective(rest)
             /\ \A u \in OmpThreads : crew[u].ptr # o
             /\ \A u \in OmpThreads : Pc(u) \in Ending => crew[u].ends # o
             /\ Range(rest) \subseteq Free(t) \ {o}
             /\ \A u \in OmpThreads \ {t} : o \notin Free(u)
<1> DEFINE o == FromPool(tasks_free_list[t], NewTasks)
           list == tasks_free_list[t]
           rest == AfterPool(list)
<1>1. list \in Seq(TaskObjects) /\ NewTasks \in SUBSET TaskObjects /\ IsInjective(list)
  BY DEF TypesOK, NewTasks, FreeOK
<1>2. /\ o \in TaskObjects /\ rest \in Seq(TaskObjects) /\ o \in Range(list) \cup NewTasks
      /\ IsInjective(rest) /\ (Range(rest) = Range(list) \ {o} \/ list = << >>)
      /\ list = << >> => rest = << >> /\ o \in NewTasks
  BY <1>1, PoolFacts
<1>3. Free(t) = Range(list)
  BY DEF Free
<1>4. Range(rest) \subseteq Free(t) \ {o}
  <2>1. CASE list = << >>
    <3>1. Range(rest) = {}
      BY <1>2, <2>1, EmptyList
    <3> QED BY <3>1
  <2>2. CASE list # << >>
    BY <1>2, <1>3, <2>2
  <2> QED BY <2>1, <2>2
<1>5. \A u \in OmpThreads : crew[u].ptr # o
  <2> SUFFICES ASSUME NEW u \in OmpThreads, crew[u].ptr = o PROVE FALSE
    OBVIOUS
  <2>1. o \notin Free(t) /\ o # NULL
    BY <1>2, Setting DEF FreeOK
  <2>2. task[o].parallel # NULL
    BY <2>1, Setting DEF TasksOK
  <2> QED BY <1>2, <1>3, <2>1, <2>2 DEF NewTasks
<1>6. \A u \in OmpThreads : Pc(u) \in Ending => crew[u].ends # o
  <2> SUFFICES ASSUME NEW u \in OmpThreads, Pc(u) \in Ending PROVE \E v \in OmpThreads : crew[v].ptr = crew[u].ends
    BY <1>5
  <2>1. crew[u].ptr \in {NULL, crew[u].ends}
    BY DEF TasksOK
  <2> QED BY <2>1 DEF TasksOK, Overdue
<1>7. \A u \in OmpThreads \ {t} : o \notin Free(u)
  BY <1>2, <1>3 DEF FreeOK
<1> QED BY <1>2, <1>4, <1>5, <1>6, <1>7

(* TeamBegin: the thread gets a task, stores it at its location and writes   *)
(* that its team begins.                                                     *)
LEMMA TeamBeginKeeps ==
  ASSUME OmptIInv, NEW t \in OmpThreads, TeamBegin(t)
  PROVE  OmptIInv'
<1>0. /\ TypesOK /\ TeamOK /\ CountOK /\ TasksOK /\ FreeOK /\ StoredOK /\ LocksOK /\ ClaimsOK /\ LogOK
      /\ Primary \in OmpThreads /\ NULL \notin TaskObjects /\ NULL \notin OmpThreads /\ NULL \notin ParallelObjects
  BY Setting DEF OmptIInv
<1>1. Pc(t) = "team_begin" /\ Early(t) /\ InPool(tasks_free_list[t], NewTasks)
  BY DEF TeamBegin, At, Pc, Early
<1>2. /\ omp.region > 0 /\ Region(t) = omp.region /\ PrimaryPhase
      /\ crew[t].parallel \in ParallelObjects /\ crew[t].index \in taken[omp.region]
  BY <1>0, <1>1, EarlyRegion
<1>3. PICK l \in LocationIds, p \in ParallelObjects : l = crew[t].index /\ p = crew[t].parallel
  BY <1>0, <1>2, Member
<1>4. PICK o \in TaskObjects, rest \in Seq(TaskObjects) :
        /\ o = FromPool(tasks_free_list[t], NewTasks) /\ rest = AfterPool(tasks_free_list[t]) /\ IsInjective(rest)
        /\ \A u \in OmpThreads : crew[u].ptr # o
        /\ \A u \in OmpThreads : Pc(u) \in Ending => crew[u].ends # o
        /\ Range(rest) \subseteq Free(t) \ {o}
        /\ \A u \in OmpThreads \ {t} : o \notin Free(u)
  BY <1>0, <1>1, TaskFromPool
<1>5. /\ Write(l, "team_begin", Now)
      /\ task' = [task EXCEPT ![o] = [NoTask EXCEPT !.index = l, !.parallel = p]]
      /\ tasks_free_list' = [tasks_free_list EXCEPT ![t] = rest]
      /\ is_ompt_location' = [is_ompt_location EXCEPT ![l] = TRUE]
      /\ stored_task' = [stored_task EXCEPT ![l] = o]
      /\ UNCHANGED <<runtimeVars, parallel, parallel_regions_free_list, preserve_order,
                     thread_team, stamps>>
  BY <1>3, <1>4 DEF TeamBegin
<1>6. /\ UNCHANGED <<omp, taken, arrived, parallel, parallel_regions_free_list, preserve_order, thread_team, stamps>>
      /\ SameRegion
  BY <1>5 DEF runtimeVars, SameRegion
<1>7. /\ task' \in [TaskObjects -> [index : LocationIds, parallel : ParallelObjects \cup {NULL}, in_overdue_use : BOOLEAN]]
      /\ task'[o].index = l /\ task'[o].parallel = p
      /\ \A q \in TaskObjects \ {o} : task'[q] = task[q]
  <2> DEFINE Records == [index : LocationIds, parallel : ParallelObjects \cup {NULL}, in_overdue_use : BOOLEAN]
  <2>1. NoTask \in Records
    BY Setting, <1>0 DEF NoTask
  <2>2. \A r \in Records : /\ [r EXCEPT !.index = l, !.parallel = p] \in Records
                           /\ [r EXCEPT !.index = l, !.parallel = p].index = l
                           /\ [r EXCEPT !.index = l, !.parallel = p].parallel = p
    OBVIOUS
  <2>3. PICK r \in Records : r = [NoTask EXCEPT !.index = l, !.parallel = p] /\ r.index = l /\ r.parallel = p
    BY <2>1, <2>2
  <2>4. task \in [TaskObjects -> Records] /\ task' = [task EXCEPT ![o] = r]
    BY <1>0, <1>5, <2>3 DEF TypesOK
  <2> HIDE DEF Records
  <2>5. task' \in [TaskObjects -> Records] /\ task'[o] = r /\ \A q \in TaskObjects \ {o} : task'[q] = task[q]
    BY <2>4
  <2> QED BY <2>3, <2>5 DEF Records
<1>8. /\ tasks_free_list' \in [OmpThreads -> Seq(TaskObjects)] /\ tasks_free_list'[t] = rest
      /\ \A u \in OmpThreads \ {t} : tasks_free_list'[u] = tasks_free_list[u]
  BY <1>0, <1>5 DEF TypesOK
<1>9. /\ is_ompt_location' \in [LocationIds -> BOOLEAN]
      /\ is_ompt_location'[l] /\ \A m \in LocationIds : is_ompt_location[m] => is_ompt_location'[m]
  BY <1>0, <1>5 DEF TypesOK
<1>10. /\ stored_task' \in [LocationIds -> TaskObjects \cup {NULL, Encountering}] /\ stored_task'[l] = o
       /\ \A m \in LocationIds \ {l} : stored_task'[m] = stored_task[m]
  BY <1>0, <1>5 DEF TypesOK
(* A team of one thread goes on to the end of the task at once.            *)
<1>11. /\ Others(t) /\ crew' \in [OmpThreads -> CrewRecords]
       /\ crew'[t].index = crew[t].index /\ crew'[t].parallel = crew[t].parallel /\ crew'[t].ptr = o
       /\ \/ Size(omp.region) # 1 /\ Pc(t)' = "work"
          \/ Size(omp.region) = 1 /\ Pc(t)' = "task_end" /\ crew'[t].ends = o
  <2>1. crew \in [OmpThreads -> CrewRecords]
    BY <1>0 DEF TypesOK
  <2>2. CASE Size(omp.region) = 1
    <3>1. crew' = [crew EXCEPT ![t].pc = "task_end", ![t].ptr = o, ![t].ends = o]
      BY <1>2, <1>4, <2>2 DEF TeamBegin
    <3>2. \A r \in CrewRecords : /\ [r EXCEPT !.pc = "task_end"] \in CrewRecords
                                 /\ [r EXCEPT !.ptr = o] \in CrewRecords
                                 /\ [r EXCEPT !.ends = o] \in CrewRecords
      BY DEF CrewRecords, Places, Ending
    <3>3. crew' \in [OmpThreads -> CrewRecords]
      BY <2>1, <3>1, <3>2
    <3>4. /\ \A u \in OmpThreads \ {t} : crew'[u] = crew[u]
          /\ crew'[t].index = crew[t].index /\ crew'[t].parallel = crew[t].parallel /\ crew'[t].ptr = o
          /\ crew'[t].pc = "task_end" /\ crew'[t].ends = o
      BY <2>1, <3>1 DEF CrewRecords
    <3> QED BY <2>2, <3>3, <3>4 DEF Others, Pc
  <2>3. CASE Size(omp.region) # 1
    <3>1. crew' = [crew EXCEPT ![t].pc = "work", ![t].ptr = o]
      BY <1>2, <1>4, <2>3 DEF TeamBegin
    <3>2. \A r \in CrewRecords : /\ [r EXCEPT !.pc = "work"] \in CrewRecords
                                 /\ [r EXCEPT !.ptr = o] \in CrewRecords
      BY DEF CrewRecords, Places
    <3>3. crew' \in [OmpThreads -> CrewRecords]
      BY <2>1, <3>1, <3>2
    <3>4. /\ \A u \in OmpThreads \ {t} : crew'[u] = crew[u]
          /\ crew'[t].index = crew[t].index /\ crew'[t].parallel = crew[t].parallel /\ crew'[t].ptr = o
          /\ crew'[t].pc = "work"
      BY <2>1, <3>1 DEF CrewRecords
    <3> QED BY <2>3, <3>3, <3>4 DEF Others, Pc
  <2> QED BY <2>2, <2>3
<1>12. Unclaimed(l)
  BY <1>0, <1>1, <1>3 DEF ClaimsOK, Unclaimed
<1>13. /\ log' \in [LocationIds -> Seq(Events)] /\ LastIs(l, "team_begin")'
       /\ Size(omp.region) = 1 => OneThread(l)'
       /\ \A m \in LocationIds \ {l} : log'[m] = log[m]
       /\ \A m \in LocationIds : \A i \in 1 .. Len(log'[m]) - 1 : Follows(log'[m][i], log'[m][i + 1])
  <2>1. PICK e \in Events : /\ e.event = "team_begin" /\ e.team = thread_team[l]
                            /\ log' = [log EXCEPT ![l] = @ \o <<e>>]
    <3>1. Now \in Nat
      BY <1>0, TimeIsNat
    <3>2. thread_team[l] \in Nat
      BY <1>0 DEF TypesOK
    <3> DEFINE e == [event |-> "team_begin", team |-> thread_team[l], time |-> Now]
    <3>3. e \in Events /\ e.event = "team_begin" /\ e.team = thread_team[l]
      BY <3>1, <3>2 DEF Events
    <3>4. log' = [log EXCEPT ![l] = @ \o <<e>>]
      BY <1>5 DEF Write
    <3> QED BY <3>3, <3>4
  <2>2. log[l] = << >> \/ Follows(log[l][Len(log[l])], e)
    BY <1>0, <1>12, <2>1 DEF LogOK, LastIs, Follows, InOrder
  <2>3. thread_team[l] = Size(omp.region)
    BY <1>0, <1>1, <1>3 DEF TeamOK
  <2> QED BY <1>0, <2>1, <2>2, <2>3, LogWrites DEF LogOK
<1>14. TypesOK'
  BY <1>0, <1>6, <1>7, <1>8, <1>9, <1>10, <1>11, <1>13 DEF TypesOK, RegionIds
<1>15. /\ \A u \in OmpThreads : crew'[u].index = crew[u].index /\ crew'[u].parallel = crew[u].parallel
       /\ \A u \in OmpThreads \ {t} : crew'[u] = crew[u] /\ Pc(u)' = Pc(u)
       /\ Pc(t)' \in {"work", "task_end"} /\ crew'[t].ptr # NULL
  BY <1>0, <1>11 DEF Others, Pc
<1>16. /\ \A u \in OmpThreads \ {t} : (Overdue(u)' <=> Overdue(u)) /\ (Early(u)' <=> Early(u))
       /\ ~Overdue(t) /\ ~Overdue(t)' /\ (Early(t)' => Pc(t)' = "work")
  BY <1>1, <1>15 DEF Overdue, Early, Ending
(* It is the primary thread then, and there are no others.                 *)
<1>17. ASSUME Pc(t)' = "task_end"
       PROVE  /\ t = Primary /\ l = 0 /\ crew'[t].ends = o /\ OneThread(l)'
              /\ taken[omp.region] = 0 .. Size(omp.region) - 1 /\ \A u \in OmpThreads : ~Early(u)'
  <2>1. Size(omp.region) = 1 /\ crew'[t].ends = o
    BY <1>11, <1>17
  <2>2. 0 \in taken[omp.region] /\ taken[omp.region] \subseteq 0 .. Size(omp.region) - 1
    BY <1>0, <1>2 DEF CountOK
  <2>3. 0 .. Size(omp.region) - 1 = {0}
    BY <2>1
  <2>4. taken[omp.region] = 0 .. Size(omp.region) - 1 /\ l = 0
    BY <1>2, <1>3, <2>2, <2>3
  <2>5. t = Primary
    BY <1>0, <1>1, <1>3, <2>4, FirstIndex
  <2>6. ASSUME NEW u \in OmpThreads, Early(u)' PROVE FALSE
    <3>1. u # t /\ Early(u)
      BY <1>16, <1>17, <2>6
    <3>2. crew[u].index \in taken[omp.region]
      BY <1>0, <3>1, EarlyRegion
    <3> QED BY <1>0, <1>1, <1>3, <2>2, <2>3, <2>4, <3>1, <3>2 DEF TeamOK
  <2> QED BY <1>13, <2>1, <2>4, <2>5, <2>6
<1>18. \A u \in OmpThreads : Early(u)' => Early(u)
  BY <1>1, <1>16
<1>19. /\ (\E u \in OmpThreads : Early(u)') => PrimaryPhase'
       /\ PrimaryPhase /\ ~PrimaryPhase' => taken[omp.region] = 0 .. Size(omp.region) - 1
  <2>1. CASE Pc(t)' = "task_end"
    BY <1>17, <2>1
  <2>2. CASE Pc(t)' = "work"
    <3>1. PrimaryPhase'
      BY <1>0, <1>2, <1>15, <2>2 DEF PrimaryPhase
    <3> QED BY <3>1
  <2> QED BY <1>15, <2>1, <2>2
<1>20. TeamOK'
  <2>1. \A u \in OmpThreads : Pc(u)' # "idle" => Pc(u) # "idle" /\ (Pc(u)' = "join" => u = Primary)
    <3>1. \A u \in Workers : Pc(u) # "join"
      BY <1>0 DEF TeamOK
    <3>2. \A u \in OmpThreads : u \in Workers \/ u = Primary
      BY <1>0, Setting
    <3> QED BY <1>1, <1>15, <3>1, <3>2
  <2>2. \A u \in OmpThreads : Pc(u)' \in {"overdue", "team_begin"} \/ Overdue(u)' =>
            thread_team'[crew[u].index] = Size(omp.region)
    BY <1>0, <1>6, <1>15, <1>16 DEF TeamOK
  <2>3. \A q \in ParallelObjects : parallel'[q].region = parallel[q].region
    BY <1>6
  <2> QED BY <1>0, <1>6, <1>15, <1>18, <1>19, <2>1, <2>2, <2>3, TeamKept
<1>21. CountOK'
  <2>1. omp'.finalizing => omp.finalizing /\ Pc(Primary)' = "idle"
    BY <1>0, <1>1, <1>6, <1>15 DEF CountOK
  <2> QED BY <1>0, <1>6, <1>18, <1>19, <2>1, CountUnmoved
<1>22. TasksOK'
  <2>1. ASSUME NEW u \in OmpThreads
        PROVE  /\ Pc(u)' \in HasTask => crew'[u].ptr \in TaskObjects
               /\ Pc(u)' \in HasNone => crew'[u].ptr = NULL
               /\ Pc(u)' \in Ending => crew'[u].ends \in TaskObjects /\ crew'[u].ptr \in {NULL, crew'[u].ends}
    <3>1. CASE u = t
      <4>1. Pc(t)' \notin HasNone /\ (Pc(t)' \in Ending => Pc(t)' = "task_end")
        BY <1>15 DEF HasNone, Ending
      <4> QED BY <1>11, <1>17, <3>1, <4>1
    <3>2. CASE u # t
      BY <1>0, <1>15, <3>2 DEF TasksOK, HasTask, HasNone
    <3> QED BY <3>1, <3>2
  <2>2. ASSUME NEW u \in OmpThreads, crew'[u].ptr # NULL
        PROVE  /\ task'[crew'[u].ptr].index = crew'[u].index /\ task'[crew'[u].ptr].parallel \in ParallelObjects
               /\ is_ompt_location'[crew'[u].index]
    <3>1. CASE u = t
      BY <1>3, <1>7, <1>9, <1>11, <3>1
    <3>2. CASE u # t
      <4>1. crew'[u] = crew[u] /\ crew[u].ptr \in TaskObjects \ {o} /\ crew[u].index \in LocationIds
        BY <1>0, <1>4, <1>15, <2>2, <3>2, AllPlaces
      <4> QED BY <1>0, <1>7, <1>9, <2>2, <4>1 DEF TasksOK
    <3> QED BY <3>1, <3>2
  <2>3. \A u, v \in OmpThreads : crew'[u].ptr # NULL /\ crew'[u].ptr = crew'[v].ptr => u = v
    BY <1>0, <1>4, <1>11, <1>15 DEF TasksOK
  <2>4. ASSUME NEW u \in OmpThreads, Overdue(u)'
        PROVE  \E v \in OmpThreads \ {u} :
                 /\ crew'[v].ptr = crew'[u].ends /\ crew'[v].index = crew'[u].index
                 /\ Pc(v)' \in Waiting /\ task'[crew'[u].ends].in_overdue_use
    <3>1. u # t /\ Overdue(u) /\ Pc(u) \in Ending
      BY <1>16, <2>4 DEF Overdue
    <3>2. PICK v \in OmpThreads \ {u} :
                 /\ crew[v].ptr = crew[u].ends /\ crew[v].index = crew[u].index
                 /\ Pc(v) \in Waiting /\ task[crew[u].ends].in_overdue_use
      BY <1>0, <3>1 DEF TasksOK, Waiting
    <3>3. v # t
      BY <1>1, <3>2 DEF Waiting
    <3>4. crew[u].ends \in TaskObjects \ {o}
      BY <1>0, <1>4, <3>1 DEF TasksOK
    <3> QED BY <1>7, <1>15, <3>1, <3>2, <3>3, <3>4
  <2> QED BY <2>1, <2>2, <2>3, <2>4 DEF TasksOK, HasTask, HasNone, Waiting
<1>23. FreeOK'
  <2>1. /\ \A u \in OmpThreads : Free(u)' \subseteq Free(u) \ {o}
    <3>1. Free(t)' = Range(rest)
      BY <1>8 DEF Free
    <3>2. \A u \in OmpThreads \ {t} : Free(u)' = Free(u)
      BY <1>8 DEF Free
    <3> QED BY <1>4, <3>1, <3>2
  <2>2. NewTasks' \subseteq NewTasks
    BY <1>0, <1>7 DEF NewTasks
  <2>3. \A u, v \in OmpThreads : crew'[u].ptr \notin Free(v)'
    BY <1>0, <1>11, <1>15, <2>1 DEF FreeOK
  <2>4. \A u \in OmpThreads : Free(u)' \cap NewTasks' = {}
    BY <1>0, <2>1, <2>2 DEF FreeOK
  <2>5. \A u, v \in OmpThreads : u # v => Free(u)' \cap Free(v)' = {}
    BY <1>0, <2>1 DEF FreeOK
  <2>6. \A u \in OmpThreads : IsInjective(tasks_free_list'[u])
    BY <1>0, <1>4, <1>8 DEF FreeOK
  <2> QED BY <2>3, <2>4, <2>5, <2>6 DEF FreeOK
<1>24. \A u \in OmpThreads \ {t} : /\ (Owns(u)' <=> Owns(u)) /\ (Claims(u)' <=> Claims(u))
                                   /\ Claims(u) => crew[u].index # l
  <2> SUFFICES ASSUME NEW u \in OmpThreads \ {t} PROVE (Owns(u)' <=> Owns(u)) /\ (Claims(u) => crew[u].index # l)
    BY <1>15 DEF Claims
  <2>1. Claims(u) => crew[u].index # l
    BY <1>12 DEF Unclaimed
  <2>2. CASE crew[u].index = l
    <3>1. ~Owns(u)
      BY <2>1, <2>2 DEF Claims
    <3>2. ~Owns(u)'
      BY <1>4, <1>10, <1>15, <2>2 DEF Owns
    <3> QED BY <2>1, <3>1, <3>2
  <2>3. CASE crew[u].index # l
    <3>1. crew[u].index \in LocationIds \ {l}
      BY <1>0, <2>3, AllPlaces
    <3> QED BY <1>10, <1>15, <2>1, <3>1 DEF Owns
  <2> QED BY <2>2, <2>3
<1>25. /\ ~Owns(t) /\ ~Claims(t) /\ Claims(t)' /\ (Pc(t)' = "work" => Owns(t)')
  BY <1>1, <1>3, <1>10, <1>11, <1>15 DEF Owns, Claims, Ending
<1>26. StoredOK'
  <2>1. ASSUME NEW m \in LocationIds \ {0}, stored_task'[m] # NULL
        PROVE  \E u \in OmpThreads : crew'[u].index = m /\ Owns(u)'
    <3>1. CASE m = l
      BY <1>3, <1>15, <1>17, <1>25, <3>1
    <3>2. CASE m # l
      <4>1. stored_task[m] # NULL
        BY <1>10, <2>1, <3>2
      <4>2. PICK u \in OmpThreads : crew[u].index = m /\ Owns(u)
        BY <1>0, <4>1 DEF StoredOK
      <4> QED BY <1>15, <1>24, <1>25, <4>2
    <3> QED BY <3>1, <3>2
  <2>2. \A u \in OmpThreads : Pc(u)' = "work" => Owns(u)'
    BY <1>0, <1>15, <1>24, <1>25 DEF StoredOK
  <2>3. Pc(Primary)' \in {"barrier", "exchange"} => Owns(Primary)'
    BY <1>0, <1>15, <1>24 DEF StoredOK
  <2>4. Pc(Primary)' \in {"begin", "overdue", "team_begin"} => stored_task'[0] = NULL
    <3> SUFFICES ASSUME Pc(Primary)' \in {"begin", "overdue", "team_begin"} PROVE stored_task'[0] = NULL
      OBVIOUS
    <3>1. t # Primary /\ Pc(Primary) \in {"begin", "overdue", "team_begin"}
      BY <1>0, <1>15
    <3>2. l # 0
      BY <1>0, <1>1, <1>3, <3>1, FirstIndex
    <3>3. 0 \in LocationIds \ {l}
      BY <1>0, <3>2, Setting
    <3> QED BY <1>0, <1>10, <3>1, <3>3 DEF StoredOK
  <2> QED BY <2>1, <2>2, <2>3, <2>4 DEF StoredOK
<1>27. LocksOK'
  <2>1. \A u \in OmpThreads \ {t} : (Locks(u)' <=> Locks(u)) /\ crew'[u].index = crew[u].index
    BY <1>6, <1>15 DEF Locks
  <2>2. ~Locks(t) /\ (Locks(t)' => t = Primary /\ crew'[t].index = 0)
    <3>1. Locks(t)' => Pc(t)' = "task_end"
      BY <1>15 DEF Locks, Ending
    <3> QED BY <1>1, <1>3, <1>11, <1>17, <3>1 DEF Locks, Ending
  <2>3. \A u \in OmpThreads : Locks(u)' /\ crew'[u].index # 0 => preserve_order'[crew'[u].index]
    BY <1>0, <1>6, <2>1, <2>2 DEF LocksOK
  <2>4. ASSUME NEW u \in OmpThreads, NEW v \in OmpThreads, Locks(u)', Locks(v)', crew'[u].index = crew'[v].index
        PROVE  u = v
    <3>1. ASSUME NEW w \in OmpThreads \ {t}, Locks(w), Locks(t)' PROVE crew[w].index # 0
      <4>1. Pc(w) # "idle"
        BY <3>1 DEF Locks, Ending
      <4> QED BY <1>0, <2>2, <3>1, <4>1, FirstIndex
    <3>2. CASE u = t
      BY <2>1, <2>2, <2>4, <3>1, <3>2
    <3>3. CASE v = t
      BY <2>1, <2>2, <2>4, <3>1, <3>3
    <3>4. CASE u # t /\ v # t
      BY <1>0, <2>1, <2>4, <3>4 DEF LocksOK
    <3> QED BY <3>2, <3>3, <3>4
  <2>5. ASSUME omp.mutex # NULL
        PROVE  omp.finalizing /\ crew'[omp.mutex].pc \in Ending \cup {"release"} /\ crew'[omp.mutex].ptr # NULL
    <3>1. omp.mutex \in OmpThreads \ {t}
      BY <1>0, <1>1, <2>5 DEF TypesOK, LocksOK, Ending
    <3> QED BY <1>0, <1>15, <2>5, <3>1 DEF LocksOK, Pc
  <2> QED BY <1>6, <2>3, <2>4, <2>5 DEF LocksOK, Pc
<1>28. ClaimsOK'
  <2>1. \A u, v \in OmpThreads : Claims(u)' /\ Claims(v)' /\ crew'[u].index = crew'[v].index => u = v
    BY <1>0, <1>3, <1>15, <1>24 DEF ClaimsOK
  <2>2. ASSUME NEW u \in OmpThreads, NEW v \in OmpThreads, Pc(u)' = "team_begin", Claims(v)'
        PROVE  crew'[v].index # crew'[u].index
    <3>1. u # t /\ Pc(u) = "team_begin" /\ Early(u)
      BY <1>15, <2>2 DEF Early
    <3>2. CASE v = t
      BY <1>0, <1>1, <1>15, <3>1, <3>2 DEF TeamOK
    <3>3. CASE v # t
      BY <1>0, <1>15, <1>24, <2>2, <3>1, <3>3 DEF ClaimsOK
    <3> QED BY <3>2, <3>3
  <2> QED BY <2>1, <2>2 DEF ClaimsOK
<1>29. LogOK'
  <2>1. ASSUME NEW u \in OmpThreads, Claims(u)' PROVE PlaceOfLog(u, crew[u].index)'
    <3>1. CASE u = t
      <4>1. PlaceOfLog(t, l)'
        BY <1>13, <1>15, <1>17 DEF PlaceOfLog
      <4> QED BY <1>3, <1>15, <3>1, <4>1 DEF PlaceOfLog, LastIs, OneThread, Pc
    <3>2. CASE u # t
      <4>1. PICK m \in LocationIds \ {l} : m = crew[u].index
        BY <1>0, <1>24, <2>1, <3>2, AllPlaces
      <4>2. PlaceOfLog(u, m) /\ log'[m] = log[m] /\ Pc(u)' = Pc(u)
        BY <1>0, <1>13, <1>15, <1>24, <2>1, <3>2, <4>1 DEF LogOK
      <4> QED BY <1>15, <4>1, <4>2 DEF PlaceOfLog, LastIs, OneThread, Pc
    <3> QED BY <3>1, <3>2
  <2>2. ASSUME NEW m \in LocationIds, Unclaimed(m)' PROVE log'[m] = << >> \/ LastIs(m, "team_end")'
    <3>1. m # l
      BY <1>3, <1>15, <1>25, <2>2 DEF Unclaimed
    <3>2. Unclaimed(m)
      BY <1>15, <1>24, <1>25, <2>2 DEF Unclaimed
    <3> QED BY <1>0, <1>13, <3>1, <3>2 DEF LogOK, LastIs
  <2> QED BY <1>13, <2>1, <2>2 DEF LogOK
<1> QED BY <1>14, <1>20, <1>21, <1>22, <1>23, <1>26, <1>27, <1>28, <1>29 DEF OmptIInv

-----------------------------------------------------------------------------
(* The invariant holds at the start ... *)
LEMMA OmptInitially == OmptInit => OmptIInv
<1> SUFFICES ASSUME OmptInit PROVE OmptIInv
  OBVIOUS
<1>1. Cardinality(Workers) \in Nat /\ 0 \in LocationIds
  <2>1. Cardinality(Workers) \in Nat
    BY OmptAssumption, FS_CardinalityType
  <2> QED BY <2>1 DEF LocationIds
<1>2. /\ omp \in [setup : OmptSetups, region : Nat, finalizing : BOOLEAN, mutex : OmpThreads \cup {NULL}]
      /\ omp.region = 0 /\ omp.finalizing = FALSE /\ omp.mutex = NULL /\ omp.setup \in OmptSetups
  <2> DEFINE Starts == [setup : OmptSetups, region : {0}, finalizing : {FALSE}, mutex : {NULL}]
  <2>1. omp \in Starts
    BY DEF OmptInit
  <2>2. ASSUME NEW r \in Starts
        PROVE  /\ r.region = 0 /\ r.finalizing = FALSE /\ r.mutex = NULL /\ r.setup \in OmptSetups
               /\ r \in [setup : OmptSetups, region : Nat, finalizing : BOOLEAN, mutex : OmpThreads \cup {NULL}]
    <3>1. r.region = 0 /\ r.finalizing = FALSE /\ r.mutex = NULL /\ r.setup \in OmptSetups
      OBVIOUS
    <3>2. r = [setup |-> r.setup, region |-> r.region, finalizing |-> r.finalizing, mutex |-> r.mutex]
      OBVIOUS
    <3>3. r.finalizing \in BOOLEAN
      BY <3>1, Zenon
    <3>4. r.region \in Nat /\ r.mutex \in OmpThreads \cup {NULL}
      BY <3>1
    <3> HIDE DEF Starts
    <3> QED BY <3>1, <3>2, <3>3, <3>4
  <2> HIDE DEF Starts
  <2> QED BY <2>1, <2>2
<1>3. omp.region \in 0 .. Len(omp.setup.sizes)
  <2>1. omp.setup.sizes \in Seq(1 .. Cardinality(Workers) + 1)
    BY <1>2, OmptAssumption
  <2>2. Len(omp.setup.sizes) \in Nat
    BY <2>1, LenProperties
  <2> QED BY <1>2, <2>2
<1>4. crew \in [OmpThreads -> CrewRecords] /\ \A t \in OmpThreads : crew[t] = NotInTeam
  <2>1. NotInTeam \in CrewRecords
    BY <1>1 DEF NotInTeam, CrewRecords, Places
  <2> QED BY <2>1 DEF OmptInit
<1>5. \A t \in OmpThreads : /\ Pc(t) = "idle" /\ crew[t].index = 0 /\ crew[t].ptr = NULL
                            /\ ~Early(t) /\ ~Overdue(t) /\ ~Owns(t) /\ ~Claims(t) /\ ~Locks(t)
  <2>1. \A t \in OmpThreads : Pc(t) = "idle" /\ crew[t].index = 0 /\ crew[t].ptr = NULL
    BY <1>4 DEF NotInTeam, Pc
  <2> QED BY <2>1 DEF Early, Overdue, Owns, Claims, Locks, Ending
<1>6. parallel \in [ParallelObjects -> ParallelRecords]
  BY DEF OmptInit, FreshParallel, ParallelRecords
<1>7. /\ task \in [TaskObjects -> [index : LocationIds, parallel : ParallelObjects \cup {NULL}, in_overdue_use : BOOLEAN]]
  BY <1>1 DEF OmptInit, NoTask
<1>8. /\ parallel_regions_free_list \in Seq(ParallelObjects) /\ tasks_free_list \in [OmpThreads -> Seq(TaskObjects)]
      /\ \A t \in OmpThreads : tasks_free_list[t] = << >>
  BY EmptyList DEF OmptInit
<1>9. /\ stored_task \in [LocationIds -> TaskObjects \cup {NULL, Encountering}]
      /\ \A l \in LocationIds \ {0} : stored_task[l] = NULL
  BY DEF OmptInit
<1>10. /\ log \in [LocationIds -> Seq(Events)] /\ \A l \in LocationIds : log[l] = << >>
  BY EmptyList DEF OmptInit
<1>11. TypesOK
  BY <1>2, <1>3, <1>4, <1>6, <1>7, <1>8, <1>9, <1>10 DEF TypesOK, OmptInit
<1>12. Primary \in OmpThreads /\ NULL \notin OmpThreads /\ NULL \notin TaskObjects /\ Workers = OmpThreads \ {Primary}
  BY <1>11, Setting
<1>13. TeamOK
  BY <1>5, <1>12 DEF TeamOK
<1>14. CountOK
  <2>1. \A r \in RegionIds : arrived[r] = 0
    BY DEF OmptInit
  <2>2. ~(omp.region > 0)
    BY <1>2
  <2> QED BY <1>2, <2>1, <2>2 DEF CountOK
<1>15. TasksOK
  BY <1>5 DEF TasksOK, Ending
<1>16. FreeOK
  <2>1. \A t \in OmpThreads : Free(t) = {} /\ IsInjective(tasks_free_list[t])
    BY <1>8, EmptyList DEF Free
  <2> QED BY <2>1 DEF FreeOK
<1>17. StoredOK
  BY <1>5, <1>9, <1>12 DEF StoredOK
<1>18. LocksOK
  BY <1>2, <1>5 DEF LocksOK
<1>19. ClaimsOK
  BY <1>5 DEF ClaimsOK
<1>20. LogOK
  <2>1. \A l \in LocationIds : Len(log[l]) = 0
    BY <1>10
  <2> QED BY <1>5, <1>10, <2>1 DEF LogOK
<1> QED BY <1>11, <1>13, <1>14, <1>15, <1>16, <1>17, <1>18, <1>19, <1>20 DEF OmptIInv

(* ... every step keeps it ... *)
LEMMA OmptStep == OmptIInv /\ [OmptNext]_omptVars => OmptIInv'
<1> SUFFICES ASSUME OmptIInv, [OmptNext]_omptVars PROVE OmptIInv'
  OBVIOUS
<1>1. CASE ParallelBegin
  BY <1>1, ParallelBeginKeeps
<1>2. CASE ParallelEnd
  BY <1>2, ParallelEndKeeps
<1>3. CASE FinalizeTool
  BY <1>3, FinalizeToolKeeps
<1>4. CASE OmptStop
  BY <1>4, StutterKeeps DEF OmptStop
<1>5. CASE \E t \in Workers, index \in LocationIds \ {0} : JoinTeam(t, index)
  BY <1>5, JoinTeamKeeps
<1>6. ASSUME NEW t \in OmpThreads,
             \/ ImplicitTaskBegin(t) \/ TriggerOverdue(t) \/ NothingOverdue(t) \/ TeamBegin(t)
             \/ BarrierBegin(t) \/ LockOrder(t) \/ Exchange(t) \/ FinalizeBarrierEnd(t)
             \/ BarrierEndTime(t) \/ BarrierEnd(t) \/ LeftBarrier(t)
             \/ ImplicitTaskEndTime(t) \/ ImplicitTaskEnd(t) \/ Release(t)
      PROVE  OmptIInv'
  <2>1. CASE ImplicitTaskBegin(t) \/ TriggerOverdue(t) \/ NothingOverdue(t) \/ TeamBegin(t)
    BY <2>1, ImplicitTaskBeginKeeps, TriggerOverdueKeeps, NothingOverdueKeeps, TeamBeginKeeps
  <2>2. CASE BarrierBegin(t) \/ LockOrder(t) \/ Exchange(t) \/ FinalizeBarrierEnd(t)
    BY <2>2, BarrierBeginKeeps, LockOrderKeeps, ExchangeKeeps, FinalizeBarrierEndKeeps
  <2>3. CASE BarrierEndTime(t) \/ ImplicitTaskEndTime(t) \/ BarrierEnd(t) \/ LeftBarrier(t)
    BY <2>3, BarrierEndTimeKeeps, BarrierEndKeeps, LeftBarrierKeeps
  <2>4. CASE ImplicitTaskEnd(t) \/ Release(t)
    BY <2>4, ImplicitTaskEndKeeps, ReleaseKeeps
  <2> QED BY <1>6, <2>1, <2>2, <2>3, <2>4
<1>7. CASE UNCHANGED omptVars
  BY <1>7, StutterKeeps
<1> QED BY <1>1, <1>2, <1>3, <1>4, <1>5, <1>6, <1>7 DEF OmptNext

(* ... and what it says of the logs is EndedOnce: once finished, nobody has  *)
(* a claim.                                                                  *)
LEMMA IInvEndedOnce == OmptIInv => EndedOnce
<1> SUFFICES ASSUME OmptIInv, NEW l \in LocationIds
             PROVE  /\ \A i \in 1 .. Len(log[l]) - 1 : Follows(log[l][i], log[l][i + 1])
                    /\ OmptFinished /\ log[l] # << >> => log[l][Len(log[l])].event = "team_end"
  BY DEF EndedOnce, Follows
<1>1. LogOK
  BY DEF OmptIInv
<1>2. ASSUME OmptFinished PROVE Unclaimed(l)
  BY <1>2 DEF OmptFinished, At, Unclaimed, Claims, Owns, Pc, Ending
<1>3. ASSUME OmptFinished, log[l] # << >> PROVE log[l][Len(log[l])].event = "team_end"
  BY <1>1, <1>2, <1>3 DEF LogOK, LastIs
<1> QED BY <1>1, <1>3 DEF LogOK

(* EndedOnce: whatever the number of threads, the sizes of the teams and the *)
(* order in which the OpenMP runtime dispatches its callbacks, each location *)
(* has for every team one beginning and one end, of the barrier and of the   *)
(* task, in that order: an end that the runtime reports late is written by   *)
(* the thread the location is given to next, or by the thread itself, and    *)
(* never by both.                                                            *)
THEOREM EveryTeamEndsOnce == OmptSpec => []EndedOnce
<1>1. OmptInit => OmptIInv
  BY OmptInitially
<1>2. OmptIInv /\ [OmptNext]_omptVars => OmptIInv'
  BY OmptStep
<1>3. OmptIInv => EndedOnce
  BY IInvEndedOnce
<1> QED BY <1>1, <1>2, <1>3, PTL DEF OmptSpec

-----------------------------------------------------------------------------
(* The life of the task and region objects.                                *)

(* The threads of a team that have not released its region yet, and        *)
(* whether the primary thread has still to report the beginning of its.    *)
Users(p) == {t \in OmpThreads : Pc(t) \notin {"idle", "join"} /\ crew[t].parallel = p}
Beginning(p) == Pc(Primary) = "begin" /\ crew[Primary].parallel = p
(* The references of the indices that are not taken yet, and of            *)
(* parallel_end.                                                           *)
OwedByPrimary(p) ==
  IF crew[Primary].parallel = p THEN Size(omp.region) - Cardinality(taken[omp.region]) + 1 ELSE 0

(* The reference count of a region is the number of those that have still  *)
(* to release it; it is in the pool when there are none.                   *)
ReferencesOK(p) ==
  /\ parallel[p].region = 0 => crew[Primary].parallel # p /\ Users(p) = {}
  /\ Beginning(p) => /\ parallel[p].ref_count = -1 /\ Cardinality(Users(p)) = Cardinality(taken[omp.region])
                     /\ \A t \in Users(p) : Early(t) \/ Pc(t) = "barrier"
  /\ parallel[p].region # 0 /\ ~Beginning(p) =>
       parallel[p].ref_count = Cardinality(Users(p)) + OwedByPrimary(p)
  /\ p \in Range(parallel_regions_free_list) <=> parallel[p].region # 0 /\ parallel[p].ref_count = 0

(* What a thread uses besides: the region of its task is its own; the task *)
(* it ends is its own or that of a thread that waits for the end.          *)
UsesTask(t) ==
  /\ Pc(t) = "idle" => crew[t].parallel = NULL
  /\ crew[t].ptr # NULL => task[crew[t].ptr].parallel = crew[t].parallel
  /\ crew[t].ends \in {NULL, crew[t].ptr} \/ Overdue(t)
(* A task that was used is a thread's or in a pool.                        *)
Placed(o) == task[o].parallel # NULL => \E t \in OmpThreads : crew[t].ptr = o \/ o \in Free(t)
(* What is stored at the location of the primary thread.                   *)
StoredAtFirst ==
  Pc(Primary) # "join" => stored_task[0] \in {NULL, Encountering, crew[Primary].ptr}

ObjectsOK ==
  /\ IsInjective(parallel_regions_free_list)
  /\ \A p \in ParallelObjects : ReferencesOK(p)
  /\ \A t \in OmpThreads : UsesTask(t)
  /\ \A o \in TaskObjects : Placed(o)
  /\ StoredAtFirst

-----------------------------------------------------------------------------
LEMMA UsersFinite ==
  ASSUME TypesOK, NEW p
  PROVE  Users(p) \subseteq OmpThreads /\ IsFiniteSet(Users(p)) /\ Cardinality(Users(p)) \in Nat
<1>1. Users(p) \subseteq OmpThreads /\ IsFiniteSet(OmpThreads)
  BY Setting DEF Users
<1> QED BY <1>1, FS_Subset, FS_CardinalityType

(* A step after which a region has the same users, references and place.   *)
LEMMA ReferencesKept ==
  ASSUME NEW p, ReferencesOK(p), SameRegion,
         parallel'[p].region = parallel[p].region, parallel'[p].ref_count = parallel[p].ref_count,
         p \in Range(parallel_regions_free_list)' <=> p \in Range(parallel_regions_free_list),
         crew[Primary].parallel = p \/ crew'[Primary].parallel = p =>
           crew'[Primary].parallel = crew[Primary].parallel /\ taken'[omp.region] = taken[omp.region],
         Users(p)' = Users(p), Beginning(p)' <=> Beginning(p),
         Beginning(p) => \A t \in Users(p) : Early(t) \/ Pc(t) = "barrier" => Early(t)' \/ Pc(t)' = "barrier"
  PROVE  ReferencesOK(p)'
<1>1. Beginning(p) => crew[Primary].parallel = p
  BY DEF Beginning
<1>2. Size(omp.region)' = Size(omp.region) /\ omp'.region = omp.region
  BY DEF SameRegion, Size
<1>3. OwedByPrimary(p)' = OwedByPrimary(p)
  BY <1>2 DEF OwedByPrimary
<1> QED BY <1>1, <1>2, <1>3 DEF ReferencesOK

(* What a step of a thread in the team must show.                          *)
LEMMA MemberStep ==
  ASSUME TypesOK, TasksOK, ObjectsOK, NEW t \in OmpThreads, Others(t), SameRegion,
         crew'[t].parallel = crew[t].parallel,
         Pc(t) \notin {"idle", "join"}, Pc(t)' \notin {"idle", "join"},
         t = Primary => (Pc(t)' = "begin" <=> Pc(t) = "begin"),
         UNCHANGED <<taken, parallel_regions_free_list>>,
         \A p \in ParallelObjects : /\ parallel'[p].region = parallel[p].region
                                    /\ parallel'[p].ref_count = parallel[p].ref_count,
         Beginning(crew[t].parallel) /\ (Early(t) \/ Pc(t) = "barrier") => Early(t)' \/ Pc(t)' = "barrier",
         UsesTask(t)', \A o \in TaskObjects : Placed(o)', StoredAtFirst',
         \A u \in OmpThreads \ {t} : crew[u].ptr # NULL =>
           task'[crew[u].ptr].parallel = task[crew[u].ptr].parallel
  PROVE  ObjectsOK'
<1>1. \A u \in OmpThreads \ {t} : crew'[u] = crew[u] /\ (Pc(u)' = Pc(u)) /\ (Early(u)' <=> Early(u)) /\ (Overdue(u)' <=> Overdue(u))
  BY DEF Others, Pc, Early, Overdue
<1>2. ASSUME NEW p \in ParallelObjects PROVE ReferencesOK(p)'
  <2>1. Users(p)' = Users(p)
    <3>1. \A u \in OmpThreads : (Pc(u)' \notin {"idle", "join"} /\ crew'[u].parallel = p) <=> (Pc(u) \notin {"idle", "join"} /\ crew[u].parallel = p)
      BY <1>1
    <3> QED BY <3>1 DEF Users
  <2>2. Primary \in OmpThreads /\ crew'[Primary].parallel = crew[Primary].parallel /\ (Pc(Primary)' = "begin" <=> Pc(Primary) = "begin")
    BY <1>1, Setting
  <2>3. Beginning(p)' <=> Beginning(p)
    BY <2>2 DEF Beginning
  <2>4. ASSUME Beginning(p), NEW u \in Users(p), Early(u) \/ Pc(u) = "barrier" PROVE Early(u)' \/ Pc(u)' = "barrier"
    <3>1. u \in OmpThreads /\ crew[u].parallel = p
      BY DEF Users
    <3> QED BY <1>1, <2>4, <3>1
  <2>5. ReferencesOK(p)
    BY DEF ObjectsOK
  <2> QED BY <2>1, <2>2, <2>3, <2>4, <2>5, ReferencesKept
<1>3. ASSUME NEW u \in OmpThreads PROVE UsesTask(u)'
  <2>1. CASE u = t
    BY <2>1
  <2>2. CASE u # t
    <3>1. UsesTask(u)
      BY DEF ObjectsOK
    <3> QED BY <1>1, <2>2, <3>1 DEF UsesTask
  <2> QED BY <2>1, <2>2
<1> QED BY <1>2, <1>3 DEF ObjectsOK

(* Nobody leaves the barrier of a region that its primary thread has not   *)
(* begun.                                                                  *)
LEMMA NobodyLeaves ==
  ASSUME OmptIInv, NEW t \in OmpThreads, MayLeaveBarrier(t)
  PROVE  ~Beginning(crew[t].parallel)
<1> SUFFICES ASSUME Beginning(crew[t].parallel) PROVE FALSE
  OBVIOUS
<1>1. TypesOK /\ TeamOK /\ CountOK /\ Primary \in OmpThreads
  BY Setting DEF OmptIInv
<1>2. omp.region > 0 /\ Region(t) = omp.region /\ Early(Primary)
  BY <1>1 DEF Beginning, TeamOK, Region, Early
<1>3. arrived[omp.region] = Size(omp.region)
  BY <1>2 DEF MayLeaveBarrier
<1> QED BY <1>1, <1>2, <1>3, AllArrived DEF EarlyThreads

(* A thread that only goes on.                                             *)
LEMMA MoverKeepsObjects ==
  ASSUME TypesOK, TasksOK, ObjectsOK, NEW t \in OmpThreads, Others(t), Keeps(t),
         UNCHANGED <<omp, taken, task, poolVarsOmpt, stored_task>>,
         \A p \in ParallelObjects : /\ parallel'[p].region = parallel[p].region
                                    /\ parallel'[p].ref_count = parallel[p].ref_count,
         Pc(t) \notin {"idle", "join"}, Pc(t)' \notin {"idle", "join"},
         t = Primary => (Pc(t)' = "begin" <=> Pc(t) = "begin"),
         Overdue(t) => Pc(t)' \in Ending,
         Beginning(crew[t].parallel) /\ (Early(t) \/ Pc(t) = "barrier") => Early(t)' \/ Pc(t)' = "barrier"
  PROVE  ObjectsOK'
<1>1. SameRegion /\ UNCHANGED <<parallel_regions_free_list, tasks_free_list>>
  BY DEF SameRegion, poolVarsOmpt
<1>2. \A u \in OmpThreads : crew'[u].ptr = crew[u].ptr
  BY DEF Others, Keeps
<1>3. UsesTask(t)'
  <2>1. UsesTask(t)
    BY DEF ObjectsOK
  <2>2. Overdue(t) => Overdue(t)'
    BY DEF Overdue, Keeps
  <2> QED BY <2>1, <2>2 DEF UsesTask, Keeps
<1>4. \A o \in TaskObjects : Placed(o)'
  BY <1>1, <1>2 DEF ObjectsOK, Placed, Free
<1>5. StoredAtFirst'
  <2>1. Primary \in OmpThreads
    BY Setting
  <2>2. Pc(Primary)' # "join" => Pc(Primary) # "join"
    BY <2>1 DEF Others, Pc
  <2> QED BY <1>2, <2>1, <2>2 DEF ObjectsOK, StoredAtFirst
<1>6. crew'[t].parallel = crew[t].parallel
  BY DEF Keeps
<1> QED BY <1>1, <1>3, <1>4, <1>5, <1>6, MemberStep

LEMMA NothingOverdueObjects ==
  ASSUME OmptIInv, ObjectsOK, NEW t \in OmpThreads, NothingOverdue(t) PROVE ObjectsOK'
<1>0. TypesOK /\ TasksOK
  BY DEF OmptIInv
<1>1. /\ Pc(t) = "overdue" /\ crew' = [crew EXCEPT ![t].pc = "team_begin"]
      /\ UNCHANGED <<runtimeVars, parallel, task, poolVarsOmpt, locationData, thread_team, stamps, log>>
  BY DEF NothingOverdue, At, Goto, Pc
<1>2. Others(t) /\ Keeps(t) /\ Pc(t)' = "team_begin"
  BY <1>0, <1>1, GoesOnTyped DEF Places, Ending
<1>3. UNCHANGED <<omp, taken, task, poolVarsOmpt, stored_task, parallel>>
  BY <1>1 DEF runtimeVars, locationData
<1> QED BY <1>0, <1>1, <1>2, <1>3, MoverKeepsObjects DEF Early, Overdue, Ending

LEMMA BarrierBeginObjects ==
  ASSUME OmptIInv, ObjectsOK, NEW t \in OmpThreads, BarrierBegin(t) PROVE ObjectsOK'
<1>0. TypesOK /\ TasksOK
  BY DEF OmptIInv
<1>1. /\ Pc(t) = "work" /\ crew' = [crew EXCEPT ![t].pc = "barrier"]
      /\ UNCHANGED <<omp, taken, parallel, task, poolVarsOmpt, locationData, thread_team, stamps>>
  BY DEF BarrierBegin, At, Goto, Pc
<1>2. Others(t) /\ Keeps(t) /\ Pc(t)' = "barrier"
  BY <1>0, <1>1, GoesOnTyped DEF Places, Ending
<1>3. UNCHANGED <<omp, taken, task, poolVarsOmpt, stored_task, parallel>>
  BY <1>1 DEF locationData
<1> QED BY <1>0, <1>1, <1>2, <1>3, MoverKeepsObjects DEF Early, Overdue, Ending

LEMMA LockOrderObjects ==
  ASSUME OmptIInv, ObjectsOK, NEW t \in OmpThreads, LockOrder(t) PROVE ObjectsOK'
<1>0. TypesOK /\ TasksOK
  BY DEF OmptIInv
<1>1. /\ Pc(t) = "barrier" /\ crew' = [crew EXCEPT ![t].pc = "exchange"]
      /\ UNCHANGED <<runtimeVars, parallel, task, poolVarsOmpt, stored_task>>
  BY DEF LockOrder, MayLeaveBarrier, At, Goto, Pc
<1>2. Others(t) /\ Keeps(t) /\ Pc(t)' = "exchange"
  BY <1>0, <1>1, GoesOnTyped DEF Places, Ending
<1>3. UNCHANGED <<omp, taken, task, poolVarsOmpt, stored_task, parallel>>
  BY <1>1 DEF runtimeVars
<1>4. ~Beginning(crew[t].parallel)
  BY NobodyLeaves DEF LockOrder
<1> QED BY <1>0, <1>1, <1>2, <1>3, <1>4, MoverKeepsObjects DEF Overdue, Ending

LEMMA LeftBarrierObjects ==
  ASSUME OmptIInv, ObjectsOK, NEW t \in OmpThreads, LeftBarrier(t) PROVE ObjectsOK'
<1>0. TypesOK /\ TasksOK
  BY DEF OmptIInv
<1>1. /\ Pc(t) = "left" /\ crew' = [crew EXCEPT ![t].pc = "task_end"]
      /\ UNCHANGED <<runtimeVars, parallel, task, poolVarsOmpt, locationData, thread_team, stamps, log>>
  BY DEF LeftBarrier, At, Goto, Pc
<1>2. Others(t) /\ Keeps(t) /\ Pc(t)' = "task_end"
  BY <1>0, <1>1, GoesOnTyped DEF Places, Ending
<1>3. UNCHANGED <<omp, taken, task, poolVarsOmpt, stored_task, parallel>>
  BY <1>1 DEF runtimeVars, locationData
<1> QED BY <1>0, <1>1, <1>2, <1>3, MoverKeepsObjects DEF Early, Overdue, Ending, Keeps

LEMMA EndTimeObjects ==
  ASSUME OmptIInv, ObjectsOK, NEW t \in OmpThreads, BarrierEndTime(t) \/ ImplicitTaskEndTime(t) PROVE ObjectsOK'
<1>0. TypesOK /\ TasksOK
  BY DEF OmptIInv
<1>1. PICK stored \in Nat, next \in Ending : TakeTime(t, stored, next) /\ Pc(t) \in Ending
  <2>1. Pc(t) \in Ending
    BY DEF BarrierEndTime, ImplicitTaskEndTime, At, Pc, Ending
  <2>2. parallel[EndsParallel(t)].ibarrier_end \in Nat /\ parallel[EndsParallel(t)].itask_end \in Nat
    BY <1>0, <2>1, EndsFacts DEF TypesOK, ParallelRecords
  <2> QED BY <2>1, <2>2 DEF BarrierEndTime, ImplicitTaskEndTime, Ending
<1>2. /\ Others(t) /\ Keeps(t) /\ Pc(t)' = next
      /\ UNCHANGED <<runtimeVars, parallel, task, poolVarsOmpt, locationData>>
  BY <1>0, <1>1, TimeTaken DEF Others, Keeps, Pc, Places
<1>3. UNCHANGED <<omp, taken, task, poolVarsOmpt, stored_task, parallel>>
  BY <1>2 DEF runtimeVars, locationData
<1> QED BY <1>0, <1>1, <1>2, <1>3, MoverKeepsObjects DEF Early, Overdue, Ending, Keeps

LEMMA BarrierEndObjects ==
  ASSUME OmptIInv, ObjectsOK, NEW t \in OmpThreads, BarrierEnd(t) PROVE ObjectsOK'
<1>0. TypesOK /\ TasksOK
  BY DEF OmptIInv
<1>1. Pc(t) = "write ibarrier_end" /\ Pc(t) \in Ending
  BY DEF BarrierEnd, At, Pc, Ending
<1>2. PICK pc \in {"left", "task_end"} : crew' = [crew EXCEPT ![t].pc = pc]
  BY DEF BarrierEnd, Goto
<1>3. Others(t) /\ Keeps(t) /\ Pc(t)' = pc
  BY <1>0, <1>2, GoesOnTyped DEF Places, Ending
<1>4. UNCHANGED <<omp, taken, task, poolVarsOmpt, stored_task>>
  BY DEF BarrierEnd, runtimeVars, locationData
<1>5. \A p \in ParallelObjects : parallel'[p].region = parallel[p].region /\ parallel'[p].ref_count = parallel[p].ref_count
  <2>1. parallel' = parallel \/ parallel' = [parallel EXCEPT ![EndsParallel(t)].ibarrier_end = crew[t].time]
    BY DEF BarrierEnd
  <2>2. parallel \in [ParallelObjects -> ParallelRecords]
    BY <1>0 DEF TypesOK
  <2> QED BY <2>1, <2>2 DEF ParallelRecords
<1> QED BY <1>0, <1>1, <1>2, <1>3, <1>4, <1>5, MoverKeepsObjects DEF Early, Overdue, Ending, Keeps

(* The primary thread sets the reference count: a reference for each index *)
(* of the team, and one for parallel_end.                                  *)
LEMMA ImplicitTaskBeginObjects ==
  ASSUME OmptIInv, ObjectsOK, NEW t \in OmpThreads, ImplicitTaskBegin(t) PROVE ObjectsOK'
<1>0. TypesOK /\ TeamOK /\ CountOK /\ TasksOK /\ Primary \in OmpThreads
  BY Setting DEF OmptIInv
<1>1. /\ Pc(t) = "begin" /\ crew' = [crew EXCEPT ![t].pc = "overdue"]
      /\ UNCHANGED <<runtimeVars, task, poolVarsOmpt, locationData, stamps, log>>
  BY DEF ImplicitTaskBegin, At, Goto, Pc
<1>2. Others(t) /\ Keeps(t) /\ Pc(t)' = "overdue"
  BY <1>0, <1>1, GoesOnTyped DEF Places, Ending
<1>3. UNCHANGED <<omp, taken, task, poolVarsOmpt, stored_task>>
  BY <1>1 DEF runtimeVars, locationData
<1>4. crew[t].index = 0 <=> t = Primary
  BY <1>0, <1>1, Setting DEF TeamOK
<1>5. CASE t # Primary
  <2>1. parallel' = parallel
    BY <1>4, <1>5 DEF ImplicitTaskBegin
  <2> QED BY <1>0, <1>1, <1>2, <1>3, <1>5, <2>1, MoverKeepsObjects DEF Early, Overdue, Ending
<1>6. CASE t = Primary
  <2>1. PICK p \in ParallelObjects : /\ p = crew[Primary].parallel /\ parallel[p].region = omp.region /\ omp.region > 0
                                     /\ Region(t) = omp.region
    BY <1>0, <1>1, <1>6 DEF TeamOK, Region
  <2>2. /\ parallel' = [parallel EXCEPT ![p].ref_count = Size(omp.region) + 1]
        /\ Size(omp.region) \in Nat /\ Cardinality(taken[omp.region]) \in Nat
    BY <1>0, <1>4, <1>6, <2>1, RegionFacts DEF ImplicitTaskBegin
  <2>3. /\ parallel'[p].ref_count = Size(omp.region) + 1
        /\ \A q \in ParallelObjects : parallel'[q].region = parallel[q].region
        /\ \A q \in ParallelObjects \ {p} : parallel'[q].ref_count = parallel[q].ref_count
    BY <1>0, <2>2 DEF TypesOK, ParallelRecords
  <2>4. SameRegion /\ parallel_regions_free_list' = parallel_regions_free_list /\ tasks_free_list' = tasks_free_list
    BY <1>3 DEF SameRegion, poolVarsOmpt
  <2>5. \A u \in OmpThreads : /\ crew'[u].parallel = crew[u].parallel /\ crew'[u].ptr = crew[u].ptr /\ crew'[u].ends = crew[u].ends
                              /\ Pc(u)' \in {"idle", "join"} <=> Pc(u) \in {"idle", "join"}
                              /\ Pc(u)' = "idle" <=> Pc(u) = "idle"
                              /\ Overdue(u) => Overdue(u)'
    <3>1. ASSUME NEW u \in OmpThreads, u # t PROVE crew'[u] = crew[u]
      BY <1>2, <3>1 DEF Others
    <3>2. ~Overdue(t)
      BY <1>1 DEF Overdue, Ending
    <3>3. /\ crew'[t].parallel = crew[t].parallel /\ crew'[t].ptr = crew[t].ptr /\ crew'[t].ends = crew[t].ends
          /\ Pc(t)' \notin {"idle", "join"} /\ Pc(t) \notin {"idle", "join"}
      BY <1>1, <1>2 DEF Keeps
    <3> QED BY <3>1, <3>2, <3>3 DEF Pc, Overdue
  <2>6. \A q : Users(q)' = Users(q)
    BY <2>5 DEF Users
  <2>7. Beginning(p) /\ ~Beginning(p)' /\ \A q : q # p => ~Beginning(q) /\ ~Beginning(q)'
    BY <1>1, <1>2, <1>6, <2>1 DEF Beginning, Keeps
  <2>8. ReferencesOK(p) /\ Cardinality(Users(p)) \in Nat
    BY <1>0, UsersFinite DEF ObjectsOK
  <2>9. ReferencesOK(p)'
    <3>1. parallel[p].ref_count = -1 /\ Cardinality(Users(p)) = Cardinality(taken[omp.region])
      BY <2>7, <2>8 DEF ReferencesOK
    <3>2. OwedByPrimary(p)' = Size(omp.region) - Cardinality(taken[omp.region]) + 1
      BY <1>0, <1>3, <2>1, <2>5 DEF OwedByPrimary, Size
    <3>3. parallel'[p].ref_count = Cardinality(Users(p)) + OwedByPrimary(p)'
      BY <2>2, <2>3, <2>8, <3>1, <3>2
    <3>4. p \notin Range(parallel_regions_free_list) /\ parallel'[p].ref_count # 0 /\ parallel[p].region # 0
      <4>1. Size(omp.region) + 1 # 0
        BY <2>2
      <4>2. omp.region # 0
        BY <1>0, <2>1 DEF TypesOK
      <4> QED BY <2>1, <2>3, <2>8, <3>1, <4>1, <4>2 DEF ReferencesOK
    <3> QED BY <2>3, <2>4, <2>6, <2>7, <3>3, <3>4 DEF ReferencesOK
  <2>10. ASSUME NEW q \in ParallelObjects, q # p PROVE ReferencesOK(q)'
    <3>1. ReferencesOK(q)
      BY DEF ObjectsOK
    <3>2. crew[Primary].parallel # q /\ crew'[Primary].parallel # q
      BY <1>0, <2>1, <2>5, <2>10
    <3> QED BY <2>3, <2>4, <2>6, <2>7, <2>10, <3>1, <3>2, ReferencesKept
  <2>11. \A u \in OmpThreads : UsesTask(u)'
    BY <1>3, <2>5 DEF ObjectsOK, UsesTask
  <2>12. \A o \in TaskObjects : Placed(o)'
    BY <1>3, <2>4, <2>5 DEF ObjectsOK, Placed, Free
  <2>13. StoredAtFirst'
    BY <1>0, <1>1, <1>3, <1>6, <2>5 DEF ObjectsOK, StoredAtFirst
  <2> QED BY <2>4, <2>9, <2>10, <2>11, <2>12, <2>13 DEF ObjectsOK
<1> QED BY <1>5, <1>6

(* A step of a thread in the team that keeps its task and all regions.     *)
LEMMA SameTaskObjects ==
  ASSUME TypesOK, TasksOK, ObjectsOK, NEW t \in OmpThreads, Others(t), SameRegion,
         crew'[t].parallel = crew[t].parallel, crew'[t].ptr = crew[t].ptr,
         Pc(t) \notin {"idle", "join", "begin"}, Pc(t)' \notin {"idle", "join", "begin"},
         UNCHANGED <<taken, parallel_regions_free_list, tasks_free_list>>,
         \A p \in ParallelObjects : /\ parallel'[p].region = parallel[p].region
                                    /\ parallel'[p].ref_count = parallel[p].ref_count,
         \A o \in TaskObjects : task'[o].parallel = task[o].parallel,
         Beginning(crew[t].parallel) /\ (Early(t) \/ Pc(t) = "barrier") => Early(t)' \/ Pc(t)' = "barrier",
         crew'[t].ends \in {NULL, crew[t].ptr} \/ Overdue(t)',
         stored_task'[0] \in {NULL, stored_task[0]}
  PROVE  ObjectsOK'
<1>1. /\ \A u \in OmpThreads : crew'[u].ptr = crew[u].ptr
      /\ \A u \in OmpThreads : crew[u].ptr # NULL => task'[crew[u].ptr].parallel = task[crew[u].ptr].parallel
  <2>1. \A u \in OmpThreads : crew[u].ptr # NULL => crew[u].ptr \in TaskObjects
    BY AllPlaces
  <2> QED BY <2>1 DEF Others
<1>2. UsesTask(t)'
  <2>1. UsesTask(t)
    BY DEF ObjectsOK
  <2> QED BY <1>1, <2>1 DEF UsesTask
<1>3. \A o \in TaskObjects : Placed(o)'
  BY <1>1 DEF ObjectsOK, Placed, Free
<1>4. StoredAtFirst'
  <2>1. Primary \in OmpThreads
    BY Setting
  <2>2. Pc(Primary)' # "join" => Pc(Primary) # "join"
    BY <2>1 DEF Others, Pc
  <2> QED BY <1>1, <2>1, <2>2 DEF ObjectsOK, StoredAtFirst
<1> QED BY <1>1, <1>2, <1>3, <1>4, MemberStep

LEMMA ExchangeObjects ==
  ASSUME OmptIInv, ObjectsOK, NEW t \in OmpThreads, Exchange(t) PROVE ObjectsOK'
<1>0. TypesOK /\ TasksOK /\ 0 \in LocationIds
  BY Setting DEF OmptIInv
<1>1. /\ Pc(t) = "exchange" /\ ~Early(t)
      /\ UNCHANGED <<runtimeVars, parallel, task, poolVarsOmpt>>
  BY DEF Exchange, At, Pc, Early, Overdue, Ending
<1>2. UNCHANGED <<omp, taken, parallel, task, tasks_free_list, parallel_regions_free_list>> /\ SameRegion
  BY <1>1 DEF runtimeVars, poolVarsOmpt, SameRegion
<1>3. crew[t].ends \in {NULL, crew[t].ptr} /\ crew[t].ptr \in TaskObjects
  BY <1>0, <1>1 DEF ObjectsOK, UsesTask, Overdue, Ending, TasksOK
<1>4. CASE StillStored(t)
  <2>1. /\ stored_task' = [stored_task EXCEPT ![crew[t].index] = NULL]
        /\ crew' = [crew EXCEPT ![t].pc = "ibarrier_end", ![t].ends = crew[t].ptr]
    BY <1>4 DEF Exchange
  <2>2. PICK o \in TaskObjects \cup {NULL} : o = crew[t].ptr
    BY <1>3
  <2>3. TakesUp(t, "ibarrier_end", o) /\ "ibarrier_end" \in Places
    BY <2>1, <2>2 DEF TakesUp, Places, Ending
  <2>4. /\ Others(t) /\ Pc(t)' = "ibarrier_end" /\ crew'[t].ends = crew[t].ptr /\ crew'[t].ptr = crew[t].ptr
        /\ crew'[t].parallel = crew[t].parallel
    BY <1>0, <2>2, <2>3, TakesTyped
  <2>5. stored_task'[0] \in {NULL, stored_task[0]}
    BY <1>0, <2>1 DEF TypesOK
  <2> QED BY <1>0, <1>1, <1>2, <2>4, <2>5, SameTaskObjects
<1>5. CASE ~StillStored(t)
  <2>1. UNCHANGED stored_task /\ crew' = [crew EXCEPT ![t].pc = "release"]
    BY <1>5 DEF Exchange, Goto
  <2>2. Others(t) /\ Keeps(t) /\ Pc(t)' = "release"
    BY <1>0, <2>1, GoesOnTyped DEF Places
  <2> QED BY <1>0, <1>1, <1>2, <1>3, <2>1, <2>2, SameTaskObjects DEF Keeps
<1> QED BY <1>4, <1>5

LEMMA FinalizeBarrierEndObjects ==
  ASSUME OmptIInv, ObjectsOK, NEW t \in OmpThreads, FinalizeBarrierEnd(t) PROVE ObjectsOK'
<1>0. TypesOK /\ TasksOK /\ 0 \in LocationIds
  BY Setting DEF OmptIInv
<1>1. /\ Pc(t) = "barrier" /\ omp' = [omp EXCEPT !.mutex = t]
      /\ UNCHANGED <<taken, arrived, parallel, task, poolVarsOmpt>>
  BY DEF FinalizeBarrierEnd, MayLeaveBarrier, At, Pc
<1>2. UNCHANGED <<taken, parallel, task, tasks_free_list, parallel_regions_free_list>> /\ SameRegion
  BY <1>0, <1>1 DEF TypesOK, poolVarsOmpt, SameRegion
<1>3. crew[t].ptr \in TaskObjects
  BY <1>0, <1>1 DEF TasksOK
<1>4. PICK pc \in {"ibarrier_end", "release"} : crew' = [crew EXCEPT ![t].pc = pc, ![t].ends = crew[t].ptr]
  BY DEF FinalizeBarrierEnd
<1>5. /\ Others(t) /\ Pc(t)' = pc /\ crew'[t].ends = crew[t].ptr /\ crew'[t].ptr = crew[t].ptr
      /\ crew'[t].parallel = crew[t].parallel
  <2>1. PICK o \in TaskObjects \cup {NULL} : o = crew[t].ptr
    BY <1>3
  <2>2. TakesUp(t, pc, o) /\ pc \in Places
    BY <1>4, <2>1 DEF TakesUp, Places, Ending
  <2> QED BY <1>0, <2>1, <2>2, TakesTyped
<1>6. stored_task'[0] \in {NULL, stored_task[0]}
  <2>1. stored_task' = [stored_task EXCEPT ![crew[t].index] = IF StillStored(t) THEN NULL ELSE @]
    BY DEF FinalizeBarrierEnd
  <2> QED BY <1>0, <2>1 DEF TypesOK
<1>7. ~Beginning(crew[t].parallel)
  BY NobodyLeaves DEF FinalizeBarrierEnd
<1> QED BY <1>0, <1>1, <1>2, <1>5, <1>6, <1>7, SameTaskObjects

(* A thread takes the task of another out, and marks it.                   *)
LEMMA TriggerOverdueObjects ==
  ASSUME OmptIInv, ObjectsOK, NEW t \in OmpThreads, TriggerOverdue(t) PROVE ObjectsOK'
<1>0. TypesOK /\ TeamOK /\ TasksOK /\ StoredOK /\ Primary \in OmpThreads /\ 0 \in LocationIds
  BY Setting DEF OmptIInv
<1>1. PICK l \in LocationIds, o \in TaskObjects \cup {NULL, Encountering} : l = crew[t].index /\ o = stored_task[l]
  BY <1>0, Member DEF TypesOK
<1>2. /\ Pc(t) = "overdue" /\ o # NULL
      /\ task' = [task EXCEPT ![o].in_overdue_use = TRUE]
      /\ crew' = [crew EXCEPT ![t].pc = "ibarrier_end", ![t].ends = o]
      /\ stored_task' = [stored_task EXCEPT ![l] = NULL]
      /\ UNCHANGED <<runtimeVars, parallel, poolVarsOmpt>>
  BY <1>1 DEF TriggerOverdue, At, Pc
<1>3. UNCHANGED <<taken, parallel, tasks_free_list, parallel_regions_free_list>> /\ SameRegion
  BY <1>2 DEF runtimeVars, poolVarsOmpt, SameRegion
<1>4. t # Primary /\ l # 0
  <2>1. t # Primary
    BY <1>0, <1>1, <1>2 DEF StoredOK, TeamOK
  <2> QED BY <1>0, <1>1, <1>2, <2>1, FirstIndex
<1>5. o \in TaskObjects
  <2>1. PICK u \in OmpThreads : crew[u].index = l /\ Owns(u)
    BY <1>0, <1>1, <1>2, <1>4 DEF StoredOK
  <2> QED BY <1>0, <1>1, <2>1 DEF Owns, TasksOK
<1>6. /\ Others(t) /\ Pc(t)' = "ibarrier_end" /\ crew'[t].ends = o /\ crew'[t].ptr = crew[t].ptr
      /\ crew'[t].parallel = crew[t].parallel /\ crew[t].ptr = NULL
  <2>1. TakesUp(t, "ibarrier_end", o) /\ "ibarrier_end" \in Places
    BY <1>2 DEF TakesUp, Places, Ending
  <2>2. o \in TaskObjects \cup {NULL}
    BY <1>5
  <2>3. /\ Others(t) /\ Pc(t)' = "ibarrier_end" /\ crew'[t].ends = o /\ crew'[t].ptr = crew[t].ptr
        /\ crew'[t].parallel = crew[t].parallel
    BY <1>0, <2>1, <2>2, TakesTyped
  <2>4. crew[t].ptr = NULL
    BY <1>0, <1>2 DEF TasksOK
  <2> QED BY <2>3, <2>4
<1>7. \A q \in TaskObjects : task'[q].parallel = task[q].parallel
  BY <1>0, <1>2, <1>5, TaskUse
<1>8. Overdue(t)' /\ Early(t)'
  BY <1>6 DEF Overdue, Early, Ending
<1>9. stored_task'[0] = stored_task[0]
  BY <1>0, <1>2, <1>4 DEF TypesOK
<1> QED BY <1>0, <1>2, <1>3, <1>6, <1>7, <1>8, <1>9, SameTaskObjects

(* The end of a task.                                                      *)
LEMMA ImplicitTaskEndObjects ==
  ASSUME OmptIInv, ObjectsOK, NEW t \in OmpThreads, ImplicitTaskEnd(t) PROVE ObjectsOK'
<1>0. TypesOK /\ TasksOK /\ NULL \notin TaskObjects
  BY Setting DEF OmptIInv
<1>1. Pc(t) = "write task_end" /\ Pc(t) \in Ending
  BY DEF ImplicitTaskEnd, At, Pc, Ending
<1>2. crew[t].ends \in TaskObjects /\ EndsParallel(t) \in ParallelObjects
  BY <1>0, <1>1, EndsFacts
<1>3. UNCHANGED <<omp, taken, tasks_free_list, parallel_regions_free_list, stored_task>> /\ SameRegion
  BY DEF ImplicitTaskEnd, runtimeVars, poolVarsOmpt, SameRegion
<1>4. \A p \in ParallelObjects : parallel'[p].region = parallel[p].region /\ parallel'[p].ref_count = parallel[p].ref_count
  <2>1. parallel' = parallel \/ parallel' = [parallel EXCEPT ![EndsParallel(t)].itask_end = crew[t].time]
    BY DEF ImplicitTaskEnd
  <2>2. parallel \in [ParallelObjects -> ParallelRecords]
    BY <1>0 DEF TypesOK
  <2> QED BY <2>1, <2>2 DEF ParallelRecords
<1>5. CASE EndsOwn(t)
  <2>1. UNCHANGED task /\ crew' = [crew EXCEPT ![t].pc = "release"] /\ crew[t].ends = crew[t].ptr
    BY <1>5 DEF ImplicitTaskEnd, Goto, EndsOwn
  <2>2. Others(t) /\ Keeps(t) /\ Pc(t)' = "release"
    BY <1>0, <2>1, GoesOnTyped DEF Places
  <2>3. ~Early(t)
    BY <1>0, <1>1, <1>2, <2>1 DEF Early, Overdue
  <2> QED BY <1>0, <1>1, <1>3, <1>4, <2>1, <2>2, <2>3, SameTaskObjects DEF Keeps
<1>6. CASE ~EndsOwn(t)
  <2>1. /\ task' = [task EXCEPT ![crew[t].ends].in_overdue_use = FALSE]
        /\ crew' = [crew EXCEPT ![t].pc = "team_begin", ![t].ends = NULL]
    BY <1>6 DEF ImplicitTaskEnd
  <2>2. TakesUp(t, "team_begin", NULL) /\ "team_begin" \in Places /\ NULL \in TaskObjects \cup {NULL}
    BY <2>1 DEF TakesUp, Places
  <2>3. /\ Others(t) /\ Pc(t)' = "team_begin" /\ crew'[t].ends = NULL /\ crew'[t].ptr = crew[t].ptr
        /\ crew'[t].parallel = crew[t].parallel
    BY <1>0, <2>2, TakesTyped
  <2>4. \A q \in TaskObjects : task'[q].parallel = task[q].parallel
    BY <1>0, <1>2, <2>1, TaskUse
  <2>5. Early(t)'
    BY <2>3 DEF Early
  <2> QED BY <1>0, <1>1, <1>3, <1>4, <2>3, <2>4, <2>5, SameTaskObjects
<1> QED BY <1>5, <1>6

(* The finalisation begins, or nothing happens.                            *)
LEMMA FinalizeToolObjects ==
  ASSUME OmptIInv, ObjectsOK, FinalizeTool PROVE ObjectsOK'
<1>1. /\ SameRegion
      /\ UNCHANGED <<taken, crew, parallel, task, parallel_regions_free_list, tasks_free_list, stored_task>>
  BY DEF FinalizeTool, OmptIInv, TypesOK, SameRegion, poolVarsOmpt, locationData
<1>2. \A t : (Pc(t)' = Pc(t)) /\ (Early(t)' <=> Early(t)) /\ (Overdue(t)' <=> Overdue(t))
  BY <1>1 DEF Pc, Early, Overdue
<1>3. \A p : /\ Users(p)' = Users(p) /\ (Beginning(p)' <=> Beginning(p))
  BY <1>1, <1>2 DEF Users, Beginning
<1>4. ASSUME NEW p \in ParallelObjects PROVE ReferencesOK(p)'
  <2>1. ReferencesOK(p)
    BY DEF ObjectsOK
  <2> QED BY <1>1, <1>2, <1>3, <2>1, ReferencesKept
<1>5. \A t \in OmpThreads : UsesTask(t)'
  BY <1>1, <1>2 DEF ObjectsOK, UsesTask
<1>6. (\A o \in TaskObjects : Placed(o)') /\ StoredAtFirst'
  BY <1>1, <1>2 DEF ObjectsOK, Placed, Free, StoredAtFirst
<1> QED BY <1>1, <1>4, <1>5, <1>6 DEF ObjectsOK

LEMMA StutterObjects ==
  ASSUME ObjectsOK, UNCHANGED omptVars PROVE ObjectsOK'
<1>1. UNCHANGED <<omp, taken, crew, parallel, task, parallel_regions_free_list, tasks_free_list, stored_task>>
  BY DEF omptVars, runtimeVars, poolVarsOmpt, locationData
<1>2. \A t : (Pc(t)' = Pc(t)) /\ (Early(t)' <=> Early(t)) /\ (Overdue(t)' <=> Overdue(t))
  BY <1>1 DEF Pc, Early, Overdue
<1>3. \A p : /\ Users(p)' = Users(p) /\ (Beginning(p)' <=> Beginning(p))
  BY <1>1, <1>2 DEF Users, Beginning
<1>4. SameRegion
  BY <1>1 DEF SameRegion
<1>5. ASSUME NEW p \in ParallelObjects PROVE ReferencesOK(p)'
  <2>1. ReferencesOK(p)
    BY DEF ObjectsOK
  <2> QED BY <1>1, <1>2, <1>3, <1>4, <2>1, ReferencesKept
<1>6. \A t \in OmpThreads : UsesTask(t)'
  BY <1>1, <1>2 DEF ObjectsOK, UsesTask
<1>7. (\A o \in TaskObjects : Placed(o)') /\ StoredAtFirst'
  BY <1>1, <1>2 DEF ObjectsOK, Placed, Free, StoredAtFirst
<1> QED BY <1>1, <1>5, <1>6, <1>7 DEF ObjectsOK

(* A thread whose record is replaced.                                      *)
LEMMA RecordReplaced ==
  ASSUME TypesOK, NEW t \in OmpThreads, NEW r, crew' = [crew EXCEPT ![t] = r]
  PROVE  /\ crew'[t] = r /\ Others(t)
         /\ \A u \in OmpThreads \ {t} : /\ crew'[u] = crew[u] /\ Pc(u)' = Pc(u)
                                        /\ (Early(u)' <=> Early(u)) /\ (Overdue(u)' <=> Overdue(u))
<1>1. crew \in [OmpThreads -> CrewRecords]
  BY DEF TypesOK
<1>2. crew'[t] = r /\ \A u \in OmpThreads \ {t} : crew'[u] = crew[u]
  BY <1>1
<1>3. \A u \in OmpThreads \ {t} : Pc(u)' = Pc(u) /\ (Early(u)' <=> Early(u)) /\ (Overdue(u)' <=> Overdue(u))
  BY <1>2 DEF Pc, Early, Overdue
<1> QED BY <1>2, <1>3 DEF Others

(* The references owed by the primary thread are a number, and there is    *)
(* one left until parallel_end.                                            *)
LEMMA OwedIsNat ==
  ASSUME OmptIInv, ObjectsOK, NEW p \in ParallelObjects
  PROVE  /\ OwedByPrimary(p) \in Nat
         /\ crew[Primary].parallel = p => /\ OwedByPrimary(p) >= 1 /\ Pc(Primary) # "idle"
                                          /\ ~PrimaryPhase => OwedByPrimary(p) = 1
<1>0. TypesOK /\ TeamOK /\ CountOK /\ Primary \in OmpThreads /\ NULL \notin ParallelObjects
  BY Setting DEF OmptIInv
<1>1. CASE crew[Primary].parallel # p
  BY <1>1 DEF OwedByPrimary
<1>2. CASE crew[Primary].parallel = p
  <2>1. Pc(Primary) # "idle"
    BY <1>0, <1>2 DEF ObjectsOK, UsesTask
  <2>2. omp.region > 0
    BY <1>0, <2>1 DEF TeamOK
  <2>3. /\ Size(omp.region) \in Nat /\ Cardinality(taken[omp.region]) \in Nat
        /\ taken[omp.region] \subseteq 0 .. Size(omp.region) - 1
        /\ ~PrimaryPhase => taken[omp.region] = 0 .. Size(omp.region) - 1
    BY <1>0, <2>2, RegionFacts DEF CountOK
  <2>4. IsFiniteSet(0 .. Size(omp.region) - 1) /\ Cardinality(0 .. Size(omp.region) - 1) = Size(omp.region)
    <3>1. 0 \in Int /\ Size(omp.region) - 1 \in Int
      BY <2>3
    <3>2. /\ IsFiniteSet(0 .. Size(omp.region) - 1)
          /\ Cardinality(0 .. Size(omp.region) - 1) =
               IF 0 > Size(omp.region) - 1 THEN 0 ELSE Size(omp.region) - 1 - 0 + 1
      BY <3>1, FS_Interval
    <3> QED BY <2>3, <3>2
  <2>5. Cardinality(taken[omp.region]) <= Size(omp.region)
    BY <2>3, <2>4, FS_Subset
  <2>6. OwedByPrimary(p) = Size(omp.region) - Cardinality(taken[omp.region]) + 1
    BY <1>2 DEF OwedByPrimary
  <2> QED BY <2>1, <2>3, <2>4, <2>5, <2>6
<1> QED BY <1>1, <1>2

(* A reference is given back: the region is put into the pool with the last. *)
LEMMA GivenBack ==
  ASSUME TypesOK, NEW p \in ParallelObjects, release_parallel_region(p), IsInjective(parallel_regions_free_list),
         ReferencesOK(p), parallel[p].region # 0, ~Beginning(p)',
         Cardinality(Users(p))' \in Nat, OwedByPrimary(p)' \in Nat,
         parallel[p].ref_count = Cardinality(Users(p))' + OwedByPrimary(p)' + 1
  PROVE  /\ ReferencesOK(p)' /\ IsInjective(parallel_regions_free_list')
         /\ \A q \in ParallelObjects \ {p} :
              /\ parallel'[q].region = parallel[q].region /\ parallel'[q].ref_count = parallel[q].ref_count
              /\ q \in Range(parallel_regions_free_list') <=> q \in Range(parallel_regions_free_list)
<1>1. parallel \in [ParallelObjects -> ParallelRecords] /\ parallel_regions_free_list \in Seq(ParallelObjects)
  BY DEF TypesOK
<1>2. PICK n \in Nat : /\ n = Cardinality(Users(p))' + OwedByPrimary(p)' /\ parallel[p].ref_count = n + 1
                      /\ parallel[p].ref_count - 1 = n /\ (LastReference(p) <=> n = 0)
  BY DEF LastReference
<1>3. /\ parallel' = [parallel EXCEPT ![p].ref_count = n]
      /\ parallel_regions_free_list' = IF n = 0 THEN << p >> \o parallel_regions_free_list
                                       ELSE parallel_regions_free_list
  <2>1. /\ parallel' = [parallel EXCEPT ![p].ref_count = parallel[p].ref_count - 1]
        /\ parallel_regions_free_list' = IF LastReference(p) THEN << p >> \o parallel_regions_free_list
                                         ELSE parallel_regions_free_list
    BY DEF release_parallel_region
  <2> QED BY <1>2, <2>1
<1>4. /\ parallel'[p].ref_count = n /\ parallel'[p].region = parallel[p].region
      /\ \A q \in ParallelObjects \ {p} : parallel'[q].region = parallel[q].region /\ parallel'[q].ref_count = parallel[q].ref_count
  BY <1>1, <1>3 DEF ParallelRecords
<1>5. p \notin Range(parallel_regions_free_list)
  BY <1>2 DEF ReferencesOK
<1>6. /\ IsInjective(parallel_regions_free_list')
      /\ Range(parallel_regions_free_list') =
           IF n = 0 THEN {p} \cup Range(parallel_regions_free_list) ELSE Range(parallel_regions_free_list)
  <2>1. CASE n = 0
    <3>1. parallel_regions_free_list' = << p >> \o parallel_regions_free_list
      BY <1>3, <2>1
    <3> QED BY <1>1, <1>5, <2>1, <3>1, Prepend
  <2>2. CASE n # 0
    <3>1. parallel_regions_free_list' = parallel_regions_free_list
      BY <1>3, <2>2
    <3> QED BY <2>2, <3>1
  <2> QED BY <2>1, <2>2
<1>7. ReferencesOK(p)'
  <2>1. p \in Range(parallel_regions_free_list') <=> n = 0
    BY <1>5, <1>6
  <2> QED BY <1>2, <1>4, <2>1 DEF ReferencesOK
<1> QED BY <1>4, <1>6, <1>7

(* The primary thread gives back the last reference.                       *)
LEMMA ParallelEndObjects ==
  ASSUME OmptIInv, ObjectsOK, ParallelEnd PROVE ObjectsOK'
<1>0. /\ TypesOK /\ TeamOK /\ TasksOK /\ Primary \in OmpThreads /\ 0 \in LocationIds
      /\ NULL \notin ParallelObjects
  BY Setting DEF OmptIInv
<1>1. /\ Pc(Primary) = "join" /\ release_parallel_region(crew[Primary].parallel)
      /\ stored_task' = [stored_task EXCEPT ![0] = Encountering]
      /\ crew' = [crew EXCEPT ![Primary] = NotInTeam]
      /\ UNCHANGED <<omp, taken, task, tasks_free_list>>
  BY DEF ParallelEnd, At, Pc, runtimeVars
<1>2. PICK p \in ParallelObjects : p = crew[Primary].parallel
  BY <1>0, <1>1 DEF TeamOK
<1>3. crew'[Primary] = NotInTeam /\ Pc(Primary)' = "idle" /\ crew'[Primary].parallel = NULL
      /\ crew'[Primary].ptr = NULL /\ crew'[Primary].ends = NULL
      /\ \A u \in OmpThreads \ {Primary} : /\ crew'[u] = crew[u] /\ Pc(u)' = Pc(u)
                                           /\ (Early(u)' <=> Early(u)) /\ (Overdue(u)' <=> Overdue(u))
  <2>1. /\ crew'[Primary] = NotInTeam
        /\ \A u \in OmpThreads \ {Primary} : /\ crew'[u] = crew[u] /\ Pc(u)' = Pc(u)
                                             /\ (Early(u)' <=> Early(u)) /\ (Overdue(u)' <=> Overdue(u))
    BY <1>0, <1>1, RecordReplaced
  <2> QED BY <2>1 DEF NotInTeam, Pc
<1>4. \A q : Users(q)' = Users(q)
  BY <1>1, <1>3 DEF Users
<1>5. \A q : ~Beginning(q) /\ ~Beginning(q)'
  BY <1>1, <1>3 DEF Beginning
<1>6. /\ ReferencesOK(p) /\ parallel[p].region # 0 /\ Cardinality(Users(p)) \in Nat /\ OwedByPrimary(p) = 1
      /\ OwedByPrimary(p)' = 0
  <2>1. OwedByPrimary(p) = 1
    BY <1>1, <1>2, OwedIsNat DEF PrimaryPhase
  <2>2. ReferencesOK(p) /\ parallel[p].region # 0
    BY <1>2 DEF ObjectsOK, ReferencesOK
  <2>3. OwedByPrimary(p)' = 0
    BY <1>0, <1>3 DEF OwedByPrimary
  <2> QED BY <1>0, <2>1, <2>2, <2>3, UsersFinite
<1>7. parallel[p].ref_count = Cardinality(Users(p))' + OwedByPrimary(p)' + 1
  BY <1>4, <1>5, <1>6 DEF ReferencesOK
<1>8. /\ ReferencesOK(p)' /\ IsInjective(parallel_regions_free_list')
      /\ \A q \in ParallelObjects \ {p} :
           /\ parallel'[q].region = parallel[q].region /\ parallel'[q].ref_count = parallel[q].ref_count
           /\ q \in Range(parallel_regions_free_list') <=> q \in Range(parallel_regions_free_list)
  <2>1. IsInjective(parallel_regions_free_list) /\ release_parallel_region(p)
    BY <1>1, <1>2 DEF ObjectsOK
  <2>2. Cardinality(Users(p))' \in Nat /\ OwedByPrimary(p)' \in Nat
    BY <1>4, <1>6
  <2> QED BY <1>0, <1>5, <1>6, <1>7, <2>1, <2>2, GivenBack
<1>9. ASSUME NEW q \in ParallelObjects \ {p} PROVE ReferencesOK(q)'
  <2>1. ReferencesOK(q) /\ SameRegion
    BY <1>1 DEF ObjectsOK, SameRegion
  <2>2. crew[Primary].parallel # q /\ crew'[Primary].parallel # q
    BY <1>0, <1>2, <1>3
  <2> QED BY <1>4, <1>5, <1>8, <2>1, <2>2, ReferencesKept
<1>10. ASSUME NEW t \in OmpThreads PROVE UsesTask(t)'
  <2>1. CASE t = Primary
    BY <1>3, <2>1 DEF UsesTask
  <2>2. CASE t # Primary
    <3>1. UsesTask(t)
      BY DEF ObjectsOK
    <3> QED BY <1>1, <1>3, <2>2, <3>1 DEF UsesTask
  <2> QED BY <2>1, <2>2
<1>11. ASSUME NEW o \in TaskObjects PROVE Placed(o)'
  <2>1. \A u \in OmpThreads : crew'[u].ptr = crew[u].ptr
    BY <1>0, <1>1, <1>3 DEF TasksOK
  <2>2. Placed(o)
    BY DEF ObjectsOK
  <2> QED BY <1>1, <2>1, <2>2 DEF Placed, Free
<1>12. StoredAtFirst'
  BY <1>0, <1>1 DEF TypesOK, StoredAtFirst
<1> QED BY <1>8, <1>9, <1>10, <1>11, <1>12 DEF ObjectsOK

(* A thread gives its task back, and a reference to its region.            *)
LEMMA ReleaseObjects ==
  ASSUME OmptIInv, ObjectsOK, NEW t \in OmpThreads, Release(t) PROVE ObjectsOK'
<1>0. /\ TypesOK /\ TeamOK /\ TasksOK /\ Primary \in OmpThreads /\ IsFiniteSet(OmpThreads)
      /\ NULL \notin ParallelObjects /\ NULL \notin TaskObjects
  BY Setting DEF OmptIInv
<1>1. PICK o \in TaskObjects : o = crew[t].ptr /\ o # NULL
  BY <1>0 DEF Release, At, Pc, TasksOK
<1>2. PICK p \in ParallelObjects : p = task[o].parallel /\ p = crew[t].parallel
  BY <1>0, <1>1 DEF ObjectsOK, UsesTask, TasksOK
<1>3. /\ Pc(t) = "release" /\ release_parallel_region(p)
      /\ tasks_free_list' = [tasks_free_list EXCEPT ![t] = << o >> \o @]
      /\ omp' = [omp EXCEPT !.mutex = IF @ = t THEN NULL ELSE @]
      /\ crew' = [crew EXCEPT ![t] = IF t = Primary
                                     THEN [NotInTeam EXCEPT !.pc = "join", !.parallel = p]
                                     ELSE NotInTeam]
      /\ UNCHANGED <<taken, arrived, task, locationData>>
  BY <1>1, <1>2 DEF Release, At, Pc
<1>4. SameRegion /\ UNCHANGED <<taken, task, stored_task>>
  BY <1>0, <1>3 DEF TypesOK, SameRegion, locationData
<1>5. /\ Pc(t)' \in {"idle", "join"} /\ crew'[t].ptr = NULL /\ crew'[t].ends = NULL
      /\ t = Primary => Pc(t)' = "join" /\ crew'[t].parallel = p
      /\ Pc(t)' = "idle" => crew'[t].parallel = NULL
      /\ \A u \in OmpThreads \ {t} : /\ crew'[u] = crew[u] /\ Pc(u)' = Pc(u)
                                     /\ (Early(u)' <=> Early(u)) /\ (Overdue(u)' <=> Overdue(u))
  <2>1. PICK r : r = IF t = Primary THEN [NotInTeam EXCEPT !.pc = "join", !.parallel = p] ELSE NotInTeam
    OBVIOUS
  <2>2. /\ crew'[t] = r
        /\ \A u \in OmpThreads \ {t} : /\ crew'[u] = crew[u] /\ Pc(u)' = Pc(u)
                                       /\ (Early(u)' <=> Early(u)) /\ (Overdue(u)' <=> Overdue(u))
    BY <1>0, <1>3, <2>1, RecordReplaced
  <2> QED BY <2>1, <2>2 DEF NotInTeam, Pc
<1>6. /\ Users(p)' = Users(p) \ {t} /\ t \in Users(p)
      /\ \A q : q # p => Users(q)' = Users(q)
  <2>1. \A q : \A u \in OmpThreads : u # t => ((Pc(u)' \notin {"idle", "join"} /\ crew'[u].parallel = q)
                                          <=> (Pc(u) \notin {"idle", "join"} /\ crew[u].parallel = q))
    BY <1>5
  <2>2. Pc(t)' \in {"idle", "join"} /\ Pc(t) \notin {"idle", "join"} /\ crew[t].parallel = p
    BY <1>2, <1>3, <1>5
  <2> QED BY <2>1, <2>2 DEF Users
<1>7. /\ crew'[Primary].parallel = crew[Primary].parallel
      /\ \A q : (Beginning(q)' <=> Beginning(q))
  <2>1. CASE t = Primary
    <3>1. crew'[Primary].parallel = crew[Primary].parallel
      BY <1>2, <1>5, <2>1
    <3>2. Pc(Primary) # "begin" /\ Pc(Primary)' # "begin"
      BY <1>3, <1>5, <2>1
    <3> QED BY <3>1, <3>2 DEF Beginning
  <2>2. CASE t # Primary
    BY <1>0, <1>5, <2>2 DEF Beginning
  <2> QED BY <2>1, <2>2
<1>8. OwedByPrimary(p)' = OwedByPrimary(p) /\ OwedByPrimary(p) \in Nat
  <2>1. OwedByPrimary(p)' = OwedByPrimary(p)
    BY <1>4, <1>7 DEF OwedByPrimary, Size, SameRegion
  <2> QED BY <2>1, OwedIsNat
<1>9. /\ Cardinality(Users(p)') = Cardinality(Users(p)) - 1 /\ Cardinality(Users(p)) \in Nat
      /\ Cardinality(Users(p)') \in Nat
  <2>1. IsFiniteSet(Users(p)) /\ Cardinality(Users(p)) \in Nat
    BY <1>0, UsersFinite
  <2>2. IsFiniteSet(Users(p) \ {t}) /\ Cardinality(Users(p) \ {t}) = Cardinality(Users(p)) - 1
    BY <1>6, <2>1, FS_RemoveElement
  <2>3. Cardinality(Users(p) \ {t}) \in Nat
    BY <2>2, FS_CardinalityType
  <2> QED BY <1>6, <2>1, <2>2, <2>3
<1>10. ReferencesOK(p) /\ parallel[p].region # 0 /\ ~Beginning(p)
  <2>1. ReferencesOK(p)
    BY DEF ObjectsOK
  <2>2. parallel[p].region # 0
    BY <1>6, <2>1 DEF ReferencesOK
  <2>3. parallel[p].ref_count >= 0
    BY <1>3 DEF release_parallel_region
  <2> QED BY <2>1, <2>2, <2>3 DEF ReferencesOK
<1>11. /\ ReferencesOK(p)' /\ IsInjective(parallel_regions_free_list')
       /\ \A q \in ParallelObjects \ {p} :
            /\ parallel'[q].region = parallel[q].region /\ parallel'[q].ref_count = parallel[q].ref_count
            /\ q \in Range(parallel_regions_free_list') <=> q \in Range(parallel_regions_free_list)
  <2>1. parallel[p].ref_count = Cardinality(Users(p)) + OwedByPrimary(p)
    BY <1>10 DEF ReferencesOK
  <2>2. parallel[p].ref_count = Cardinality(Users(p)') + OwedByPrimary(p)' + 1
    BY <1>8, <1>9, <2>1
  <2>3. /\ Cardinality(Users(p))' \in Nat /\ OwedByPrimary(p)' \in Nat
        /\ parallel[p].ref_count = Cardinality(Users(p))' + OwedByPrimary(p)' + 1
    BY <1>8, <1>9, <2>2
  <2>4. IsInjective(parallel_regions_free_list) /\ ~Beginning(p)'
    BY <1>7, <1>10 DEF ObjectsOK
  <2> QED BY <1>0, <1>3, <1>10, <2>3, <2>4, GivenBack
<1>12. ASSUME NEW q \in ParallelObjects \ {p} PROVE ReferencesOK(q)'
  <2>1. ReferencesOK(q)
    BY DEF ObjectsOK
  <2>2. Users(q)' = Users(q) /\ t \notin Users(q) /\ Users(q) \subseteq OmpThreads
    BY <1>2, <1>6 DEF Users
  <2>3. \A u \in Users(q) : Early(u) \/ Pc(u) = "barrier" => Early(u)' \/ Pc(u)' = "barrier"
    BY <1>5, <2>2
  <2> QED BY <1>4, <1>7, <1>11, <2>1, <2>2, <2>3, ReferencesKept
<1>13. ASSUME NEW u \in OmpThreads PROVE UsesTask(u)'
  <2>1. CASE u = t
    BY <1>5, <2>1 DEF UsesTask
  <2>2. CASE u # t
    <3>1. UsesTask(u)
      BY DEF ObjectsOK
    <3> QED BY <1>4, <1>5, <2>2, <3>1 DEF UsesTask
  <2> QED BY <2>1, <2>2
<1>14. ASSUME NEW q \in TaskObjects PROVE Placed(q)'
  <2>1. /\ Free(t)' = {o} \cup Free(t)
        /\ \A u \in OmpThreads \ {t} : Free(u)' = Free(u)
    <3>1. tasks_free_list \in [OmpThreads -> Seq(TaskObjects)]
      BY <1>0 DEF TypesOK
    <3>2. /\ tasks_free_list'[t] = << o >> \o tasks_free_list[t] /\ tasks_free_list[t] \in Seq(TaskObjects)
          /\ \A u \in OmpThreads \ {t} : tasks_free_list'[u] = tasks_free_list[u]
      BY <1>3, <3>1
    <3>3. Range(<< o >> \o tasks_free_list[t]) = {o} \cup Range(tasks_free_list[t])
      BY <3>2, Prepend
    <3> QED BY <3>2, <3>3 DEF Free
  <2> SUFFICES ASSUME task[q].parallel # NULL PROVE \E u \in OmpThreads : crew'[u].ptr = q \/ q \in Free(u)'
    BY <1>4 DEF Placed
  <2>2. PICK u \in OmpThreads : crew[u].ptr = q \/ q \in Free(u)
    BY DEF ObjectsOK, Placed
  <2>3. CASE u = t
    BY <1>1, <2>1, <2>2, <2>3
  <2>4. CASE u # t
    BY <1>5, <2>1, <2>2, <2>4
  <2> QED BY <2>3, <2>4
<1>15. StoredAtFirst'
  <2>1. CASE t = Primary
    BY <1>5, <2>1 DEF StoredAtFirst
  <2>2. CASE t # Primary
    BY <1>0, <1>4, <1>5, <2>2 DEF ObjectsOK, StoredAtFirst
  <2> QED BY <2>1, <2>2
<1> QED BY <1>11, <1>12, <1>13, <1>14, <1>15 DEF ObjectsOK

(* The primary thread takes a region that nobody uses any more.            *)
LEMMA ParallelBeginObjects ==
  ASSUME OmptIInv, ObjectsOK, ParallelBegin PROVE ObjectsOK'
<1>0. /\ TypesOK /\ TasksOK /\ Primary \in OmpThreads /\ 0 \in LocationIds
      /\ NULL \notin ParallelObjects
  BY Setting DEF OmptIInv
<1>1. PICK r, p : r = omp.region + 1 /\ p = FromPool(parallel_regions_free_list, NewParallels)
  OBVIOUS
<1>2. /\ Pc(Primary) = "idle" /\ r \in RegionIds /\ InPool(parallel_regions_free_list, NewParallels)
      /\ omp' = [omp EXCEPT !.region = r]
      /\ taken' = [taken EXCEPT ![r] = {0}]
      /\ parallel' = [parallel EXCEPT ![p] = FreshParallel(r)]
      /\ parallel_regions_free_list' = AfterPool(parallel_regions_free_list)
      /\ stored_task' = [stored_task EXCEPT ![0] = NULL]
      /\ crew' = [crew EXCEPT ![Primary] = [NotInTeam EXCEPT !.pc = "begin", !.parallel = p]]
      /\ UNCHANGED <<task, tasks_free_list>>
  BY <1>1 DEF ParallelBegin, At, Pc
<1>3. /\ p \in ParallelObjects /\ p \in Range(parallel_regions_free_list) \cup NewParallels
      /\ IsInjective(parallel_regions_free_list')
      /\ Range(parallel_regions_free_list') = Range(parallel_regions_free_list) \ {p}
  <2> DEFINE list == parallel_regions_free_list
  <2>1. list \in Seq(ParallelObjects) /\ NewParallels \in SUBSET ParallelObjects /\ IsInjective(list)
    BY <1>0 DEF TypesOK, NewParallels, ObjectsOK
  <2>2. /\ p \in ParallelObjects /\ p \in Range(list) \cup NewParallels
        /\ IsInjective(AfterPool(list)) /\ (Range(AfterPool(list)) = Range(list) \ {p} \/ list = << >>)
        /\ list = << >> => AfterPool(list) = << >>
    BY <1>1, <1>2, <2>1, PoolFacts
  <2>3. Range(AfterPool(list)) = Range(list) \ {p}
    <3>1. CASE list = << >>
      <4>1. Range(<< >>) = {}
        BY EmptyList
      <4> QED BY <2>2, <3>1, <4>1
    <3>2. CASE list # << >>
      BY <2>2, <3>2
    <3> QED BY <3>1, <3>2
  <2> QED BY <1>2, <2>2, <2>3
<1>4. /\ Pc(Primary)' = "begin" /\ crew'[Primary].parallel = p /\ Early(Primary)'
      /\ crew'[Primary].ptr = NULL /\ crew'[Primary].ends = NULL
      /\ \A u \in OmpThreads \ {Primary} : /\ crew'[u] = crew[u] /\ Pc(u)' = Pc(u)
                                           /\ (Early(u)' <=> Early(u)) /\ (Overdue(u)' <=> Overdue(u))
  <2>1. PICK x : x = [NotInTeam EXCEPT !.pc = "begin", !.parallel = p]
    OBVIOUS
  <2>2. /\ crew'[Primary] = x
        /\ \A u \in OmpThreads \ {Primary} : /\ crew'[u] = crew[u] /\ Pc(u)' = Pc(u)
                                             /\ (Early(u)' <=> Early(u)) /\ (Overdue(u)' <=> Overdue(u))
    BY <1>0, <1>2, <2>1, RecordReplaced
  <2> QED BY <2>1, <2>2 DEF NotInTeam, Pc, Early
<1>5. /\ crew[Primary].parallel = NULL /\ crew[Primary].ptr = NULL
      /\ (\A q : ~Beginning(q)) /\ (\A q \in ParallelObjects : OwedByPrimary(q) = 0)
  <2>1. crew[Primary].parallel = NULL /\ crew[Primary].ptr = NULL
    BY <1>0, <1>2 DEF ObjectsOK, UsesTask, TasksOK
  <2> QED BY <1>0, <1>2, <2>1 DEF Beginning, OwedByPrimary
<1>6. Users(p) = {}
  <2>1. ReferencesOK(p)
    BY <1>3 DEF ObjectsOK
  <2>2. CASE p \in NewParallels
    BY <2>1, <2>2 DEF NewParallels, ReferencesOK
  <2>3. CASE p \in Range(parallel_regions_free_list)
    <3>1. parallel[p].region # 0 /\ parallel[p].ref_count = 0
      BY <2>1, <2>3 DEF ReferencesOK
    <3>2. 0 = Cardinality(Users(p)) + 0
      BY <1>3, <1>5, <2>1, <3>1 DEF ReferencesOK
    <3>3. IsFiniteSet(Users(p)) /\ Cardinality(Users(p)) \in Nat
      BY <1>0, UsersFinite
    <3> QED BY <3>2, <3>3, FS_EmptySet
  <2> QED BY <1>3, <2>2, <2>3
<1>7. /\ Users(p)' = {Primary} /\ Beginning(p)'
      /\ \A q : q # p => Users(q)' = Users(q) /\ ~Beginning(q)'
  <2>1. Beginning(p)' /\ \A q : q # p => ~Beginning(q)'
    BY <1>4 DEF Beginning
  <2>2. \A u \in OmpThreads : (Pc(u)' \notin {"idle", "join"} /\ crew'[u].parallel = p) <=> u = Primary
    BY <1>0, <1>4, <1>6 DEF Users
  <2>3. \A q : \A u \in OmpThreads : q # p => ((Pc(u)' \notin {"idle", "join"} /\ crew'[u].parallel = q)
                                           <=> (Pc(u) \notin {"idle", "join"} /\ crew[u].parallel = q))
    BY <1>2, <1>4
  <2> QED BY <1>0, <2>1, <2>2, <2>3 DEF Users
<1>8. /\ omp'.region = r /\ taken'[r] = {0} /\ r # 0
      /\ parallel'[p].region = r /\ parallel'[p].ref_count = -1
      /\ \A q \in ParallelObjects \ {p} : parallel'[q] = parallel[q]
  <2>1. omp.region \in Nat /\ r \in Nat \ {0}
    BY <1>0, <1>1 DEF TypesOK
  <2> QED BY <1>0, <1>2, <1>3, <2>1 DEF TypesOK, FreshParallel
<1>9. ReferencesOK(p)'
  <2>1. Cardinality({Primary}) = 1 /\ Cardinality({0}) = 1
    BY FS_Singleton
  <2>2. Cardinality(Users(p)') = Cardinality(taken'[omp'.region])
    BY <1>7, <1>8, <2>1
  <2>3. p \notin Range(parallel_regions_free_list') /\ parallel'[p].ref_count # 0
    BY <1>3, <1>8
  <2>4. \A t \in Users(p)' : Early(t)'
    BY <1>4, <1>7
  <2> QED BY <1>7, <1>8, <2>2, <2>3, <2>4 DEF ReferencesOK
<1>10. ASSUME NEW q \in ParallelObjects \ {p} PROVE ReferencesOK(q)'
  <2>1. ReferencesOK(q) /\ OwedByPrimary(q) = 0 /\ ~Beginning(q) /\ ~Beginning(q)'
    BY <1>5, <1>7 DEF ObjectsOK
  <2>2. crew'[Primary].parallel # q /\ OwedByPrimary(q)' = 0
    BY <1>4 DEF OwedByPrimary
  <2>3. q \in Range(parallel_regions_free_list') <=> q \in Range(parallel_regions_free_list)
    BY <1>3
  <2>4. Users(q)' = Users(q) /\ parallel'[q] = parallel[q]
    BY <1>7, <1>8
  <2> QED BY <2>1, <2>2, <2>3, <2>4 DEF ReferencesOK
<1>11. ASSUME NEW t \in OmpThreads PROVE UsesTask(t)'
  <2>1. CASE t = Primary
    BY <1>4, <2>1 DEF UsesTask
  <2>2. CASE t # Primary
    <3>1. UsesTask(t)
      BY DEF ObjectsOK
    <3> QED BY <1>2, <1>4, <2>2, <3>1 DEF UsesTask
  <2> QED BY <2>1, <2>2
<1>12. ASSUME NEW o \in TaskObjects PROVE Placed(o)'
  <2>1. \A u \in OmpThreads : crew'[u].ptr = crew[u].ptr
    BY <1>4, <1>5
  <2>2. Placed(o)
    BY DEF ObjectsOK
  <2> QED BY <1>2, <2>1, <2>2 DEF Placed, Free
<1>13. StoredAtFirst'
  BY <1>0, <1>2 DEF TypesOK, StoredAtFirst
<1> QED BY <1>3, <1>9, <1>10, <1>11, <1>12, <1>13 DEF ObjectsOK

(* A worker joins: one index and one user more.                            *)
LEMMA JoinTeamObjects ==
  ASSUME OmptIInv, ObjectsOK, NEW t \in Workers, NEW index \in LocationIds \ {0}, JoinTeam(t, index)
  PROVE  ObjectsOK'
<1>0. /\ TypesOK /\ TeamOK /\ CountOK /\ TasksOK /\ t \in OmpThreads /\ t # Primary /\ Primary \in OmpThreads
      /\ NULL \notin ParallelObjects
  BY Setting DEF OmptIInv
<1>1. PICK p : p = crew[Primary].parallel
  OBVIOUS
<1>2. /\ Pc(t) = "idle" /\ omp.region > 0 /\ index < Size(omp.region) /\ index \notin taken[omp.region]
      /\ taken' = [taken EXCEPT ![omp.region] = @ \cup {index}]
      /\ crew' = [crew EXCEPT ![t] = [NotInTeam EXCEPT !.pc = "begin", !.index = index, !.parallel = p]]
      /\ UNCHANGED <<omp, arrived, parallel, task, poolVarsOmpt, locationData>>
  BY <1>1 DEF JoinTeam, At, Pc
<1>3. SameRegion /\ UNCHANGED <<parallel, task, parallel_regions_free_list, tasks_free_list, stored_task>>
  BY <1>2 DEF poolVarsOmpt, locationData, SameRegion
<1>4. /\ omp.region \in RegionIds /\ Size(omp.region) \in Nat
      /\ IsFiniteSet(taken[omp.region]) /\ Cardinality(taken[omp.region]) \in Nat
  BY <1>0, <1>2, RegionFacts
<1>5. p \in ParallelObjects
  <2>1. ~PrimaryPhase => taken[omp.region] = 0 .. Size(omp.region) - 1
    BY <1>0, <1>2 DEF CountOK
  <2>2. index \in Nat
    BY <1>0, Setting
  <2>3. index \in 0 .. Size(omp.region) - 1
    BY <1>2, <1>4, <2>2
  <2>4. PrimaryPhase
    BY <1>2, <2>1, <2>3
  <2> QED BY <1>0, <1>1, <2>4 DEF PrimaryPhase, TeamOK
<1>6. /\ Pc(t)' = "begin" /\ crew'[t].parallel = p /\ Early(t)'
      /\ crew'[t].ptr = NULL /\ crew'[t].ends = NULL
      /\ \A u \in OmpThreads \ {t} : /\ crew'[u] = crew[u] /\ Pc(u)' = Pc(u)
                                     /\ (Early(u)' <=> Early(u)) /\ (Overdue(u)' <=> Overdue(u))
  <2>1. PICK x : x = [NotInTeam EXCEPT !.pc = "begin", !.index = index, !.parallel = p]
    OBVIOUS
  <2>2. /\ crew'[t] = x
        /\ \A u \in OmpThreads \ {t} : /\ crew'[u] = crew[u] /\ Pc(u)' = Pc(u)
                                       /\ (Early(u)' <=> Early(u)) /\ (Overdue(u)' <=> Overdue(u))
    BY <1>0, <1>2, <2>1, RecordReplaced
  <2> QED BY <2>1, <2>2 DEF NotInTeam, Pc, Early
<1>7. crew[t].ptr = NULL /\ crew'[Primary].parallel = p /\ \A q : Beginning(q)' <=> Beginning(q)
  <2>1. crew[t].ptr = NULL
    BY <1>0, <1>2 DEF TasksOK
  <2> QED BY <1>0, <1>1, <1>6, <2>1 DEF Beginning
<1>8. /\ Users(p)' = Users(p) \cup {t} /\ t \notin Users(p)
      /\ \A q : q # p => Users(q)' = Users(q)
  <2>1. \A q : \A u \in OmpThreads : u # t => ((Pc(u)' \notin {"idle", "join"} /\ crew'[u].parallel = q)
                                          <=> (Pc(u) \notin {"idle", "join"} /\ crew[u].parallel = q))
    BY <1>6
  <2>2. Pc(t)' \notin {"idle", "join"} /\ Pc(t) = "idle" /\ crew'[t].parallel = p
    BY <1>2, <1>6
  <2> QED BY <1>0, <2>1, <2>2 DEF Users
<1>9. /\ Cardinality(Users(p)') = Cardinality(Users(p)) + 1 /\ Cardinality(Users(p)) \in Nat
      /\ taken'[omp.region] = taken[omp.region] \cup {index}
      /\ Cardinality(taken'[omp.region]) = Cardinality(taken[omp.region]) + 1
  <2>1. IsFiniteSet(Users(p)) /\ Cardinality(Users(p)) \in Nat
    BY <1>0, UsersFinite
  <2>2. Cardinality(Users(p) \cup {t}) = Cardinality(Users(p)) + 1
    BY <1>8, <2>1, FS_AddElement
  <2>3. taken'[omp.region] = taken[omp.region] \cup {index}
    BY <1>0, <1>2, <1>4 DEF TypesOK
  <2>4. Cardinality(taken[omp.region] \cup {index}) = Cardinality(taken[omp.region]) + 1
    BY <1>2, <1>4, FS_AddElement
  <2> QED BY <1>8, <2>1, <2>2, <2>3, <2>4
<1>10. ReferencesOK(p)'
  <2>1. ReferencesOK(p) /\ parallel[p].region # 0
    BY <1>1, <1>5 DEF ObjectsOK, ReferencesOK
  <2>2. OwedByPrimary(p) = Size(omp.region) - Cardinality(taken[omp.region]) + 1
    BY <1>1 DEF OwedByPrimary
  <2>3. OwedByPrimary(p)' = Size(omp.region) - Cardinality(taken'[omp.region]) + 1
    BY <1>3, <1>7 DEF OwedByPrimary, SameRegion, Size
  <2>4. Cardinality(Users(p)') + OwedByPrimary(p)' = Cardinality(Users(p)) + OwedByPrimary(p)
    BY <1>4, <1>9, <2>2, <2>3
  <2>5. ASSUME Beginning(p)
        PROVE  /\ parallel[p].ref_count = -1 /\ Cardinality(Users(p)') = Cardinality(taken'[omp.region])
               /\ \A u \in Users(p)' : Early(u)' \/ Pc(u)' = "barrier"
    <3>1. parallel[p].ref_count = -1 /\ Cardinality(Users(p)') = Cardinality(taken'[omp.region])
      BY <1>9, <2>1, <2>5 DEF ReferencesOK
    <3>2. \A u \in Users(p) : u \in OmpThreads \ {t} /\ (Early(u) \/ Pc(u) = "barrier")
      BY <1>8, <2>1, <2>5 DEF ReferencesOK, Users
    <3>3. \A u \in Users(p)' : Early(u)' \/ Pc(u)' = "barrier"
      BY <1>6, <1>8, <3>2
    <3> QED BY <3>1, <3>3
  <2>6. ~Beginning(p) => parallel[p].ref_count = Cardinality(Users(p)') + OwedByPrimary(p)'
    BY <2>1, <2>4 DEF ReferencesOK
  <2>7. p \in Range(parallel_regions_free_list) <=> parallel[p].region # 0 /\ parallel[p].ref_count = 0
    BY <2>1 DEF ReferencesOK
  <2>8. omp'.region = omp.region
    BY <1>3 DEF SameRegion
  <2> QED BY <1>3, <1>7, <2>1, <2>5, <2>6, <2>7, <2>8 DEF ReferencesOK
<1>11. ASSUME NEW q \in ParallelObjects, q # p PROVE ReferencesOK(q)'
  <2>1. ReferencesOK(q)
    BY DEF ObjectsOK
  <2>2. Users(q)' = Users(q) /\ crew[Primary].parallel # q /\ crew'[Primary].parallel # q
    BY <1>1, <1>7, <1>8, <1>11
  <2>3. ~Beginning(q)
    BY <2>2 DEF Beginning
  <2> QED BY <1>3, <1>7, <2>1, <2>2, <2>3, ReferencesKept
<1>12. ASSUME NEW u \in OmpThreads PROVE UsesTask(u)'
  <2>1. CASE u = t
    BY <1>6, <2>1 DEF UsesTask
  <2>2. CASE u # t
    <3>1. UsesTask(u)
      BY DEF ObjectsOK
    <3> QED BY <1>3, <1>6, <2>2, <3>1 DEF UsesTask
  <2> QED BY <2>1, <2>2
<1>13. ASSUME NEW o \in TaskObjects PROVE Placed(o)'
  <2>1. \A u \in OmpThreads : crew'[u].ptr = crew[u].ptr
    BY <1>6, <1>7
  <2>2. Placed(o)
    BY DEF ObjectsOK
  <2> QED BY <1>3, <2>1, <2>2 DEF Placed, Free
<1>14. StoredAtFirst'
  BY <1>0, <1>3, <1>6 DEF ObjectsOK, StoredAtFirst
<1> QED BY <1>3, <1>10, <1>11, <1>12, <1>13, <1>14 DEF ObjectsOK

(* A thread gets a task that nobody uses.                                  *)
LEMMA TeamBeginObjects ==
  ASSUME OmptIInv, ObjectsOK, NEW t \in OmpThreads, TeamBegin(t) PROVE ObjectsOK'
<1>0. /\ TypesOK /\ TeamOK /\ CountOK /\ TasksOK /\ FreeOK /\ Primary \in OmpThreads /\ 0 \in LocationIds
      /\ NULL \notin TaskObjects
  BY Setting DEF OmptIInv
<1>1. Pc(t) = "team_begin" /\ Early(t) /\ InPool(tasks_free_list[t], NewTasks) /\ crew[t].ptr = NULL /\ crew[t].ends = NULL
  <2>1. Pc(t) = "team_begin" /\ Early(t) /\ ~Overdue(t) /\ InPool(tasks_free_list[t], NewTasks)
    BY DEF TeamBegin, At, Pc, Early, Overdue, Ending
  <2>2. crew[t].ptr = NULL
    BY <1>0, <2>1 DEF TasksOK
  <2> QED BY <2>1, <2>2 DEF ObjectsOK, UsesTask
<1>2. /\ omp.region > 0 /\ Region(t) = omp.region
      /\ crew[t].parallel \in ParallelObjects /\ crew[t].index \in taken[omp.region]
  BY <1>0, <1>1, EarlyRegion
<1>3. PICK l \in LocationIds, p \in ParallelObjects : l = crew[t].index /\ p = crew[t].parallel
  BY <1>0, <1>2, Member
<1>4. PICK o \in TaskObjects :
        /\ o = FromPool(tasks_free_list[t], NewTasks) /\ \A u \in OmpThreads : crew[u].ptr # o
  BY <1>0, <1>1, TaskFromPool
<1>5. /\ task' = [task EXCEPT ![o] = [NoTask EXCEPT !.index = l, !.parallel = p]]
      /\ tasks_free_list' = [tasks_free_list EXCEPT ![t] = AfterPool(@)]
      /\ stored_task' = [stored_task EXCEPT ![l] = o]
      /\ UNCHANGED <<runtimeVars, parallel, parallel_regions_free_list>>
  BY <1>3, <1>4 DEF TeamBegin
<1>6. UNCHANGED <<taken, parallel, parallel_regions_free_list>> /\ SameRegion
  BY <1>5 DEF runtimeVars, SameRegion
<1>7. /\ task'[o].parallel = p /\ \A q \in TaskObjects \ {o} : task'[q] = task[q]
  BY <1>0, <1>5 DEF TypesOK, NoTask
<1>8. /\ Free(t) \subseteq Free(t)' \cup {o}
      /\ \A u \in OmpThreads \ {t} : Free(u)' = Free(u)
  <2> DEFINE list == tasks_free_list[t]
  <2>1. tasks_free_list \in [OmpThreads -> Seq(TaskObjects)]
    BY <1>0 DEF TypesOK
  <2>2. /\ tasks_free_list'[t] = AfterPool(list) /\ list \in Seq(TaskObjects)
        /\ \A u \in OmpThreads \ {t} : tasks_free_list'[u] = tasks_free_list[u]
    BY <1>5, <2>1
  <2>3. IsInjective(list) /\ NewTasks \in SUBSET TaskObjects
    BY <1>0 DEF FreeOK, NewTasks
  <2>4. Range(AfterPool(list)) = Range(list) \ {o} \/ list = << >>
    BY <1>1, <1>4, <2>2, <2>3, PoolFacts
  <2>5. list = << >> => Range(list) = {}
    BY EmptyList
  <2>6. Range(list) \subseteq Range(AfterPool(list)) \cup {o}
    BY <2>4, <2>5
  <2> QED BY <2>2, <2>6 DEF Free
<1>9. /\ Others(t) /\ crew'[t].parallel = p /\ crew'[t].ptr = o /\ crew'[t].ends \in {NULL, o}
      /\ \/ Size(omp.region) # 1 /\ Pc(t)' = "work"
         \/ Size(omp.region) = 1 /\ Pc(t)' = "task_end"
  <2>1. crew \in [OmpThreads -> CrewRecords]
    BY <1>0 DEF TypesOK
  <2>2. CASE Size(omp.region) = 1
    <3>1. crew' = [crew EXCEPT ![t].pc = "task_end", ![t].ptr = o, ![t].ends = o]
      BY <1>2, <1>4, <2>2 DEF TeamBegin
    <3>2. /\ \A u \in OmpThreads \ {t} : crew'[u] = crew[u]
          /\ crew'[t].parallel = crew[t].parallel /\ crew'[t].ptr = o
          /\ crew'[t].pc = "task_end" /\ crew'[t].ends = o
      BY <2>1, <3>1 DEF CrewRecords
    <3> QED BY <1>3, <2>2, <3>2 DEF Others, Pc
  <2>3. CASE Size(omp.region) # 1
    <3>1. crew' = [crew EXCEPT ![t].pc = "work", ![t].ptr = o]
      BY <1>2, <1>4, <2>3 DEF TeamBegin
    <3>2. /\ \A u \in OmpThreads \ {t} : crew'[u] = crew[u]
          /\ crew'[t].parallel = crew[t].parallel /\ crew'[t].ptr = o
          /\ crew'[t].pc = "work" /\ crew'[t].ends = crew[t].ends
      BY <2>1, <3>1 DEF CrewRecords
    <3> QED BY <1>1, <1>3, <2>3, <3>2 DEF Others, Pc
  <2> QED BY <2>2, <2>3
(* A team of one thread is the primary's, which has begun.                 *)
<1>10. l = 0 <=> t = Primary
  <2>1. t \in Workers \/ t = Primary
    BY <1>0, Setting
  <2> QED BY <1>0, <1>1, <1>3, <2>1 DEF TeamOK
<1>11. Beginning(p) => Pc(t)' = "work"
  <2> SUFFICES ASSUME Beginning(p), Size(omp.region) = 1 PROVE FALSE
    BY <1>9
  <2>1. l \in 0 .. 0
    BY <1>0, <1>2, <1>3 DEF CountOK
  <2> QED BY <1>1, <1>10, <2>1 DEF Beginning
<1>12. UsesTask(t)'
  BY <1>7, <1>9 DEF UsesTask
<1>13. ASSUME NEW q \in TaskObjects PROVE Placed(q)'
  <2>1. CASE q = o
    BY <1>9, <2>1 DEF Placed
  <2>2. CASE q # o
    <3> SUFFICES ASSUME task[q].parallel # NULL PROVE \E u \in OmpThreads : crew'[u].ptr = q \/ q \in Free(u)'
      BY <1>7, <2>2 DEF Placed
    <3>1. PICK u \in OmpThreads : crew[u].ptr = q \/ q \in Free(u)
      BY DEF ObjectsOK, Placed
    <3>2. CASE u = t
      BY <1>0, <1>1, <1>8, <2>2, <3>1, <3>2
    <3>3. CASE u # t
      BY <1>8, <1>9, <3>1, <3>3 DEF Others
    <3> QED BY <3>2, <3>3
  <2> QED BY <2>1, <2>2
<1>14. StoredAtFirst'
  <2>1. CASE t = Primary
    <3>1. stored_task'[0] = o /\ crew'[Primary].ptr = o
      BY <1>0, <1>5, <1>9, <1>10, <2>1 DEF TypesOK
    <3> QED BY <3>1 DEF StoredAtFirst
  <2>2. CASE t # Primary
    <3>1. stored_task'[0] = stored_task[0] /\ crew'[Primary] = crew[Primary] /\ Pc(Primary)' = Pc(Primary)
      BY <1>0, <1>5, <1>9, <1>10, <2>2 DEF TypesOK, Others, Pc
    <3> QED BY <3>1 DEF ObjectsOK, StoredAtFirst
  <2> QED BY <2>1, <2>2
<1>15. \A u \in OmpThreads \ {t} : crew[u].ptr # NULL => task'[crew[u].ptr].parallel = task[crew[u].ptr].parallel
  <2>1. \A u \in OmpThreads : crew[u].ptr # NULL => crew[u].ptr \in TaskObjects \ {o}
    BY <1>0, <1>4, AllPlaces
  <2> QED BY <1>7, <2>1
<1>16. /\ Pc(t) \notin {"idle", "join"} /\ Pc(t)' \notin {"idle", "join"}
       /\ t = Primary => (Pc(t)' = "begin" <=> Pc(t) = "begin")
       /\ Beginning(crew[t].parallel) /\ (Early(t) \/ Pc(t) = "barrier") => Early(t)' \/ Pc(t)' = "barrier"
  BY <1>1, <1>3, <1>9, <1>11 DEF Early
<1>17. crew'[t].parallel = crew[t].parallel
  BY <1>3, <1>9
<1> QED BY <1>0, <1>6, <1>9, <1>12, <1>13, <1>14, <1>15, <1>16, <1>17, MemberStep

-----------------------------------------------------------------------------
(* At the start there is nothing to release, and every step keeps what is  *)
(* said of the objects.                                                    *)
LEMMA ObjectsInitially == OmptInit => ObjectsOK
<1> SUFFICES ASSUME OmptInit PROVE ObjectsOK
  OBVIOUS
<1>1. TypesOK /\ OmptIInv
  BY OmptInitially DEF OmptIInv
<1>2. Primary \in OmpThreads /\ NULL \notin ParallelObjects /\ 0 \in LocationIds
  BY <1>1, Setting
<1>3. \A t \in OmpThreads : /\ Pc(t) = "idle" /\ crew[t].parallel = NULL /\ crew[t].ptr = NULL /\ crew[t].ends = NULL
  BY DEF OmptInit, NotInTeam, Pc
<1>4. parallel_regions_free_list = << >> /\ Range(parallel_regions_free_list) = {} /\ IsInjective(parallel_regions_free_list)
  BY EmptyList DEF OmptInit
<1>5. ASSUME NEW p \in ParallelObjects PROVE ReferencesOK(p)
  <2>1. Users(p) = {} /\ ~Beginning(p) /\ crew[Primary].parallel # p
    BY <1>2, <1>3 DEF Users, Beginning
  <2>2. parallel[p].region = 0
    BY DEF OmptInit, FreshParallel
  <2> QED BY <1>4, <2>1, <2>2 DEF ReferencesOK
<1>6. \A t \in OmpThreads : UsesTask(t)
  BY <1>3 DEF UsesTask
<1>7. \A o \in TaskObjects : Placed(o)
  BY DEF OmptInit, NoTask, Placed
<1>8. StoredAtFirst
  BY <1>2 DEF OmptInit, StoredAtFirst
<1> QED BY <1>4, <1>5, <1>6, <1>7, <1>8 DEF ObjectsOK

LEMMA ObjectsStep == OmptIInv /\ ObjectsOK /\ [OmptNext]_omptVars => ObjectsOK'
<1> SUFFICES ASSUME OmptIInv, ObjectsOK, [OmptNext]_omptVars PROVE ObjectsOK'
  OBVIOUS
<1>1. CASE ParallelBegin
  BY <1>1, ParallelBeginObjects
<1>2. CASE ParallelEnd
  BY <1>2, ParallelEndObjects
<1>3. CASE FinalizeTool
  BY <1>3, FinalizeToolObjects
<1>4. CASE OmptStop
  BY <1>4, StutterObjects DEF OmptStop
<1>5. CASE \E t \in Workers, index \in LocationIds \ {0} : JoinTeam(t, index)
  BY <1>5, JoinTeamObjects
<1>6. ASSUME NEW t \in OmpThreads,
             \/ ImplicitTaskBegin(t) \/ TriggerOverdue(t) \/ NothingOverdue(t) \/ TeamBegin(t)
             \/ BarrierBegin(t) \/ LockOrder(t) \/ Exchange(t) \/ FinalizeBarrierEnd(t)
             \/ BarrierEndTime(t) \/ BarrierEnd(t) \/ LeftBarrier(t)
             \/ ImplicitTaskEndTime(t) \/ ImplicitTaskEnd(t) \/ Release(t)
      PROVE  ObjectsOK'
  <2>1. CASE ImplicitTaskBegin(t) \/ TriggerOverdue(t) \/ NothingOverdue(t) \/ TeamBegin(t)
    BY <2>1, ImplicitTaskBeginObjects, TriggerOverdueObjects, NothingOverdueObjects, TeamBeginObjects
  <2>2. CASE BarrierBegin(t) \/ LockOrder(t) \/ Exchange(t) \/ FinalizeBarrierEnd(t)
    BY <2>2, BarrierBeginObjects, LockOrderObjects, ExchangeObjects, FinalizeBarrierEndObjects
  <2>3. CASE BarrierEndTime(t) \/ ImplicitTaskEndTime(t) \/ BarrierEnd(t) \/ LeftBarrier(t)
    BY <2>3, EndTimeObjects, BarrierEndObjects, LeftBarrierObjects
  <2>4. CASE ImplicitTaskEnd(t) \/ Release(t)
    BY <2>4, ImplicitTaskEndObjects, ReleaseObjects
  <2> QED BY <1>6, <2>1, <2>2, <2>3, <2>4
<1>7. CASE UNCHANGED omptVars
  BY <1>7, StutterObjects
<1> QED BY <1>1, <1>2, <1>3, <1>4, <1>5, <1>6, <1>7 DEF OmptNext

-----------------------------------------------------------------------------
(* The objects in the pools. *)
FreeTasks == UNION {Free(t) : t \in OmpThreads}

LEMMA PooledObjects ==
  ASSUME TypesOK
  PROVE  /\ Pooled = Range(parallel_regions_free_list) \cup FreeTasks
         /\ Range(parallel_regions_free_list) \subseteq ParallelObjects
         /\ \A t \in OmpThreads : Free(t) \subseteq TaskObjects
         /\ FreeTasks \subseteq TaskObjects
         /\ NULL \notin Pooled /\ Encountering \notin Pooled
         /\ Range(parallel_regions_free_list) \cap TaskObjects = {}
<1>1. /\ parallel_regions_free_list \in Seq(ParallelObjects)
      /\ \A t \in OmpThreads : tasks_free_list[t] \in Seq(TaskObjects)
  BY DEF TypesOK
<1>2. /\ Range(parallel_regions_free_list) \subseteq ParallelObjects
      /\ \A t \in OmpThreads : Free(t) \subseteq TaskObjects
  BY <1>1, ElementOfSeq, LenProperties DEF Range, Free
<1>3. Pooled = UNION {Range(pool) : pool \in Pools}
  BY DEF Pooled, Range
<1>4. Pooled = Range(parallel_regions_free_list) \cup FreeTasks
  BY <1>3 DEF Pools, FreeTasks, Free
<1>5. FreeTasks \subseteq TaskObjects
  BY <1>2 DEF FreeTasks
<1> QED BY <1>2, <1>4, <1>5, OmptAssumption

(* A list without repetitions has as many elements as places. *)
LEMMA ListNumber ==
  ASSUME NEW S, NEW s \in Seq(S), IsInjective(s)
  PROVE  /\ IsFiniteSet(Range(s)) /\ Cardinality(Range(s)) = Len(s) /\ Len(s) \in Nat
         /\ IsFiniteSet(S) => Len(s) <= Cardinality(S)
<1>1. /\ Len(s) \in Nat /\ DOMAIN s = 1 .. Len(s) /\ \A i \in 1 .. Len(s) : s[i] \in S
      /\ s = [i \in 1 .. Len(s) |-> s[i]]
  BY LenProperties, ElementOfSeq
<1>2. s \in Bijection(1 .. Len(s), Range(s))
  BY <1>1 DEF IsInjective, Range, Bijection, Injection, Surjection
<1>3. ExistsBijection(1 .. Len(s), Range(s))
  BY <1>2 DEF ExistsBijection
<1>4. IsFiniteSet(1 .. Len(s)) /\ Cardinality(1 .. Len(s)) = Len(s)
  BY <1>1, FS_Interval
<1>5. IsFiniteSet(Range(s)) /\ Cardinality(Range(s)) = Len(s)
  BY <1>3, <1>4, FS_Bijection
<1>6. Range(s) \subseteq S
  BY <1>1 DEF Range
<1>7. IsFiniteSet(S) => Cardinality(Range(s)) <= Cardinality(S)
  BY <1>6, FS_Subset
<1> QED BY <1>1, <1>5, <1>7

(* No object is twice in the pools: they have as many places as elements.  *)
LEMMA OncePooled == ASSUME OmptIInv, ObjectsOK PROVE PooledOnce
<1>1. TypesOK /\ FreeOK /\ IsFiniteSet(TaskObjects)
  BY OmptAssumption DEF OmptIInv
<1> DEFINE places == {place \in OmpThreads \X (1 .. Cardinality(TaskObjects)) :
                        place[2] \in DOMAIN tasks_free_list[place[1]]}
           f == [place \in places |-> tasks_free_list[place[1]][place[2]]]
<1>2. \A t \in OmpThreads : /\ tasks_free_list[t] \in Seq(TaskObjects) /\ IsInjective(tasks_free_list[t])
                            /\ DOMAIN tasks_free_list[t] \subseteq 1 .. Cardinality(TaskObjects)
  <2> SUFFICES ASSUME NEW t \in OmpThreads
               PROVE  /\ tasks_free_list[t] \in Seq(TaskObjects) /\ IsInjective(tasks_free_list[t])
                      /\ DOMAIN tasks_free_list[t] \subseteq 1 .. Cardinality(TaskObjects)
    OBVIOUS
  <2>1. tasks_free_list[t] \in Seq(TaskObjects) /\ IsInjective(tasks_free_list[t])
    BY <1>1 DEF TypesOK, FreeOK
  <2>2. Len(tasks_free_list[t]) \in Nat /\ Len(tasks_free_list[t]) <= Cardinality(TaskObjects)
    BY <1>1, <2>1, ListNumber
  <2>3. DOMAIN tasks_free_list[t] = 1 .. Len(tasks_free_list[t]) /\ Cardinality(TaskObjects) \in Nat
    BY <1>1, <2>1, LenProperties, FS_CardinalityType
  <2> QED BY <2>1, <2>2, <2>3
<1>3. \A t \in OmpThreads : \A i : i \in DOMAIN tasks_free_list[t] <=> <<t, i>> \in places
  BY <1>2
<1>4. f \in Bijection(places, FreeTasks)
  <2>1. \A x \in places : x[1] \in OmpThreads /\ x[2] \in DOMAIN tasks_free_list[x[1]] /\ x = <<x[1], x[2]>>
    OBVIOUS
  <2>2. \A x \in places : f[x] \in Free(x[1]) /\ f[x] = tasks_free_list[x[1]][x[2]]
    BY <2>1 DEF Free, Range
  <2>3. \A x \in places : f[x] \in FreeTasks
    BY <2>1, <2>2 DEF FreeTasks
  <2>4. ASSUME NEW x \in places, NEW y \in places, f[x] = f[y] PROVE x = y
    <3>1. x[1] = y[1]
      BY <1>1, <2>1, <2>2, <2>4 DEF FreeOK
    <3>2. x[2] = y[2]
      BY <1>2, <2>1, <2>2, <2>4, <3>1 DEF IsInjective
    <3> QED BY <2>1, <3>1, <3>2
  <2>5. ASSUME NEW o \in FreeTasks PROVE \E x \in places : f[x] = o
    <3>1. PICK t \in OmpThreads : o \in Free(t)
      BY DEF FreeTasks
    <3>2. PICK i \in DOMAIN tasks_free_list[t] : o = tasks_free_list[t][i]
      BY <3>1 DEF Free, Range
    <3>3. <<t, i>> \in places /\ f[<<t, i>>] = o
      BY <1>3, <3>2
    <3> QED BY <3>3
  <2>6. f \in [places -> FreeTasks]
    BY <2>3
  <2> HIDE DEF f, places
  <2> QED BY <2>4, <2>5, <2>6 DEF Bijection, Injection, Surjection, IsInjective
<1>5. IsFiniteSet(FreeTasks) /\ Cardinality(FreeTasks) \in Nat
  BY <1>1, PooledObjects, FS_Subset, FS_CardinalityType
<1>6. Cardinality(FreeTasks) = Cardinality(places)
  <2> HIDE DEF f, places
  <2>1. f \in Injection(places, FreeTasks) /\ f \in Surjection(places, FreeTasks)
    BY <1>4 DEF Bijection
  <2> QED BY <1>5, <2>1, FS_Injection
<1>7. /\ IsFiniteSet(Range(parallel_regions_free_list))
      /\ Cardinality(Range(parallel_regions_free_list)) = Len(parallel_regions_free_list)
      /\ Len(parallel_regions_free_list) \in Nat
  <2>1. parallel_regions_free_list \in Seq(ParallelObjects) /\ IsInjective(parallel_regions_free_list)
    BY <1>1 DEF TypesOK, ObjectsOK
  <2> QED BY <2>1, ListNumber
<1>8. Cardinality(Pooled) = Len(parallel_regions_free_list) + Cardinality(FreeTasks)
  <2>1. /\ Range(parallel_regions_free_list) \cap FreeTasks = {}
        /\ Pooled = Range(parallel_regions_free_list) \cup FreeTasks
    BY <1>1, PooledObjects
  <2>2. Cardinality(Pooled) = Cardinality(Range(parallel_regions_free_list)) + Cardinality(FreeTasks)
                                - Cardinality(Range(parallel_regions_free_list) \cap FreeTasks)
    BY <1>5, <1>7, <2>1, FS_Union
  <2>3. Cardinality(Range(parallel_regions_free_list) \cap FreeTasks) = 0
    BY <2>1, FS_EmptySet
  <2> QED BY <1>5, <1>7, <2>2, <2>3
<1> QED BY <1>6, <1>8 DEF PooledOnce

(* What a thread has of its own is in no pool. *)
LEMMA OwnNotPooled ==
  ASSUME OmptIInv, ObjectsOK, NEW t \in OmpThreads
  PROVE  crew[t].ptr \notin Pooled /\ crew[t].parallel \notin Pooled
<1>0. TypesOK /\ TeamOK /\ TasksOK /\ FreeOK
  BY DEF OmptIInv
<1>1. crew[t].ptr \notin Pooled
  <2>1. crew[t].ptr \in TaskObjects \cup {NULL}
    BY <1>0, Member
  <2>2. crew[t].ptr \notin FreeTasks
    BY <1>0 DEF FreeOK, FreeTasks
  <2> QED BY <1>0, <2>1, <2>2, PooledObjects
<1>2. crew[t].parallel \notin Pooled
  <2> SUFFICES ASSUME NEW p, p = crew[t].parallel, p \in Pooled PROVE FALSE
    OBVIOUS
  <2>1. p \in ParallelObjects \cup {NULL}
    BY <1>0, Member
  <2>2. p \in ParallelObjects /\ p \in Range(parallel_regions_free_list)
    BY <1>0, <2>1, PooledObjects, OmptAssumption
  <2>3. ReferencesOK(p) /\ parallel[p].ref_count = 0
    BY <2>2 DEF ObjectsOK, ReferencesOK
  <2>4. Cardinality(Users(p)) + OwedByPrimary(p) = 0
    BY <2>2, <2>3 DEF ReferencesOK
  <2>5. IsFiniteSet(Users(p)) /\ Cardinality(Users(p)) \in Nat /\ OwedByPrimary(p) \in Nat
    BY <1>0, <2>2, UsersFinite, OwedIsNat
  <2>6. Users(p) = {} /\ OwedByPrimary(p) = 0
    BY <2>4, <2>5, FS_EmptySet
  <2>7. Pc(t) # "idle"
    BY <2>2, Setting, <1>0 DEF ObjectsOK, UsesTask
  <2>8. Pc(t) = "join"
    BY <2>6, <2>7 DEF Users
  <2>9. t = Primary
    BY <1>0, <2>8, Setting DEF TeamOK
  <2> QED BY <2>2, <2>6, <2>9, OwedIsNat
<1> QED BY <1>1, <1>2

LEMMA InUseNotPooled ==
  ASSUME OmptIInv, ObjectsOK, NEW t \in OmpThreads
  PROVE  InUse(t) \cap Pooled = {}
<1>0. TypesOK /\ TasksOK
  BY DEF OmptIInv
<1>1. ASSUME NEW o \in {crew[t].ptr, crew[t].ends} \ {NULL}
      PROVE  \E u \in OmpThreads : o = crew[u].ptr /\ task[o].parallel = crew[u].parallel
  <2>1. \E u \in OmpThreads : o = crew[u].ptr
    <3>1. crew[t].ends \in {NULL, crew[t].ptr} \/ Overdue(t)
      BY DEF ObjectsOK, UsesTask
    <3> QED BY <1>0, <3>1 DEF TasksOK
  <2>2. PICK u \in OmpThreads : o = crew[u].ptr
    BY <2>1
  <2> QED BY <2>2 DEF ObjectsOK, UsesTask
<1>2. NULL \notin Pooled
  BY <1>0, PooledObjects
<1>3. crew[t].ptr \notin Pooled /\ crew[t].parallel \notin Pooled
  BY OwnNotPooled
<1>4. crew[t].ends \notin Pooled
  BY <1>1, <1>2, OwnNotPooled
<1>5. \A o \in {crew[t].ptr, crew[t].ends} \ {NULL} : task[o].parallel \notin Pooled
  BY <1>1, OwnNotPooled
<1> QED BY <1>3, <1>4, <1>5 DEF InUse

(* Once finished, all that was ever used is in the pools. *)
LEMMA AllReturned ==
  ASSUME OmptIInv, ObjectsOK, OmptFinished
  PROVE  Pooled = (ParallelObjects \ NewParallels) \cup (TaskObjects \ NewTasks)
<1>0. TypesOK /\ TasksOK /\ FreeOK /\ Primary \in OmpThreads /\ NULL \notin ParallelObjects /\ NULL \notin TaskObjects
  BY Setting DEF OmptIInv
<1>1. \A t \in OmpThreads : Pc(t) = "idle" /\ crew[t].ptr = NULL /\ crew[t].parallel = NULL
  <2>1. \A t \in OmpThreads : Pc(t) = "idle"
    BY DEF OmptFinished, At, Pc
  <2> QED BY <1>0, <2>1 DEF TasksOK, ObjectsOK, UsesTask
<1>2. ASSUME NEW p \in ParallelObjects PROVE p \in Range(parallel_regions_free_list) <=> p \notin NewParallels
  <2>1. ReferencesOK(p)
    BY DEF ObjectsOK
  <2>2. Users(p) = {} /\ ~Beginning(p) /\ OwedByPrimary(p) = 0
    BY <1>0, <1>1 DEF Users, Beginning, OwedByPrimary
  <2>3. Cardinality(Users(p)) = 0
    BY <2>2, FS_EmptySet
  <2>4. parallel[p].region # 0 => parallel[p].ref_count = 0
    BY <2>1, <2>2, <2>3 DEF ReferencesOK
  <2> QED BY <2>1, <2>4 DEF NewParallels, ReferencesOK
<1>3. ASSUME NEW o \in TaskObjects PROVE o \in FreeTasks <=> o \notin NewTasks
  <2>1. o \in FreeTasks => o \notin NewTasks
    BY <1>0 DEF FreeOK, FreeTasks
  <2>2. o \notin NewTasks => o \in FreeTasks
    BY <1>0, <1>1 DEF ObjectsOK, Placed, NewTasks, FreeTasks
  <2> QED BY <2>1, <2>2
<1> QED BY <1>0, <1>2, <1>3, PooledObjects

LEMMA ObjectsOKLive == OmptIInv /\ ObjectsOK => ObjectsLive
<1> SUFFICES ASSUME OmptIInv, ObjectsOK PROVE ObjectsLive
  OBVIOUS
<1>0. TypesOK /\ StoredOK /\ Primary \in OmpThreads
  BY Setting DEF OmptIInv
<1>1. ASSUME NEW l \in LocationIds, stored_task[l] \in Pooled PROVE At(Primary, "join")
  <2>1. NULL \notin Pooled /\ Encountering \notin Pooled
    BY <1>0, PooledObjects
  <2>2. \A t \in OmpThreads : stored_task[l] # crew[t].ptr
    BY <1>1, OwnNotPooled
  <2>3. l = 0
    <3>1. stored_task[l] = NULL \/ l = 0 \/ \E t \in OmpThreads : crew[t].index = l /\ Owns(t)
      BY <1>0 DEF StoredOK
    <3> QED BY <1>1, <2>1, <2>2, <3>1 DEF Owns
  <2> QED BY <1>0, <1>1, <2>1, <2>2, <2>3 DEF ObjectsOK, StoredAtFirst, At, Pc
<1>2. \A t \in OmpThreads : InUse(t) \cap Pooled = {}
  BY InUseNotPooled
<1>3. PooledOnce /\ (OmptFinished => Pooled = (ParallelObjects \ NewParallels) \cup (TaskObjects \ NewTasks))
  BY OncePooled, AllReturned
<1> QED BY <1>1, <1>2, <1>3 DEF ObjectsLive

(* ObjectsLive: no task and no region of a thread that has still to write  *)
(* an end, its own or another's, is ever in a pool, where the next region  *)
(* would take it; no object is in the pools twice; and at the end of the   *)
(* measurement all are returned.  This is so for any number of threads and *)
(* regions, whatever the order of the OpenMP runtime's callbacks.          *)
THEOREM ObjectsOutliveTheirUse == OmptSpec => []ObjectsLive
<1>1. OmptInit => OmptIInv /\ ObjectsOK
  BY OmptInitially, ObjectsInitially
<1>2. OmptIInv /\ ObjectsOK /\ [OmptNext]_omptVars => (OmptIInv /\ ObjectsOK)'
  BY OmptStep, ObjectsStep
<1>3. OmptIInv /\ ObjectsOK => ObjectsLive
  BY ObjectsOKLive
<1> QED BY <1>1, <1>2, <1>3, PTL DEF OmptSpec

-----------------------------------------------------------------------------
(* The times of the events when the runtime reports late.                  *)

Late == omp.setup.runtime = "late"
(* The region of the task that a thread ends, or will end. *)
ItsRegion(t) == IF Overdue(t) THEN EndsParallel(t) ELSE crew[t].parallel
(* The time of the last event of a location. *)
LastTime(l) == log[l][Len(log[l])].time

(* Whether a thread has still to write the end of a barrier; of a task.    *)
AtBarrier(t) == Claims(t) /\ Pc(t) \in {"barrier", "exchange", "ibarrier_end", "write ibarrier_end"}
AtTaskEnd(t) == Pc(t) \in {"left", "task_end", "write task_end"}

(* The primary thread has stored both times of a region; it has yet to     *)
(* store the time of the barrier's end; of the task's end; it has stored   *)
(* both.                                                                   *)
Ended(p) == parallel[p].ibarrier_end # 0 /\ parallel[p].itask_end # 0
BeforeBarrierEnd == PrimaryPhase \/ Pc(Primary) \in {"exchange", "ibarrier_end", "write ibarrier_end"}
BeforeTaskEnd == BeforeBarrierEnd \/ AtTaskEnd(Primary)
PrimaryDone == Pc(Primary) \in {"release", "join"}

(* Threads of one region have different indices, and they are taken.       *)
IndicesOK ==
  /\ \A t \in Workers : Pc(t) # "idle" /\ crew[t].parallel = crew[Primary].parallel =>
       crew[t].index \in taken[omp.region]
  /\ \A t, u \in Workers :
       Pc(t) # "idle" /\ Pc(u) # "idle" =>
         (crew[u].parallel = crew[t].parallel /\ crew[u].index = crew[t].index => t = u)

(* The times of a location never decrease, and none is of the future. *)
LogTimes ==
  \A l \in LocationIds :
    /\ \A i \in 1 .. Len(log[l]) : log[l][i].time <= Now
    /\ \A i \in 1 .. Len(log[l]) - 1 : log[l][i].time <= log[l][i + 1].time

(* The times of a region. *)
StoredTimes(p) ==
  /\ parallel[p].ibarrier_end <= 2 * stamps /\ parallel[p].itask_end <= 2 * stamps
  /\ parallel[p].itask_end # 0 => parallel[p].ibarrier_end <= parallel[p].itask_end

(* The primary thread takes its times after all have arrived.              *)
PrimaryTimes ==
  LET p == crew[Primary].parallel
      time == crew[Primary].time
  IN  /\ BeforeBarrierEnd => parallel[p].ibarrier_end = 0
      /\ BeforeTaskEnd => parallel[p].itask_end = 0
      /\ AtTaskEnd(Primary) => parallel[p].ibarrier_end # 0 \/ Size(omp.region) = 1
      /\ Pc(Primary) \in {"write ibarrier_end", "write task_end"} =>
           time # 0 /\ time <= 2 * stamps /\ LastTime(0) <= time /\ parallel[p].ibarrier_end <= time
      /\ Pc(Primary) = "write ibarrier_end" =>
           \A t \in Workers : AtBarrier(t) /\ ItsRegion(t) = p => LastTime(crew[t].index) <= time

(* A region of more than one thread; its times are stored when the primary *)
(* thread has left it.                                                     *)
WorkerRegion(t) ==
  LET p == crew[t].parallel
  IN  Pc(t) # "idle" => /\ Size(parallel[p].region) # 1
                        /\ p # crew[Primary].parallel \/ PrimaryDone => Ended(p)

(* A worker writes an end after the primary thread, with the stored time,  *)
(* which is not before the last event of the location.                     *)
WorkerEnd(t) ==
  LET p == ItsRegion(t)
  IN  /\ Pc(t) \in Ending \cup {"exchange", "release"} => Ended(p)
      /\ Pc(t) = "write ibarrier_end" => crew[t].time = parallel[p].ibarrier_end
      /\ Pc(t) = "write task_end" => crew[t].time = parallel[p].itask_end
      /\ AtBarrier(t) /\ parallel[p].ibarrier_end # 0 => LastTime(crew[t].index) <= parallel[p].ibarrier_end
      /\ AtTaskEnd(t) => LastTime(crew[t].index) <= parallel[p].itask_end

LateTimes ==
  /\ LogTimes /\ PrimaryTimes
  /\ \A p \in ParallelObjects : StoredTimes(p)
  /\ \A t \in Workers : WorkerRegion(t) /\ WorkerEnd(t)

TimesOK == Late => IndicesOK /\ LateTimes

-----------------------------------------------------------------------------
(* What the proof uses of the invariants above: the primary thread has     *)
(* index 0 and writes no overdue end.                                      *)
LEMMA TimesSetting ==
  ASSUME OmptIInv
  PROVE  /\ TypesOK /\ TeamOK /\ CountOK /\ TasksOK /\ StoredOK /\ ClaimsOK /\ LogOK
         /\ Primary \in OmpThreads /\ Workers = OmpThreads \ {Primary} /\ 0 \in LocationIds
         /\ NULL \notin ParallelObjects /\ NULL \notin TaskObjects
         /\ crew[Primary].index = 0 /\ ~Overdue(Primary)
         /\ \A t \in Workers : t \in OmpThreads /\ t # Primary
                               /\ (Pc(t) # "idle" => crew[t].index # 0 /\ crew[t].parallel \in ParallelObjects)
<1>1. /\ TypesOK /\ TeamOK /\ CountOK /\ TasksOK /\ StoredOK /\ ClaimsOK /\ LogOK
      /\ Primary \in OmpThreads /\ Workers = OmpThreads \ {Primary} /\ 0 \in LocationIds
      /\ NULL \notin ParallelObjects /\ NULL \notin TaskObjects
  BY Setting DEF OmptIInv
<1>2. crew[Primary].index = 0
  BY <1>1 DEF TeamOK
<1>3. \A t \in Workers : t \in OmpThreads /\ t # Primary
                         /\ (Pc(t) # "idle" => crew[t].index # 0 /\ crew[t].parallel \in ParallelObjects)
  BY <1>1 DEF TeamOK
<1>4. ~Overdue(Primary)
  <2> SUFFICES ASSUME Overdue(Primary) PROVE FALSE
    OBVIOUS
  <2>1. PICK u \in OmpThreads \ {Primary} : crew[u].index = 0 /\ Pc(u) \in {"barrier", "exchange", "release"}
    BY <1>1, <1>2 DEF TasksOK
  <2> QED BY <1>1, <1>3, <2>1
<1> QED BY <1>1, <1>2, <1>3, <1>4

(* The task that a thread ends is of its region and its location.          *)
LEMMA EndsItsRegion ==
  ASSUME OmptIInv, ObjectsOK, NEW t \in OmpThreads, Pc(t) \in Ending
  PROVE  /\ EndsParallel(t) = ItsRegion(t) /\ ItsRegion(t) \in ParallelObjects
         /\ Ends(t).index = crew[t].index /\ (crew[t].index = 0 <=> t = Primary)
         /\ Claims(t) /\ (EndsOwn(t) <=> ~Overdue(t))
         /\ t = Primary => ItsRegion(t) = crew[t].parallel /\ EndsOwn(t)
<1>0. TypesOK /\ TasksOK /\ crew[Primary].index = 0 /\ ~Overdue(Primary) /\ Workers = OmpThreads \ {Primary}
      /\ NULL \notin TaskObjects
  BY TimesSetting
<1>1. /\ crew[t].ends \in TaskObjects /\ Ends(t).index = crew[t].index
      /\ EndsParallel(t) \in ParallelObjects /\ crew[t].ptr \in {NULL, crew[t].ends}
  BY <1>0, EndsFacts
<1>2. crew[t].index = 0 <=> t = Primary
  <2>1. Pc(t) # "idle"
    BY DEF Ending
  <2> QED BY <1>0, <2>1, TimesSetting
<1>3. EndsOwn(t) <=> ~Overdue(t)
  BY <1>0, <1>1 DEF EndsOwn, Overdue
<1>4. ~Overdue(t) => EndsParallel(t) = crew[t].parallel
  <2> SUFFICES ASSUME ~Overdue(t) PROVE EndsParallel(t) = crew[t].parallel
    OBVIOUS
  <2>1. crew[t].ptr = crew[t].ends /\ crew[t].ptr # NULL
    BY <1>0, <1>1, <1>3 DEF EndsOwn
  <2>2. UsesTask(t)
    BY DEF ObjectsOK
  <2> QED BY <2>1, <2>2 DEF UsesTask, EndsParallel, Ends
<1>5. EndsParallel(t) = ItsRegion(t)
  BY <1>4 DEF ItsRegion
<1> QED BY <1>0, <1>1, <1>2, <1>3, <1>4, <1>5 DEF Claims

(* The last event of a location is of the past.                            *)
LEMMA LastIsPast ==
  ASSUME TypesOK, LogTimes, NEW l \in LocationIds, log[l] # << >>
  PROVE  LastTime(l) \in Nat /\ LastTime(l) <= Now /\ Now = 2 * stamps + 1 /\ stamps \in Nat
<1>1. log[l] \in Seq(Events) /\ stamps \in Nat
  BY DEF TypesOK
<1>2. Len(log[l]) \in 1 .. Len(log[l])
  BY <1>1, LenProperties, EmptySeq
<1>3. log[l][Len(log[l])] \in Events
  BY <1>1, <1>2, ElementOfSeq
<1> QED BY <1>1, <1>2, <1>3 DEF LogTimes, LastTime, Events, Now

(* The location of a thread that has a claim to it is not empty.           *)
LEMMA ClaimedLast ==
  ASSUME OmptIInv, LogTimes, NEW t \in OmpThreads, Claims(t)
  PROVE  /\ crew[t].index \in LocationIds
         /\ LastTime(crew[t].index) \in Nat /\ LastTime(crew[t].index) <= Now
<1>1. TypesOK /\ LogOK /\ crew[t].index \in LocationIds
  BY TimesSetting, Member
<1>2. PICK l \in LocationIds : l = crew[t].index
  BY <1>1
<1>3. PlaceOfLog(t, l)
  BY <1>1, <1>2 DEF LogOK
<1>4. Pc(t) \in Ending \/ Pc(t) \in {"work", "barrier", "exchange"}
  BY DEF Claims, Owns
<1>5. log[l] # << >>
  BY <1>3, <1>4 DEF PlaceOfLog, LastIs, OneThread, Ending
<1> QED BY <1>1, <1>2, <1>5, LastIsPast

(* An event is written whose time is neither of the future nor before that *)
(* of the last one.                                                        *)
LEMMA TimeWritten ==
  ASSUME TypesOK, LogTimes, UNCHANGED stamps, NEW l \in LocationIds, NEW e \in Events,
         log' = [log EXCEPT ![l] = @ \o <<e>>],
         e.time <= Now, log[l] = << >> \/ LastTime(l) <= e.time
  PROVE  /\ LogTimes' /\ LastTime(l)' = e.time
         /\ \A m \in LocationIds \ {l} : log'[m] = log[m]
<1>1. log \in [LocationIds -> Seq(Events)] /\ log[l] \in Seq(Events)
  BY DEF TypesOK
<1> DEFINE s == log[l]  new == s \o <<e>>
<1>2. /\ Len(s) \in Nat /\ Len(new) = Len(s) + 1
      /\ \A i \in 1 .. Len(s) : new[i] = s[i]
      /\ new[Len(s) + 1] = e
  BY <1>1, LogWritten
<1>3. log'[l] = new /\ \A m \in LocationIds \ {l} : log'[m] = log[m]
  BY <1>1
<1>4. s = << >> \/ (Len(s) \in 1 .. Len(s) /\ s[Len(s)].time <= e.time)
  <2>1. s # << >> => Len(s) \in 1 .. Len(s)
    BY <1>1, LenProperties, EmptySeq
  <2> QED BY <2>1 DEF LastTime
<1>5. /\ \A i \in 1 .. Len(s) : s[i].time <= Now
      /\ \A i \in 1 .. Len(s) - 1 : s[i].time <= s[i + 1].time
  BY DEF LogTimes
<1>6. s = << >> => Len(s) = 0
  BY <1>1, EmptySeq
<1> HIDE DEF new
<1>7. ASSUME NEW i \in 1 .. Len(new) PROVE new[i].time <= Now
  <2>1. i \in 1 .. Len(s) \/ i = Len(s) + 1
    BY <1>2
  <2> QED BY <1>2, <1>5, <2>1
<1>8. ASSUME NEW i \in 1 .. Len(new) - 1 PROVE new[i].time <= new[i + 1].time
  <2>1. CASE i = Len(s)
    BY <1>2, <1>4, <1>6, <2>1
  <2>2. CASE i # Len(s)
    <3>1. i \in 1 .. Len(s) - 1 /\ i \in 1 .. Len(s) /\ i + 1 \in 1 .. Len(s)
      BY <1>2, <2>2
    <3> QED BY <1>2, <1>5, <3>1
  <2> QED BY <2>1, <2>2
<1>9. Now' = Now
  BY DEF Now
<1>10. LogTimes'
  <2>1. ASSUME NEW m \in LocationIds
        PROVE  /\ \A i \in 1 .. Len(log'[m]) : log'[m][i].time <= Now
               /\ \A i \in 1 .. Len(log'[m]) - 1 : log'[m][i].time <= log'[m][i + 1].time
    <3>1. CASE m = l
      BY <1>3, <1>7, <1>8, <3>1
    <3>2. CASE m # l
      BY <1>3, <3>2 DEF LogTimes
    <3> QED BY <3>1, <3>2
  <2> QED BY <1>9, <2>1 DEF LogTimes
<1>11. LastTime(l)' = e.time
  BY <1>2, <1>3 DEF LastTime
<1> QED BY <1>3, <1>10, <1>11

(* Time passes: what is of the past remains so. *)
LEMMA Later ==
  ASSUME NEW m \in Nat, NEW n \in Nat, m <= n
  PROVE  /\ 2 * m + 1 \in Nat /\ 2 * n + 1 \in Nat /\ 2 * m + 1 <= 2 * n + 1
         /\ \A time \in Nat : time <= 2 * m => time <= 2 * n
  OBVIOUS

(* Nothing is written while time passes. *)
LEMMA TimePasses ==
  ASSUME TypesOK, LogTimes, UNCHANGED log, stamps' \in Nat, stamps <= stamps'
  PROVE  LogTimes'
<1>1. Now <= Now' /\ Now \in Nat /\ Now' \in Nat
  <2>1. PICK m \in Nat, n \in Nat : m = stamps /\ n = stamps' /\ m <= n
    BY DEF TypesOK
  <2>2. 2 * m + 1 \in Nat /\ 2 * n + 1 \in Nat /\ 2 * m + 1 <= 2 * n + 1
    BY <2>1, Later
  <2>3. Now = 2 * m + 1 /\ Now' = 2 * n + 1
    BY <2>1 DEF Now
  <2> QED BY <2>2, <2>3
<1>2. ASSUME NEW l \in LocationIds, NEW i \in 1 .. Len(log[l]) PROVE log[l][i].time <= Now'
  <2>1. log[l] \in Seq(Events)
    BY DEF TypesOK
  <2>2. log[l][i] \in Events
    BY <2>1, ElementOfSeq
  <2>3. log[l][i].time \in Nat /\ log[l][i].time <= Now
    BY <2>2 DEF Events, LogTimes
  <2> QED BY <1>1, <2>3
<1> QED BY <1>2 DEF LogTimes

-----------------------------------------------------------------------------
(* A step after which a region has the same size and times. *)
SameTimes(p) ==
  /\ parallel'[p].region = parallel[p].region
  /\ parallel'[p].ibarrier_end = parallel[p].ibarrier_end /\ parallel'[p].itask_end = parallel[p].itask_end

(* What is said of the region of a worker that stays in it.                *)
LEMMA OtherRegion ==
  ASSUME NEW u \in Workers, WorkerRegion(u), omp'.setup = omp.setup,
         crew'[u].parallel = crew[u].parallel, Pc(u)' # "idle" => Pc(u) # "idle",
         Pc(u) # "idle" =>
           /\ parallel'[crew[u].parallel].region = parallel[crew[u].parallel].region
           /\ Ended(crew[u].parallel) => Ended(crew[u].parallel)'
           /\ crew[u].parallel # crew'[Primary].parallel \/ PrimaryDone' =>
                crew[u].parallel # crew[Primary].parallel \/ PrimaryDone \/ Ended(crew[u].parallel)'
  PROVE  WorkerRegion(u)'
<1>1. PICK p : p = crew[u].parallel /\ p = crew'[u].parallel
  OBVIOUS
<1>2. /\ Pc(u) # "idle" => /\ Size(parallel[p].region) # 1
                           /\ p # crew[Primary].parallel \/ PrimaryDone => Ended(p)
      /\ Pc(u)' # "idle" => Pc(u) # "idle"
  BY <1>1 DEF WorkerRegion
<1>3. \A r : Size(r)' = Size(r)
  BY DEF Size
<1>4. Ended(crew[u].parallel)' <=> Ended(p)'
  BY <1>1 DEF Ended
<1>5. Pc(u) # "idle" => /\ omp'.setup.sizes[parallel'[p].region] # 1
                        /\ p # crew'[Primary].parallel \/ PrimaryDone' => Ended(p)'
  <2> SUFFICES ASSUME Pc(u) # "idle"
               PROVE  omp'.setup.sizes[parallel'[p].region] # 1 /\ (p # crew'[Primary].parallel \/ PrimaryDone' => Ended(p)')
    OBVIOUS
  <2>1. parallel'[p].region = parallel[p].region
    BY <1>1
  <2>2. omp'.setup.sizes[parallel'[p].region] # 1
    BY <1>2, <2>1 DEF Size
  <2>3. Ended(p) => Ended(p)'
    BY <1>1, <1>4 DEF Ended
  <2> QED BY <1>1, <1>2, <1>4, <2>2, <2>3
<1> QED BY <1>1, <1>2, <1>5 DEF WorkerRegion, Ended, Size

(* What is said of the end that a worker that does not move writes.        *)
LEMMA OtherEnd ==
  ASSUME NEW u \in Workers, WorkerEnd(u), crew'[u] = crew[u],
         Owns(u)' => Owns(u),
         Overdue(u) => task'[crew[u].ends].parallel = task[crew[u].ends].parallel,
         Claims(u) => log'[crew[u].index] = log[crew[u].index],
         Pc(u) # "idle" => SameTimes(ItsRegion(u))
  PROVE  WorkerEnd(u)'
<1>1. Pc(u)' = Pc(u) /\ (Overdue(u)' <=> Overdue(u)) /\ (Claims(u)' => Claims(u)) /\ (AtBarrier(u)' => AtBarrier(u))
      /\ (AtTaskEnd(u)' <=> AtTaskEnd(u))
  BY DEF Pc, Overdue, Claims, AtBarrier, AtTaskEnd
<1>2. ItsRegion(u)' = ItsRegion(u)
  BY <1>1 DEF ItsRegion, EndsParallel, Ends
<1>3. PICK p, l, time : /\ p = ItsRegion(u) /\ l = crew[u].index /\ time = crew[u].time
                        /\ p = ItsRegion(u)' /\ l = crew'[u].index /\ time = crew'[u].time
  BY <1>2
<1>4. Claims(u) => LastTime(l)' = LastTime(l)
  BY <1>3 DEF LastTime
<1>5. (AtBarrier(u) => Claims(u)) /\ (AtTaskEnd(u) => Claims(u))
  BY DEF AtBarrier, AtTaskEnd, Claims, Ending
<1>6. (AtBarrier(u) => Pc(u) # "idle") /\ (AtTaskEnd(u) => Pc(u) # "idle")
      /\ (Pc(u) \in Ending \cup {"exchange", "release"} => Pc(u) # "idle")
  BY DEF AtBarrier, AtTaskEnd, Ending
<1>7. Pc(u) # "idle" => SameTimes(p)
  BY <1>3
<1>8. /\ Pc(u) \in Ending \cup {"exchange", "release"} => Ended(p)
      /\ Pc(u) = "write ibarrier_end" => time = parallel[p].ibarrier_end
      /\ Pc(u) = "write task_end" => time = parallel[p].itask_end
      /\ AtBarrier(u) /\ parallel[p].ibarrier_end # 0 => LastTime(l) <= parallel[p].ibarrier_end
      /\ AtTaskEnd(u) => LastTime(l) <= parallel[p].itask_end
  BY <1>3 DEF WorkerEnd
<1>9. /\ Pc(u) \in Ending \cup {"exchange", "release"} => Ended(p)'
      /\ Pc(u) = "write ibarrier_end" => time = parallel'[p].ibarrier_end
      /\ Pc(u) = "write task_end" => time = parallel'[p].itask_end
      /\ AtBarrier(u) /\ parallel'[p].ibarrier_end # 0 => LastTime(l)' <= parallel'[p].ibarrier_end
      /\ AtTaskEnd(u) => LastTime(l)' <= parallel'[p].itask_end
  BY <1>4, <1>5, <1>6, <1>7, <1>8 DEF SameTimes, Ended
<1> QED BY <1>1, <1>3, <1>9 DEF WorkerEnd, Ended, LastTime

(* What is said of the primary thread while a worker moves.                *)
LEMMA OtherPrimary ==
  ASSUME OmptIInv, PrimaryTimes, crew'[Primary] = crew[Primary], SameRegion,
         stamps' \in Nat, stamps <= stamps',
         Pc(Primary) # "idle" => SameTimes(crew[Primary].parallel),
         Claims(Primary) => log'[0] = log[0],
         Pc(Primary) = "write ibarrier_end" =>
           \A u \in Workers : AtBarrier(u)' /\ ItsRegion(u)' = crew[Primary].parallel =>
             /\ AtBarrier(u) /\ ItsRegion(u) = crew[Primary].parallel /\ crew'[u].index = crew[u].index
             /\ log'[crew[u].index] = log[crew[u].index]
  PROVE  PrimaryTimes'
<1>1. PICK p, time : /\ p = crew[Primary].parallel /\ time = crew[Primary].time
                     /\ p = crew'[Primary].parallel /\ time = crew'[Primary].time
  OBVIOUS
<1>2. /\ Pc(Primary)' = Pc(Primary) /\ (BeforeBarrierEnd' <=> BeforeBarrierEnd) /\ (BeforeTaskEnd' <=> BeforeTaskEnd)
      /\ (AtTaskEnd(Primary)' <=> AtTaskEnd(Primary))
  BY DEF Pc, BeforeBarrierEnd, BeforeTaskEnd, AtTaskEnd, PrimaryPhase
<1>3. /\ BeforeBarrierEnd => Pc(Primary) # "idle"
      /\ BeforeTaskEnd => Pc(Primary) # "idle"
      /\ AtTaskEnd(Primary) => Pc(Primary) # "idle"
      /\ Pc(Primary) \in {"write ibarrier_end", "write task_end"} => Pc(Primary) # "idle" /\ Claims(Primary)
  BY DEF BeforeBarrierEnd, BeforeTaskEnd, AtTaskEnd, PrimaryPhase, Claims, Ending
<1>4. time \in Nat /\ stamps \in Nat
  BY <1>1, TimesSetting, Member DEF TypesOK
<1>5. time <= 2 * stamps => time <= 2 * stamps'
  <2>1. PICK m \in Nat, n \in Nat : m = stamps /\ n = stamps' /\ m <= n
    BY <1>4
  <2>2. time <= 2 * m => time <= 2 * n
    BY <1>4, <2>1, Later
  <2> QED BY <2>1, <2>2
<1>6. Size(omp.region)' = Size(omp.region)
  BY DEF SameRegion, Size
<1>7. Claims(Primary) => LastTime(0)' = LastTime(0)
  BY DEF LastTime
<1>8. Pc(Primary) # "idle" => SameTimes(p)
  BY <1>1
<1>9. /\ BeforeBarrierEnd => parallel[p].ibarrier_end = 0
      /\ BeforeTaskEnd => parallel[p].itask_end = 0
      /\ AtTaskEnd(Primary) => parallel[p].ibarrier_end # 0 \/ Size(omp.region) = 1
      /\ Pc(Primary) \in {"write ibarrier_end", "write task_end"} =>
           time # 0 /\ time <= 2 * stamps /\ LastTime(0) <= time /\ parallel[p].ibarrier_end <= time
      /\ Pc(Primary) = "write ibarrier_end" =>
           \A t \in Workers : AtBarrier(t) /\ ItsRegion(t) = p => LastTime(crew[t].index) <= time
  BY <1>1 DEF PrimaryTimes
<1>10. /\ BeforeBarrierEnd' => parallel'[p].ibarrier_end = 0
       /\ BeforeTaskEnd' => parallel'[p].itask_end = 0
       /\ AtTaskEnd(Primary)' => parallel'[p].ibarrier_end # 0 \/ Size(omp.region)' = 1
  BY <1>2, <1>3, <1>6, <1>8, <1>9 DEF SameTimes
<1>11. Pc(Primary)' \in {"write ibarrier_end", "write task_end"} =>
         time # 0 /\ time <= 2 * stamps' /\ LastTime(0)' <= time /\ parallel'[p].ibarrier_end <= time
  BY <1>2, <1>3, <1>5, <1>7, <1>8, <1>9 DEF SameTimes
<1>12. Pc(Primary)' = "write ibarrier_end" =>
         \A t \in Workers : AtBarrier(t)' /\ ItsRegion(t)' = p => LastTime(crew[t].index)' <= time
  <2> SUFFICES ASSUME Pc(Primary)' = "write ibarrier_end", NEW t \in Workers, AtBarrier(t)', ItsRegion(t)' = p
               PROVE  LastTime(crew[t].index)' <= time
    OBVIOUS
  <2>1. /\ AtBarrier(t) /\ ItsRegion(t) = p /\ crew'[t].index = crew[t].index
        /\ log'[crew[t].index] = log[crew[t].index]
    BY <1>1, <1>2
  <2>2. LastTime(crew[t].index) <= time
    BY <1>2, <1>9, <2>1
  <2> QED BY <2>1, <2>2 DEF LastTime
<1> QED BY <1>1, <1>10, <1>11, <1>12 DEF PrimaryTimes

(* What a step that changes no region must show of the thread that moves.  *)
LEMMA TimesStep ==
  ASSUME OmptIInv, LateTimes, NEW t \in OmpThreads, Others(t), SameRegion, LogTimes',
         stamps' \in Nat, stamps <= stamps',
         \A p \in ParallelObjects : SameTimes(p),
         \A u \in OmpThreads \ {t} :
           /\ Owns(u)' => Owns(u)
           /\ Claims(u) => log'[crew[u].index] = log[crew[u].index]
           /\ Overdue(u) => task'[crew[u].ends].parallel = task[crew[u].ends].parallel,
         t # Primary =>
           /\ WorkerRegion(t)' /\ WorkerEnd(t)'
           /\ Pc(Primary) = "write ibarrier_end" /\ AtBarrier(t)' =>
                /\ AtBarrier(t) /\ ItsRegion(t)' = ItsRegion(t) /\ crew'[t].index = crew[t].index
                /\ log'[crew[t].index] = log[crew[t].index],
         t = Primary =>
           /\ PrimaryTimes' /\ (PrimaryDone' => PrimaryDone)
           /\ crew'[Primary].parallel = crew[Primary].parallel \/ PrimaryDone
  PROVE  LateTimes'
<1>0. /\ TypesOK /\ TasksOK /\ Primary \in OmpThreads /\ Workers = OmpThreads \ {Primary}
      /\ crew[Primary].index = 0
  BY TimesSetting
<1>1. \A u \in Workers : Pc(u) # "idle" => crew[u].parallel \in ParallelObjects /\ ItsRegion(u) \in ParallelObjects
  <2> SUFFICES ASSUME NEW u \in Workers, Pc(u) # "idle"
               PROVE  crew[u].parallel \in ParallelObjects /\ ItsRegion(u) \in ParallelObjects
    OBVIOUS
  <2>1. crew[u].parallel \in ParallelObjects /\ u \in OmpThreads
    BY TimesSetting
  <2>2. Overdue(u) => EndsParallel(u) \in ParallelObjects
    BY <1>0, <2>1, EndsFacts DEF Overdue
  <2> QED BY <2>1, <2>2 DEF ItsRegion
<1>2. t # Primary => crew'[Primary] = crew[Primary] /\ (PrimaryDone' <=> PrimaryDone)
  BY <1>0 DEF Others, PrimaryDone, Pc
<1>3. ASSUME NEW u \in Workers, u # t PROVE WorkerRegion(u)'
  <2>1. crew'[u] = crew[u] /\ WorkerRegion(u) /\ omp'.setup = omp.setup /\ Pc(u)' = Pc(u)
    BY <1>0, <1>3 DEF Others, LateTimes, SameRegion, Pc
  <2>2. Pc(u) # "idle" =>
          /\ parallel'[crew[u].parallel].region = parallel[crew[u].parallel].region
          /\ Ended(crew[u].parallel) => Ended(crew[u].parallel)'
    <3>1. Pc(u) # "idle" => SameTimes(crew[u].parallel)
      BY <1>1
    <3> QED BY <2>1, <3>1 DEF SameTimes, Ended
  <2>3. crew[u].parallel # crew'[Primary].parallel \/ PrimaryDone' =>
          crew[u].parallel # crew[Primary].parallel \/ PrimaryDone
    BY <1>2
  <2> QED BY <2>1, <2>2, <2>3, OtherRegion
<1>4. ASSUME NEW u \in Workers, u # t PROVE WorkerEnd(u)'
  <2>1. crew'[u] = crew[u] /\ WorkerEnd(u) /\ u \in OmpThreads \ {t}
    BY <1>0, <1>4 DEF Others, LateTimes
  <2> QED BY <1>1, <2>1, OtherEnd
<1>5. PrimaryTimes'
  <2>1. CASE t = Primary
    BY <2>1
  <2>2. CASE t # Primary
    <3>1. Pc(Primary) # "idle" => SameTimes(crew[Primary].parallel)
      BY <1>0 DEF TeamOK, OmptIInv
    <3>2. Claims(Primary) => log'[0] = log[0]
      BY <1>0, <2>2
    <3>3. ASSUME Pc(Primary) = "write ibarrier_end", NEW u \in Workers,
                 AtBarrier(u)', ItsRegion(u)' = crew[Primary].parallel
          PROVE  /\ AtBarrier(u) /\ ItsRegion(u) = crew[Primary].parallel /\ crew'[u].index = crew[u].index
                 /\ log'[crew[u].index] = log[crew[u].index]
      <4>1. CASE u = t
        BY <2>2, <3>3, <4>1
      <4>2. CASE u # t
        <5>1. u \in OmpThreads \ {t} /\ crew'[u] = crew[u]
          BY <1>0, <4>2 DEF Others
        <5>2. (Overdue(u)' <=> Overdue(u)) /\ AtBarrier(u) /\ Claims(u)
          BY <3>3, <5>1 DEF AtBarrier, Claims, Pc, Overdue
        <5>3. ItsRegion(u)' = ItsRegion(u)
          BY <5>1, <5>2 DEF ItsRegion, EndsParallel, Ends
        <5> QED BY <3>3, <5>1, <5>2, <5>3
      <4> QED BY <4>1, <4>2
    <3> QED BY <1>2, <2>2, <3>1, <3>2, <3>3, OtherPrimary DEF LateTimes
  <2> QED BY <2>1, <2>2
<1>6. ASSUME NEW p \in ParallelObjects PROVE StoredTimes(p)'
  <2>1. PICK m \in Nat, n \in Nat : m = stamps /\ n = stamps' /\ m <= n
    BY <1>0 DEF TypesOK
  <2>2. PICK b \in Nat, e \in Nat : /\ b = parallel[p].ibarrier_end /\ e = parallel[p].itask_end
    BY <1>0 DEF TypesOK, ParallelRecords
  <2>3. b <= 2 * m /\ e <= 2 * m /\ (e # 0 => b <= e)
    BY <2>1, <2>2 DEF LateTimes, StoredTimes
  <2>4. b <= 2 * n /\ e <= 2 * n /\ (e # 0 => b <= e)
    BY <2>1, <2>2, <2>3, Later
  <2>5. parallel'[p].ibarrier_end = b /\ parallel'[p].itask_end = e
    BY <2>2 DEF SameTimes
  <2> QED BY <2>1, <2>4, <2>5 DEF StoredTimes
<1>7. ASSUME NEW u \in Workers PROVE WorkerRegion(u)' /\ WorkerEnd(u)'
  <2>1. u # Primary
    BY <1>0
  <2> QED BY <1>3, <1>4, <2>1
<1> QED BY <1>5, <1>6, <1>7 DEF LateTimes

-----------------------------------------------------------------------------
(* What a step leaves alone for the threads that do not move: the tasks    *)
(* that are theirs,                                                        *)
LEMMA OwnsUntouched ==
  ASSUME TypesOK, TasksOK, NEW t \in OmpThreads, Others(t),
         \A l \in LocationIds : \/ stored_task'[l] = stored_task[l] \/ stored_task'[l] \notin TaskObjects
                                \/ \A u \in OmpThreads \ {t} : crew[u].ptr # stored_task'[l]
  PROVE  \A u \in OmpThreads \ {t} : Owns(u)' => Owns(u)
<1> SUFFICES ASSUME NEW u \in OmpThreads \ {t}, Owns(u)' PROVE Owns(u)
  OBVIOUS
<1>1. crew'[u] = crew[u] /\ Pc(u)' = Pc(u) /\ crew[u].index \in LocationIds
  BY Member DEF Others, Pc
<1>2. Pc(u) \in {"work", "barrier", "exchange"} /\ stored_task'[crew[u].index] = crew[u].ptr
  BY <1>1 DEF Owns
<1>3. crew[u].ptr \in TaskObjects
  BY <1>2 DEF TasksOK
<1> QED BY <1>1, <1>2, <1>3 DEF Owns

(* the regions of the tasks whose overdue end they write,                  *)
LEMMA TasksUntouched ==
  ASSUME TypesOK, TasksOK, \A o \in TaskObjects : task'[o].parallel = task[o].parallel
  PROVE  \A u \in OmpThreads : Overdue(u) => task'[crew[u].ends].parallel = task[crew[u].ends].parallel
  BY DEF TasksOK, Overdue

(* and the logs of the locations they have a claim to.                     *)
LEMMA LogsUntouched ==
  ASSUME OmptIInv, NEW t \in OmpThreads, Claims(t) \/ Pc(t) = "team_begin",
         \A l \in LocationIds \ {crew[t].index} : log'[l] = log[l]
  PROVE  \A u \in OmpThreads \ {t} : Claims(u) => log'[crew[u].index] = log[crew[u].index]
<1> SUFFICES ASSUME NEW u \in OmpThreads \ {t}, Claims(u) PROVE crew[u].index \in LocationIds \ {crew[t].index}
  OBVIOUS
<1>1. crew[u].index # crew[t].index
  BY TimesSetting DEF ClaimsOK
<1> QED BY <1>1, TimesSetting, Member

(* A worker that stays in its region. *)
LEMMA RegionStays ==
  ASSUME OmptIInv, LateTimes, NEW t \in Workers, Others(t), SameRegion, \A p \in ParallelObjects : SameTimes(p),
         crew'[t].parallel = crew[t].parallel, Pc(t) # "idle"
  PROVE  WorkerRegion(t)'
<1>1. Primary \in OmpThreads /\ t # Primary /\ crew[t].parallel \in ParallelObjects
  BY TimesSetting
<1>2. crew'[Primary] = crew[Primary] /\ (PrimaryDone' <=> PrimaryDone)
  BY <1>1 DEF Others, PrimaryDone, Pc
<1>3. SameTimes(crew[t].parallel) /\ WorkerRegion(t) /\ omp'.setup = omp.setup
  BY <1>1 DEF LateTimes, SameRegion
<1>4. /\ parallel'[crew[t].parallel].region = parallel[crew[t].parallel].region
      /\ Ended(crew[t].parallel) => Ended(crew[t].parallel)'
  BY <1>3 DEF SameTimes, Ended
<1> QED BY <1>2, <1>3, <1>4, OtherRegion

(* A worker that is not at an end. *)
LEMMA NotAtEnd ==
  ASSUME NEW t \in Workers, Pc(t)' \in {"idle", "begin", "overdue", "team_begin", "work"}
  PROVE  WorkerEnd(t)' /\ ~AtBarrier(t)'
  BY DEF WorkerEnd, AtBarrier, AtTaskEnd, Ending

(* A worker goes on with an end that the primary thread has ended.         *)
LEMMA EndGoesOn ==
  ASSUME NEW t \in Workers, WorkerEnd(t), ItsRegion(t)' = ItsRegion(t), crew'[t].index = crew[t].index,
         log'[crew[t].index] = log[crew[t].index], SameTimes(ItsRegion(t)),
         Pc(t)' \notin {"write ibarrier_end", "write task_end"},
         Ended(ItsRegion(t)), AtBarrier(t)' => AtBarrier(t), AtTaskEnd(t)' => AtTaskEnd(t)
  PROVE  WorkerEnd(t)'
<1>1. PICK p, l : p = ItsRegion(t) /\ l = crew[t].index /\ p = ItsRegion(t)' /\ l = crew'[t].index
  OBVIOUS
<1>2. /\ AtBarrier(t) /\ parallel[p].ibarrier_end # 0 => LastTime(l) <= parallel[p].ibarrier_end
      /\ AtTaskEnd(t) => LastTime(l) <= parallel[p].itask_end
      /\ Ended(p) /\ SameTimes(p) /\ log'[l] = log[l]
  BY <1>1 DEF WorkerEnd
<1>3. /\ AtBarrier(t)' /\ parallel'[p].ibarrier_end # 0 => LastTime(l)' <= parallel'[p].ibarrier_end
      /\ AtTaskEnd(t)' => LastTime(l)' <= parallel'[p].itask_end
      /\ Ended(p)'
  BY <1>2 DEF SameTimes, LastTime, Ended
<1> QED BY <1>1, <1>3 DEF WorkerEnd, LastTime, Ended

(* The primary thread goes on, not to write an end.                        *)
LEMMA PrimaryGoesOn ==
  ASSUME PrimaryTimes, crew'[Primary].parallel = crew[Primary].parallel, SameRegion,
         SameTimes(crew[Primary].parallel),
         BeforeBarrierEnd' => BeforeBarrierEnd, BeforeTaskEnd' => BeforeTaskEnd,
         AtTaskEnd(Primary)' => AtTaskEnd(Primary),
         Pc(Primary)' \notin {"write ibarrier_end", "write task_end"}
  PROVE  PrimaryTimes'
<1>1. PICK p : p = crew[Primary].parallel /\ p = crew'[Primary].parallel
  OBVIOUS
<1>2. /\ BeforeBarrierEnd => parallel[p].ibarrier_end = 0
      /\ BeforeTaskEnd => parallel[p].itask_end = 0
      /\ AtTaskEnd(Primary) => parallel[p].ibarrier_end # 0 \/ Size(omp.region) = 1
      /\ SameTimes(p)
  BY <1>1 DEF PrimaryTimes
<1>3. Size(omp.region)' = Size(omp.region)
  BY DEF SameRegion, Size
<1>4. /\ BeforeBarrierEnd' => parallel'[p].ibarrier_end = 0
      /\ BeforeTaskEnd' => parallel'[p].itask_end = 0
      /\ AtTaskEnd(Primary)' => parallel'[p].ibarrier_end # 0 \/ Size(omp.region)' = 1
  BY <1>2, <1>3 DEF SameTimes
<1> QED BY <1>1, <1>4 DEF PrimaryTimes

(* A step that writes nothing and takes no time.                           *)
LEMMA NoTimePasses ==
  ASSUME TypesOK, UNCHANGED stamps
  PROVE  stamps' \in Nat /\ stamps <= stamps'
  BY DEF TypesOK

LEMMA QuietStep ==
  ASSUME OmptIInv, LateTimes, NEW t \in OmpThreads, Others(t), SameRegion, UNCHANGED <<log, stamps>>,
         \A p \in ParallelObjects : SameTimes(p),
         \A o \in TaskObjects : task'[o].parallel = task[o].parallel,
         \A l \in LocationIds : stored_task'[l] = stored_task[l] \/ stored_task'[l] \notin TaskObjects,
         t # Primary =>
           /\ WorkerRegion(t)' /\ WorkerEnd(t)'
           /\ Pc(Primary) = "write ibarrier_end" /\ AtBarrier(t)' =>
                AtBarrier(t) /\ ItsRegion(t)' = ItsRegion(t) /\ crew'[t].index = crew[t].index,
         t = Primary =>
           /\ PrimaryTimes' /\ (PrimaryDone' => PrimaryDone)
           /\ crew'[Primary].parallel = crew[Primary].parallel \/ PrimaryDone
  PROVE  LateTimes'
<1>1. TypesOK /\ TasksOK
  BY TimesSetting
<1>2. \A u \in OmpThreads \ {t} : Owns(u)' => Owns(u)
  BY <1>1, OwnsUntouched
<1>3. \A u \in OmpThreads : Overdue(u) => task'[crew[u].ends].parallel = task[crew[u].ends].parallel
  BY <1>1, TasksUntouched
<1>4. stamps' \in Nat /\ stamps <= stamps'
  BY <1>1, NoTimePasses
<1>5. LogTimes'
  BY <1>1, <1>4, TimePasses DEF LateTimes
<1> QED BY <1>2, <1>3, <1>4, <1>5, TimesStep

(* ... of a thread that goes on in its region.                             *)
LEMMA QuietMove ==
  ASSUME OmptIInv, LateTimes, NEW t \in OmpThreads, Others(t), Pc(t) # "idle",
         crew'[t].parallel = crew[t].parallel, crew'[t].index = crew[t].index,
         SameRegion, UNCHANGED <<log, stamps>>,
         \A p \in ParallelObjects : SameTimes(p),
         \A o \in TaskObjects : task'[o].parallel = task[o].parallel,
         \A l \in LocationIds : stored_task'[l] = stored_task[l] \/ stored_task'[l] \notin TaskObjects,
         t # Primary =>
           /\ WorkerEnd(t)'
           /\ Pc(Primary) = "write ibarrier_end" /\ AtBarrier(t)' => AtBarrier(t) /\ ItsRegion(t)' = ItsRegion(t),
         t = Primary =>
           /\ BeforeBarrierEnd' => BeforeBarrierEnd
           /\ BeforeTaskEnd' => BeforeTaskEnd
           /\ AtTaskEnd(Primary)' => AtTaskEnd(Primary)
           /\ Pc(Primary)' \notin {"write ibarrier_end", "write task_end"}
           /\ PrimaryDone' => PrimaryDone
  PROVE  LateTimes'
<1>1. t # Primary => WorkerRegion(t)'
  BY TimesSetting, RegionStays
<1>2. t = Primary => PrimaryTimes'
  <2>1. Pc(Primary) # "idle" => crew[Primary].parallel \in ParallelObjects
    BY TimesSetting DEF TeamOK
  <2> QED BY <2>1, PrimaryGoesOn DEF LateTimes
<1> QED BY <1>1, <1>2, QuietStep

-----------------------------------------------------------------------------
(* Up to the barrier nothing is stored. *)
LEMMA ImplicitTaskBeginTimes ==
  ASSUME OmptIInv, LateTimes, NEW t \in OmpThreads, ImplicitTaskBegin(t) PROVE LateTimes'
<1>0. TypesOK /\ TeamOK /\ Workers = OmpThreads \ {Primary}
  BY TimesSetting
<1>1. /\ Pc(t) = "begin" /\ crew' = [crew EXCEPT ![t].pc = "overdue"]
      /\ UNCHANGED <<runtimeVars, task, poolVarsOmpt, locationData, stamps, log>>
  BY DEF ImplicitTaskBegin, At, Goto, Pc
<1>2. Others(t) /\ Keeps(t) /\ Pc(t)' = "overdue"
  BY <1>0, <1>1, GoesOnTyped DEF Places, Ending
<1>3. \A p \in ParallelObjects : SameTimes(p)
  <2>1. parallel' = parallel \/ parallel' = [parallel EXCEPT ![crew[t].parallel].ref_count = Size(Region(t)) + 1]
    BY DEF ImplicitTaskBegin
  <2>2. parallel \in [ParallelObjects -> ParallelRecords]
    BY <1>0 DEF TypesOK
  <2> QED BY <2>1, <2>2 DEF ParallelRecords, SameTimes
<1>4. UNCHANGED <<omp, task, stored_task>> /\ SameRegion
  BY <1>1 DEF runtimeVars, locationData, SameRegion
<1>5. t # Primary => WorkerEnd(t)' /\ ~AtBarrier(t)'
  BY <1>0, <1>2, NotAtEnd
<1>6. t = Primary => /\ BeforeBarrierEnd /\ BeforeTaskEnd /\ ~AtTaskEnd(Primary)' /\ ~PrimaryDone'
                     /\ Pc(Primary)' \notin {"write ibarrier_end", "write task_end"}
  BY <1>1, <1>2 DEF BeforeBarrierEnd, BeforeTaskEnd, PrimaryPhase, AtTaskEnd, PrimaryDone
<1> QED BY <1>1, <1>2, <1>3, <1>4, <1>5, <1>6, QuietMove DEF Keeps

LEMMA NothingOverdueTimes ==
  ASSUME OmptIInv, LateTimes, NEW t \in OmpThreads, NothingOverdue(t) PROVE LateTimes'
<1>0. TypesOK /\ Workers = OmpThreads \ {Primary}
  BY TimesSetting
<1>1. /\ Pc(t) = "overdue" /\ crew' = [crew EXCEPT ![t].pc = "team_begin"]
      /\ UNCHANGED <<runtimeVars, parallel, task, poolVarsOmpt, locationData, thread_team, stamps, log>>
  BY DEF NothingOverdue, At, Goto, Pc
<1>2. Others(t) /\ Keeps(t) /\ Pc(t)' = "team_begin"
  BY <1>0, <1>1, GoesOnTyped DEF Places, Ending
<1>3. \A p \in ParallelObjects : SameTimes(p)
  BY <1>1 DEF SameTimes
<1>4. UNCHANGED <<omp, task, stored_task>> /\ SameRegion
  BY <1>1 DEF runtimeVars, locationData, SameRegion
<1>5. t # Primary => WorkerEnd(t)' /\ ~AtBarrier(t)'
  BY <1>0, <1>2, NotAtEnd
<1>6. t = Primary => /\ BeforeBarrierEnd /\ BeforeTaskEnd /\ ~AtTaskEnd(Primary)' /\ ~PrimaryDone'
                     /\ Pc(Primary)' \notin {"write ibarrier_end", "write task_end"}
  BY <1>1, <1>2 DEF BeforeBarrierEnd, BeforeTaskEnd, PrimaryPhase, AtTaskEnd, PrimaryDone
<1> QED BY <1>1, <1>2, <1>3, <1>4, <1>5, <1>6, QuietMove DEF Keeps

(* A worker leaves the barrier when the primary thread has left its task.  *)
LEMMA LeavesWhenEnded ==
  ASSUME OmptIInv, ObjectsOK, Late, LateTimes, NEW t \in Workers, MayLeaveBarrier(t)
  PROVE  Pc(t) = "barrier" /\ Ended(crew[t].parallel) /\ ItsRegion(t) = crew[t].parallel
<1>0. TypesOK /\ NULL \notin ParallelObjects /\ Primary \in OmpThreads
  BY TimesSetting
<1>1. Pc(t) = "barrier" /\ ~Overdue(t)
  BY DEF MayLeaveBarrier, At, Pc, Overdue, Ending
<1>2. crew[t].parallel \in ParallelObjects /\ crew[t].index # 0
  BY <1>1, TimesSetting
<1>3. parallel[crew[t].parallel].itask_end # 0
  BY <1>2 DEF MayLeaveBarrier, Late
<1>4. crew[t].parallel # crew[Primary].parallel \/ PrimaryDone
  <2> SUFFICES ASSUME crew[t].parallel = crew[Primary].parallel PROVE PrimaryDone
    OBVIOUS
  <2>1. Pc(Primary) # "idle"
    <3>1. UsesTask(Primary)
      BY <1>0 DEF ObjectsOK
    <3> QED BY <1>0, <1>2, <3>1 DEF UsesTask
  <2>2. ~BeforeTaskEnd
    BY <1>3 DEF LateTimes, PrimaryTimes
  <2>3. Pc(Primary) \in Places
    BY <1>0, Member
  <2> QED BY <2>1, <2>2, <2>3 DEF BeforeTaskEnd, BeforeBarrierEnd, PrimaryPhase, AtTaskEnd, PrimaryDone, Places, Ending
<1>5. Ended(crew[t].parallel)
  BY <1>1, <1>4 DEF LateTimes, WorkerRegion
<1> QED BY <1>1, <1>5 DEF ItsRegion

LEMMA LockOrderTimes ==
  ASSUME OmptIInv, ObjectsOK, Late, LateTimes, NEW t \in OmpThreads, LockOrder(t) PROVE LateTimes'
<1>0. TypesOK /\ Workers = OmpThreads \ {Primary}
  BY TimesSetting
<1>1. /\ Pc(t) = "barrier" /\ crew' = [crew EXCEPT ![t].pc = "exchange"]
      /\ UNCHANGED <<runtimeVars, parallel, task, poolVarsOmpt, stored_task, stamps, log>>
  BY DEF LockOrder, MayLeaveBarrier, At, Goto, Pc
<1>2. Others(t) /\ Keeps(t) /\ Pc(t)' = "exchange"
  BY <1>0, <1>1, GoesOnTyped DEF Places, Ending
<1>3. \A p \in ParallelObjects : SameTimes(p)
  BY <1>1 DEF SameTimes
<1>4. UNCHANGED <<omp, task, stored_task>> /\ SameRegion
  BY <1>1 DEF runtimeVars, SameRegion
<1>5. AtBarrier(t)' => AtBarrier(t)
  BY <1>1, <1>2, <1>4 DEF AtBarrier, Claims, Owns, Ending, Keeps
<1>6. ItsRegion(t)' = ItsRegion(t) /\ ~AtTaskEnd(t)'
  BY <1>1, <1>2 DEF ItsRegion, Overdue, Ending, Keeps, AtTaskEnd
<1>7. t # Primary => WorkerEnd(t)'
  <2> SUFFICES ASSUME t # Primary PROVE WorkerEnd(t)'
    OBVIOUS
  <2>1. t \in Workers /\ Pc(t) # "idle" /\ WorkerEnd(t)
    BY <1>0, <1>1 DEF LateTimes
  <2>2. Ended(crew[t].parallel) /\ ItsRegion(t) = crew[t].parallel /\ crew[t].parallel \in ParallelObjects
    BY <2>1, LeavesWhenEnded, TimesSetting DEF LockOrder
  <2>3. SameTimes(ItsRegion(t)) /\ log'[crew[t].index] = log[crew[t].index] /\ crew'[t].index = crew[t].index
    BY <1>1, <1>2, <1>3, <2>2 DEF Keeps
  <2> QED BY <1>2, <1>5, <1>6, <2>1, <2>2, <2>3, EndGoesOn
<1>8. t = Primary => /\ BeforeBarrierEnd /\ BeforeTaskEnd /\ ~AtTaskEnd(Primary)' /\ ~PrimaryDone'
                     /\ Pc(Primary)' \notin {"write ibarrier_end", "write task_end"}
  BY <1>1, <1>2 DEF BeforeBarrierEnd, BeforeTaskEnd, PrimaryPhase, AtTaskEnd, PrimaryDone
<1> QED BY <1>1, <1>2, <1>3, <1>4, <1>5, <1>6, <1>7, <1>8, QuietMove DEF Keeps

LEMMA LeftBarrierTimes ==
  ASSUME OmptIInv, ObjectsOK, LateTimes, NEW t \in OmpThreads, LeftBarrier(t) PROVE LateTimes'
<1>0. TypesOK /\ Workers = OmpThreads \ {Primary}
  BY TimesSetting
<1>1. /\ Pc(t) = "left" /\ crew' = [crew EXCEPT ![t].pc = "task_end"]
      /\ UNCHANGED <<runtimeVars, parallel, task, poolVarsOmpt, locationData, thread_team, stamps, log>>
  BY DEF LeftBarrier, At, Goto, Pc
<1>2. Others(t) /\ Keeps(t) /\ Pc(t)' = "task_end"
  BY <1>0, <1>1, GoesOnTyped DEF Places, Ending
<1>3. \A p \in ParallelObjects : SameTimes(p)
  BY <1>1 DEF SameTimes
<1>4. UNCHANGED <<omp, task, stored_task>> /\ SameRegion
  BY <1>1 DEF runtimeVars, locationData, SameRegion
<1>5. ItsRegion(t)' = ItsRegion(t) /\ ~AtBarrier(t)' /\ AtTaskEnd(t)
  BY <1>1, <1>2, <1>4 DEF ItsRegion, Overdue, EndsParallel, Ends, Ending, Keeps, AtTaskEnd, AtBarrier
<1>6. t # Primary => WorkerEnd(t)'
  <2> SUFFICES ASSUME t # Primary PROVE WorkerEnd(t)'
    OBVIOUS
  <2>1. t \in Workers /\ WorkerEnd(t) /\ Pc(t) \in Ending
    BY <1>0, <1>1 DEF LateTimes, Ending
  <2>2. Ended(ItsRegion(t)) /\ ItsRegion(t) \in ParallelObjects
    BY <2>1, EndsItsRegion DEF WorkerEnd
  <2>3. SameTimes(ItsRegion(t)) /\ log'[crew[t].index] = log[crew[t].index] /\ crew'[t].index = crew[t].index
    BY <1>1, <1>2, <1>3, <2>2 DEF Keeps
  <2> QED BY <1>2, <1>5, <2>1, <2>2, <2>3, EndGoesOn
<1>7. t = Primary => /\ ~BeforeBarrierEnd' /\ BeforeTaskEnd /\ AtTaskEnd(Primary) /\ ~PrimaryDone'
                     /\ Pc(Primary)' \notin {"write ibarrier_end", "write task_end"}
  BY <1>1, <1>2 DEF BeforeBarrierEnd, BeforeTaskEnd, PrimaryPhase, AtTaskEnd, PrimaryDone
<1> QED BY <1>1, <1>2, <1>3, <1>4, <1>5, <1>6, <1>7, QuietMove DEF Keeps

-----------------------------------------------------------------------------
(* A thread takes out its own task, or sees that another has.              *)
LEMMA LeavesTimes ==
  ASSUME OmptIInv, ObjectsOK, LateTimes, NEW t \in OmpThreads, Others(t), Pc(t) \in {"barrier", "exchange"},
         crew'[t].parallel = crew[t].parallel, crew'[t].index = crew[t].index, crew'[t].ptr = crew[t].ptr,
         Pc(t)' \in {"ibarrier_end", "release"}, SameRegion, UNCHANGED <<log, stamps, parallel, task>>,
         \A l \in LocationIds : stored_task'[l] = stored_task[l] \/ stored_task'[l] \notin TaskObjects,
         Pc(t)' = "ibarrier_end" <=> Owns(t),
         t = Primary => Pc(t)' = "ibarrier_end",
         t # Primary => Ended(crew[t].parallel)
  PROVE  LateTimes'
<1>0. TypesOK /\ TasksOK /\ Workers = OmpThreads \ {Primary} /\ NULL \notin TaskObjects
  BY TimesSetting
<1>1. crew[t].ptr # NULL
  BY <1>0 DEF TasksOK
<1>2. ItsRegion(t) = crew[t].parallel /\ ItsRegion(t)' = crew[t].parallel
  BY <1>1 DEF ItsRegion, Overdue, Ending
<1>3. /\ AtBarrier(t)' => AtBarrier(t)
      /\ ~AtTaskEnd(t)'
  BY DEF AtBarrier, Claims, AtTaskEnd, Owns
<1>4. \A p \in ParallelObjects : SameTimes(p)
  BY DEF SameTimes
<1>5. t # Primary => WorkerEnd(t)'
  <2> SUFFICES ASSUME t # Primary PROVE WorkerEnd(t)'
    OBVIOUS
  <2>1. t \in Workers /\ WorkerEnd(t)
    BY <1>0 DEF LateTimes
  <2>2. crew[t].parallel \in ParallelObjects
    BY <2>1, TimesSetting
  <2> QED BY <1>2, <1>3, <1>4, <2>1, <2>2, EndGoesOn
<1>6. t = Primary => /\ BeforeBarrierEnd /\ BeforeTaskEnd /\ ~PrimaryDone'
                     /\ Pc(Primary)' \notin {"write ibarrier_end", "write task_end"}
  BY DEF BeforeBarrierEnd, BeforeTaskEnd, PrimaryPhase, PrimaryDone
<1> QED BY <1>2, <1>3, <1>4, <1>5, <1>6, QuietMove

LEMMA ExchangeTimes ==
  ASSUME OmptIInv, ObjectsOK, LateTimes, NEW t \in OmpThreads, Exchange(t) PROVE LateTimes'
<1>0. TypesOK /\ TasksOK /\ StoredOK /\ Workers = OmpThreads \ {Primary} /\ NULL \notin TaskObjects
  BY TimesSetting
<1>1. Pc(t) = "exchange" /\ UNCHANGED <<log, stamps, parallel, task, omp>> /\ SameRegion
  BY DEF Exchange, At, Pc, runtimeVars, SameRegion
<1>2. crew[t].ptr \in TaskObjects /\ crew[t].index \in LocationIds /\ (StillStored(t) <=> Owns(t))
  BY <1>0, <1>1, Member DEF TasksOK, StillStored, Owns
<1>3. t # Primary => Ended(crew[t].parallel)
  <2> SUFFICES ASSUME t # Primary PROVE Ended(crew[t].parallel)
    OBVIOUS
  <2>1. WorkerEnd(t) /\ ItsRegion(t) = crew[t].parallel
    BY <1>0, <1>1 DEF LateTimes, ItsRegion, Overdue, Ending
  <2> QED BY <1>1, <2>1 DEF WorkerEnd
<1>4. CASE StillStored(t)
  <2>1. /\ stored_task' = [stored_task EXCEPT ![crew[t].index] = NULL]
        /\ crew' = [crew EXCEPT ![t].pc = "ibarrier_end", ![t].ends = crew[t].ptr]
    BY <1>4 DEF Exchange
  <2>2. PICK o \in TaskObjects \cup {NULL} : o = crew[t].ptr
    BY <1>2
  <2>3. TakesUp(t, "ibarrier_end", o) /\ "ibarrier_end" \in Places
    BY <2>1, <2>2 DEF TakesUp, Places, Ending
  <2>4. /\ Others(t) /\ Pc(t)' = "ibarrier_end" /\ crew'[t].ptr = crew[t].ptr
        /\ crew'[t].parallel = crew[t].parallel /\ crew'[t].index = crew[t].index
    BY <1>0, <2>2, <2>3, TakesTyped
  <2>5. \A l \in LocationIds : stored_task'[l] = stored_task[l] \/ stored_task'[l] \notin TaskObjects
    BY <1>0, <1>2, <2>1 DEF TypesOK
  <2> QED BY <1>1, <1>2, <1>3, <1>4, <2>4, <2>5, LeavesTimes
<1>5. CASE ~StillStored(t)
  <2>1. UNCHANGED stored_task /\ crew' = [crew EXCEPT ![t].pc = "release"]
    BY <1>5 DEF Exchange, Goto
  <2>2. Others(t) /\ Keeps(t) /\ Pc(t)' = "release"
    BY <1>0, <2>1, GoesOnTyped DEF Places
  <2>3. t # Primary
    BY <1>0, <1>1, <1>2, <1>5 DEF StoredOK
  <2> QED BY <1>1, <1>2, <1>3, <1>5, <2>1, <2>2, <2>3, LeavesTimes DEF Keeps
<1> QED BY <1>4, <1>5

LEMMA FinalizeBarrierEndTimes ==
  ASSUME OmptIInv, ObjectsOK, Late, LateTimes, NEW t \in OmpThreads, FinalizeBarrierEnd(t) PROVE LateTimes'
<1>0. TypesOK /\ CountOK /\ TasksOK /\ Workers = OmpThreads \ {Primary} /\ NULL \notin TaskObjects
  BY TimesSetting
<1>1. /\ MayLeaveBarrier(t) /\ Pc(t) = "barrier" /\ omp.finalizing
      /\ omp' = [omp EXCEPT !.mutex = t] /\ UNCHANGED <<log, stamps, parallel, task>>
  BY DEF FinalizeBarrierEnd, MayLeaveBarrier, At, Pc
<1>2. crew[t].ptr \in TaskObjects /\ crew[t].index \in LocationIds /\ (StillStored(t) <=> Owns(t)) /\ SameRegion
  BY <1>0, <1>1, Member DEF TasksOK, StillStored, Owns, TypesOK, SameRegion
<1>3. t # Primary
  <2>1. omp.region > 0 \/ omp.region = 0
    BY <1>0 DEF TypesOK
  <2> QED BY <1>0, <1>1 DEF CountOK
<1>4. Ended(crew[t].parallel)
  BY <1>0, <1>1, <1>3, LeavesWhenEnded
<1>5. PICK pc \in {"ibarrier_end", "release"} :
        pc = (IF StillStored(t) THEN "ibarrier_end" ELSE "release")
  OBVIOUS
<1>6. crew' = [crew EXCEPT ![t].pc = pc, ![t].ends = crew[t].ptr]
  BY <1>5 DEF FinalizeBarrierEnd
<1>7. /\ Others(t) /\ Pc(t)' = pc /\ crew'[t].ptr = crew[t].ptr
      /\ crew'[t].parallel = crew[t].parallel /\ crew'[t].index = crew[t].index
  <2>1. PICK o \in TaskObjects \cup {NULL} : o = crew[t].ptr
    BY <1>2
  <2>2. TakesUp(t, pc, o) /\ pc \in Places
    BY <1>6, <2>1 DEF TakesUp, Places, Ending
  <2> QED BY <1>0, <2>1, <2>2, TakesTyped
<1>8. \A l \in LocationIds : stored_task'[l] = stored_task[l] \/ stored_task'[l] \notin TaskObjects
  <2>1. stored_task' = [stored_task EXCEPT ![crew[t].index] = IF StillStored(t) THEN NULL ELSE @]
    BY DEF FinalizeBarrierEnd
  <2> QED BY <1>0, <1>2, <2>1 DEF TypesOK
<1> QED BY <1>1, <1>2, <1>3, <1>4, <1>5, <1>7, <1>8, LeavesTimes

(* The thread whose overdue task is taken out is of an earlier region.     *)
LEMMA OverdueHasEnded ==
  ASSUME OmptIInv, ObjectsOK, IndicesOK, LateTimes, NEW t \in Workers, Pc(t) = "overdue",
         NEW u \in OmpThreads, Owns(u), crew[u].index = crew[t].index
  PROVE  /\ Ended(crew[u].parallel) /\ crew[u].parallel \in ParallelObjects
         /\ parallel[crew[u].parallel].ibarrier_end # 0 =>
              LastTime(crew[t].index) <= parallel[crew[u].parallel].ibarrier_end
<1>0. /\ TypesOK /\ TeamOK /\ TasksOK /\ Workers = OmpThreads \ {Primary} /\ crew[Primary].index = 0
      /\ crew[t].index # 0 /\ t \in OmpThreads
  BY TimesSetting
<1>1. u \in Workers /\ WorkerEnd(u) /\ WorkerRegion(u)
  BY <1>0 DEF LateTimes
<1>2. Early(t) /\ Pc(u) \in {"work", "barrier", "exchange"} /\ u # t /\ Pc(u) # "idle"
  BY DEF Early, Owns
<1>3. crew[t].parallel = crew[Primary].parallel /\ ~Early(u)
  BY <1>0, <1>2 DEF TeamOK
<1>4. Pc(u) \in {"barrier", "exchange"} /\ ~Overdue(u)
  BY <1>2, <1>3 DEF Early
<1>5. ItsRegion(u) = crew[u].parallel /\ AtBarrier(u)
  BY <1>4 DEF ItsRegion, AtBarrier, Claims
<1>6. Ended(crew[u].parallel)
  <2>1. CASE Pc(u) = "exchange"
    BY <1>1, <1>5, <2>1 DEF WorkerEnd
  <2>2. CASE Pc(u) = "barrier"
    <3>1. crew[u].parallel # crew[t].parallel
      BY <1>1, <1>2 DEF IndicesOK
    <3> QED BY <1>1, <1>2, <1>3, <3>1 DEF WorkerRegion
  <2> QED BY <1>4, <2>1, <2>2
<1> QED BY <1>1, <1>2, <1>5, <1>6, TimesSetting DEF WorkerEnd

LEMMA TriggerOverdueTimes ==
  ASSUME OmptIInv, ObjectsOK, IndicesOK, LateTimes, NEW t \in OmpThreads, TriggerOverdue(t) PROVE LateTimes'
<1>0. /\ TypesOK /\ TeamOK /\ TasksOK /\ StoredOK /\ Workers = OmpThreads \ {Primary}
      /\ NULL \notin TaskObjects /\ crew[Primary].index = 0
  BY TimesSetting
<1>1. PICK l \in LocationIds, o \in TaskObjects \cup {NULL, Encountering} : l = crew[t].index /\ o = stored_task[l]
  BY <1>0, Member DEF TypesOK
<1>2. /\ Pc(t) = "overdue" /\ o # NULL
      /\ task' = [task EXCEPT ![o].in_overdue_use = TRUE]
      /\ crew' = [crew EXCEPT ![t].pc = "ibarrier_end", ![t].ends = o]
      /\ stored_task' = [stored_task EXCEPT ![l] = NULL]
      /\ UNCHANGED <<omp, parallel, log, stamps>>
  BY <1>1 DEF TriggerOverdue, At, Pc, runtimeVars
<1>3. t \in Workers /\ l # 0
  <2>1. t # Primary
    BY <1>0, <1>1, <1>2 DEF StoredOK
  <2> QED BY <1>0, <1>1, <1>2, <2>1, TimesSetting
<1>4. PICK u \in OmpThreads : crew[u].index = l /\ Owns(u)
  BY <1>1, <1>0, <1>2, <1>3 DEF StoredOK
<1>5. PICK q \in ParallelObjects :
        /\ q = crew[u].parallel /\ Ended(q)
        /\ parallel[q].ibarrier_end # 0 => LastTime(l) <= parallel[q].ibarrier_end
  BY <1>1, <1>2, <1>3, <1>4, OverdueHasEnded
<1>6. o \in TaskObjects /\ task[o].parallel = q
  <2>1. o = crew[u].ptr /\ o \in TaskObjects
    BY <1>0, <1>1, <1>4 DEF Owns, TasksOK
  <2>2. UsesTask(u)
    BY DEF ObjectsOK
  <2> QED BY <1>0, <1>5, <2>1, <2>2 DEF UsesTask
<1>7. /\ Others(t) /\ Pc(t)' = "ibarrier_end" /\ crew'[t].ends = o /\ crew'[t].ptr = NULL
      /\ crew'[t].parallel = crew[t].parallel /\ crew'[t].index = l
  <2>1. TakesUp(t, "ibarrier_end", o) /\ "ibarrier_end" \in Places /\ o \in TaskObjects \cup {NULL}
    BY <1>2, <1>6 DEF TakesUp, Places, Ending
  <2>2. crew[t].ptr = NULL
    BY <1>0, <1>2 DEF TasksOK
  <2> QED BY <1>0, <1>1, <2>1, <2>2, TakesTyped
<1>8. \A x \in TaskObjects : task'[x].parallel = task[x].parallel
  BY <1>0, <1>2, <1>6, TaskUse
<1>9. ItsRegion(t)' = q
  <2>1. Overdue(t)'
    BY <1>7 DEF Overdue, Ending
  <2>2. EndsParallel(t)' = q
    BY <1>6, <1>7, <1>8 DEF EndsParallel, Ends
  <2> QED BY <2>1, <2>2 DEF ItsRegion
<1>10. WorkerEnd(t)'
  <2>1. Ended(q)' /\ (parallel'[q].ibarrier_end # 0 => LastTime(l)' <= parallel'[q].ibarrier_end)
    BY <1>2, <1>5 DEF Ended, LastTime
  <2>2. ~AtTaskEnd(t)'
    BY <1>7 DEF AtTaskEnd
  <2> QED BY <1>7, <1>9, <2>1, <2>2 DEF WorkerEnd, Ended, LastTime
<1>11. Pc(Primary) # "write ibarrier_end"
  <2>1. Early(t)
    BY <1>2 DEF Early
  <2> QED BY <1>0, <2>1 DEF TeamOK, PrimaryPhase
<1>12. \A p \in ParallelObjects : SameTimes(p)
  BY <1>2 DEF SameTimes
<1>13. \A m \in LocationIds : stored_task'[m] = stored_task[m] \/ stored_task'[m] \notin TaskObjects
  BY <1>0, <1>2 DEF TypesOK
<1>14. SameRegion /\ t # Primary /\ Pc(t) # "idle"
  BY <1>0, <1>2, <1>3 DEF SameRegion
<1> QED BY <1>1, <1>2, <1>7, <1>8, <1>10, <1>11, <1>12, <1>13, <1>14, QuietMove

-----------------------------------------------------------------------------
(* A thread joins the team before the primary thread has left its barrier. *)
LEMMA JoinFacts ==
  ASSUME OmptIInv, NEW t \in Workers, NEW index \in LocationIds \ {0}, JoinTeam(t, index)
  PROVE  /\ Pc(t) = "idle" /\ PrimaryPhase /\ crew[Primary].parallel \in ParallelObjects
         /\ parallel[crew[Primary].parallel].region = omp.region /\ Size(omp.region) # 1
         /\ omp.region \in RegionIds /\ index \notin taken[omp.region]
         /\ taken' = [taken EXCEPT ![omp.region] = @ \cup {index}]
         /\ Others(t) /\ Pc(t)' = "begin" /\ crew'[t].index = index /\ crew'[t].parallel = crew[Primary].parallel
         /\ UNCHANGED <<omp, parallel, task, stored_task, log, stamps>>
<1>0. /\ TypesOK /\ TeamOK /\ CountOK /\ t \in OmpThreads /\ t # Primary
  BY TimesSetting
<1>1. PICK p : p = crew[Primary].parallel
  OBVIOUS
<1>2. /\ Pc(t) = "idle" /\ omp.region > 0 /\ index < Size(omp.region) /\ index \notin taken[omp.region]
      /\ taken' = [taken EXCEPT ![omp.region] = @ \cup {index}]
      /\ crew' = [crew EXCEPT ![t] = [NotInTeam EXCEPT !.pc = "begin", !.index = index, !.parallel = p]]
      /\ UNCHANGED <<omp, parallel, task, locationData, log, stamps>>
  BY <1>1 DEF JoinTeam, At, Pc
<1>3. omp.region \in RegionIds /\ Size(omp.region) \in Nat /\ index \in Nat
  BY <1>0, <1>2, RegionFacts, Setting
<1>4. PrimaryPhase
  <2>1. ~PrimaryPhase => taken[omp.region] = 0 .. Size(omp.region) - 1
    BY <1>0, <1>2 DEF CountOK
  <2>2. index \in 0 .. Size(omp.region) - 1
    BY <1>2, <1>3
  <2> QED BY <1>2, <2>1, <2>2
<1>5. p \in ParallelObjects /\ parallel[p].region = omp.region
  BY <1>0, <1>1, <1>4, TimesSetting DEF PrimaryPhase, TeamOK
<1>6. Others(t) /\ Pc(t)' = "begin" /\ crew'[t].index = index /\ crew'[t].parallel = p
  <2>1. "begin" \in Places
    BY DEF Places
  <2> QED BY <1>0, <1>2, <1>5, <2>1, CrewMoves
<1>7. Size(omp.region) # 1
  BY <1>2, <1>3
<1>8. UNCHANGED <<omp, parallel, task, stored_task, log, stamps>>
  BY <1>2 DEF locationData
<1> QED BY <1>1, <1>2, <1>3, <1>4, <1>5, <1>6, <1>7, <1>8

LEMMA JoinTeamTimes ==
  ASSUME OmptIInv, LateTimes, NEW t \in Workers, NEW index \in LocationIds \ {0}, JoinTeam(t, index)
  PROVE  LateTimes'
<1>0. t \in OmpThreads /\ t # Primary /\ Primary \in OmpThreads
  BY TimesSetting
<1>1. PICK p : p = crew[Primary].parallel
  OBVIOUS
<1>2. /\ PrimaryPhase /\ parallel[p].region = omp.region /\ Size(omp.region) # 1
      /\ Others(t) /\ Pc(t)' = "begin" /\ crew'[t].parallel = p
      /\ UNCHANGED <<omp, parallel, task, stored_task, log, stamps>>
  BY <1>1, JoinFacts
<1>3. crew'[Primary].parallel = p /\ ~PrimaryDone'
  <2>1. crew'[Primary] = crew[Primary]
    BY <1>0, <1>2 DEF Others
  <2> QED BY <1>1, <1>2, <2>1 DEF PrimaryDone, PrimaryPhase, Pc
<1>4. WorkerRegion(t)'
  BY <1>2, <1>3 DEF WorkerRegion, Size
<1>5. WorkerEnd(t)' /\ ~AtBarrier(t)'
  BY <1>2, NotAtEnd
<1>6. SameRegion /\ \A q \in ParallelObjects : SameTimes(q)
  BY <1>2 DEF SameRegion, SameTimes
<1> QED BY <1>0, <1>2, <1>4, <1>5, <1>6, QuietStep

(* A reference that is given back is not a time.                           *)
LEMMA ReferenceIsNoTime ==
  ASSUME TypesOK, NEW p \in ParallelObjects, release_parallel_region(p)
  PROVE  \A q \in ParallelObjects : SameTimes(q)
<1>1. parallel \in [ParallelObjects -> ParallelRecords]
  BY DEF TypesOK
<1>2. parallel' = [parallel EXCEPT ![p].ref_count = @ - 1]
  BY DEF release_parallel_region
<1> QED BY <1>1, <1>2 DEF SameTimes, ParallelRecords

LEMMA ReleaseTimes ==
  ASSUME OmptIInv, ObjectsOK, LateTimes, NEW t \in OmpThreads, Release(t) PROVE LateTimes'
<1>0. /\ TypesOK /\ TeamOK /\ TasksOK /\ Workers = OmpThreads \ {Primary} /\ NULL \notin TaskObjects
  BY TimesSetting
<1>1. PICK o \in TaskObjects : o = crew[t].ptr /\ o # NULL
  BY <1>0 DEF Release, At, Pc, TasksOK
<1>2. PICK p \in ParallelObjects : p = task[o].parallel /\ p = crew[t].parallel
  BY <1>0, <1>1 DEF ObjectsOK, UsesTask, TasksOK
<1>3. /\ Pc(t) = "release" /\ release_parallel_region(p)
      /\ omp' = [omp EXCEPT !.mutex = IF @ = t THEN NULL ELSE @]
      /\ crew' = [crew EXCEPT ![t] = IF t = Primary
                                     THEN [NotInTeam EXCEPT !.pc = "join", !.parallel = p]
                                     ELSE NotInTeam]
      /\ UNCHANGED <<task, locationData, log, stamps>>
  BY <1>1, <1>2 DEF Release, At, Pc
<1>4. SameRegion /\ UNCHANGED <<task, stored_task, log, stamps>>
  BY <1>0, <1>3 DEF TypesOK, SameRegion, locationData
<1>5. \A q \in ParallelObjects : SameTimes(q)
  BY <1>0, <1>3, ReferenceIsNoTime
<1>6. /\ Others(t)
      /\ t = Primary => Pc(t)' = "join" /\ crew'[t].parallel = p
      /\ t # Primary => Pc(t)' = "idle"
  <2>1. CASE t = Primary
    <3>1. crew' = [crew EXCEPT ![t] = [NotInTeam EXCEPT !.pc = "join", !.parallel = p]] /\ "join" \in Places
      BY <1>3, <2>1 DEF Places
    <3> QED BY <1>0, <2>1, <3>1, TimesSetting, CrewMoves
  <2>2. CASE t # Primary
    <3>1. crew' = [crew EXCEPT ![t] = NotInTeam] /\ "idle" \in Places
      BY <1>3, <2>2 DEF Places
    <3> QED BY <1>0, <2>2, <3>1, TimesSetting, CrewMoves
  <2> QED BY <2>1, <2>2
<1>7. t # Primary => WorkerRegion(t)' /\ WorkerEnd(t)' /\ ~AtBarrier(t)'
  BY <1>0, <1>6, NotAtEnd DEF WorkerRegion
<1>8. t = Primary => PrimaryTimes' /\ PrimaryDone /\ crew'[Primary].parallel = crew[Primary].parallel
  <2> SUFFICES ASSUME t = Primary
               PROVE  PrimaryTimes' /\ PrimaryDone /\ crew'[Primary].parallel = crew[Primary].parallel
    OBVIOUS
  <2>1. crew'[Primary].parallel = crew[Primary].parallel /\ PrimaryDone /\ SameTimes(crew[Primary].parallel)
    BY <1>2, <1>3, <1>5, <1>6 DEF PrimaryDone
  <2>2. /\ ~BeforeBarrierEnd' /\ ~BeforeTaskEnd' /\ ~AtTaskEnd(Primary)'
        /\ Pc(Primary)' \notin {"write ibarrier_end", "write task_end"}
    BY <1>6 DEF BeforeBarrierEnd, BeforeTaskEnd, PrimaryPhase, AtTaskEnd
  <2> QED BY <1>4, <2>1, <2>2, PrimaryGoesOn DEF LateTimes
<1>9. \A x \in TaskObjects : task'[x].parallel = task[x].parallel
  BY <1>4
<1>10. \A l \in LocationIds : stored_task'[l] = stored_task[l] \/ stored_task'[l] \notin TaskObjects
  BY <1>4
<1> QED BY <1>4, <1>5, <1>6, <1>7, <1>8, <1>9, <1>10, QuietStep

(* The primary thread is in no region.                                     *)
LEMMA PrimaryIdle ==
  ASSUME Pc(Primary)' = "idle" PROVE PrimaryTimes'
  BY DEF PrimaryTimes, BeforeBarrierEnd, BeforeTaskEnd, PrimaryPhase, AtTaskEnd

LEMMA ParallelEndTimes ==
  ASSUME OmptIInv, LateTimes, ParallelEnd PROVE LateTimes'
<1>0. /\ TypesOK /\ TeamOK /\ Primary \in OmpThreads /\ 0 \in LocationIds
  BY TimesSetting
<1>1. /\ Pc(Primary) = "join" /\ release_parallel_region(crew[Primary].parallel)
      /\ stored_task' = [stored_task EXCEPT ![0] = Encountering]
      /\ crew' = [crew EXCEPT ![Primary] = NotInTeam]
      /\ UNCHANGED <<omp, task, log, stamps>>
  BY DEF ParallelEnd, At, Pc, runtimeVars
<1>2. PICK p \in ParallelObjects : p = crew[Primary].parallel
  BY <1>0, <1>1 DEF TeamOK
<1>3. \A q \in ParallelObjects : SameTimes(q)
  BY <1>0, <1>1, <1>2, ReferenceIsNoTime
<1>4. Others(Primary) /\ Pc(Primary)' = "idle"
  <2>1. "idle" \in Places
    BY DEF Places
  <2> QED BY <1>0, <1>1, <1>2, <2>1, CrewMoves
<1>5. PrimaryTimes' /\ PrimaryDone
  BY <1>1, <1>4, PrimaryIdle DEF PrimaryDone
<1>6. \A l \in LocationIds : stored_task'[l] = stored_task[l] \/ stored_task'[l] \notin TaskObjects
  BY <1>0, <1>1, OmptAssumption DEF TypesOK
<1>7. SameRegion /\ \A x \in TaskObjects : task'[x].parallel = task[x].parallel
  BY <1>1 DEF SameRegion
<1> QED BY <1>0, <1>1, <1>3, <1>4, <1>5, <1>6, <1>7, QuietStep

(* The finalisation begins, or nothing happens.                            *)
LEMMA StillTimes ==
  ASSUME OmptIInv, LateTimes, UNCHANGED <<crew, parallel, task, stored_task, log, stamps>>, SameRegion
  PROVE  LateTimes'
<1>1. Primary \in OmpThreads /\ Others(Primary) /\ (PrimaryDone' <=> PrimaryDone)
  BY TimesSetting DEF Others, PrimaryDone, Pc
<1>2. \A p : SameTimes(p)
  BY DEF SameTimes
<1>3. \A u \in Workers : AtBarrier(u)' => AtBarrier(u)
  BY DEF AtBarrier, Claims, Owns, Pc
<1>4. \A u \in Workers : ItsRegion(u)' = ItsRegion(u)
  BY DEF ItsRegion, Overdue, Pc, EndsParallel, Ends
<1>5. stamps' \in Nat /\ stamps <= stamps'
  BY TimesSetting, NoTimePasses
<1>6. PrimaryTimes'
  BY <1>2, <1>3, <1>4, <1>5, OtherPrimary DEF LateTimes
<1> QED BY <1>1, <1>2, <1>6, QuietStep

(* A new region is nobody's. *)
LEMMA ParallelBeginTimes ==
  ASSUME OmptIInv, ObjectsOK, LateTimes, ParallelBegin
  PROVE  /\ LateTimes'
         /\ \A u \in Workers : crew'[u] = crew[u] /\ crew'[u].parallel # crew'[Primary].parallel
<1>0. /\ TypesOK /\ TasksOK /\ Primary \in OmpThreads /\ 0 \in LocationIds
      /\ NULL \notin ParallelObjects /\ NULL \notin TaskObjects /\ Workers = OmpThreads \ {Primary}
  BY TimesSetting
<1>1. PICK r, p : r = omp.region + 1 /\ p = FromPool(parallel_regions_free_list, NewParallels)
  OBVIOUS
<1>2. /\ Pc(Primary) = "idle" /\ InPool(parallel_regions_free_list, NewParallels)
      /\ omp' = [omp EXCEPT !.region = r]
      /\ parallel' = [parallel EXCEPT ![p] = FreshParallel(r)]
      /\ stored_task' = [stored_task EXCEPT ![0] = NULL]
      /\ crew' = [crew EXCEPT ![Primary] = [NotInTeam EXCEPT !.pc = "begin", !.parallel = p]]
      /\ UNCHANGED <<task, log, stamps>>
  BY <1>1 DEF ParallelBegin, At, Pc
<1>3. p \in ParallelObjects /\ p \in Range(parallel_regions_free_list) \cup NewParallels
  <2>1. parallel_regions_free_list \in Seq(ParallelObjects) /\ NewParallels \in SUBSET ParallelObjects
    BY <1>0 DEF TypesOK, NewParallels
  <2> QED BY <1>1, <1>2, <2>1, PoolFacts
<1>4. Others(Primary) /\ Pc(Primary)' = "begin" /\ crew'[Primary].parallel = p
  <2>1. "begin" \in Places
    BY DEF Places
  <2> QED BY <1>0, <1>2, <1>3, <2>1, CrewMoves
<1>5. omp'.setup = omp.setup
  BY <1>0, <1>2 DEF TypesOK
<1>6. \A u \in OmpThreads : crew[u].parallel # p
  <2>1. \A u \in OmpThreads : crew[u].parallel \notin Pooled
    BY OwnNotPooled
  <2>2. CASE p \in Range(parallel_regions_free_list)
    <3>1. p \in Pooled
      BY <1>0, <2>2, PooledObjects
    <3> QED BY <2>1, <3>1
  <2>3. CASE p \in NewParallels
    <3>1. crew[Primary].parallel # p /\ Users(p) = {}
      BY <1>3, <2>3 DEF ObjectsOK, ReferencesOK, NewParallels
    <3>2. ASSUME NEW u \in Workers, crew[u].parallel = p PROVE FALSE
      <4>1. UsesTask(u)
        BY <1>0 DEF ObjectsOK
      <4>2. Pc(u) # "idle" /\ Pc(u) # "join"
        BY <1>0, <1>3, <3>2, <4>1 DEF UsesTask, OmptIInv, TeamOK
      <4> QED BY <1>0, <3>1, <3>2, <4>2 DEF Users
    <3> QED BY <1>0, <3>1, <3>2
  <2> QED BY <1>3, <2>2, <2>3
<1>7. \A q \in ParallelObjects \ {p} : SameTimes(q)
  BY <1>0, <1>2 DEF TypesOK, SameTimes
<1>8. crew[Primary].parallel = NULL
  BY <1>0, <1>2 DEF ObjectsOK, UsesTask
<1>9. ASSUME NEW u \in Workers PROVE WorkerRegion(u)' /\ WorkerEnd(u)' /\ crew'[u] = crew[u]
  <2>1. /\ crew'[u] = crew[u] /\ WorkerRegion(u) /\ WorkerEnd(u) /\ u \in OmpThreads \ {Primary}
        /\ Pc(u)' = Pc(u)
    BY <1>0, <1>4 DEF Others, LateTimes, Pc
  <2>2. Pc(u) # "idle" => SameTimes(crew[u].parallel) /\ crew[u].parallel # NULL
    BY <1>0, <1>6, <1>7, <2>1, TimesSetting
  <2>3. Pc(u) # "idle" => /\ parallel'[crew[u].parallel].region = parallel[crew[u].parallel].region
                          /\ Ended(crew[u].parallel) => Ended(crew[u].parallel)'
    BY <2>1, <2>2 DEF SameTimes, Ended
  <2>4. WorkerRegion(u)'
    BY <1>5, <1>8, <2>1, <2>2, <2>3, OtherRegion
  <2>5. Owns(u)' => Owns(u)
    <3>1. \A l \in LocationIds : stored_task'[l] = stored_task[l] \/ stored_task'[l] \notin TaskObjects
      BY <1>0, <1>2 DEF TypesOK
    <3> QED BY <1>0, <1>4, <2>1, <3>1, OwnsUntouched
  <2>6. Pc(u) # "idle" => SameTimes(ItsRegion(u))
    <3>1. CASE Overdue(u)
      <4>1. PICK v \in OmpThreads : crew[v].ptr = crew[u].ends /\ crew[u].ends \in TaskObjects
        BY <1>0, <2>1, <3>1 DEF TasksOK, Overdue
      <4>2. task[crew[u].ends].parallel = crew[v].parallel
        BY <1>0, <4>1 DEF ObjectsOK, UsesTask
      <4>3. EndsParallel(u) \in ParallelObjects
        BY <1>0, <2>1, <3>1, EndsFacts DEF Overdue
      <4> QED BY <1>6, <1>7, <3>1, <4>2, <4>3 DEF ItsRegion, EndsParallel, Ends
    <3>2. CASE ~Overdue(u)
      BY <2>2, <3>2 DEF ItsRegion
    <3> QED BY <3>1, <3>2
  <2>7. WorkerEnd(u)'
    BY <1>2, <2>1, <2>5, <2>6, OtherEnd
  <2> QED BY <2>1, <2>4, <2>7
<1>10. /\ parallel'[p].ibarrier_end = 0 /\ parallel'[p].itask_end = 0
  BY <1>0, <1>2, <1>3 DEF TypesOK, FreshParallel
<1>11. PrimaryTimes'
  BY <1>4, <1>10 DEF PrimaryTimes, AtTaskEnd
<1>12. ASSUME NEW q \in ParallelObjects PROVE StoredTimes(q)'
  <2>1. CASE q = p
    <3>1. 0 <= 2 * stamps'
      <4>1. stamps \in Nat /\ stamps' = stamps
        BY <1>0, <1>2 DEF TypesOK
      <4> QED BY <4>1
    <3> QED BY <1>10, <2>1, <3>1 DEF StoredTimes
  <2>2. CASE q # p
    BY <1>2, <1>7, <2>2 DEF LateTimes, StoredTimes, SameTimes
  <2> QED BY <2>1, <2>2
<1>13. LogTimes'
  BY <1>2 DEF LateTimes, LogTimes, Now
<1>14. \A u \in Workers : crew'[u].parallel # crew'[Primary].parallel
  BY <1>0, <1>4, <1>6, <1>9
<1> QED BY <1>9, <1>11, <1>12, <1>13, <1>14 DEF LateTimes

-----------------------------------------------------------------------------
(* An event of now comes after all that its location has.                  *)
LEMMA WrittenNow ==
  ASSUME TypesOK, LogTimes, UNCHANGED stamps, NEW l \in LocationIds, NEW event,
         event \in {"team_begin", "ibarrier_begin"}, Write(l, event, Now)
  PROVE  /\ LogTimes' /\ \A m \in LocationIds \ {l} : log'[m] = log[m]
<1>1. Now \in Nat /\ thread_team[l] \in Nat /\ stamps \in Nat
  <2>1. stamps \in Nat
    BY DEF TypesOK
  <2>2. 2 * stamps + 1 \in Nat
    BY <2>1
  <2> QED BY <2>1, <2>2 DEF TypesOK, Now
<1> DEFINE e == [event |-> event, team |-> thread_team[l], time |-> Now]
<1>2. e \in Events /\ e.time = Now /\ log' = [log EXCEPT ![l] = @ \o <<e>>]
  BY <1>1 DEF Events, Write
<1>3. log[l] = << >> \/ LastTime(l) <= e.time
  BY <1>2, LastIsPast
<1>4. e.time <= Now
  BY <1>1, <1>2
<1> HIDE DEF e
<1> QED BY <1>2, <1>3, <1>4, TimeWritten

LEMMA BarrierBeginTimes ==
  ASSUME OmptIInv, LateTimes, NEW t \in OmpThreads, BarrierBegin(t) PROVE LateTimes'
<1>0. /\ TypesOK /\ TeamOK /\ TasksOK /\ StoredOK /\ Workers = OmpThreads \ {Primary} /\ LogTimes
      /\ crew[t].index \in LocationIds
  BY TimesSetting, Member DEF LateTimes
<1>1. /\ Pc(t) = "work" /\ crew' = [crew EXCEPT ![t].pc = "barrier"]
      /\ Write(crew[t].index, "ibarrier_begin", Now)
      /\ UNCHANGED <<omp, taken, parallel, task, poolVarsOmpt, locationData, thread_team, stamps>>
  BY DEF BarrierBegin, At, Goto, Pc
<1>2. Others(t) /\ Keeps(t) /\ Pc(t)' = "barrier"
  BY <1>0, <1>1, GoesOnTyped DEF Places, Ending
<1>3. Claims(t) /\ PrimaryPhase /\ crew[t].parallel = crew[Primary].parallel /\ crew[t].parallel \in ParallelObjects
  BY <1>0, <1>1 DEF Claims, StoredOK, Early, TeamOK
<1>4. LogTimes' /\ \A m \in LocationIds \ {crew[t].index} : log'[m] = log[m]
  BY <1>0, <1>1, WrittenNow
<1>5. SameRegion /\ UNCHANGED <<task, stored_task>> /\ \A p : SameTimes(p)
  BY <1>1 DEF SameRegion, SameTimes, locationData
<1>6. \A u \in OmpThreads \ {t} : /\ Owns(u)' => Owns(u)
                                  /\ Claims(u) => log'[crew[u].index] = log[crew[u].index]
                                  /\ Overdue(u) => task'[crew[u].ends].parallel = task[crew[u].ends].parallel
  BY <1>0, <1>2, <1>3, <1>4, <1>5, OwnsUntouched, LogsUntouched
<1>7. t # Primary => WorkerRegion(t)' /\ WorkerEnd(t)' /\ Pc(Primary) # "write ibarrier_end"
  <2> SUFFICES ASSUME t # Primary PROVE WorkerRegion(t)' /\ WorkerEnd(t)' /\ Pc(Primary) # "write ibarrier_end"
    OBVIOUS
  <2>1. WorkerRegion(t)'
    BY <1>0, <1>1, <1>2, <1>5, RegionStays DEF Keeps
  <2>2. ItsRegion(t)' = crew[t].parallel /\ ~AtTaskEnd(t)'
    BY <1>2 DEF ItsRegion, Overdue, Ending, Keeps, AtTaskEnd
  <2>3. parallel'[crew[t].parallel].ibarrier_end = 0
    BY <1>3, <1>5 DEF LateTimes, PrimaryTimes, BeforeBarrierEnd, SameTimes
  <2>4. WorkerEnd(t)'
    BY <1>2, <2>2, <2>3 DEF WorkerEnd, Ending
  <2> QED BY <1>3, <2>1, <2>4 DEF PrimaryPhase
<1>8. t = Primary => PrimaryTimes' /\ ~PrimaryDone' /\ crew'[Primary].parallel = crew[Primary].parallel
  <2> SUFFICES ASSUME t = Primary PROVE PrimaryTimes' /\ ~PrimaryDone' /\ crew'[Primary].parallel = crew[Primary].parallel
    OBVIOUS
  <2>1. /\ BeforeBarrierEnd /\ BeforeTaskEnd /\ ~AtTaskEnd(Primary)' /\ ~PrimaryDone'
        /\ Pc(Primary)' \notin {"write ibarrier_end", "write task_end"}
    BY <1>2, <1>3 DEF BeforeBarrierEnd, BeforeTaskEnd, AtTaskEnd, PrimaryDone
  <2> QED BY <1>2, <1>5, <2>1, PrimaryGoesOn DEF LateTimes, Keeps
<1>9. stamps' \in Nat /\ stamps <= stamps'
  BY <1>0, <1>1, NoTimePasses
<1> QED BY <1>2, <1>4, <1>5, <1>6, <1>7, <1>8, <1>9, TimesStep

LEMMA TeamBeginTimes ==
  ASSUME OmptIInv, LateTimes, NEW t \in OmpThreads, TeamBegin(t) PROVE LateTimes'
<1>0. /\ TypesOK /\ TeamOK /\ TasksOK /\ FreeOK /\ Workers = OmpThreads \ {Primary} /\ LogTimes
  BY TimesSetting DEF LateTimes, OmptIInv
<1>1. Pc(t) = "team_begin" /\ Early(t) /\ InPool(tasks_free_list[t], NewTasks)
  BY DEF TeamBegin, At, Pc, Early
<1>2. /\ Region(t) = omp.region /\ crew[t].parallel \in ParallelObjects
      /\ PrimaryPhase /\ crew[t].parallel = crew[Primary].parallel
  BY <1>0, <1>1, EarlyRegion DEF TeamOK
<1>3. PICK l \in LocationIds, p \in ParallelObjects : l = crew[t].index /\ p = crew[t].parallel
  BY <1>0, <1>2, Member
<1>4. PICK o \in TaskObjects :
        /\ o = FromPool(tasks_free_list[t], NewTasks) /\ \A u \in OmpThreads : crew[u].ptr # o
        /\ \A u \in OmpThreads : Pc(u) \in Ending => crew[u].ends # o
  BY <1>0, <1>1, TaskFromPool
<1>5. /\ task' = [task EXCEPT ![o] = [NoTask EXCEPT !.index = l, !.parallel = p]]
      /\ stored_task' = [stored_task EXCEPT ![l] = o]
      /\ Write(l, "team_begin", Now)
      /\ UNCHANGED <<runtimeVars, parallel, stamps>>
  BY <1>3, <1>4 DEF TeamBegin
<1>6. SameRegion /\ \A q : SameTimes(q)
  BY <1>5 DEF runtimeVars, SameRegion, SameTimes
<1>7. /\ Others(t) /\ crew'[t].parallel = p
      /\ \/ Size(omp.region) # 1 /\ Pc(t)' = "work"
         \/ Size(omp.region) = 1 /\ Pc(t)' = "task_end"
  <2>1. crew \in [OmpThreads -> CrewRecords]
    BY <1>0 DEF TypesOK
  <2>2. CASE Size(omp.region) = 1
    <3>1. crew' = [crew EXCEPT ![t].pc = "task_end", ![t].ptr = o, ![t].ends = o]
      BY <1>2, <1>4, <2>2 DEF TeamBegin
    <3>2. /\ \A u \in OmpThreads \ {t} : crew'[u] = crew[u]
          /\ crew'[t].parallel = crew[t].parallel /\ crew'[t].pc = "task_end"
      BY <2>1, <3>1 DEF CrewRecords
    <3> QED BY <1>3, <2>2, <3>2 DEF Others, Pc
  <2>3. CASE Size(omp.region) # 1
    <3>1. crew' = [crew EXCEPT ![t].pc = "work", ![t].ptr = o]
      BY <1>2, <1>4, <2>3 DEF TeamBegin
    <3>2. /\ \A u \in OmpThreads \ {t} : crew'[u] = crew[u]
          /\ crew'[t].parallel = crew[t].parallel /\ crew'[t].pc = "work"
      BY <2>1, <3>1 DEF CrewRecords
    <3> QED BY <1>3, <2>3, <3>2 DEF Others, Pc
  <2> QED BY <2>2, <2>3
<1>8. LogTimes' /\ \A m \in LocationIds \ {l} : log'[m] = log[m]
  BY <1>0, <1>5, WrittenNow
<1>9. \A u \in OmpThreads \ {t} : /\ Owns(u)' => Owns(u)
                                  /\ Claims(u) => log'[crew[u].index] = log[crew[u].index]
                                  /\ Overdue(u) => task'[crew[u].ends].parallel = task[crew[u].ends].parallel
  <2>1. \A m \in LocationIds : stored_task'[m] = stored_task[m] \/ \A u \in OmpThreads \ {t} : crew[u].ptr # stored_task'[m]
    BY <1>0, <1>4, <1>5 DEF TypesOK
  <2>2. \A u \in OmpThreads \ {t} : Owns(u)' => Owns(u)
    BY <1>0, <1>7, <2>1, OwnsUntouched
  <2>3. \A u \in OmpThreads \ {t} : Claims(u) => log'[crew[u].index] = log[crew[u].index]
    BY <1>1, <1>3, <1>8, LogsUntouched
  <2>4. ASSUME NEW u \in OmpThreads, Overdue(u) PROVE task'[crew[u].ends].parallel = task[crew[u].ends].parallel
    BY <1>4, <1>5, <2>4 DEF Overdue
  <2> QED BY <2>2, <2>3, <2>4
<1>10. t # Primary => WorkerRegion(t)' /\ WorkerEnd(t)' /\ ~AtBarrier(t)'
  <2> SUFFICES ASSUME t # Primary PROVE WorkerRegion(t)' /\ WorkerEnd(t)' /\ ~AtBarrier(t)'
    OBVIOUS
  <2>1. t \in Workers /\ WorkerRegion(t) /\ Pc(t) # "idle"
    BY <1>0, <1>1 DEF LateTimes
  <2>2. Size(omp.region) # 1
    BY <1>2, <2>1 DEF WorkerRegion, Region
  <2>3. WorkerRegion(t)'
    BY <1>3, <1>6, <1>7, <2>1, RegionStays
  <2> QED BY <1>7, <2>1, <2>2, <2>3, NotAtEnd
<1>11. t = Primary => PrimaryTimes' /\ ~PrimaryDone' /\ crew'[Primary].parallel = crew[Primary].parallel
  <2> SUFFICES ASSUME t = Primary PROVE PrimaryTimes' /\ ~PrimaryDone' /\ crew'[Primary].parallel = crew[Primary].parallel
    OBVIOUS
  <2>1. /\ BeforeBarrierEnd /\ BeforeTaskEnd /\ ~PrimaryDone' /\ PrimaryTimes
        /\ Pc(Primary)' \notin {"write ibarrier_end", "write task_end"}
    BY <1>2, <1>7 DEF BeforeBarrierEnd, BeforeTaskEnd, PrimaryDone, LateTimes
  <2>2. CASE Pc(t)' = "work"
    BY <1>3, <1>6, <1>7, <2>1, <2>2, PrimaryGoesOn DEF AtTaskEnd
  <2>3. CASE Pc(t)' = "task_end"
    <3>1. Size(omp.region)' = 1
      BY <1>6, <1>7, <2>3 DEF SameRegion, Size
    <3>2. parallel'[p].itask_end = 0
      BY <1>3, <1>6, <2>1 DEF PrimaryTimes, SameTimes
    <3>3. ~BeforeBarrierEnd'
      BY <2>3 DEF BeforeBarrierEnd, PrimaryPhase
    <3> QED BY <1>3, <1>7, <2>1, <2>3, <3>1, <3>2, <3>3 DEF PrimaryTimes
  <2> QED BY <1>7, <1>3, <2>1, <2>2, <2>3
<1>12. stamps' \in Nat /\ stamps <= stamps'
  BY <1>0, <1>5, NoTimePasses
<1> QED BY <1>6, <1>7, <1>8, <1>9, <1>10, <1>11, <1>12, TimesStep

-----------------------------------------------------------------------------
(* A timestamp that the primary thread takes is later than all there were. *)
LEMMA StampTaken ==
  ASSUME NEW m \in Nat, NEW n, n = m + 1
  PROVE  /\ n \in Nat /\ m <= n /\ 2 * n \in Nat /\ 2 * n # 0 /\ 2 * n <= 2 * n
         /\ \A time \in Nat : time <= 2 * m + 1 \/ time <= 2 * m => time <= 2 * n
  OBVIOUS

LEMMA EndTimeTimes ==
  ASSUME OmptIInv, ObjectsOK, LateTimes, NEW t \in OmpThreads, BarrierEndTime(t) \/ ImplicitTaskEndTime(t)
  PROVE  LateTimes'
<1>0. /\ TypesOK /\ TeamOK /\ TasksOK /\ Workers = OmpThreads \ {Primary} /\ LogTimes /\ 0 \in LocationIds
  BY TimesSetting DEF LateTimes
<1>1. PICK stored \in Nat, next \in Places :
        /\ TakeTime(t, stored, next) /\ Pc(t) \in Ending
        /\ \/ /\ Pc(t) = "ibarrier_end" /\ next = "write ibarrier_end"
              /\ stored = parallel[EndsParallel(t)].ibarrier_end
           \/ /\ Pc(t) = "task_end" /\ next = "write task_end"
              /\ stored = parallel[EndsParallel(t)].itask_end
  <2>1. CASE BarrierEndTime(t)
    <3>1. Pc(t) = "ibarrier_end" /\ Pc(t) \in Ending
      BY <2>1 DEF BarrierEndTime, At, Pc, Ending
    <3>2. parallel[EndsParallel(t)].ibarrier_end \in Nat
      BY <1>0, <3>1, EndsFacts DEF TypesOK, ParallelRecords
    <3> QED BY <2>1, <3>1, <3>2 DEF BarrierEndTime, Places, Ending
  <2>2. CASE ImplicitTaskEndTime(t)
    <3>1. Pc(t) = "task_end" /\ Pc(t) \in Ending
      BY <2>2 DEF ImplicitTaskEndTime, At, Pc, Ending
    <3>2. parallel[EndsParallel(t)].itask_end \in Nat
      BY <1>0, <3>1, EndsFacts DEF TypesOK, ParallelRecords
    <3> QED BY <2>2, <3>1, <3>2 DEF ImplicitTaskEndTime, Places, Ending
  <2> QED BY <2>1, <2>2
<1>2. /\ Others(t) /\ Keeps(t) /\ Pc(t)' = next
      /\ UNCHANGED <<runtimeVars, parallel, task, locationData, log>>
  BY <1>0, <1>1, TimeTaken DEF Others, Keeps, Pc
<1>3. PICK p \in ParallelObjects, l \in LocationIds :
        /\ p = ItsRegion(t) /\ p = EndsParallel(t) /\ l = crew[t].index /\ Ends(t).index = l
        /\ Claims(t) /\ (l = 0 <=> t = Primary) /\ (t = Primary => p = crew[t].parallel)
  BY <1>0, <1>1, EndsItsRegion, Member
<1>4. /\ SameRegion /\ UNCHANGED <<task, stored_task, omp>> /\ (\A q : SameTimes(q))
      /\ (AtBarrier(t)' => AtBarrier(t)) /\ (AtTaskEnd(t)' => AtTaskEnd(t))
  BY <1>1, <1>2, <1>3 DEF runtimeVars, locationData, SameRegion, SameTimes, AtBarrier, AtTaskEnd
<1>5. ItsRegion(t)' = p
  BY <1>1, <1>2, <1>3, <1>4 DEF ItsRegion, Overdue, EndsParallel, Ends, Ending, Keeps
<1>6. \A u \in OmpThreads \ {t} : /\ Owns(u)' => Owns(u)
                                  /\ Claims(u) => log'[crew[u].index] = log[crew[u].index]
                                  /\ Overdue(u) => task'[crew[u].ends].parallel = task[crew[u].ends].parallel
  <2>1. \A u \in OmpThreads \ {t} : Owns(u)' => Owns(u)
    BY <1>0, <1>2, <1>4, OwnsUntouched
  <2> QED BY <1>2, <2>1
<1>7. crew \in [OmpThreads -> CrewRecords] /\ stamps \in Nat
  BY <1>0 DEF TypesOK
<1>8. CASE t # Primary
  <2>1. /\ crew' = [crew EXCEPT ![t].pc = next, ![t].time = stored] /\ UNCHANGED stamps
    BY <1>1, <1>3, <1>8 DEF TakeTime
  <2>2. crew'[t].time = stored
    BY <1>7, <2>1 DEF CrewRecords
  <2>3. t \in Workers /\ WorkerEnd(t)
    BY <1>0, <1>8 DEF LateTimes
  <2>4. /\ Ended(p)' /\ (AtBarrier(t)' /\ parallel'[p].ibarrier_end # 0 => LastTime(l)' <= parallel'[p].ibarrier_end)
        /\ (AtTaskEnd(t)' => LastTime(l)' <= parallel'[p].itask_end)
    BY <1>1, <1>2, <1>3, <1>4, <2>3 DEF WorkerEnd, Ended, LastTime
  <2>5. /\ Pc(t)' = "write ibarrier_end" => crew'[t].time = parallel'[p].ibarrier_end
        /\ Pc(t)' = "write task_end" => crew'[t].time = parallel'[p].itask_end
    BY <1>1, <1>2, <1>3, <2>2
  <2>6. l = crew'[t].index
    BY <1>2, <1>3 DEF Keeps
  <2>7. WorkerEnd(t)'
    BY <1>5, <2>4, <2>5, <2>6 DEF WorkerEnd, Ended, LastTime
  <2>8. WorkerRegion(t)'
    <3>1. Pc(t) # "idle"
      BY <1>1 DEF Ending
    <3> QED BY <1>2, <1>4, <2>3, <3>1, RegionStays DEF Keeps
  <2>9. stamps' \in Nat /\ stamps <= stamps' /\ LogTimes'
    <3>1. stamps' \in Nat /\ stamps <= stamps'
      BY <1>0, <2>1, NoTimePasses
    <3> QED BY <1>0, <1>2, <3>1, TimePasses
  <2> QED BY <1>2, <1>3, <1>4, <1>5, <1>6, <1>8, <2>6, <2>7, <2>8, <2>9, TimesStep
<1>9. CASE t = Primary
  <2>1. /\ stamps' = stamps + 1 /\ crew' = [crew EXCEPT ![t].pc = next, ![t].time = 2 * stamps']
    BY <1>1, <1>3, <1>9 DEF TakeTime
  <2>2. PICK m \in Nat, n \in Nat : m = stamps /\ n = stamps' /\ n = m + 1
    BY <1>7, <2>1
  <2>3. PICK time : time = 2 * n
    OBVIOUS
  <2>4. /\ stamps' \in Nat /\ stamps <= stamps' /\ time \in Nat /\ time # 0 /\ time <= 2 * stamps'
        /\ \A e \in Nat : e <= 2 * m + 1 \/ e <= 2 * m => e <= time
    BY <2>2, <2>3, StampTaken
  <2>5. crew'[t].time = time
    BY <1>7, <2>1, <2>2, <2>3 DEF CrewRecords
  <2>6. LogTimes'
    BY <1>0, <1>2, <2>4, TimePasses
  <2>7. ASSUME NEW u \in OmpThreads, Claims(u) PROVE LastTime(crew[u].index) <= time
    <3>1. LastTime(crew[u].index) \in Nat /\ LastTime(crew[u].index) <= Now
      BY <1>0, <2>7, ClaimedLast
    <3>2. Now = 2 * m + 1
      BY <2>2 DEF Now
    <3> QED BY <2>4, <3>1, <3>2
  <2>8. LastTime(0)' <= time
    <3>1. LastTime(0) <= time
      BY <1>3, <1>9, <2>7
    <3> QED BY <1>2, <3>1 DEF LastTime
  <2>9. parallel'[p].ibarrier_end <= time
    <3>1. parallel[p].ibarrier_end \in Nat /\ parallel[p].ibarrier_end <= 2 * m
      BY <1>0, <2>2 DEF LateTimes, StoredTimes, TypesOK, ParallelRecords
    <3> QED BY <1>2, <2>4, <3>1
  <2>10. ASSUME NEW u \in Workers, AtBarrier(u)' PROVE LastTime(crew[u].index)' <= time
    <3>1. u \in OmpThreads \ {t} /\ crew'[u] = crew[u]
      BY <1>0, <1>2, <1>9 DEF Others
    <3>2. Claims(u)
      BY <1>6, <2>10, <3>1 DEF AtBarrier, Claims, Pc
    <3>3. LastTime(crew[u].index) <= time
      BY <2>7, <3>1, <3>2
    <3> QED BY <1>2, <3>1, <3>3 DEF LastTime
  <2>11. /\ BeforeBarrierEnd' => BeforeBarrierEnd
         /\ BeforeTaskEnd' => BeforeTaskEnd
         /\ AtTaskEnd(Primary)' => AtTaskEnd(Primary)
         /\ ~PrimaryDone'
    BY <1>1, <1>2, <1>9 DEF BeforeBarrierEnd, BeforeTaskEnd, AtTaskEnd, PrimaryPhase, PrimaryDone
  <2>12. PrimaryTimes /\ p = crew[Primary].parallel /\ p = crew'[Primary].parallel /\ Size(omp.region)' = Size(omp.region)
    BY <1>2, <1>3, <1>4, <1>9 DEF LateTimes, Keeps, SameRegion, Size
  <2>13. /\ BeforeBarrierEnd' => parallel'[p].ibarrier_end = 0
         /\ BeforeTaskEnd' => parallel'[p].itask_end = 0
         /\ AtTaskEnd(Primary)' => parallel'[p].ibarrier_end # 0 \/ Size(omp.region)' = 1
    BY <1>2, <2>11, <2>12 DEF PrimaryTimes
  <2>14. time = crew'[Primary].time
    BY <1>9, <2>5
  <2>15. PrimaryTimes'
    BY <2>4, <2>8, <2>9, <2>10, <2>12, <2>13, <2>14 DEF PrimaryTimes
  <2> QED BY <1>2, <1>4, <1>6, <1>9, <2>4, <2>6, <2>11, <2>12, <2>15, TimesStep
<1> QED BY <1>8, <1>9

-----------------------------------------------------------------------------
(* The primary thread stores a time of its region.                         *)
LEMMA PrimaryStores ==
  ASSUME OmptIInv, LateTimes, NEW p \in ParallelObjects, p = crew[Primary].parallel, ~Ended(p),
         Others(Primary), crew'[Primary].parallel = p, SameRegion, UNCHANGED stamps,
         LogTimes', PrimaryTimes', StoredTimes(p)',
         \A q \in ParallelObjects \ {p} : SameTimes(q),
         parallel'[p].region = parallel[p].region,
         \A u \in OmpThreads \ {Primary} :
           /\ Owns(u)' => Owns(u)
           /\ Claims(u) => log'[crew[u].index] = log[crew[u].index]
           /\ Overdue(u) => task'[crew[u].ends].parallel = task[crew[u].ends].parallel,
         PrimaryDone' => PrimaryDone \/ Size(parallel[p].region) = 1 \/ Ended(p)',
         \/ parallel'[p].ibarrier_end = parallel[p].ibarrier_end
         \/ \A u \in Workers : AtBarrier(u) /\ ItsRegion(u) = p => LastTime(crew[u].index) <= parallel'[p].ibarrier_end
  PROVE  LateTimes'
<1>0. /\ TypesOK /\ TasksOK /\ Workers = OmpThreads \ {Primary}
  BY TimesSetting
<1>1. ASSUME NEW q \in ParallelObjects PROVE StoredTimes(q)'
  <2>1. CASE q = p
    BY <2>1
  <2>2. CASE q # p
    BY <2>2 DEF LateTimes, StoredTimes, SameTimes
  <2> QED BY <2>1, <2>2
<1>2. ASSUME NEW q \in ParallelObjects
      PROVE  parallel'[q].region = parallel[q].region /\ (Ended(q) => Ended(q)')
  BY DEF SameTimes, Ended
<1>3. ASSUME NEW u \in Workers PROVE WorkerRegion(u)'
  <2>1. /\ crew'[u] = crew[u] /\ WorkerRegion(u) /\ Pc(u)' = Pc(u)
        /\ Pc(u) # "idle" => crew[u].parallel \in ParallelObjects
    BY <1>0, TimesSetting DEF Others, LateTimes, Pc
  <2>2. Pc(u) # "idle" => /\ parallel'[crew[u].parallel].region = parallel[crew[u].parallel].region
                          /\ Ended(crew[u].parallel) => Ended(crew[u].parallel)'
    <3>1. PICK q : q = crew[u].parallel /\ q = crew'[u].parallel
      BY <2>1
    <3>2. q \in ParallelObjects => parallel'[q].region = parallel[q].region /\ (Ended(q) => Ended(q)')
      BY <1>2
    <3> QED BY <2>1, <3>1, <3>2 DEF Ended
  <2>3. Pc(u) # "idle" /\ PrimaryDone' =>
          crew[u].parallel # crew[Primary].parallel \/ PrimaryDone \/ Ended(crew[u].parallel)'
    <3> SUFFICES ASSUME Pc(u) # "idle", PrimaryDone', crew[u].parallel = p, ~PrimaryDone PROVE Ended(crew[u].parallel)'
      OBVIOUS
    <3>1. Size(parallel[p].region) # 1
      BY <2>1 DEF WorkerRegion
    <3>2. Ended(p)' /\ p = crew'[u].parallel
      BY <2>1, <3>1
    <3> QED BY <3>2 DEF Ended
  <2>4. Pc(u) # "idle" =>
           /\ parallel'[crew[u].parallel].region = parallel[crew[u].parallel].region
           /\ Ended(crew[u].parallel) => Ended(crew[u].parallel)'
           /\ crew[u].parallel # crew'[Primary].parallel \/ PrimaryDone' =>
                crew[u].parallel # crew[Primary].parallel \/ PrimaryDone \/ Ended(crew[u].parallel)'
    BY <2>2, <2>3
  <2> QED BY <2>1, <2>4, OtherRegion DEF SameRegion
<1>4. ASSUME NEW u \in Workers PROVE WorkerEnd(u)'
  <2>1. /\ crew'[u] = crew[u] /\ WorkerEnd(u) /\ u \in OmpThreads \ {Primary} /\ Pc(u)' = Pc(u)
    BY <1>0 DEF Others, LateTimes, Pc
  <2>2. CASE Pc(u) = "idle" \/ ItsRegion(u) # p
    <3>1. Pc(u) # "idle" => ItsRegion(u) \in ParallelObjects
      <4>1. Pc(u) # "idle" => crew[u].parallel \in ParallelObjects
        BY TimesSetting
      <4>2. Overdue(u) => EndsParallel(u) \in ParallelObjects
        BY <1>0, <2>1, EndsFacts DEF Overdue
      <4> QED BY <4>1, <4>2 DEF ItsRegion
    <3>2. Pc(u) # "idle" => SameTimes(ItsRegion(u))
      BY <2>2, <3>1
    <3> QED BY <2>1, <3>2, OtherEnd
  <2>3. CASE Pc(u) # "idle" /\ ItsRegion(u) = p
    <3>1. Pc(u) \notin Ending \cup {"exchange", "release"}
      BY <2>1, <2>3 DEF WorkerEnd
    <3>2. ItsRegion(u)' = p /\ ~AtTaskEnd(u)'
      BY <2>1, <2>3, <3>1 DEF ItsRegion, Overdue, AtTaskEnd, Ending
    <3>3. ASSUME AtBarrier(u)', parallel'[p].ibarrier_end # 0
          PROVE  LastTime(crew[u].index)' <= parallel'[p].ibarrier_end
      <4>1. AtBarrier(u) /\ Claims(u)
        BY <2>1, <3>1, <3>3 DEF AtBarrier, Claims
      <4>2. LastTime(crew[u].index)' = LastTime(crew[u].index)
        BY <2>1, <4>1 DEF LastTime
      <4>3. LastTime(crew[u].index) <= parallel'[p].ibarrier_end
        BY <2>1, <2>3, <3>3, <4>1 DEF WorkerEnd
      <4> QED BY <4>2, <4>3
    <3> QED BY <2>1, <3>1, <3>2, <3>3 DEF WorkerEnd, Ending
  <2> QED BY <2>2, <2>3
<1> QED BY <1>1, <1>3, <1>4 DEF LateTimes

(* The time of an end that is written: after the last event of the         *)
(* location, and of the past.                                              *)
LEMMA EndWritten ==
  ASSUME OmptIInv, LogTimes, UNCHANGED stamps, NEW t \in OmpThreads, Claims(t), NEW l \in LocationIds, l = crew[t].index,
         crew[t].time # 0, crew[t].time <= 2 * stamps, LastTime(l) <= crew[t].time,
         NEW event, event \in {"ibarrier_end", "team_end"}, Write(l, event, TimeOf(t))
  PROVE  /\ LogTimes' /\ LastTime(l)' = crew[t].time
         /\ \A m \in LocationIds \ {l} : log'[m] = log[m]
         /\ \A u \in OmpThreads \ {t} : Claims(u) => log'[crew[u].index] = log[crew[u].index]
<1>0. TypesOK /\ crew[t].time \in Nat /\ stamps \in Nat
  BY TimesSetting, Member DEF TypesOK
<1>1. TimeOf(t) = crew[t].time /\ thread_team[l] \in Nat
  BY <1>0 DEF TimeOf, TypesOK
<1>2. crew[t].time <= Now
  <2>1. PICK m \in Nat, time \in Nat : m = stamps /\ time = crew[t].time /\ time <= 2 * m
    BY <1>0
  <2>2. time <= 2 * m + 1
    BY <2>1
  <2> QED BY <2>1, <2>2 DEF Now
<1> DEFINE e == [event |-> event, team |-> thread_team[l], time |-> crew[t].time]
<1>3. e \in Events /\ e.time = crew[t].time /\ log' = [log EXCEPT ![l] = @ \o <<e>>]
  BY <1>0, <1>1 DEF Events, Write
<1> HIDE DEF e
<1>4. LogTimes' /\ LastTime(l)' = crew[t].time /\ \A m \in LocationIds \ {l} : log'[m] = log[m]
  BY <1>0, <1>2, <1>3, TimeWritten
<1> QED BY <1>4, LogsUntouched

-----------------------------------------------------------------------------
(* The time that a thread writes: a worker's is the one stored, and        *)
(* everything that its location has is before it.                          *)
LEMMA TimeOfEnd ==
  ASSUME OmptIInv, ObjectsOK, LateTimes, NEW t \in OmpThreads, Pc(t) \in {"write ibarrier_end", "write task_end"},
         NEW p \in ParallelObjects, p = ItsRegion(t)
  PROVE  /\ crew[t].time # 0 /\ crew[t].time <= 2 * stamps /\ LastTime(crew[t].index) <= crew[t].time
         /\ t # Primary => /\ Ended(p) /\ parallel[p].ibarrier_end <= parallel[p].itask_end
                           /\ Pc(t) = "write ibarrier_end" => crew[t].time = parallel[p].ibarrier_end
                           /\ Pc(t) = "write task_end" => crew[t].time = parallel[p].itask_end
         /\ t = Primary => /\ p = crew[Primary].parallel /\ parallel[p].itask_end = 0 /\ ~Ended(p)
                           /\ parallel[p].ibarrier_end <= crew[t].time
<1>0. Pc(t) \in Ending /\ Workers = OmpThreads \ {Primary} /\ crew[Primary].index = 0
  BY TimesSetting DEF Ending
<1>1. CASE t # Primary
  <2>1. WorkerEnd(t) /\ StoredTimes(p)
    BY <1>0, <1>1 DEF LateTimes
  <2>2. Ended(p)
    BY <1>0, <2>1 DEF WorkerEnd
  <2>3. CASE Pc(t) = "write ibarrier_end"
    <3>1. Claims(t) /\ AtBarrier(t)
      BY <1>0, <2>3 DEF Claims, AtBarrier
    <3>2. /\ crew[t].time = parallel[p].ibarrier_end
          /\ parallel[p].ibarrier_end # 0 => LastTime(crew[t].index) <= parallel[p].ibarrier_end
      BY <2>1, <2>3, <3>1 DEF WorkerEnd
    <3> QED BY <1>1, <2>1, <2>2, <2>3, <3>2 DEF Ended, StoredTimes
  <2>4. CASE Pc(t) = "write task_end"
    <3>1. /\ crew[t].time = parallel[p].itask_end
          /\ LastTime(crew[t].index) <= parallel[p].itask_end
      BY <2>1, <2>4 DEF WorkerEnd, AtTaskEnd
    <3> QED BY <1>1, <2>1, <2>2, <2>4, <3>1 DEF Ended, StoredTimes
  <2> QED BY <2>3, <2>4
<1>2. CASE t = Primary
  <2>1. p = crew[Primary].parallel
    BY <1>0, <1>2, EndsItsRegion
  <2>2. BeforeTaskEnd
    BY <1>2 DEF BeforeTaskEnd, BeforeBarrierEnd, AtTaskEnd
  <2>3. /\ crew[Primary].time # 0 /\ crew[Primary].time <= 2 * stamps /\ LastTime(0) <= crew[Primary].time
        /\ parallel[p].ibarrier_end <= crew[Primary].time /\ parallel[p].itask_end = 0
    BY <1>2, <2>1, <2>2 DEF LateTimes, PrimaryTimes
  <2> QED BY <1>0, <1>2, <2>1, <2>3 DEF Ended
<1> QED BY <1>1, <1>2

LEMMA NotNegative == ASSUME NEW m \in Nat PROVE 0 <= 2 * m
  OBVIOUS

LEMMA BarrierEndTimes ==
  ASSUME OmptIInv, ObjectsOK, LateTimes, NEW t \in OmpThreads, BarrierEnd(t) PROVE LateTimes'
<1>0. /\ TypesOK /\ TasksOK /\ Workers = OmpThreads \ {Primary} /\ LogTimes /\ NULL \notin TaskObjects
  BY TimesSetting DEF LateTimes
<1>1. Pc(t) = "write ibarrier_end" /\ Pc(t) \in Ending
  BY DEF BarrierEnd, At, Pc, Ending
<1>2. PICK p \in ParallelObjects, l \in LocationIds :
        /\ p = ItsRegion(t) /\ p = EndsParallel(t) /\ l = crew[t].index /\ Ends(t).index = l
        /\ Claims(t) /\ (l = 0 <=> t = Primary) /\ (t = Primary => p = crew[t].parallel /\ EndsOwn(t))
  BY <1>0, <1>1, EndsItsRegion, Member
<1>3. PICK pc \in {"left", "task_end"} : pc = IF EndsOwn(t) THEN "left" ELSE "task_end"
  OBVIOUS
<1>4. /\ crew' = [crew EXCEPT ![t].pc = pc] /\ Write(l, "ibarrier_end", TimeOf(t))
      /\ parallel' = IF l = 0 THEN [parallel EXCEPT ![p].ibarrier_end = crew[t].time] ELSE parallel
      /\ UNCHANGED <<runtimeVars, task, poolVarsOmpt, locationData, thread_team, stamps>>
  BY <1>2, <1>3 DEF BarrierEnd, Goto
<1>5. Others(t) /\ Keeps(t) /\ Pc(t)' = pc /\ crew'[t].time = crew[t].time
  BY <1>0, <1>4, GoesOnTyped, GoesOn DEF Places, Ending
<1>6. SameRegion /\ UNCHANGED <<omp, task, stored_task, stamps>>
  BY <1>4 DEF runtimeVars, locationData, SameRegion
<1>7. PICK time \in Nat : time = crew[t].time
  BY <1>0, Member
<1>8. /\ time # 0 /\ time <= 2 * stamps /\ LastTime(l) <= time
      /\ t # Primary => Ended(p) /\ parallel[p].ibarrier_end <= parallel[p].itask_end /\ time = parallel[p].ibarrier_end
      /\ t = Primary => p = crew[Primary].parallel /\ parallel[p].itask_end = 0 /\ ~Ended(p)
  BY <1>1, <1>2, <1>7, TimeOfEnd
<1>9. /\ LogTimes' /\ LastTime(l)' = time
      /\ \A m \in LocationIds \ {l} : log'[m] = log[m]
      /\ \A u \in OmpThreads \ {t} : Claims(u) => log'[crew[u].index] = log[crew[u].index]
  BY <1>0, <1>2, <1>4, <1>6, <1>7, <1>8, EndWritten
<1>10. \A u \in OmpThreads \ {t} : /\ Owns(u)' => Owns(u)
                                   /\ Claims(u) => log'[crew[u].index] = log[crew[u].index]
                                   /\ Overdue(u) => task'[crew[u].ends].parallel = task[crew[u].ends].parallel
  <2>1. \A u \in OmpThreads \ {t} : Owns(u)' => Owns(u)
    BY <1>0, <1>5, <1>6, OwnsUntouched
  <2> QED BY <1>6, <1>9, <2>1
<1>11. ItsRegion(t)' = p
  BY <1>1, <1>2, <1>5, <1>6 DEF ItsRegion, Overdue, EndsParallel, Ends, Ending, Keeps
<1>12. CASE t # Primary
  <2>1. parallel' = parallel /\ \A q : SameTimes(q)
    BY <1>2, <1>4, <1>12 DEF SameTimes
  <2>2. /\ Ended(p)' /\ ~AtBarrier(t)' /\ LastTime(l)' <= parallel'[p].itask_end /\ l = crew'[t].index
        /\ Pc(t)' \notin {"write ibarrier_end", "write task_end"}
    BY <1>2, <1>5, <1>8, <1>9, <1>12, <2>1 DEF Ended, AtBarrier, Keeps
  <2>3. WorkerEnd(t)'
    BY <1>11, <2>2 DEF WorkerEnd, Ended, LastTime
  <2>4. WorkerRegion(t)'
    <3>1. Pc(t) # "idle" /\ t \in Workers
      BY <1>0, <1>1, <1>12
    <3> QED BY <1>5, <1>6, <2>1, <3>1, RegionStays DEF Keeps
  <2>5. stamps' \in Nat /\ stamps <= stamps'
    BY <1>0, <1>6, NoTimePasses
  <2> QED BY <1>5, <1>6, <1>9, <1>10, <1>12, <2>1, <2>2, <2>3, <2>4, <2>5, TimesStep
<1>13. CASE t = Primary
  <2>1. pc = "left" /\ p = crew[Primary].parallel /\ crew'[Primary].parallel = p /\ crew'[Primary].time = time
    BY <1>2, <1>3, <1>5, <1>7, <1>13 DEF Keeps
  <2>2. /\ parallel'[p].region = parallel[p].region /\ parallel'[p].itask_end = 0 /\ parallel'[p].ibarrier_end = time
        /\ \A q \in ParallelObjects \ {p} : SameTimes(q)
    <3>1. parallel \in [ParallelObjects -> ParallelRecords] /\ parallel' = [parallel EXCEPT ![p].ibarrier_end = time]
      BY <1>0, <1>2, <1>4, <1>7, <1>13 DEF TypesOK
    <3> QED BY <1>8, <1>13, <3>1 DEF ParallelRecords, SameTimes
  <2>3. ~BeforeBarrierEnd' /\ ~PrimaryDone' /\ Pc(Primary)' = "left"
    BY <1>5, <1>13, <2>1 DEF BeforeBarrierEnd, PrimaryPhase, PrimaryDone
  <2>4. PrimaryTimes'
    BY <1>8, <2>1, <2>2, <2>3 DEF PrimaryTimes
  <2>5. StoredTimes(p)'
    <3>1. PICK m \in Nat : m = stamps /\ m = stamps'
      BY <1>0, <1>6 DEF TypesOK
    <3>2. 0 <= 2 * m
      BY NotNegative
    <3>3. time <= 2 * m
      BY <1>8, <3>1
    <3> QED BY <2>2, <3>1, <3>2, <3>3 DEF StoredTimes
  <2>6. \A u \in Workers : AtBarrier(u) /\ ItsRegion(u) = p => LastTime(crew[u].index) <= parallel'[p].ibarrier_end
    BY <1>1, <1>7, <1>13, <2>1, <2>2 DEF LateTimes, PrimaryTimes
  <2>7. ~Ended(p) /\ Others(Primary)
    BY <1>5, <1>8, <1>13
  <2> QED BY <1>6, <1>9, <1>10, <1>13, <2>1, <2>2, <2>3, <2>4, <2>5, <2>6, <2>7, PrimaryStores
<1> QED BY <1>12, <1>13

LEMMA ImplicitTaskEndTimes ==
  ASSUME OmptIInv, ObjectsOK, LateTimes, NEW t \in OmpThreads, ImplicitTaskEnd(t) PROVE LateTimes'
<1>0. /\ TypesOK /\ TeamOK /\ TasksOK /\ Workers = OmpThreads \ {Primary} /\ LogTimes /\ NULL \notin TaskObjects
  BY TimesSetting DEF LateTimes
<1>1. Pc(t) = "write task_end" /\ Pc(t) \in Ending
  BY DEF ImplicitTaskEnd, At, Pc, Ending
<1>2. PICK p \in ParallelObjects, l \in LocationIds :
        /\ p = ItsRegion(t) /\ p = EndsParallel(t) /\ l = crew[t].index /\ Ends(t).index = l
        /\ Claims(t) /\ (l = 0 <=> t = Primary) /\ (t = Primary => p = crew[t].parallel /\ EndsOwn(t))
        /\ (EndsOwn(t) <=> ~Overdue(t))
  BY <1>0, <1>1, EndsItsRegion, Member
<1>3. PICK o \in TaskObjects : o = crew[t].ends
  BY <1>0, <1>1, EndsFacts
<1>4. /\ Write(l, "team_end", TimeOf(t))
      /\ parallel' = IF l = 0 THEN [parallel EXCEPT ![p].itask_end = crew[t].time] ELSE parallel
      /\ UNCHANGED <<runtimeVars, poolVarsOmpt, stored_task, thread_team, stamps>>
  BY <1>2, <1>3 DEF ImplicitTaskEnd, Ends
<1>5. /\ Others(t) /\ crew'[t].index = crew[t].index /\ crew'[t].parallel = crew[t].parallel
      /\ \A x \in TaskObjects : task'[x].parallel = task[x].parallel
      /\ \/ EndsOwn(t) /\ Pc(t)' = "release"
         \/ ~EndsOwn(t) /\ Pc(t)' = "team_begin"
  <2>1. CASE EndsOwn(t)
    <3>1. UNCHANGED task /\ crew' = [crew EXCEPT ![t].pc = "release"]
      BY <2>1 DEF ImplicitTaskEnd, Goto
    <3> QED BY <1>0, <2>1, <3>1, GoesOnTyped DEF Places, Keeps
  <2>2. CASE ~EndsOwn(t)
    <3>1. /\ task' = [task EXCEPT ![o].in_overdue_use = FALSE]
          /\ crew' = [crew EXCEPT ![t].pc = "team_begin", ![t].ends = NULL]
      BY <1>3, <2>2 DEF ImplicitTaskEnd
    <3>2. TakesUp(t, "team_begin", NULL) /\ "team_begin" \in Places /\ NULL \in TaskObjects \cup {NULL}
      BY <3>1 DEF TakesUp, Places
    <3> QED BY <1>0, <2>2, <3>1, <3>2, TakesTyped, TaskUse
  <2> QED BY <2>1, <2>2
<1>6. SameRegion /\ UNCHANGED <<omp, stored_task, stamps>>
  BY <1>4 DEF runtimeVars, SameRegion
<1>7. PICK time \in Nat : time = crew[t].time
  BY <1>0, Member
<1>8. /\ time # 0 /\ time <= 2 * stamps /\ LastTime(l) <= time
      /\ t # Primary => Ended(p)
      /\ t = Primary => /\ p = crew[Primary].parallel /\ ~Ended(p) /\ parallel[p].ibarrier_end <= time
  BY <1>1, <1>2, <1>7, TimeOfEnd
<1>9. /\ LogTimes' /\ \A u \in OmpThreads \ {t} : Claims(u) => log'[crew[u].index] = log[crew[u].index]
  BY <1>0, <1>2, <1>4, <1>6, <1>7, <1>8, EndWritten
<1>10. \A u \in OmpThreads \ {t} : /\ Owns(u)' => Owns(u)
                                   /\ Claims(u) => log'[crew[u].index] = log[crew[u].index]
                                   /\ Overdue(u) => task'[crew[u].ends].parallel = task[crew[u].ends].parallel
  <2>1. \A u \in OmpThreads \ {t} : Owns(u)' => Owns(u)
    BY <1>0, <1>5, <1>6, OwnsUntouched
  <2>2. \A u \in OmpThreads : Overdue(u) => task'[crew[u].ends].parallel = task[crew[u].ends].parallel
    BY <1>0, <1>5, TasksUntouched
  <2> QED BY <1>9, <2>1, <2>2
<1>11. ~AtBarrier(t)' /\ ~AtTaskEnd(t)'
  BY <1>5 DEF AtBarrier, AtTaskEnd
<1>12. CASE t # Primary
  <2>1. parallel' = parallel /\ \A q : SameTimes(q)
    BY <1>2, <1>4, <1>12 DEF SameTimes
  <2>2. WorkerRegion(t)'
    <3>1. Pc(t) # "idle" /\ t \in Workers
      BY <1>0, <1>1, <1>12
    <3> QED BY <1>5, <1>6, <2>1, <3>1, RegionStays
  <2>3. WorkerEnd(t)'
    <3>1. CASE EndsOwn(t)
      <4>1. p = crew'[t].parallel /\ Pc(t)' = "release" /\ ~Overdue(t)'
        BY <1>2, <1>5, <3>1 DEF ItsRegion, Overdue, Ending
      <4>2. ItsRegion(t)' = p /\ Ended(p)'
        BY <1>8, <1>12, <2>1, <4>1 DEF ItsRegion, Ended
      <4> QED BY <1>11, <4>1, <4>2 DEF WorkerEnd, Ended
    <3>2. CASE ~EndsOwn(t)
      BY <1>0, <1>5, <1>12, <3>2, NotAtEnd
    <3> QED BY <3>1, <3>2
  <2>4. stamps' \in Nat /\ stamps <= stamps'
    BY <1>0, <1>6, NoTimePasses
  <2> QED BY <1>5, <1>6, <1>9, <1>10, <1>11, <1>12, <2>1, <2>2, <2>3, <2>4, TimesStep
<1>13. CASE t = Primary
  <2>1. /\ p = crew[Primary].parallel /\ crew'[Primary].parallel = p /\ Pc(Primary)' = "release" /\ ~Ended(p)
        /\ Others(Primary)
    BY <1>2, <1>5, <1>8, <1>13
  <2>2. /\ parallel'[p].region = parallel[p].region /\ parallel'[p].itask_end = time
        /\ parallel'[p].ibarrier_end = parallel[p].ibarrier_end /\ parallel[p].ibarrier_end \in Nat
        /\ \A q \in ParallelObjects \ {p} : SameTimes(q)
    <3>1. parallel \in [ParallelObjects -> ParallelRecords] /\ parallel' = [parallel EXCEPT ![p].itask_end = time]
      BY <1>0, <1>2, <1>4, <1>7, <1>13 DEF TypesOK
    <3> QED BY <3>1 DEF ParallelRecords, SameTimes
  <2>3. PrimaryTimes'
    <3>1. ~BeforeBarrierEnd' /\ ~BeforeTaskEnd' /\ ~AtTaskEnd(Primary)'
      BY <2>1 DEF BeforeBarrierEnd, BeforeTaskEnd, PrimaryPhase, AtTaskEnd
    <3> QED BY <2>1, <3>1 DEF PrimaryTimes
  <2>4. StoredTimes(p)'
    <3>1. PICK m \in Nat, b \in Nat : m = stamps /\ m = stamps' /\ b = parallel[p].ibarrier_end
      BY <1>0, <1>6, <2>2 DEF TypesOK
    <3>2. b <= time /\ time <= 2 * m
      BY <1>8, <1>13, <3>1
    <3>3. b <= 2 * m
      BY <3>2
    <3> QED BY <2>2, <3>1, <3>2, <3>3 DEF StoredTimes
  <2>5. Size(parallel[p].region) = 1 \/ Ended(p)'
    <3>1. parallel[p].ibarrier_end # 0 \/ Size(omp.region) = 1
      BY <1>1, <1>13, <2>1 DEF LateTimes, PrimaryTimes, AtTaskEnd
    <3>2. parallel[p].region = omp.region
      BY <1>0, <1>1, <1>13, <2>1 DEF TeamOK
    <3> QED BY <1>8, <2>2, <3>1, <3>2 DEF Ended
  <2> QED BY <1>6, <1>9, <1>10, <1>13, <2>1, <2>2, <2>3, <2>4, <2>5, PrimaryStores
<1> QED BY <1>12, <1>13

-----------------------------------------------------------------------------
(* Nobody else gets the index of a thread.                                 *)
LEMMA IndicesKept ==
  ASSUME IndicesOK,
         \A u \in Workers : Pc(u)' # "idle" => /\ Pc(u) # "idle" /\ crew'[u].parallel = crew[u].parallel
                                               /\ crew'[u].index = crew[u].index,
         \/ /\ crew'[Primary].parallel = crew[Primary].parallel
            /\ omp'.region = omp.region /\ UNCHANGED taken
         \/ \A u \in Workers : Pc(u)' # "idle" => crew'[u].parallel # crew'[Primary].parallel
  PROVE  IndicesOK'
<1>1. ASSUME NEW t \in Workers, Pc(t)' # "idle", crew'[t].parallel = crew'[Primary].parallel
      PROVE  crew'[t].index \in taken'[omp'.region]
  BY <1>1 DEF IndicesOK
<1>2. ASSUME NEW t \in Workers, NEW u \in Workers, Pc(t)' # "idle", Pc(u)' # "idle",
             crew'[u].parallel = crew'[t].parallel, crew'[u].index = crew'[t].index
      PROVE  t = u
  BY <1>2 DEF IndicesOK
<1> QED BY <1>1, <1>2 DEF IndicesOK

(* A step within a region keeps the place of the thread in the team.       *)
LEMMA PlaceKept ==
  ASSUME TypesOK, NEW t \in OmpThreads,
         \/ ImplicitTaskBegin(t) \/ TriggerOverdue(t) \/ NothingOverdue(t) \/ TeamBegin(t)
         \/ BarrierBegin(t) \/ LockOrder(t) \/ Exchange(t) \/ FinalizeBarrierEnd(t)
         \/ BarrierEndTime(t) \/ BarrierEnd(t) \/ LeftBarrier(t)
         \/ ImplicitTaskEndTime(t) \/ ImplicitTaskEnd(t)
  PROVE  /\ \A u \in OmpThreads : /\ crew'[u].index = crew[u].index /\ crew'[u].parallel = crew[u].parallel
                                  /\ Pc(u)' # "idle" => Pc(u) # "idle"
         /\ omp'.region = omp.region /\ UNCHANGED taken
<1>0. crew \in [OmpThreads -> CrewRecords] /\ omp \in [setup : OmptSetups, region : Nat, finalizing : BOOLEAN, mutex : OmpThreads \cup {NULL}]
  BY DEF TypesOK
<1>1. Pc(t) # "idle"
  BY DEF ImplicitTaskBegin, TriggerOverdue, NothingOverdue, TeamBegin, BarrierBegin, LockOrder, Exchange,
         FinalizeBarrierEnd, BarrierEndTime, BarrierEnd, LeftBarrier, ImplicitTaskEndTime, ImplicitTaskEnd,
         MayLeaveBarrier, At, Pc
<1>2. omp'.region = omp.region /\ UNCHANGED taken
  BY <1>0 DEF ImplicitTaskBegin, TriggerOverdue, NothingOverdue, TeamBegin, BarrierBegin, LockOrder, Exchange,
         FinalizeBarrierEnd, BarrierEndTime, BarrierEnd, LeftBarrier, ImplicitTaskEndTime, ImplicitTaskEnd,
         TakeTime, runtimeVars
<1>3. \/ \E pc : crew' = [crew EXCEPT ![t].pc = pc]
      \/ \E pc, ends : crew' = [crew EXCEPT ![t].pc = pc, ![t].ends = ends]
      \/ \E pc, ptr : crew' = [crew EXCEPT ![t].pc = pc, ![t].ptr = ptr]
      \/ \E pc, ptr, ends : crew' = [crew EXCEPT ![t].pc = pc, ![t].ptr = ptr, ![t].ends = ends]
      \/ \E pc, time : crew' = [crew EXCEPT ![t].pc = pc, ![t].time = time]
  <2>1. CASE ImplicitTaskBegin(t) \/ NothingOverdue(t) \/ BarrierBegin(t) \/ LockOrder(t) \/ LeftBarrier(t) \/ BarrierEnd(t)
    BY <2>1 DEF ImplicitTaskBegin, NothingOverdue, BarrierBegin, LockOrder, LeftBarrier, BarrierEnd, Goto
  <2>2. CASE TriggerOverdue(t)
    BY <2>2 DEF TriggerOverdue
  <2>7. CASE Exchange(t)
    <3>1. CASE StillStored(t)
      <4>1. crew' = [crew EXCEPT ![t].pc = "ibarrier_end", ![t].ends = crew[t].ptr]
        BY <2>7, <3>1 DEF Exchange
      <4> QED BY <4>1
    <3>2. CASE ~StillStored(t)
      <4>1. crew' = [crew EXCEPT ![t].pc = "release"]
        BY <2>7, <3>2 DEF Exchange, Goto
      <4> QED BY <4>1
    <3> QED BY <3>1, <3>2
  <2>6. CASE ImplicitTaskEnd(t)
    <3>1. CASE EndsOwn(t)
      <4>1. crew' = [crew EXCEPT ![t].pc = "release"]
        BY <2>6, <3>1 DEF ImplicitTaskEnd, Goto
      <4> QED BY <4>1
    <3>2. CASE ~EndsOwn(t)
      <4>1. crew' = [crew EXCEPT ![t].pc = "team_begin", ![t].ends = NULL]
        BY <2>6, <3>2 DEF ImplicitTaskEnd
      <4> QED BY <4>1
    <3> QED BY <3>1, <3>2
  <2>3. CASE FinalizeBarrierEnd(t)
    BY <2>3 DEF FinalizeBarrierEnd
  <2>4. CASE TeamBegin(t)
    BY <2>4 DEF TeamBegin
  <2>5. CASE BarrierEndTime(t) \/ ImplicitTaskEndTime(t)
    BY <2>5 DEF BarrierEndTime, ImplicitTaskEndTime, TakeTime
  <2> QED BY <2>1, <2>2, <2>3, <2>4, <2>5, <2>6, <2>7
<1>4. /\ \A u \in OmpThreads \ {t} : crew'[u] = crew[u]
      /\ crew'[t].index = crew[t].index /\ crew'[t].parallel = crew[t].parallel
  <2>1. CASE \E pc : crew' = [crew EXCEPT ![t].pc = pc]
    BY <1>0, <2>1 DEF CrewRecords
  <2>2. CASE \E pc, ends : crew' = [crew EXCEPT ![t].pc = pc, ![t].ends = ends]
    BY <1>0, <2>2 DEF CrewRecords
  <2>3. CASE \E pc, ptr : crew' = [crew EXCEPT ![t].pc = pc, ![t].ptr = ptr]
    BY <1>0, <2>3 DEF CrewRecords
  <2>4. CASE \E pc, ptr, ends : crew' = [crew EXCEPT ![t].pc = pc, ![t].ptr = ptr, ![t].ends = ends]
    BY <1>0, <2>4 DEF CrewRecords
  <2>5. CASE \E pc, time : crew' = [crew EXCEPT ![t].pc = pc, ![t].time = time]
    BY <1>0, <2>5 DEF CrewRecords
  <2> QED BY <1>3, <2>1, <2>2, <2>3, <2>4, <2>5
<1>5. \A u \in OmpThreads : /\ crew'[u].index = crew[u].index /\ crew'[u].parallel = crew[u].parallel
                            /\ Pc(u)' # "idle" => Pc(u) # "idle"
  BY <1>1, <1>4 DEF Pc
<1> QED BY <1>2, <1>5

LEMMA JoinTeamIndices ==
  ASSUME OmptIInv, IndicesOK, NEW t \in Workers, NEW index \in LocationIds \ {0}, JoinTeam(t, index)
  PROVE  IndicesOK'
<1>0. TypesOK /\ Primary \in OmpThreads /\ t # Primary /\ Workers = OmpThreads \ {Primary}
  BY TimesSetting
<1>1. PICK p : p = crew[Primary].parallel
  OBVIOUS
<1>2. /\ omp.region \in RegionIds /\ index \notin taken[omp.region] /\ omp' = omp
      /\ taken' = [taken EXCEPT ![omp.region] = @ \cup {index}]
      /\ Others(t) /\ crew'[t].index = index /\ crew'[t].parallel = p
  BY <1>1, JoinFacts
<1>3. taken'[omp.region] = taken[omp.region] \cup {index} /\ crew'[Primary].parallel = p
  BY <1>0, <1>1, <1>2 DEF TypesOK, Others
<1>4. ASSUME NEW u \in Workers, u # t, Pc(u)' # "idle"
      PROVE  /\ crew'[u] = crew[u] /\ Pc(u) # "idle"
             /\ crew[u].parallel = p => crew[u].index \in taken[omp.region] /\ crew[u].index # index
  BY <1>0, <1>1, <1>2, <1>4 DEF IndicesOK, Others, Pc
<1>5. ASSUME NEW u \in Workers, Pc(u)' # "idle", crew'[u].parallel = crew'[Primary].parallel
      PROVE  crew'[u].index \in taken'[omp'.region]
  BY <1>2, <1>3, <1>4, <1>5
<1>6. ASSUME NEW u \in Workers, NEW v \in Workers, Pc(u)' # "idle", Pc(v)' # "idle",
             crew'[v].parallel = crew'[u].parallel, crew'[v].index = crew'[u].index
      PROVE  u = v
  <2>1. CASE u # t /\ v # t
    BY <1>4, <1>6, <2>1 DEF IndicesOK
  <2>2. CASE u = t \/ v = t
    BY <1>2, <1>4, <1>6, <2>2
  <2> QED BY <2>1, <2>2
<1> QED BY <1>5, <1>6 DEF IndicesOK

LEMMA ReleaseIndices ==
  ASSUME OmptIInv, IndicesOK, NEW t \in OmpThreads, Release(t) PROVE IndicesOK'
<1>0. TypesOK /\ Primary \in OmpThreads /\ Workers = OmpThreads \ {Primary} /\ 0 \in LocationIds
  BY TimesSetting
<1>1. crew[t].parallel \in ParallelObjects \cup {NULL} /\ Pc(t) = "release"
  BY <1>0, Member DEF Release, At, Pc
<1>2. PICK p \in ParallelObjects \cup {NULL} : p = crew[t].parallel
  BY <1>1
<1>3. /\ omp' = [omp EXCEPT !.mutex = IF @ = t THEN NULL ELSE @] /\ UNCHANGED taken
      /\ crew' = [crew EXCEPT ![t] = IF t = Primary
                                     THEN [NotInTeam EXCEPT !.pc = "join", !.parallel = p]
                                     ELSE NotInTeam]
  BY <1>2 DEF Release
<1>4. omp'.region = omp.region
  BY <1>0, <1>3 DEF TypesOK
<1>5. /\ Others(t)
      /\ t = Primary => crew'[t].parallel = p
      /\ t # Primary => Pc(t)' = "idle"
  <2>1. CASE t = Primary
    <3>1. crew' = [crew EXCEPT ![t] = [NotInTeam EXCEPT !.pc = "join", !.parallel = p]] /\ "join" \in Places
      BY <1>3, <2>1 DEF Places
    <3> QED BY <1>0, <2>1, <3>1, CrewMoves
  <2>2. CASE t # Primary
    <3>1. crew' = [crew EXCEPT ![t] = NotInTeam] /\ "idle" \in Places
      BY <1>3, <2>2 DEF Places
    <3> QED BY <1>0, <2>2, <3>1, CrewMoves
  <2> QED BY <2>1, <2>2
<1>6. crew'[Primary].parallel = crew[Primary].parallel
  BY <1>0, <1>2, <1>5 DEF Others
<1>7. ASSUME NEW u \in Workers, Pc(u)' # "idle"
      PROVE  Pc(u) # "idle" /\ crew'[u].parallel = crew[u].parallel /\ crew'[u].index = crew[u].index
  <2>1. u \in OmpThreads \ {t}
    BY <1>0, <1>5, <1>7
  <2> QED BY <1>5, <1>7, <2>1 DEF Others, Pc
<1> QED BY <1>3, <1>4, <1>6, <1>7, IndicesKept

LEMMA ParallelEndIndices ==
  ASSUME OmptIInv, IndicesOK, ParallelEnd PROVE IndicesOK'
<1>0. /\ TypesOK /\ Primary \in OmpThreads /\ NULL \notin ParallelObjects /\ Workers = OmpThreads \ {Primary}
      /\ \A u \in Workers : Pc(u) # "idle" => crew[u].parallel \in ParallelObjects
  BY TimesSetting
<1>1. crew' = [crew EXCEPT ![Primary] = NotInTeam]
  BY DEF ParallelEnd
<1>2. crew'[Primary].parallel = NULL /\ \A u \in Workers : crew'[u] = crew[u]
  BY <1>0, <1>1 DEF TypesOK, NotInTeam
<1> QED BY <1>0, <1>2, IndicesKept DEF Pc

-----------------------------------------------------------------------------
(* At the start there are no times, and every step keeps what is said of   *)
(* them.                                                                   *)
LEMMA TimesInitially == OmptInit => TimesOK
<1> SUFFICES ASSUME OmptInit PROVE TimesOK
  OBVIOUS
<1>1. OmptIInv /\ TypesOK /\ Primary \in OmpThreads /\ Workers = OmpThreads \ {Primary}
  BY OmptInitially, TimesSetting
<1>2. \A t \in OmpThreads : Pc(t) = "idle"
  BY DEF OmptInit, NotInTeam, Pc
<1>3. IndicesOK
  BY <1>1, <1>2 DEF IndicesOK
<1>4. LogTimes
  <2>1. \A l \in LocationIds : log[l] = << >>
    BY DEF OmptInit
  <2>2. ASSUME NEW l \in LocationIds
        PROVE  1 .. Len(log[l]) = {} /\ 1 .. Len(log[l]) - 1 = {}
    BY <2>1
  <2> QED BY <2>2 DEF LogTimes
<1>5. PrimaryTimes
  <2>1. Pc(Primary) = "idle"
    BY <1>1, <1>2
  <2> QED BY <2>1 DEF PrimaryTimes, BeforeBarrierEnd, BeforeTaskEnd, PrimaryPhase, AtTaskEnd
<1>6. ASSUME NEW p \in ParallelObjects PROVE StoredTimes(p)
  <2>1. parallel[p].ibarrier_end = 0 /\ parallel[p].itask_end = 0
    BY DEF OmptInit, FreshParallel
  <2>2. stamps = 0 /\ 0 <= 2 * 0
    BY DEF OmptInit
  <2> QED BY <2>1, <2>2 DEF StoredTimes
<1>7. \A t \in Workers : WorkerRegion(t) /\ WorkerEnd(t)
  BY <1>1, <1>2 DEF WorkerRegion, WorkerEnd, AtBarrier, AtTaskEnd, Ending
<1> QED BY <1>3, <1>4, <1>5, <1>6, <1>7 DEF TimesOK, LateTimes

(* The steps of one thread. *)
LEMMA ThreadStepTimes ==
  ASSUME OmptIInv, ObjectsOK, Late, IndicesOK, LateTimes, NEW t \in OmpThreads,
         \/ ImplicitTaskBegin(t) \/ TriggerOverdue(t) \/ NothingOverdue(t) \/ TeamBegin(t)
         \/ BarrierBegin(t) \/ LockOrder(t) \/ Exchange(t) \/ FinalizeBarrierEnd(t)
         \/ BarrierEndTime(t) \/ BarrierEnd(t) \/ LeftBarrier(t)
         \/ ImplicitTaskEndTime(t) \/ ImplicitTaskEnd(t) \/ Release(t)
  PROVE  IndicesOK' /\ LateTimes'
<1>1. IndicesOK'
  <2>1. CASE Release(t)
    BY <2>1, ReleaseIndices
  <2>2. CASE ~Release(t)
    <3>1. /\ \A u \in OmpThreads : /\ crew'[u].index = crew[u].index /\ crew'[u].parallel = crew[u].parallel
                                   /\ Pc(u)' # "idle" => Pc(u) # "idle"
          /\ omp'.region = omp.region /\ UNCHANGED taken
      BY <2>2, TimesSetting, PlaceKept
    <3> QED BY <3>1, TimesSetting, IndicesKept
  <2> QED BY <2>1, <2>2
<1>2. CASE ImplicitTaskBegin(t) \/ TriggerOverdue(t) \/ NothingOverdue(t) \/ TeamBegin(t)
  BY <1>1, <1>2, ImplicitTaskBeginTimes, TriggerOverdueTimes, NothingOverdueTimes, TeamBeginTimes
<1>3. CASE BarrierBegin(t) \/ LockOrder(t) \/ Exchange(t) \/ FinalizeBarrierEnd(t)
  BY <1>1, <1>3, BarrierBeginTimes, LockOrderTimes, ExchangeTimes, FinalizeBarrierEndTimes
<1>4. CASE BarrierEndTime(t) \/ ImplicitTaskEndTime(t) \/ BarrierEnd(t) \/ LeftBarrier(t)
  BY <1>1, <1>4, EndTimeTimes, BarrierEndTimes, LeftBarrierTimes
<1>5. CASE ImplicitTaskEnd(t) \/ Release(t)
  BY <1>1, <1>5, ImplicitTaskEndTimes, ReleaseTimes
<1> QED BY <1>2, <1>3, <1>4, <1>5

(* What the runtime reports when is the same all the time.                 *)
LEMMA SetupKept == ASSUME TypesOK, [OmptNext]_omptVars PROVE omp'.setup = omp.setup
<1>1. UNCHANGED omptVars => omp'.setup = omp.setup
  BY DEF omptVars, runtimeVars
<1>2. ParallelBegin \/ ParallelEnd \/ FinalizeTool \/ OmptStop => omp'.setup = omp.setup
  BY DEF TypesOK, ParallelBegin, ParallelEnd, FinalizeTool, OmptStop, omptVars, runtimeVars
<1>3. ASSUME NEW t \in Workers, NEW index \in LocationIds, JoinTeam(t, index) PROVE omp'.setup = omp.setup
  BY <1>3 DEF JoinTeam
<1>4. ASSUME NEW t \in OmpThreads,
             \/ ImplicitTaskBegin(t) \/ TriggerOverdue(t) \/ NothingOverdue(t) \/ TeamBegin(t)
             \/ BarrierBegin(t) \/ LockOrder(t) \/ Exchange(t)
      PROVE  omp'.setup = omp.setup
  BY <1>4 DEF TypesOK, ImplicitTaskBegin, TriggerOverdue, NothingOverdue, TeamBegin, BarrierBegin, LockOrder,
              Exchange, runtimeVars
<1>5. ASSUME NEW t \in OmpThreads,
             \/ FinalizeBarrierEnd(t) \/ BarrierEndTime(t) \/ BarrierEnd(t) \/ LeftBarrier(t)
             \/ ImplicitTaskEndTime(t) \/ ImplicitTaskEnd(t) \/ Release(t)
      PROVE  omp'.setup = omp.setup
  BY <1>5 DEF TypesOK, FinalizeBarrierEnd, BarrierEndTime, BarrierEnd, LeftBarrier, ImplicitTaskEndTime,
              ImplicitTaskEnd, TakeTime, Release, runtimeVars
<1> QED BY <1>1, <1>2, <1>3, <1>4, <1>5 DEF OmptNext

LEMMA TimesNext == OmptIInv /\ ObjectsOK /\ TimesOK /\ [OmptNext]_omptVars => TimesOK'
<1> SUFFICES ASSUME OmptIInv, ObjectsOK, IndicesOK, LateTimes, Late, [OmptNext]_omptVars PROVE IndicesOK' /\ LateTimes'
  BY TimesSetting, SetupKept DEF TimesOK, Late
<1>0. TypesOK /\ Workers = OmpThreads \ {Primary}
  BY TimesSetting
<1>1. CASE ParallelBegin
  <2>1. LateTimes' /\ \A u \in Workers : crew'[u] = crew[u] /\ crew'[u].parallel # crew'[Primary].parallel
    BY <1>1, ParallelBeginTimes
  <2> QED BY <2>1, IndicesKept DEF Pc
<1>2. CASE ParallelEnd
  BY <1>2, ParallelEndTimes, ParallelEndIndices
<1>3. CASE FinalizeTool
  <2>1. UNCHANGED <<crew, taken, parallel, task, stored_task, log, stamps>> /\ omp' = [omp EXCEPT !.finalizing = TRUE]
    BY <1>3 DEF FinalizeTool, locationData
  <2>2. SameRegion
    BY <1>0, <2>1 DEF TypesOK, SameRegion
  <2>3. LateTimes'
    BY <2>1, <2>2, StillTimes
  <2> QED BY <2>1, <2>2, <2>3, IndicesKept DEF Pc, SameRegion
<1>4. CASE OmptStop \/ UNCHANGED omptVars
  <2>1. UNCHANGED <<crew, taken, parallel, task, stored_task, log, stamps, omp>>
    BY <1>4 DEF OmptStop, omptVars, locationData, runtimeVars
  <2>2. SameRegion
    BY <2>1 DEF SameRegion
  <2>3. LateTimes'
    BY <2>1, <2>2, StillTimes
  <2> QED BY <2>1, <2>3, IndicesKept DEF Pc
<1>5. CASE \E t \in Workers, index \in LocationIds \ {0} : JoinTeam(t, index)
  BY <1>5, JoinTeamTimes, JoinTeamIndices
<1>6. CASE \E t \in OmpThreads :
             \/ ImplicitTaskBegin(t) \/ TriggerOverdue(t) \/ NothingOverdue(t) \/ TeamBegin(t)
             \/ BarrierBegin(t) \/ LockOrder(t) \/ Exchange(t) \/ FinalizeBarrierEnd(t)
             \/ BarrierEndTime(t) \/ BarrierEnd(t) \/ LeftBarrier(t)
             \/ ImplicitTaskEndTime(t) \/ ImplicitTaskEnd(t) \/ Release(t)
  BY <1>6, ThreadStepTimes
<1> QED BY <1>1, <1>2, <1>3, <1>4, <1>5, <1>6 DEF OmptNext

(* TimesInOrderIfLate: when the OpenMP runtime reports that a worker left  *)
(* the barrier only after the end of the primary thread's task, as         *)
(* runtimes do that keep the workers waiting for the next region, then the *)
(* times of a location never decrease: an overdue event, written with the  *)
(* time that the primary thread has stored in the region, comes after all  *)
(* that its location has, for any number of threads and regions.           *)
(* SCOREP_Location_SetLastTimestamp aborts the measurement otherwise.      *)
THEOREM LateTimesNeverDecrease == OmptSpec => []TimesInOrderIfLate
<1>1. OmptInit => OmptIInv /\ ObjectsOK /\ TimesOK
  BY OmptInitially, ObjectsInitially, TimesInitially
<1>2. OmptIInv /\ ObjectsOK /\ TimesOK /\ [OmptNext]_omptVars => (OmptIInv /\ ObjectsOK /\ TimesOK)'
  BY OmptStep, ObjectsStep, TimesNext
<1>3. TimesOK => TimesInOrderIfLate
  BY DEF TimesOK, Late, LateTimes, LogTimes, TimesInOrderIfLate, TimesInOrder
<1> QED BY <1>1, <1>2, <1>3, PTL DEF OmptSpec
=============================================================================
