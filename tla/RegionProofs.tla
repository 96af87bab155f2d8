---------------------------- MODULE RegionProofs ----------------------------
(***************************************************************************)
(* Proofs about what keeps the regions that a program enters: Recording,   *)
(* where selective recording knows which region switched recording on and  *)
(* recording is not switched in parallel regions, for any number of        *)
(* threads and regions and any depth of calls; TaskStack, for any          *)
(* locations, tasks, frames and regions; and RewindStack, for buffers of   *)
(* any size and programs of any length that enter their rewind regions     *)
(* nested.                                                                 *)
(***************************************************************************)
EXTENDS Recording, TaskStack, RewindStack, ListLemmas, FiniteSetTheorems, WellFoundedInduction

-----------------------------------------------------------------------------
(* The regions of the tasks. *)

(* The first element of a list taken off, if there is one.                 *)
LEMMA RestType ==
  ASSUME NEW S, NEW s \in Seq(S)
  PROVE  Rest(s) \in Seq(S)
BY HeadTailProperties DEF Rest

(* AllocForMisc returns memory that is not in use.                         *)
LEMMA NewMemoryIsNew ==
  ASSUME NEW objects, NEW o \in NewMemory(objects)
  PROVE  o \in objects /\ o \notin misc_memory
<1>1. ~(objects \subseteq misc_memory)
  BY DEF NewMemory
<1>2. \E x : x \in objects \ misc_memory
  BY <1>1
<1>3. o = CHOOSE x \in objects \ misc_memory : TRUE
  BY <1>1 DEF NewMemory
<1> QED BY <1>2, <1>3

(* Every step keeps the types. *)
LEMMA TypesKept ==
  ASSUME TaskStackTypeOK, [TaskStackNext]_taskStackVars
  PROVE  TaskStackTypeOK'
<1> USE TaskStackAssumption DEF TaskStackTypeOK, Slots, Handles, Executing
<1>1. ASSUME NEW l \in Locations, NEW t \in Tasks, Create(l, t)
      PROVE  /\ frames' \in [Tasks -> Seq(Frames)] /\ current_index' \in [Tasks -> Slots]
             /\ recycled_tasks' \in [Locations -> Seq(Tasks)]
             /\ misc_memory' \subseteq Tasks \cup Frames /\ live' \subseteq Tasks
  BY <1>1, RestType, EmptySeq DEF Create
<1>2. ASSUME NEW l \in Locations, InitLocation(l) PROVE TaskStackTypeOK'
  BY <1>1, <1>2 DEF InitLocation
<1>3. ASSUME NEW l \in Locations, TaskBegin(l) PROVE TaskStackTypeOK'
  BY <1>1, <1>3 DEF TaskBegin
<1>4. ASSUME NEW l \in Locations, TaskEnd(l) PROVE TaskStackTypeOK'
  <2>1. current_task[l] \in Tasks
    BY <1>4 DEF TaskEnd
  <2>2. <<current_task[l]>> \o recycled_tasks[l] \in Seq(Tasks)
    BY <2>1, Prepend
  <2> QED BY <1>4, <2>2 DEF TaskEnd, taskVars
<1>5. ASSUME NEW l \in Locations, NEW t \in Tasks, TaskSwitch(l, t) PROVE TaskStackTypeOK'
  BY <1>5 DEF TaskSwitch, taskVars
<1>6. ASSUME NEW l \in Locations, NEW region \in Handles, EnterInFrame(l, region) PROVE TaskStackTypeOK'
  <2> DEFINE t == current_task[l]
             f == frames[t][Len(frames[t])]
  <2>0. t \in Tasks /\ current_index[t] \in Slots /\ current_index[t] # SCOREP_TASK_STACK_SIZE - 1
    BY <1>6 DEF EnterInFrame, Full
  <2>1. t \in Tasks /\ current_index[t] + 1 \in Slots
    BY <2>0
  <2>2. current_index' \in [Tasks -> Slots]
    BY <1>6, <2>1 DEF EnterInFrame
  <2>3. regions' = [regions EXCEPT ![f] = [@ EXCEPT ![current_index[t] + 1] = region]]
    BY <1>6 DEF EnterInFrame
  <2>4. \A g \in Frames : [regions[g] EXCEPT ![current_index[t] + 1] = region] \in [Slots -> Handles \cup {NULL}]
    OBVIOUS
  <2>5. regions' \in [Frames -> [Slots -> Handles \cup {NULL}]]
    BY <2>3, <2>4
  <2> QED BY <1>6, <2>2, <2>5 DEF EnterInFrame, locationVars
<1>7. ASSUME NEW l \in Locations, NEW region \in Handles, EnterNewFrame(l, region) PROVE TaskStackTypeOK'
  <2>1. PICK f \in Frames :
          /\ misc_memory' = misc_memory \cup {f}
          /\ frames' = [frames EXCEPT ![current_task[l]] = Append(@, f)]
          /\ regions' = [regions EXCEPT ![f][0] = region]
    BY <1>7 DEF EnterNewFrame
  <2>2. Append(frames[current_task[l]], f) \in Seq(Frames)
    BY <1>7, AppendTo DEF EnterNewFrame
  <2> QED BY <1>7, <2>1, <2>2, RestType DEF EnterNewFrame
<1>8. ASSUME NEW l \in Locations, ExitInFrame(l) PROVE TaskStackTypeOK'
  BY <1>8 DEF ExitInFrame, locationVars
<1>9. ASSUME NEW l \in Locations, ExitFrame(l) PROVE TaskStackTypeOK'
  <2> DEFINE s == frames[current_task[l]]
  <2>1. s \in Seq(Frames) /\ s # << >>
    BY <1>9 DEF ExitFrame
  <2>2. Len(s) \in Nat \ {0} /\ s[Len(s)] \in Frames /\ \A i \in 1 .. Len(s) - 1 : s[i] \in Frames
    BY <2>1, EmptySeq, ElementOfSeq
  <2>3. SubSeq(s, 1, Len(s) - 1) \in Seq(Frames)
    BY <2>2, SubSeqProperties
  <2>4. <<s[Len(s)]>> \o recycled_frames[l] \in Seq(Frames)
    BY <2>2, Prepend
  <2> QED BY <1>9, <2>3, <2>4 DEF ExitFrame
<1>10. ASSUME NEW l \in Locations, ExitAllRegions(l) PROVE TaskStackTypeOK'
  <2>1. frames[current_task[l]] \o recycled_frames[l] \in Seq(Frames)
    BY <1>10, ConcatProperties DEF ExitAllRegions
  <2> QED BY <1>10, <2>1, EmptySeq DEF ExitAllRegions
<1>11. CASE FinalizeLocations
  <2>1. \A l \in Locations : current_task[l] # NULL =>
          <<current_task[l]>> \o recycled_tasks[l] \in Seq(Tasks)
    BY Prepend
  <2>2. << >> \in Seq(Tasks)
    BY EmptySeq
  <2>3. recycled_tasks' \in [Locations -> Seq(Tasks)]
    BY <1>11, <2>1, <2>2 DEF FinalizeLocations
  <2> QED BY <1>11, <2>3 DEF FinalizeLocations, taskVars
<1>12. CASE UNCHANGED taskStackVars
  BY <1>12 DEF taskStackVars, taskVars, locationVars
<1> QED BY <1>2, <1>3, <1>4, <1>5, <1>6, <1>7, <1>8, <1>9, <1>10, <1>11, <1>12
        DEF TaskStackNext, TaskStackStop

-----------------------------------------------------------------------------
(* Frames *)

(* The stack of a task, and the list of a location, as holders of frames.  *)
Stack(t) == [type |-> "task", id |-> t]
List(l) == [type |-> "location", id |-> l]
Own(h) == Range(Held(h))

(* A task holds the frames of its stack, a location those it keeps for     *)
(* reuse.                                                                  *)
LEMMA HolderFacts ==
  /\ \A t \in Tasks : Stack(t) \in Holders /\ Held(Stack(t)) = frames[t]
  /\ \A l \in Locations : List(l) \in Holders /\ Held(List(l)) = recycled_frames[l]
  /\ \A h \in Holders : \/ \E t \in Tasks : h = Stack(t)
                        \/ \E l \in Locations : h = List(l)
  /\ \A t, u \in Tasks : t # u => Stack(t) # Stack(u)
  /\ \A l, m \in Locations : l # m => List(l) # List(m)
  /\ \A t \in Tasks, l \in Locations : Stack(t) # List(l)
<1>1. \A h \in Holders : \/ \E t \in Tasks : h = Stack(t)
                         \/ \E l \in Locations : h = List(l)
  BY DEF Holders, Stack, List
<1> QED BY <1>1 DEF Holders, Held, Stack, List

(* Of the holders H, two exchange elements, or one of them gets new ones:  *)
(* what each holds goes from A to B.                                       *)
Exchanged(H, A, B, g, h, new) ==
  /\ g \in H /\ h \in H /\ g # h
  /\ \A i, j \in H : i # j => A[i] \cap A[j] = {}
  /\ \A i \in H : new \cap A[i] = {}
  /\ \A i \in H \ {g, h} : B[i] = A[i]
  /\ B[g] \cup B[h] = A[g] \cup A[h] \cup new
  /\ B[g] \cap B[h] = {}

(* Still nothing is held twice.                                            *)
LEMMA Exchange ==
  ASSUME NEW H, NEW A, NEW B, NEW g, NEW h, NEW new, Exchanged(H, A, B, g, h, new)
  PROVE  /\ \A i, j \in H : i # j => B[i] \cap B[j] = {}
         /\ UNION {B[i] : i \in H} = (UNION {A[i] : i \in H}) \cup new
<1> USE DEF Exchanged
<1>1. \A i \in H \ {g, h} : B[i] \cap (B[g] \cup B[h]) = {}
  OBVIOUS
<1>2. \A i, j \in H : i # j => B[i] \cap B[j] = {}
  BY <1>1
<1>3. ASSUME NEW x PROVE x \in (UNION {B[i] : i \in H}) <=> x \in (UNION {A[i] : i \in H}) \cup new
  OBVIOUS
<1> QED BY <1>2, <1>3

(* Every step of a location keeps frames in one place.                     *)
LEMMA ExchangeFrames ==
  ASSUME TaskStackTypeOK, TaskStackTypeOK', FramesOwnedOnce,
         NEW l \in Locations, NEW t \in Tasks, NEW new \in SUBSET Frames,
         \A u \in Tasks \ {t} : frames'[u] = frames[u],
         \A m \in Locations \ {l} : recycled_frames'[m] = recycled_frames[m],
         new \cap misc_memory = {},
         misc_memory' = misc_memory \cup new,
         Range(frames'[t]) \cup Range(recycled_frames'[l])
           = Range(frames[t]) \cup Range(recycled_frames[l]) \cup new,
         Range(frames'[t]) \cap Range(recycled_frames'[l]) = {},
         IsInjective(frames'[t]), IsInjective(recycled_frames'[l])
  PROVE  FramesOwnedOnce'
<1> DEFINE A == [h \in Holders |-> Own(h)]
           B == [h \in Holders |-> Own(h)']
<1>1. /\ \A u \in Tasks : Held(Stack(u))' = frames'[u] /\ Held(Stack(u)) = frames[u]
      /\ \A m \in Locations : Held(List(m))' = recycled_frames'[m] /\ Held(List(m)) = recycled_frames[m]
  BY DEF Held, Stack, List
<1>2. /\ Stack(t) \in Holders /\ List(l) \in Holders /\ Stack(t) # List(l)
      /\ \A h \in Holders \ {Stack(t), List(l)} : Held(h)' = Held(h)
  <2>1. ASSUME NEW h \in Holders \ {Stack(t), List(l)} PROVE Held(h)' = Held(h)
    BY <1>1, HolderFacts
  <2> QED BY <2>1, HolderFacts
<1>3. \A h \in Holders : IsInjective(Held(h)')
  BY <1>1, <1>2 DEF FramesOwnedOnce
<1>4. /\ \A i, j \in Holders : i # j => A[i] \cap A[j] = {}
      /\ misc_memory \cap Frames = UNION {A[i] : i \in Holders}
  BY DEF FramesOwnedOnce, Own
<1>5. /\ \A i \in Holders \ {Stack(t), List(l)} : B[i] = A[i]
      /\ B[Stack(t)] \cup B[List(l)] = A[Stack(t)] \cup A[List(l)] \cup new
      /\ B[Stack(t)] \cap B[List(l)] = {}
      /\ \A i \in Holders : new \cap A[i] = {}
  BY <1>1, <1>2, <1>4 DEF Own
<1> HIDE DEF A, B
<1>6. /\ \A i, j \in Holders : i # j => B[i] \cap B[j] = {}
      /\ UNION {B[i] : i \in Holders} = (UNION {A[i] : i \in Holders}) \cup new
  <2>1. Exchanged(Holders, A, B, Stack(t), List(l), new)
    BY <1>2, <1>4, <1>5 DEF Exchanged
  <2> QED BY <2>1, Exchange
<1>7. misc_memory' \cap Frames = UNION {B[i] : i \in Holders}
  BY <1>4, <1>6
<1>8. \A h \in Holders : B[h] = Range(Held(h)')
  BY DEF B, Own
<1> QED BY <1>3, <1>6, <1>7, <1>8 DEF FramesOwnedOnce, Holders

-----------------------------------------------------------------------------
(* The inductive invariant *)

(* The index of a task without frames is the one alloc_new_stack_frame     *)
(* starts from, and a task that has completed has no frames left.          *)
StacksOfTasks ==
  \A t \in Tasks :
    /\ frames[t] = << >> => Full(t)
    /\ ~finalized /\ t \notin live => frames[t] = << >>

(* A task that has completed and is still the current one of a location is *)
(* in the list of that location, and an implicit task stays where it is.   *)
CurrentTasks ==
  ~finalized => \A l, m \in Locations :
    /\ current_task[l] \in live \cup {NULL} \cup Range(recycled_tasks[l])
    /\ current_task[l] \in live /\ current_task[l] = implicit_task[m] => l = m

TaskStackInvariant == OwnedOnce /\ StacksOfTasks /\ CurrentTasks

(* At the beginning nothing has been allocated. *)
LEMMA InvariantHoldsInitially == TaskStackInit => TaskStackInvariant
<1> SUFFICES ASSUME TaskStackInit PROVE TaskStackInvariant
  OBVIOUS
<1>1. TaskStackTypeOK
  <2>1. SCOREP_TASK_STACK_SIZE - 1 \in Slots
    BY TaskStackAssumption DEF Slots
  <2>2. << >> \in Seq(Frames) /\ << >> \in Seq(Tasks)
    BY EmptyList
  <2> QED BY <2>1, <2>2 DEF TaskStackInit, TaskStackTypeOK
<1>2. \A h \in Holders : Held(h) = << >>
  BY HolderFacts DEF TaskStackInit
<1>3. FramesOwnedOnce
  <2>1. \A h \in Holders : IsInjective(Held(h)) /\ Range(Held(h)) = {}
    BY <1>2, EmptyList
  <2> QED BY <2>1 DEF FramesOwnedOnce, TaskStackInit
<1>4. \A l \in Locations : IsInjective(recycled_tasks[l]) /\ Range(recycled_tasks[l]) = {}
  BY EmptyList DEF TaskStackInit
<1>5. TasksOwnedOnce
  BY <1>4 DEF TasksOwnedOnce, TaskStackInit
<1>6. StacksOfTasks /\ CurrentTasks
  BY DEF StacksOfTasks, CurrentTasks, Full, TaskStackInit
<1> QED BY <1>1, <1>3, <1>5, <1>6 DEF TaskStackInvariant, OwnedOnce

(* The object that scorep_task_create takes is not in use.                 *)
LEMMA TaskForIsFree ==
  ASSUME TaskStackInvariant, ~finalized, NEW l \in Locations, NEW t \in Tasks, TaskFor(l, t)
  PROVE  /\ t \notin live /\ frames[t] = << >>
         /\ \A m \in Locations : implicit_task[m] # t
         /\ \A m \in Locations \ {l} : t \notin Range(recycled_tasks[m]) /\ current_task[m] # t
         /\ t \in misc_memory => recycled_tasks[l] # << >>
<1> USE DEF TaskStackInvariant, OwnedOnce
<1>0. recycled_tasks[l] \in Seq(Tasks) /\ IsInjective(recycled_tasks[l])
  BY DEF TaskStackTypeOK, TasksOwnedOnce
<1>1. /\ t \notin live
      /\ \A m \in Locations \ {l} : t \notin Range(recycled_tasks[m])
      /\ t \in misc_memory => recycled_tasks[l] # << >>
  <2>1. CASE recycled_tasks[l] # << >>
    <3>1. t \in Range(recycled_tasks[l])
      BY <1>0, <2>1, WithoutHead DEF TaskFor
    <3> QED BY <2>1, <3>1 DEF TasksOwnedOnce
  <2>2. CASE recycled_tasks[l] = << >>
    <3>1. t \notin misc_memory
      BY <2>2, NewMemoryIsNew DEF TaskFor
    <3> QED BY <3>1 DEF TasksOwnedOnce
  <2> QED BY <2>1, <2>2
<1>2. \A m \in Locations : implicit_task[m] # t
  BY <1>1, TaskStackAssumption DEF TasksOwnedOnce
<1>3. \A m \in Locations \ {l} : current_task[m] # t
  BY <1>1, TaskStackAssumption DEF CurrentTasks
<1> QED BY <1>1, <1>2, <1>3 DEF StacksOfTasks

(* The location's list without the task it created.                        *)
LEMMA TaskTaken ==
  ASSUME TaskStackInvariant, ~finalized, NEW l \in Locations, NEW t \in Tasks, TaskFor(l, t)
  PROVE  /\ IsInjective(Rest(recycled_tasks[l]))
         /\ t \notin Range(Rest(recycled_tasks[l]))
         /\ Range(recycled_tasks[l]) \subseteq Range(Rest(recycled_tasks[l])) \cup {t}
         /\ Range(Rest(recycled_tasks[l])) \subseteq Range(recycled_tasks[l])
<1>0. recycled_tasks[l] \in Seq(Tasks) /\ IsInjective(recycled_tasks[l])
  BY DEF TaskStackInvariant, OwnedOnce, TaskStackTypeOK, TasksOwnedOnce
<1>1. CASE recycled_tasks[l] # << >>
  <2>1. t = Head(recycled_tasks[l]) /\ Rest(recycled_tasks[l]) = Tail(recycled_tasks[l])
    BY <1>1 DEF TaskFor, Rest
  <2> QED BY <1>0, <1>1, <2>1, WithoutHead
<1>2. CASE recycled_tasks[l] = << >>
  BY <1>2, EmptyList DEF Rest
<1> QED BY <1>1, <1>2

(* The three ways frames change hands. *)
LEMMA FramesStepped ==
  ASSUME TaskStackInvariant, TaskStackTypeOK', [TaskStackNext]_taskStackVars
  PROVE  FramesOwnedOnce'
<1> USE DEF TaskStackInvariant, OwnedOnce
<1>1. ASSUME UNCHANGED <<frames, recycled_frames>>, misc_memory' \cap Frames = misc_memory \cap Frames
      PROVE  FramesOwnedOnce'
  <2>1. \A h \in Holders : Held(h)' = Held(h)
    BY <1>1 DEF Held
  <2> QED BY <1>1, <2>1 DEF FramesOwnedOnce, Holders
<1>2. ASSUME NEW l \in Locations, InitLocation(l) \/ TaskBegin(l) PROVE FramesOwnedOnce'
  <2>1. PICK t \in Tasks : Create(l, t)
    BY <1>2 DEF InitLocation, TaskBegin
  <2>2. frames[t] = << >>
    BY <1>2, <2>1, TaskForIsFree DEF Create, InitLocation, TaskBegin
  <2>3. frames' = frames /\ misc_memory' = misc_memory \cup {t}
    BY <2>1, <2>2 DEF Create, TaskStackTypeOK
  <2>4. misc_memory' \cap Frames = misc_memory \cap Frames
    BY <2>3, TaskStackAssumption
  <2> QED BY <1>1, <1>2, <2>3, <2>4 DEF InitLocation, TaskBegin
<1>3. ASSUME NEW l \in Locations, TaskEnd(l) \/ (\E t \in Tasks : TaskSwitch(l, t))
      PROVE  FramesOwnedOnce'
  BY <1>1, <1>3 DEF TaskEnd, TaskSwitch, taskVars
<1>4. ASSUME NEW l \in Locations, NEW region \in Handles, EnterInFrame(l, region) PROVE FramesOwnedOnce'
  BY <1>1, <1>4 DEF EnterInFrame, locationVars
<1>5. ASSUME NEW l \in Locations, ExitInFrame(l) PROVE FramesOwnedOnce'
  BY <1>1, <1>5 DEF ExitInFrame, locationVars
<1>6. CASE FinalizeLocations \/ TaskStackStop \/ UNCHANGED taskStackVars
  BY <1>1, <1>6 DEF FinalizeLocations, TaskStackStop, taskStackVars, taskVars, locationVars
(* The frames of a task and of the location that executes it.              *)
<1>7. ASSUME NEW l \in Locations, Executing(l)
      PROVE  LET t == current_task[l]
             IN  /\ t \in Tasks
                 /\ frames[t] \in Seq(Frames) /\ IsInjective(frames[t])
                 /\ recycled_frames[l] \in Seq(Frames) /\ IsInjective(recycled_frames[l])
                 /\ Range(frames[t]) \cap Range(recycled_frames[l]) = {}
  <2>1. current_task[l] \in Tasks
    BY <1>7 DEF Executing, TaskStackTypeOK
  <2> QED BY <2>1, HolderFacts DEF TaskStackTypeOK, FramesOwnedOnce
<1>8. ASSUME NEW l \in Locations, NEW region \in Handles, EnterNewFrame(l, region) PROVE FramesOwnedOnce'
  <2> DEFINE t == current_task[l]
             s == frames[t]
             r == recycled_frames[l]
  <2>1. PICK f \in Frames : /\ FrameFor(l, f)
                            /\ misc_memory' = misc_memory \cup {f}
                            /\ frames' = [frames EXCEPT ![t] = Append(@, f)]
    BY <1>8 DEF EnterNewFrame
  <2>2. Executing(l) /\ recycled_frames' = [recycled_frames EXCEPT ![l] = Rest(@)]
    BY <1>8 DEF EnterNewFrame
  <2>3. /\ t \in Tasks /\ s \in Seq(Frames) /\ r \in Seq(Frames) /\ IsInjective(s) /\ IsInjective(r)
        /\ Range(s) \cap Range(r) = {}
    BY <1>7, <2>2
  <2>4. /\ frames'[t] = Append(s, f) /\ recycled_frames'[l] = Rest(r)
        /\ \A u \in Tasks \ {t} : frames'[u] = frames[u]
        /\ \A m \in Locations \ {l} : recycled_frames'[m] = recycled_frames[m]
    BY <2>1, <2>2, <2>3 DEF TaskStackTypeOK
  <2> HIDE DEF t, s, r
  <2>5. /\ f \notin Range(s)
        /\ IsInjective(Rest(r)) /\ Range(Rest(r)) = Range(r) \ {f}
        /\ r # << >> => f \in Range(r) /\ f \in misc_memory
        /\ r = << >> => f \notin misc_memory
    <3>0. /\ Range(s) \subseteq misc_memory /\ Range(r) \subseteq misc_memory
      <4>1. Own(Stack(t)) = Range(s) /\ Own(List(l)) = Range(r) /\ Stack(t) \in Holders /\ List(l) \in Holders
        BY <2>3, HolderFacts DEF Own, s, r
      <4>2. \A h \in Holders : Own(h) \subseteq misc_memory
        BY DEF FramesOwnedOnce, Own
      <4> QED BY <4>1, <4>2
    <3>1. CASE r # << >>
      <4>1. f = Head(r) /\ Rest(r) = Tail(r)
        BY <2>1, <3>1 DEF FrameFor, Rest, r
      <4> QED BY <2>3, <3>0, <3>1, <4>1, WithoutHead
    <3>2. CASE r = << >>
      <4>1. f \notin misc_memory
        BY <2>1, <3>2, NewMemoryIsNew DEF FrameFor, r
      <4> QED BY <3>0, <3>2, <4>1, EmptyList DEF Rest
    <3> QED BY <3>1, <3>2
  <2>6. Range(Append(s, f)) = Range(s) \cup {f} /\ IsInjective(Append(s, f))
    BY <2>3, <2>5, AppendTo
  <2> DEFINE new == {f} \ misc_memory
  <2>7. /\ new \in SUBSET Frames /\ new \cap misc_memory = {} /\ misc_memory' = misc_memory \cup new
        /\ Range(frames'[t]) \cup Range(recycled_frames'[l]) = Range(s) \cup Range(r) \cup new
        /\ Range(frames'[t]) \cap Range(recycled_frames'[l]) = {}
    BY <2>1, <2>3, <2>4, <2>5, <2>6
  <2> HIDE DEF new
  <2>8. IsInjective(frames'[t]) /\ IsInjective(recycled_frames'[l])
    BY <2>4, <2>5, <2>6
  <2> QED BY <2>3, <2>4, <2>7, <2>8, ExchangeFrames DEF s, r
<1>9. ASSUME NEW l \in Locations, ExitFrame(l) PROVE FramesOwnedOnce'
  <2> DEFINE t == current_task[l]
             s == frames[t]
             r == recycled_frames[l]
  <2>1. /\ Executing(l) /\ s # << >>
        /\ frames' = [frames EXCEPT ![t] = SubSeq(s, 1, Len(s) - 1)]
        /\ recycled_frames' = [recycled_frames EXCEPT ![l] = <<s[Len(s)]>> \o r]
        /\ misc_memory' = misc_memory
    BY <1>9 DEF ExitFrame
  <2>2. /\ t \in Tasks /\ s \in Seq(Frames) /\ r \in Seq(Frames) /\ IsInjective(s) /\ IsInjective(r)
        /\ Range(s) \cap Range(r) = {}
    BY <1>7, <2>1
  <2>3. /\ frames'[t] = SubSeq(s, 1, Len(s) - 1) /\ recycled_frames'[l] = <<s[Len(s)]>> \o r
        /\ \A u \in Tasks \ {t} : frames'[u] = frames[u]
        /\ \A m \in Locations \ {l} : recycled_frames'[m] = recycled_frames[m]
    BY <2>1, <2>2 DEF TaskStackTypeOK
  <2> HIDE DEF t, s, r
  <2>4. /\ s[Len(s)] \in Frames /\ s[Len(s)] \in Range(s)
        /\ IsInjective(SubSeq(s, 1, Len(s) - 1))
        /\ Range(SubSeq(s, 1, Len(s) - 1)) = Range(s) \ {s[Len(s)]}
    BY <2>1, <2>2, WithoutLast
  <2>5. IsInjective(<<s[Len(s)]>> \o r) /\ Range(<<s[Len(s)]>> \o r) = {s[Len(s)]} \cup Range(r)
    BY <2>2, <2>4, Prepend
  <2>6. /\ Range(frames'[t]) \cup Range(recycled_frames'[l]) = Range(s) \cup Range(r) \cup {}
        /\ Range(frames'[t]) \cap Range(recycled_frames'[l]) = {}
    BY <2>2, <2>3, <2>4, <2>5
  <2>7. {} \in SUBSET Frames /\ {} \cap misc_memory = {} /\ misc_memory' = misc_memory \cup {}
    BY <2>1
  <2>8. IsInjective(frames'[t]) /\ IsInjective(recycled_frames'[l])
    BY <2>3, <2>4, <2>5
  <2> QED BY <2>2, <2>3, <2>6, <2>7, <2>8, ExchangeFrames DEF s, r
<1>10. ASSUME NEW l \in Locations, ExitAllRegions(l) PROVE FramesOwnedOnce'
  <2> DEFINE t == current_task[l]
             s == frames[t]
             r == recycled_frames[l]
  <2>1. /\ Executing(l)
        /\ frames' = [frames EXCEPT ![t] = << >>]
        /\ recycled_frames' = [recycled_frames EXCEPT ![l] = s \o r]
        /\ misc_memory' = misc_memory
    BY <1>10 DEF ExitAllRegions
  <2>2. /\ t \in Tasks /\ s \in Seq(Frames) /\ r \in Seq(Frames) /\ IsInjective(s) /\ IsInjective(r)
        /\ Range(s) \cap Range(r) = {}
    BY <1>7, <2>1
  <2>3. /\ frames'[t] = << >> /\ recycled_frames'[l] = s \o r
        /\ \A u \in Tasks \ {t} : frames'[u] = frames[u]
        /\ \A m \in Locations \ {l} : recycled_frames'[m] = recycled_frames[m]
    BY <2>1, <2>2 DEF TaskStackTypeOK
  <2> HIDE DEF t, s, r
  <2>4. IsInjective(s \o r) /\ Range(s \o r) = Range(s) \cup Range(r)
    BY <2>2, Concatenate
  <2>5. IsInjective(<< >>) /\ Range(<< >>) = {}
    BY EmptyList
  <2>6. /\ Range(frames'[t]) \cup Range(recycled_frames'[l]) = Range(s) \cup Range(r) \cup {}
        /\ Range(frames'[t]) \cap Range(recycled_frames'[l]) = {}
    BY <2>3, <2>4, <2>5
  <2>7. {} \in SUBSET Frames /\ {} \cap misc_memory = {} /\ misc_memory' = misc_memory \cup {}
    BY <2>1
  <2>8. IsInjective(frames'[t]) /\ IsInjective(recycled_frames'[l])
    BY <2>3, <2>4, <2>5
  <2> QED BY <2>2, <2>3, <2>6, <2>7, <2>8, ExchangeFrames DEF s, r
<1> QED BY <1>2, <1>3, <1>4, <1>5, <1>6, <1>8, <1>9, <1>10 DEF TaskStackNext

-----------------------------------------------------------------------------
(* A task is in use or in one list. *)
LEMMA TasksStepped ==
  ASSUME TaskStackInvariant, TaskStackTypeOK', [TaskStackNext]_taskStackVars
  PROVE  TasksOwnedOnce' /\ CurrentTasks'
<1> USE DEF TaskStackInvariant, OwnedOnce
(* Only current_task, or nothing of the tasks, changes. *)
<1>1. ASSUME UNCHANGED <<recycled_tasks, implicit_task, current_task, live, finalized>>,
             misc_memory' \cap Tasks = misc_memory \cap Tasks
      PROVE  TasksOwnedOnce' /\ CurrentTasks'
  BY <1>1 DEF TasksOwnedOnce, CurrentTasks
<1>2. ASSUME NEW l \in Locations, NEW region \in Handles, EnterNewFrame(l, region)
      PROVE  TasksOwnedOnce' /\ CurrentTasks'
  <2>1. misc_memory' \cap Tasks = misc_memory \cap Tasks
    BY <1>2, TaskStackAssumption DEF EnterNewFrame
  <2> QED BY <1>1, <1>2, <2>1 DEF EnterNewFrame
<1>3. ASSUME NEW l \in Locations, NEW region \in Handles, EnterInFrame(l, region)
      PROVE  TasksOwnedOnce' /\ CurrentTasks'
  BY <1>1, <1>3 DEF EnterInFrame, locationVars
<1>4. ASSUME NEW l \in Locations, ExitInFrame(l) \/ ExitFrame(l) \/ ExitAllRegions(l)
      PROVE  TasksOwnedOnce' /\ CurrentTasks'
  BY <1>1, <1>4 DEF ExitInFrame, ExitFrame, ExitAllRegions, locationVars
<1>5. CASE TaskStackStop \/ UNCHANGED taskStackVars
  BY <1>1, <1>5 DEF TaskStackStop, taskStackVars, taskVars, locationVars
<1>6. ASSUME NEW l \in Locations, NEW t \in Tasks, TaskSwitch(l, t)
      PROVE  TasksOwnedOnce' /\ CurrentTasks'
  <2>1. /\ current_task'[l] = t /\ t \in live
        /\ \A m \in Locations \ {l} : current_task'[m] = current_task[m] /\ current_task[m] # t
        /\ \A m \in Locations : t = implicit_task[m] => m = l
        /\ UNCHANGED <<recycled_tasks, implicit_task, live, finalized, misc_memory>>
    BY <1>6 DEF TaskSwitch, TaskStackTypeOK
  <2>2. TasksOwnedOnce'
    BY <2>1 DEF TasksOwnedOnce
  <2>3. CurrentTasks'
    BY <2>1 DEF CurrentTasks
  <2> QED BY <2>2, <2>3
<1>7. ASSUME NEW l \in Locations, NEW t \in Tasks, Create(l, t), ~finalized,
             current_task' = [current_task EXCEPT ![l] = t], finalized' = finalized,
             \/ implicit_task' = [implicit_task EXCEPT ![l] = t]
             \/ implicit_task' = implicit_task
      PROVE  TasksOwnedOnce' /\ CurrentTasks'
  <2>1. /\ t \notin live
        /\ \A m \in Locations : implicit_task[m] # t
        /\ \A m \in Locations \ {l} : t \notin Range(recycled_tasks[m]) /\ current_task[m] # t
    BY <1>7, TaskForIsFree DEF Create
  <2>2. /\ IsInjective(Rest(recycled_tasks[l]))
        /\ t \notin Range(Rest(recycled_tasks[l]))
        /\ Range(recycled_tasks[l]) \subseteq Range(Rest(recycled_tasks[l])) \cup {t}
        /\ Range(Rest(recycled_tasks[l])) \subseteq Range(recycled_tasks[l])
    BY <1>7, TaskTaken DEF Create
  <2>3. /\ recycled_tasks'[l] = Rest(recycled_tasks[l]) /\ current_task'[l] = t
        /\ \A m \in Locations \ {l} : /\ recycled_tasks'[m] = recycled_tasks[m]
                                      /\ current_task'[m] = current_task[m]
                                      /\ implicit_task'[m] = implicit_task[m]
        /\ implicit_task'[l] \in {t, implicit_task[l]}
        /\ live' = live \cup {t} /\ misc_memory' = misc_memory \cup {t}
    BY <1>7 DEF Create, TaskStackTypeOK
  <2>4. /\ IsInjective(recycled_tasks'[l])
        /\ t \notin Range(recycled_tasks'[l])
        /\ Range(recycled_tasks[l]) \subseteq Range(recycled_tasks'[l]) \cup {t}
        /\ Range(recycled_tasks'[l]) \subseteq Range(recycled_tasks[l])
    BY <2>2, <2>3
  <2>5. ASSUME NEW m \in Locations
        PROVE  /\ IsInjective(recycled_tasks'[m]) /\ Range(recycled_tasks'[m]) \cap live' = {}
               /\ implicit_task'[m] \in live' \cup {NULL}
    BY <1>7, <2>1, <2>3, <2>4 DEF TasksOwnedOnce
  <2>6. ASSUME NEW k \in Locations, NEW m \in Locations, k # m
        PROVE  /\ Range(recycled_tasks'[k]) \cap Range(recycled_tasks'[m]) = {}
               /\ current_task'[k] = current_task'[m] => current_task'[k] \notin live'
    BY <1>7, <2>1, <2>3, <2>4, <2>6 DEF TasksOwnedOnce
  <2>7. misc_memory' \cap Tasks = live' \cup UNION {Range(recycled_tasks'[m]) : m \in Locations}
    <3>1. misc_memory \cap Tasks = live \cup UNION {Range(recycled_tasks[m]) : m \in Locations}
      BY <1>7 DEF TasksOwnedOnce
    <3>2. \A m \in Locations : /\ Range(recycled_tasks[m]) \subseteq Range(recycled_tasks'[m]) \cup {t}
                               /\ Range(recycled_tasks'[m]) \subseteq Range(recycled_tasks[m])
      BY <2>3, <2>4
    <3>3. misc_memory' \cap Tasks = (misc_memory \cap Tasks) \cup {t}
      BY <2>3
    <3>4. ASSUME NEW x
          PROVE  x \in (misc_memory \cap Tasks) \cup {t}
                   <=> x \in live' \cup UNION {Range(recycled_tasks'[m]) : m \in Locations}
      BY <2>3, <3>1, <3>2
    <3> QED BY <3>3, <3>4
  <2>8. TasksOwnedOnce'
    BY <2>5, <2>6, <2>7 DEF TasksOwnedOnce
  <2>9. ASSUME NEW k \in Locations, NEW m \in Locations
        PROVE  /\ current_task'[k] \in live' \cup {NULL} \cup Range(recycled_tasks'[k])
               /\ current_task'[k] \in live' /\ current_task'[k] = implicit_task'[m] => k = m
    BY <1>7, <2>1, <2>3, <2>4 DEF CurrentTasks
  <2> QED BY <2>8, <2>9 DEF CurrentTasks
<1>8. ASSUME NEW l \in Locations, InitLocation(l) PROVE TasksOwnedOnce' /\ CurrentTasks'
  BY <1>7, <1>8 DEF InitLocation
<1>9. ASSUME NEW l \in Locations, TaskBegin(l) PROVE TasksOwnedOnce' /\ CurrentTasks'
  BY <1>7, <1>9 DEF TaskBegin
<1>10. ASSUME NEW l \in Locations, TaskEnd(l) PROVE TasksOwnedOnce' /\ CurrentTasks'
  <2> DEFINE t == current_task[l]
  <2>1. /\ ~finalized /\ ~finalized' /\ t \in live /\ t \in Tasks
        /\ recycled_tasks' = [recycled_tasks EXCEPT ![l] = <<t>> \o @]
        /\ live' = live \ {t} /\ t # implicit_task[l]
        /\ UNCHANGED <<current_task, implicit_task, misc_memory>>
    BY <1>10 DEF TaskEnd, Executing, TaskStackTypeOK
  <2> HIDE DEF t
  <2>2. /\ recycled_tasks'[l] = <<t>> \o recycled_tasks[l]
        /\ \A m \in Locations \ {l} : recycled_tasks'[m] = recycled_tasks[m]
    BY <2>1 DEF TaskStackTypeOK
  <2>3. /\ recycled_tasks[l] \in Seq(Tasks) /\ IsInjective(recycled_tasks[l])
        /\ \A m \in Locations : t \notin Range(recycled_tasks[m])
    BY <2>1 DEF TasksOwnedOnce, TaskStackTypeOK
  <2>4. IsInjective(recycled_tasks'[l]) /\ Range(recycled_tasks'[l]) = {t} \cup Range(recycled_tasks[l])
    BY <2>1, <2>2, <2>3, Prepend
  <2>5. \A m \in Locations : implicit_task[m] # t /\ (current_task[m] = t => m = l)
    BY <2>1 DEF CurrentTasks, TasksOwnedOnce, t
  <2>6. ASSUME NEW m \in Locations
        PROVE  /\ IsInjective(recycled_tasks'[m]) /\ Range(recycled_tasks'[m]) \cap live' = {}
               /\ implicit_task'[m] \in live' \cup {NULL}
    BY <2>1, <2>2, <2>4, <2>5 DEF TasksOwnedOnce
  <2>7. ASSUME NEW k \in Locations, NEW m \in Locations, k # m
        PROVE  /\ Range(recycled_tasks'[k]) \cap Range(recycled_tasks'[m]) = {}
               /\ current_task'[k] = current_task'[m] => current_task'[k] \notin live'
    <3>1. Range(recycled_tasks[k]) \cap Range(recycled_tasks[m]) = {}
      BY <2>7 DEF TasksOwnedOnce
    <3>2. Range(recycled_tasks'[k]) \cap Range(recycled_tasks'[m]) = {}
      BY <2>2, <2>3, <2>4, <2>7, <3>1
    <3>3. current_task[k] = current_task[m] => current_task[k] \notin live
      BY <2>7 DEF TasksOwnedOnce
    <3> QED BY <2>1, <3>2, <3>3
  <2>8. misc_memory' \cap Tasks = live' \cup UNION {Range(recycled_tasks'[m]) : m \in Locations}
    <3>1. misc_memory \cap Tasks = live \cup UNION {Range(recycled_tasks[m]) : m \in Locations}
      BY <2>1 DEF TasksOwnedOnce
    <3>2. ASSUME NEW x
          PROVE  x \in live \cup UNION {Range(recycled_tasks[m]) : m \in Locations}
                   <=> x \in live' \cup UNION {Range(recycled_tasks'[m]) : m \in Locations}
      BY <2>1, <2>2, <2>4
    <3> QED BY <2>1, <3>1, <3>2
  <2>9. TasksOwnedOnce'
    BY <2>6, <2>7, <2>8 DEF TasksOwnedOnce
  <2>10. ASSUME NEW k \in Locations, NEW m \in Locations
         PROVE  /\ current_task'[k] \in live' \cup {NULL} \cup Range(recycled_tasks'[k])
                /\ current_task'[k] \in live' /\ current_task'[k] = implicit_task'[m] => k = m
    BY <2>1, <2>2, <2>4, <2>5 DEF CurrentTasks
  <2> QED BY <2>9, <2>10 DEF CurrentTasks
<1>11. CASE FinalizeLocations
  <2>1. /\ ~finalized /\ finalized' /\ live' = {}
        /\ \A l \in Locations : current_task[l] = implicit_task[l]
        /\ \A l \in Locations : recycled_tasks'[l] =
             IF current_task[l] = NULL THEN << >> ELSE <<current_task[l]>> \o recycled_tasks[l]
    BY <1>11 DEF FinalizeLocations
  <2>2. ASSUME NEW l \in Locations
        PROVE  /\ IsInjective(recycled_tasks'[l])
               /\ \A x \in Range(recycled_tasks'[l]) :
                    \/ x = current_task[l] /\ x \in live
                    \/ x \in Range(recycled_tasks[l])
    <3>1. CASE current_task[l] = NULL
      BY <2>1, <3>1, EmptyList
    <3>2. CASE current_task[l] # NULL
      <4>1. current_task[l] \in live /\ current_task[l] \in Tasks
        BY <2>1, <3>2 DEF TasksOwnedOnce, TaskStackTypeOK
      <4>2. current_task[l] \notin Range(recycled_tasks[l])
        BY <2>1, <4>1 DEF TasksOwnedOnce
      <4>3. recycled_tasks[l] \in Seq(Tasks) /\ IsInjective(recycled_tasks[l])
        BY DEF TasksOwnedOnce, TaskStackTypeOK
      <4>4. /\ IsInjective(<<current_task[l]>> \o recycled_tasks[l])
            /\ Range(<<current_task[l]>> \o recycled_tasks[l]) = {current_task[l]} \cup Range(recycled_tasks[l])
        BY <4>1, <4>2, <4>3, Prepend
      <4>5. recycled_tasks'[l] = <<current_task[l]>> \o recycled_tasks[l]
        BY <2>1, <3>2
      <4> QED BY <4>1, <4>4, <4>5
    <3> QED BY <3>1, <3>2
  <2>3. ASSUME NEW l \in Locations, NEW m \in Locations, l # m
        PROVE  Range(recycled_tasks'[l]) \cap Range(recycled_tasks'[m]) = {}
    BY <2>1, <2>2, <2>3 DEF TasksOwnedOnce
  <2> QED BY <2>1, <2>2, <2>3 DEF TasksOwnedOnce, CurrentTasks
<1> QED BY <1>2, <1>3, <1>4, <1>5, <1>6, <1>8, <1>9, <1>10, <1>11 DEF TaskStackNext

(* A live task that has frames is of no concern.                           *)
LEMMA OneTaskHasFrames ==
  ASSUME StacksOfTasks, NEW t \in Tasks, frames'[t] # << >>, finalized \/ t \in live,
         \A u \in Tasks \ {t} : frames'[u] = frames[u] /\ current_index'[u] = current_index[u],
         live' = live, finalized' = finalized
  PROVE  StacksOfTasks'
BY DEF StacksOfTasks, Full

(* Every step leaves a task without frames ready for its first one.        *)
LEMMA StacksStepped ==
  ASSUME TaskStackInvariant, TaskStackTypeOK', [TaskStackNext]_taskStackVars
  PROVE  StacksOfTasks'
<1> USE TaskStackAssumption DEF TaskStackInvariant, OwnedOnce, TaskStackTypeOK, StacksOfTasks, Full, Executing
<1>1. ASSUME NEW l \in Locations, NEW t \in Tasks, Create(l, t), finalized' = finalized
      PROVE  StacksOfTasks'
  <2>1. frames'[t] = << >> /\ current_index'[t] = SCOREP_TASK_STACK_SIZE - 1 /\ live' = live \cup {t}
    BY <1>1 DEF Create
  <2>2. \A u \in Tasks \ {t} : frames'[u] = frames[u] /\ current_index'[u] = current_index[u]
    BY <1>1 DEF Create
  <2> QED BY <1>1, <2>1, <2>2
<1>2. ASSUME NEW l \in Locations, InitLocation(l) \/ TaskBegin(l) PROVE StacksOfTasks'
  BY <1>1, <1>2 DEF InitLocation, TaskBegin
<1>3. ASSUME NEW l \in Locations, TaskEnd(l) PROVE StacksOfTasks'
  BY <1>3 DEF TaskEnd, taskVars
<1>4. ASSUME NEW l \in Locations, NEW t \in Tasks, TaskSwitch(l, t) PROVE StacksOfTasks'
  BY <1>4 DEF TaskSwitch, taskVars
<1>5. ASSUME NEW l \in Locations, NEW region \in Handles, EnterInFrame(l, region) PROVE StacksOfTasks'
  BY <1>5 DEF EnterInFrame
<1>6. ASSUME NEW l \in Locations, NEW region \in Handles, EnterNewFrame(l, region) PROVE StacksOfTasks'
  <2>1. PICK f \in Frames : frames' = [frames EXCEPT ![current_task[l]] = Append(@, f)]
    BY <1>6 DEF EnterNewFrame
  <2>2. current_task[l] \in Tasks /\ frames[current_task[l]] \in Seq(Frames)
    BY <1>6 DEF EnterNewFrame
  <2>3. \A s \in Seq(Frames) : Append(s, f) # << >>
    BY AppendNotEmpty
  <2>4. frames'[current_task[l]] # << >>
    BY <2>1, <2>2, <2>3
  <2>5. \A u \in Tasks \ {current_task[l]} : frames'[u] = frames[u] /\ current_index'[u] = current_index[u]
    BY <1>6, <2>1 DEF EnterNewFrame
  <2>6. live' = live /\ finalized' = finalized /\ (finalized \/ current_task[l] \in live)
    BY <1>6 DEF EnterNewFrame
  <2>7. StacksOfTasks
    OBVIOUS
  <2> HIDE DEF TaskStackInvariant, OwnedOnce, TaskStackTypeOK, StacksOfTasks, Full, Executing
  <2> QED BY <2>2, <2>4, <2>5, <2>6, <2>7, OneTaskHasFrames
<1>7. ASSUME NEW l \in Locations, ExitInFrame(l) PROVE StacksOfTasks'
  BY <1>7 DEF ExitInFrame
<1>8. ASSUME NEW l \in Locations, ExitFrame(l) PROVE StacksOfTasks'
  BY <1>8 DEF ExitFrame
<1>9. ASSUME NEW l \in Locations, ExitAllRegions(l) PROVE StacksOfTasks'
  BY <1>9 DEF ExitAllRegions
<1>10. CASE FinalizeLocations \/ TaskStackStop \/ UNCHANGED taskStackVars
  BY <1>10 DEF FinalizeLocations, TaskStackStop, taskStackVars, taskVars
<1> QED BY <1>2, <1>3, <1>4, <1>5, <1>6, <1>7, <1>8, <1>9, <1>10 DEF TaskStackNext

(* The invariant holds in every state. *)
LEMMA InvariantAlways == TaskStackSpec => []TaskStackInvariant
<1>1. TaskStackInvariant /\ [TaskStackNext]_taskStackVars => TaskStackInvariant'
  BY TypesKept, FramesStepped, TasksStepped, StacksStepped DEF TaskStackInvariant, OwnedOnce
<1> QED BY <1>1, InvariantHoldsInitially, PTL DEF TaskStackSpec

(* No task object and no stack frame is shared or lost, wherever tasks     *)
(* begin, switch and end (recycle_stack_frame, scorep_task_complete).      *)
THEOREM TaskStackOwnedOnce == TaskStackSpec => []OwnedOnce
<1>1. TaskStackInvariant => OwnedOnce
  BY DEF TaskStackInvariant
<1> QED BY <1>1, InvariantAlways, PTL

-----------------------------------------------------------------------------
(* The refinement: where the region at depth n of a task is stored.        *)
Row(n) == (n - 1) \div SCOREP_TASK_STACK_SIZE
Column(n) == (n - 1) % SCOREP_TASK_STACK_SIZE

(* A larger row starts at a larger depth. *)
LEMMA MulMonotone == \A k, a, b \in Nat : a <= b => k * a <= k * b
<1> SUFFICES ASSUME NEW k \in Nat, NEW a \in Nat, NEW b \in Nat, a <= b
             PROVE  k * a <= k * b
  OBVIOUS
<1>1. PICK d \in Nat : b = a + d
  <2>1. b - a \in Nat
    OBVIOUS
  <2> QED BY <2>1
<1>2. k * (a + d) = k * a + k * d
  OBVIOUS
<1>3. k * d \in Nat /\ k * a \in Nat
  OBVIOUS
<1> QED BY <1>1, <1>2, <1>3

(* A depth is its row times the size of a frame plus its column.           *)
LEMMA DivMod ==
  \A n \in Nat, k \in Nat \ {0} :
    n \div k \in Nat /\ n % k \in 0 .. k - 1 /\ n = k * (n \div k) + (n % k)
OBVIOUS

(* The regions in whole frames.                                            *)
LEMMA ProductType == \A a \in Nat, b \in Nat : a * b \in Nat /\ a * (b - 1) = a * b - a
OBVIOUS

LEMMA FrameSize ==
  /\ SCOREP_TASK_STACK_SIZE \in Nat \ {0} /\ 0 \in Slots /\ \A c \in Slots : c \in Nat
  /\ \A k \in Nat : /\ SCOREP_TASK_STACK_SIZE * k \in Nat
                    /\ SCOREP_TASK_STACK_SIZE * (k - 1) = SCOREP_TASK_STACK_SIZE * k - SCOREP_TASK_STACK_SIZE
<1> DEFINE size == SCOREP_TASK_STACK_SIZE
<1>1. size \in Nat \ {0}
  BY TaskStackAssumption
<1>2. 0 \in Slots /\ \A c \in Slots : c \in Nat
  BY <1>1 DEF Slots
<1> HIDE DEF size
<1>3. ASSUME NEW k \in Nat PROVE size * k \in Nat /\ size * (k - 1) = size * k - size
  BY <1>1, ProductType
<1>4. /\ size \in Nat \ {0} /\ 0 \in Slots /\ \A c \in Slots : c \in Nat
      /\ \A k \in Nat : size * k \in Nat /\ size * (k - 1) = size * k - size
  BY <1>1, <1>2, <1>3
<1> QED BY <1>4 DEF size

(* The regions of a stack of full + 1 frames whose top index is `top'.     *)
LEMMA Positions ==
  ASSUME NEW full \in Nat, NEW top \in Slots,
         NEW n \in 1 .. SCOREP_TASK_STACK_SIZE * full + top + 1
  PROVE  /\ Row(n) \in 0 .. full /\ Column(n) \in Slots
         /\ Row(n) = full => Column(n) <= top
         /\ n = SCOREP_TASK_STACK_SIZE * full + top + 1 => Row(n) = full /\ Column(n) = top
         /\ n < SCOREP_TASK_STACK_SIZE * full + top + 1 /\ Row(n) = full => Column(n) < top
<1> DEFINE k == SCOREP_TASK_STACK_SIZE
           q == Row(n)
           r == Column(n)
<1>1. k \in Nat \ {0} /\ top \in 0 .. k - 1 /\ k * full \in Nat
  <2>1. k \in Nat \ {0} /\ top \in 0 .. k - 1
    BY TaskStackAssumption DEF Slots
  <2>2. k * full \in Nat
    BY FrameSize
  <2> QED BY <2>1, <2>2
<1>2. n - 1 \in Nat /\ n \in Nat /\ n <= k * full + top + 1
  BY <1>1
<1>3. q \in Nat /\ r \in 0 .. k - 1 /\ n - 1 = k * q + r /\ k * q \in Nat
  <2>1. q = (n - 1) \div k /\ r = (n - 1) % k
    BY DEF Row, Column
  <2> HIDE DEF k, q, r
  <2>2. q \in Nat /\ r \in 0 .. k - 1 /\ n - 1 = k * q + r
    BY <1>1, <1>2, <2>1, DivMod
  <2> QED BY <1>1, <2>2
<1> HIDE DEF k, q, r
<1>4. q <= full
  <2> SUFFICES ASSUME full + 1 <= q PROVE FALSE
    BY <1>3
  <2>1. k * (full + 1) <= k * q
    BY <1>1, <1>3, MulMonotone
  <2>2. k * (full + 1) = k * full + k
    BY <1>1
  <2> QED BY <1>1, <1>2, <1>3, <2>1, <2>2
<1>5. n = k * full + top + 1 => q = full /\ r = top
  <2> SUFFICES ASSUME n = k * full + top + 1 PROVE q = full /\ r = top
    OBVIOUS
  <2>1. full <= q
    <3> SUFFICES ASSUME q + 1 <= full PROVE FALSE
      BY <1>3
    <3>1. k * (q + 1) <= k * full
      BY <1>1, <1>3, MulMonotone
    <3>2. k * (q + 1) = k * q + k
      BY <1>1, <1>3
    <3> QED BY <1>1, <1>3, <3>1, <3>2
  <2>2. q = full
    BY <1>3, <1>4, <2>1
  <2> QED BY <1>1, <1>3, <2>2
<1>6. q = full => r <= top
  BY <1>1, <1>2, <1>3
<1>7. n < k * full + top + 1 /\ q = full => r < top
  BY <1>1, <1>2, <1>3
<1> QED BY <1>1, <1>3, <1>4, <1>5, <1>6, <1>7 DEF k, q, r, Slots

(* A function on the depths up to n is a sequence of length n. *)
LEMMA FunctionIsSeq ==
  \A S : \A n \in Nat : \A f \in [1 .. n -> S] : f \in Seq(S) /\ Len(f) = n
<1> SUFFICES ASSUME NEW S, NEW n \in Nat, NEW f \in [1 .. n -> S]
             PROVE  f \in Seq(S) /\ Len(f) = n
  OBVIOUS
<1>1. f \in Seq(S)
  BY SeqDef
<1>2. DOMAIN f = 1 .. Len(f) /\ DOMAIN f = 1 .. n /\ Len(f) \in Nat
  BY <1>1, LenProperties
<1> QED BY <1>1, <1>2

(* A function on 1 .. n + 1 is its restriction to 1 .. n with one element  *)
(* appended, and its front is that restriction.                            *)
LEMMA AppendFront ==
  ASSUME NEW S, NEW n \in Nat, NEW f \in [1 .. n -> S], NEW g \in [1 .. n + 1 -> S],
         \A i \in 1 .. n : g[i] = f[i]
  PROVE  g = Append(f, g[n + 1]) /\ f = SubSeq(g, 1, Len(g) - 1) /\ g # << >>
<1>1. /\ f \in Seq(S) /\ Len(f) = n /\ g \in Seq(S) /\ Len(g) = n + 1 /\ g[n + 1] \in S
  BY FunctionIsSeq
<1>2. g = Append(f, g[n + 1])
  <2>1. /\ Append(f, g[n + 1]) \in Seq(S) /\ Len(Append(f, g[n + 1])) = n + 1
        /\ \A i \in 1 .. n : Append(f, g[n + 1])[i] = f[i]
        /\ Append(f, g[n + 1])[n + 1] = g[n + 1]
    BY <1>1, AppendProperties
  <2>2. \A i \in 1 .. n + 1 : g[i] = Append(f, g[n + 1])[i]
    BY <2>1
  <2> QED BY <1>1, <2>1, <2>2, SeqEqual
<1>3. f = SubSeq(g, 1, Len(g) - 1)
  <2>1. \A i \in 1 .. n : g[i] \in S
    OBVIOUS
  <2>2. /\ SubSeq(g, 1, n) \in Seq(S) /\ Len(SubSeq(g, 1, n)) = n
        /\ \A i \in 1 .. n : SubSeq(g, 1, n)[i] = g[i]
    <3>1. /\ SubSeq(g, 1, n) \in Seq(S)
          /\ Len(SubSeq(g, 1, n)) = IF 1 <= n THEN n - 1 + 1 ELSE 0
          /\ \A i \in 1 .. n - 1 + 1 : SubSeq(g, 1, n)[i] = g[1 + i - 1]
      BY <2>1, SubSeqProperties
    <3> QED BY <3>1
  <2>3. SubSeq(g, 1, Len(g) - 1) = SubSeq(g, 1, n)
    BY <1>1
  <2>4. f = SubSeq(g, 1, n)
    BY <1>1, <2>2, SeqEqual
  <2> QED BY <2>3, <2>4
<1>4. g # << >>
  BY <1>1
<1> QED BY <1>2, <1>3, <1>4

(* The stack of a task as a function of its frames.                        *)
Shape(t) ==
  /\ Depth(t) \in Nat
  /\ Content(t) \in [1 .. Depth(t) -> Handles \cup {NULL}]
  /\ \A n \in 1 .. Depth(t) : /\ Row(n) + 1 \in 1 .. Len(frames[t])
                             /\ Content(t)[n] = regions[frames[t][Row(n) + 1]][Column(n)]

(* The region at every depth of a stack is found in one of its frames.     *)
LEMMA ContentShape == TaskStackTypeOK => \A t \in Tasks : Shape(t)
<1> SUFFICES ASSUME TaskStackTypeOK, NEW t \in Tasks PROVE Shape(t)
  OBVIOUS
<1>1. frames[t] \in Seq(Frames) /\ current_index[t] \in Slots /\ Len(frames[t]) \in Nat
  BY DEF TaskStackTypeOK
<1>2. Content(t) = [n \in 1 .. Depth(t) |-> regions[frames[t][Row(n) + 1]][Column(n)]]
  BY DEF Content, Row, Column
<1>3. CASE frames[t] = << >>
  <2>1. Depth(t) = 0 /\ 1 .. Depth(t) = {}
    BY <1>3 DEF Depth
  <2> QED BY <1>2, <2>1 DEF Shape
<1>4. CASE frames[t] # << >>
  <2>1. Len(frames[t]) - 1 \in Nat
    BY <1>1, <1>4, EmptySeq
  <2>2. Depth(t) = SCOREP_TASK_STACK_SIZE * (Len(frames[t]) - 1) + current_index[t] + 1
    BY <1>4 DEF Depth
  <2>3. Depth(t) \in Nat
    <3> DEFINE whole == SCOREP_TASK_STACK_SIZE * (Len(frames[t]) - 1)
               c == current_index[t]
    <3>1. whole \in Nat /\ c \in Nat
      BY <1>1, <2>1, FrameSize
    <3>2. Depth(t) = whole + c + 1
      BY <2>2
    <3> HIDE DEF whole, c
    <3> QED BY <3>1, <3>2
  <2>4. ASSUME NEW n \in 1 .. Depth(t)
        PROVE  /\ Row(n) + 1 \in 1 .. Len(frames[t])
               /\ regions[frames[t][Row(n) + 1]][Column(n)] \in Handles \cup {NULL}
    <3>1. Row(n) \in 0 .. Len(frames[t]) - 1 /\ Column(n) \in Slots
      BY <1>1, <2>1, <2>2, <2>4, Positions
    <3>2. Row(n) + 1 \in 1 .. Len(frames[t])
      BY <1>1, <3>1
    <3>3. frames[t][Row(n) + 1] \in Frames
      BY <1>1, <3>2, ElementOfSeq
    <3> QED BY <3>1, <3>2, <3>3 DEF TaskStackTypeOK
  <2> QED BY <1>2, <2>3, <2>4 DEF Shape
<1> QED BY <1>3, <1>4 DEF Shape

(* A task whose frames are not written to keeps its stack.                 *)
LEMMA ContentKept ==
  ASSUME TaskStackTypeOK, TaskStackTypeOK', NEW u \in Tasks,
         frames'[u] = frames[u], current_index'[u] = current_index[u],
         \A f \in Range(frames[u]) : regions'[f] = regions[f]
  PROVE  Content(u)' = Content(u)
<1>1. Depth(u)' = Depth(u)
  BY DEF Depth
<1>2. frames[u] \in Seq(Frames) /\ DOMAIN frames[u] = 1 .. Len(frames[u])
  BY LenProperties DEF TaskStackTypeOK
<1>3. ASSUME NEW n \in 1 .. Depth(u)
      PROVE  regions'[frames'[u][Row(n) + 1]][Column(n)] = regions[frames[u][Row(n) + 1]][Column(n)]
  <2>1. frames[u][Row(n) + 1] \in Range(frames[u])
    BY <1>2, ContentShape DEF Range, Shape
  <2> QED BY <2>1
<1>4. Content(u) = [n \in 1 .. Depth(u) |-> regions[frames[u][Row(n) + 1]][Column(n)]]
  BY DEF Content, Row, Column
<1>5. Content(u)' = [n \in 1 .. Depth(u)' |-> regions'[frames'[u][Row(n) + 1]][Column(n)]]
  BY DEF Content, Row, Column
<1> QED BY <1>1, <1>3, <1>4, <1>5

(* A task without frames is in no region. *)
LEMMA ContentOfEmpty == \A t \in Tasks : frames[t] = << >> => Content(t) = << >>
<1> SUFFICES ASSUME NEW t \in Tasks, frames[t] = << >> PROVE Content(t) = << >>
  OBVIOUS
<1>1. 1 .. Depth(t) = {}
  BY DEF Depth
<1> QED BY <1>1 DEF Content

(* The same in the state after a step. *)
LEMMA ContentAfter ==
  /\ TaskStackTypeOK' => \A t \in Tasks : Shape(t)'
  /\ \A t \in Tasks : frames'[t] = << >> => Content(t)' = << >>
<1>1. (TaskStackTypeOK => \A t \in Tasks : Shape(t))'
  BY ContentShape, PTL
<1>2. (\A t \in Tasks : frames[t] = << >> => Content(t) = << >>)'
  BY ContentOfEmpty, PTL
<1> QED BY <1>1, <1>2

(* No two tasks have a frame in common, and no task has one twice.         *)
LEMMA OwnFrames ==
  ASSUME TaskStackInvariant
  PROVE  /\ \A t, u \in Tasks : t # u => Range(frames[t]) \cap Range(frames[u]) = {}
         /\ \A t \in Tasks : IsInjective(frames[t])
         /\ \A t \in Tasks : Range(frames[t]) \subseteq misc_memory
         /\ \A t \in Tasks, l \in Locations : Range(frames[t]) \cap Range(recycled_frames[l]) = {}
<1>1. \A h \in Holders : Range(Held(h)) \subseteq misc_memory
  BY DEF TaskStackInvariant, OwnedOnce, FramesOwnedOnce
<1> QED BY <1>1, HolderFacts DEF TaskStackInvariant, OwnedOnce, FramesOwnedOnce

(* A region is pushed: one more, and the others are the same ones.         *)
LEMMA RegionPushed ==
  ASSUME NEW t \in Tasks, NEW region, Shape(t), Shape(t)',
         Depth(t)' = Depth(t) + 1,
         \A n \in 1 .. Depth(t) : /\ frames'[t][Row(n) + 1] = frames[t][Row(n) + 1]
                                /\ regions'[frames[t][Row(n) + 1]][Column(n)]
                                     = regions[frames[t][Row(n) + 1]][Column(n)],
         regions'[frames'[t][Row(Depth(t)') + 1]][Column(Depth(t)')] = region
  PROVE  Content(t)' = Append(Content(t), region)
<1> DEFINE d == Depth(t)
           f == Content(t)
           g == Content(t)'
<1>0. \A n : Row(n)' = Row(n) /\ Column(n)' = Column(n)
  BY DEF Row, Column
<1>1. /\ d \in Nat /\ f \in [1 .. d -> Handles \cup {NULL}]
      /\ g \in [1 .. d + 1 -> Handles \cup {NULL}]
  BY DEF Shape, Handles
<1>2. ASSUME NEW n \in 1 .. d PROVE g[n] = f[n]
  <2>1. n \in 1 .. Depth(t) /\ n \in 1 .. Depth(t)'
    BY <1>1
  <2>2. Content(t)[n] = regions[frames[t][Row(n) + 1]][Column(n)]
    BY <2>1 DEF Shape
  <2>3. Content(t)'[n] = regions'[frames'[t][Row(n) + 1]][Column(n)]
    BY <1>0, <2>1 DEF Shape
  <2> QED BY <2>1, <2>2, <2>3
<1>3. g[d + 1] = region
  BY <1>0, <1>1 DEF Shape
<1> HIDE DEF d, f, g
<1>4. g = Append(f, g[d + 1])
  BY <1>1, <1>2, AppendFront
<1> QED BY <1>3, <1>4 DEF f, g

(* The top region is popped. *)
LEMMA RegionPopped ==
  ASSUME NEW t \in Tasks, Shape(t), Shape(t)',
         Depth(t) = Depth(t)' + 1,
         UNCHANGED regions,
         \A n \in 1 .. Depth(t)' : frames'[t][Row(n) + 1] = frames[t][Row(n) + 1]
  PROVE  Content(t) # << >> /\ Content(t)' = SubSeq(Content(t), 1, Len(Content(t)) - 1)
<1> DEFINE d == Depth(t)'
           f == Content(t)'
           g == Content(t)
<1>0. \A n : Row(n)' = Row(n) /\ Column(n)' = Column(n)
  BY DEF Row, Column
<1>1. /\ d \in Nat /\ f \in [1 .. d -> Handles \cup {NULL}]
      /\ g \in [1 .. d + 1 -> Handles \cup {NULL}]
  BY DEF Shape, Handles
<1>2. ASSUME NEW n \in 1 .. d PROVE g[n] = f[n]
  <2>1. n \in 1 .. Depth(t) /\ n \in 1 .. Depth(t)'
    BY <1>1
  <2>2. Content(t)[n] = regions[frames[t][Row(n) + 1]][Column(n)]
    BY <2>1 DEF Shape
  <2>3. Content(t)'[n] = regions'[frames'[t][Row(n) + 1]][Column(n)]
    BY <1>0, <2>1 DEF Shape
  <2> QED BY <2>1, <2>2, <2>3
<1> HIDE DEF d, f, g
<1>3. g # << >> /\ f = SubSeq(g, 1, Len(g) - 1)
  BY <1>1, <1>2, AppendFront
<1> QED BY <1>3 DEF f, g

(* An enter within the top frame pushes its region on the abstract stack.  *)
LEMMA EnterInFramePushes ==
  ASSUME TaskStackInvariant, TaskStackTypeOK', NEW l \in Locations, NEW region \in Handles,
         EnterInFrame(l, region), NEW t, t = current_task[l]
  PROVE  /\ Content(t)' = Append(Content(t), region)
         /\ \A u \in Tasks \ {t} : Content(u)' = Content(u)
<1> DEFINE k == Len(frames[t]) - 1
           c == current_index[t]
           f == frames[t][Len(frames[t])]
<1>1. /\ TaskStackTypeOK /\ t \in Tasks /\ ~Full(t)
      /\ current_index' = [current_index EXCEPT ![t] = @ + 1]
      /\ regions' = [regions EXCEPT ![f][c + 1] = region]
      /\ frames' = frames
  BY DEF EnterInFrame, Executing, TaskStackInvariant, OwnedOnce, TaskStackTypeOK
<1>2. /\ frames[t] \in Seq(Frames) /\ frames[t] # << >> /\ c \in Slots /\ c + 1 \in Slots
      /\ current_index'[t] = c + 1
  <2>1. frames[t] # << >> /\ c # SCOREP_TASK_STACK_SIZE - 1
    BY <1>1 DEF Full, TaskStackInvariant, StacksOfTasks
  <2>2. frames[t] \in Seq(Frames) /\ c \in Slots /\ current_index'[t] = c + 1
    BY <1>1 DEF TaskStackTypeOK
  <2> QED BY <2>1, <2>2, TaskStackAssumption DEF Slots
<1>3. /\ k \in Nat /\ Len(frames[t]) = k + 1
      /\ DOMAIN frames[t] = 1 .. k + 1 /\ f = frames[t][k + 1] /\ f \in Range(frames[t]) /\ f \in Frames
  <2>1. Len(frames[t]) \in Nat \ {0} /\ DOMAIN frames[t] = 1 .. Len(frames[t])
    BY <1>2, EmptySeq, LenProperties
  <2>2. Len(frames[t]) \in 1 .. Len(frames[t]) /\ k \in Nat /\ Len(frames[t]) = k + 1
    BY <2>1
  <2> QED BY <1>2, <2>1, <2>2, ElementOfSeq DEF Range
<1>4. /\ Depth(t) = SCOREP_TASK_STACK_SIZE * k + c + 1
      /\ Depth(t)' = SCOREP_TASK_STACK_SIZE * k + (c + 1) + 1
  BY <1>1, <1>2 DEF Depth
<1>5. \A g \in Frames, i \in Slots : g # f \/ i # c + 1 => regions'[g][i] = regions[g][i]
  BY <1>1, <1>3 DEF TaskStackTypeOK
<1>6. regions'[f][c + 1] = region
  BY <1>1, <1>2, <1>3 DEF TaskStackTypeOK
<1> HIDE DEF k, c, f
<1>7. /\ SCOREP_TASK_STACK_SIZE * k \in Nat /\ c \in Nat
  BY <1>2, <1>3, FrameSize
<1>8. ASSUME NEW n \in 1 .. Depth(t)
      PROVE  regions'[frames[t][Row(n) + 1]][Column(n)] = regions[frames[t][Row(n) + 1]][Column(n)]
  <2>1. Row(n) \in 0 .. k /\ Column(n) \in Slots /\ (Row(n) = k => Column(n) <= c)
    BY <1>2, <1>3, <1>4, Positions
  <2>2. Row(n) + 1 \in 1 .. k + 1
    BY <1>3, <2>1
  <2>3. frames[t][Row(n) + 1] \in Frames
    BY <1>2, <1>3, <2>2, ElementOfSeq
  <2>4. frames[t][Row(n) + 1] = f => Row(n) = k
    <3>1. IsInjective(frames[t])
      BY <1>1, OwnFrames
    <3>2. k + 1 \in 1 .. k + 1
      BY <1>3
    <3>3. frames[t][Row(n) + 1] = f => Row(n) + 1 = k + 1
      BY <1>3, <2>2, <3>1, <3>2 DEF IsInjective
    <3> QED BY <1>3, <2>1, <3>3
  <2>5. Row(n) = k => Column(n) # c + 1
    BY <1>7, <2>1 DEF Slots
  <2> QED BY <1>5, <2>1, <2>3, <2>4, <2>5
<1>9. Row(Depth(t)') = k /\ Column(Depth(t)') = c + 1
  <2>1. Depth(t)' \in 1 .. SCOREP_TASK_STACK_SIZE * k + (c + 1) + 1
    BY <1>4, <1>7
  <2> QED BY <1>2, <1>3, <1>4, <2>1, Positions
<1>10. Content(t)' = Append(Content(t), region)
  <2>1. Depth(t)' = Depth(t) + 1
    BY <1>4, <1>7
  <2>2. Shape(t) /\ Shape(t)'
    BY <1>1, ContentShape, ContentAfter
  <2>3. regions'[frames'[t][Row(Depth(t)') + 1]][Column(Depth(t)')] = region
    BY <1>1, <1>3, <1>6, <1>9
  <2> QED BY <1>1, <1>8, <2>1, <2>2, <2>3, RegionPushed
<1>11. ASSUME NEW u \in Tasks \ {t} PROVE Content(u)' = Content(u)
  <2>1. \A g \in Range(frames[u]) : g # f
    BY <1>1, <1>3, OwnFrames
  <2>2. \A g \in Range(frames[u]) : regions'[g] = regions[g]
    BY <1>1, <2>1 DEF TaskStackTypeOK
  <2> QED BY <1>1, <2>2, ContentKept DEF TaskStackTypeOK
<1> QED BY <1>10, <1>11

(* The frame alloc_new_stack_frame returns is on no stack.                 *)
LEMMA FrameForIsFree ==
  ASSUME TaskStackInvariant, NEW l \in Locations, NEW f \in Frames, FrameFor(l, f)
  PROVE  \A u \in Tasks : f \notin Range(frames[u])
<1>1. CASE recycled_frames[l] # << >>
  <2>1. recycled_frames[l] \in Seq(Frames) /\ IsInjective(recycled_frames[l])
    BY HolderFacts DEF TaskStackInvariant, OwnedOnce, TaskStackTypeOK, FramesOwnedOnce
  <2>2. f \in Range(recycled_frames[l])
    BY <1>1, <2>1, WithoutHead DEF FrameFor
  <2> QED BY <2>2, OwnFrames
<1>2. CASE recycled_frames[l] = << >>
  <2>1. f \notin misc_memory
    BY <1>2, NewMemoryIsNew DEF FrameFor
  <2> QED BY <2>1, OwnFrames
<1> QED BY <1>1, <1>2

(* So does an enter that needs another frame. *)
LEMMA EnterNewFramePushes ==
  ASSUME TaskStackInvariant, TaskStackTypeOK', NEW l \in Locations, NEW region \in Handles,
         EnterNewFrame(l, region), NEW t, t = current_task[l]
  PROVE  /\ Content(t)' = Append(Content(t), region)
         /\ \A u \in Tasks \ {t} : Content(u)' = Content(u)
<1> DEFINE k == Len(frames[t])
<1>1. /\ TaskStackTypeOK /\ t \in Tasks /\ current_index[t] = SCOREP_TASK_STACK_SIZE - 1
      /\ current_index' = [current_index EXCEPT ![t] = 0]
  BY DEF EnterNewFrame, Executing, Full, TaskStackInvariant, OwnedOnce, TaskStackTypeOK
<1>2. PICK f \in Frames : /\ FrameFor(l, f)
                          /\ frames' = [frames EXCEPT ![t] = Append(@, f)]
                          /\ regions' = [regions EXCEPT ![f][0] = region]
  BY DEF EnterNewFrame
<1>3. frames[t] \in Seq(Frames) /\ k \in Nat
  BY <1>1 DEF TaskStackTypeOK
<1>4. /\ frames'[t] = Append(frames[t], f) /\ current_index'[t] = 0
      /\ \A u \in Tasks \ {t} : frames'[u] = frames[u] /\ current_index'[u] = current_index[u]
  BY <1>1, <1>2 DEF TaskStackTypeOK
<1>5. /\ Len(frames'[t]) = k + 1 /\ frames'[t] # << >>
      /\ \A i \in 1 .. k : frames'[t][i] = frames[t][i]
      /\ frames'[t][k + 1] = f
  BY <1>3, <1>4, AppendProperties
<1>6. 0 \in Slots /\ SCOREP_TASK_STACK_SIZE * k \in Nat
  BY <1>3, FrameSize
<1>7. /\ \A g \in Frames \ {f} : regions'[g] = regions[g]
      /\ regions'[f][0] = region
  BY <1>1, <1>2, <1>6 DEF TaskStackTypeOK
<1>8. \A u \in Tasks : f \notin Range(frames[u])
  BY <1>2, FrameForIsFree
<1>9. Depth(t) = SCOREP_TASK_STACK_SIZE * k
  <2>1. CASE frames[t] = << >>
    BY <2>1, <1>3, TaskStackAssumption DEF Depth
  <2>2. CASE frames[t] # << >>
    <3>1. Depth(t) = SCOREP_TASK_STACK_SIZE * (k - 1) + (SCOREP_TASK_STACK_SIZE - 1) + 1
      BY <1>1, <2>2 DEF Depth
    <3>2. SCOREP_TASK_STACK_SIZE * (k - 1) = SCOREP_TASK_STACK_SIZE * k - SCOREP_TASK_STACK_SIZE
      BY <1>3, FrameSize
    <3> HIDE DEF k
    <3> QED BY <1>6, <3>1, <3>2, TaskStackAssumption
  <2> QED BY <2>1, <2>2
<1>10. Depth(t)' = SCOREP_TASK_STACK_SIZE * k + 0 + 1
  <2>1. Depth(t)' = SCOREP_TASK_STACK_SIZE * (k + 1 - 1) + 0 + 1
    BY <1>4, <1>5 DEF Depth
  <2>2. k + 1 - 1 = k
    BY <1>3
  <2> QED BY <2>1, <2>2
<1> HIDE DEF k
<1>11. ASSUME NEW n \in 1 .. Depth(t)
       PROVE  /\ frames'[t][Row(n) + 1] = frames[t][Row(n) + 1]
              /\ regions'[frames[t][Row(n) + 1]][Column(n)] = regions[frames[t][Row(n) + 1]][Column(n)]
  <2>1. n \in 1 .. SCOREP_TASK_STACK_SIZE * k + 0 + 1 /\ n < SCOREP_TASK_STACK_SIZE * k + 0 + 1
    BY <1>6, <1>9
  <2>2. Row(n) \in 0 .. k /\ Column(n) \in Slots /\ (Row(n) = k => Column(n) < 0)
    BY <1>3, <1>6, <2>1, Positions
  <2>3. Row(n) # k
    BY <2>2 DEF Slots
  <2>4. Row(n) + 1 \in 1 .. k
    BY <1>3, <2>2, <2>3
  <2>5. frames[t][Row(n) + 1] \in Range(frames[t]) /\ frames[t][Row(n) + 1] \in Frames
    BY <1>3, <2>4, LenProperties, ElementOfSeq DEF Range, k
  <2> QED BY <1>1, <1>5, <1>7, <1>8, <2>4, <2>5
<1>12. Row(Depth(t)') = k /\ Column(Depth(t)') = 0
  <2>1. Depth(t)' \in 1 .. SCOREP_TASK_STACK_SIZE * k + 0 + 1
    BY <1>6, <1>10
  <2> QED BY <1>3, <1>6, <1>10, <2>1, Positions
<1>13. Content(t)' = Append(Content(t), region)
  <2>1. Depth(t)' = Depth(t) + 1
    BY <1>6, <1>9, <1>10
  <2>2. Shape(t) /\ Shape(t)'
    BY <1>1, ContentShape, ContentAfter
  <2>3. regions'[frames'[t][Row(Depth(t)') + 1]][Column(Depth(t)')] = region
    BY <1>5, <1>7, <1>12
  <2> QED BY <1>1, <1>11, <2>1, <2>2, <2>3, RegionPushed
<1>14. ASSUME NEW u \in Tasks \ {t} PROVE Content(u)' = Content(u)
  <2>1. Range(frames[u]) \subseteq Frames
    BY <1>1, RangeOfSeq DEF TaskStackTypeOK
  <2>2. \A g \in Range(frames[u]) : regions'[g] = regions[g]
    BY <1>7, <1>8, <2>1
  <2> QED BY <1>1, <1>4, <2>2, ContentKept
<1> QED BY <1>13, <1>14

(* An exit that leaves the top frame in use pops the abstract stack.       *)
LEMMA ExitInFramePops ==
  ASSUME TaskStackInvariant, TaskStackTypeOK', NEW l \in Locations, ExitInFrame(l),
         NEW t, t = current_task[l]
  PROVE  /\ Content(t) # << >> /\ Content(t)' = SubSeq(Content(t), 1, Len(Content(t)) - 1)
         /\ \A u \in Tasks \ {t} : Content(u)' = Content(u)
<1> DEFINE k == Len(frames[t]) - 1
           c == current_index[t]
<1>1. /\ TaskStackTypeOK /\ t \in Tasks /\ frames[t] # << >> /\ c \in Slots /\ c # 0
      /\ current_index' = [current_index EXCEPT ![t] = c - 1]
      /\ UNCHANGED <<frames, regions>>
  BY DEF ExitInFrame, Executing, TaskStackInvariant, OwnedOnce, TaskStackTypeOK
<1>2. k \in Nat /\ c \in Nat /\ SCOREP_TASK_STACK_SIZE * k \in Nat
  <2>1. frames[t] \in Seq(Frames)
    BY <1>1 DEF TaskStackTypeOK
  <2>2. k \in Nat
    BY <1>1, <2>1, EmptySeq
  <2> HIDE DEF k
  <2> QED BY <1>1, <2>2, FrameSize
<1>3. /\ Depth(t) = SCOREP_TASK_STACK_SIZE * k + c + 1
      /\ Depth(t)' = SCOREP_TASK_STACK_SIZE * k + (c - 1) + 1
  BY <1>1 DEF Depth, TaskStackTypeOK
<1> HIDE DEF k, c
<1>4. Depth(t) = Depth(t)' + 1
  BY <1>2, <1>3
<1>5. Shape(t) /\ Shape(t)'
  BY <1>1, ContentShape, ContentAfter
<1>6. ASSUME NEW u \in Tasks \ {t} PROVE Content(u)' = Content(u)
  <2>1. current_index'[u] = current_index[u]
    BY <1>1 DEF TaskStackTypeOK
  <2> QED BY <1>1, <2>1, ContentKept
<1> QED BY <1>1, <1>4, <1>5, <1>6, RegionPopped

(* So does an exit that gives the top frame back. *)
LEMMA ExitFramePops ==
  ASSUME TaskStackInvariant, TaskStackTypeOK', NEW l \in Locations, ExitFrame(l),
         NEW t, t = current_task[l]
  PROVE  /\ Content(t) # << >> /\ Content(t)' = SubSeq(Content(t), 1, Len(Content(t)) - 1)
         /\ \A u \in Tasks \ {t} : Content(u)' = Content(u)
<1> DEFINE k == Len(frames[t]) - 1
<1>1. /\ TaskStackTypeOK /\ t \in Tasks /\ frames[t] # << >> /\ current_index[t] = 0
      /\ frames' = [frames EXCEPT ![t] = SubSeq(frames[t], 1, Len(frames[t]) - 1)]
      /\ current_index' = [current_index EXCEPT ![t] = SCOREP_TASK_STACK_SIZE - 1]
      /\ regions' = regions
  BY DEF ExitFrame, Executing, TaskStackInvariant, OwnedOnce, TaskStackTypeOK
<1>2. /\ frames[t] \in Seq(Frames) /\ IsInjective(frames[t]) /\ k \in Nat
      /\ SCOREP_TASK_STACK_SIZE * k \in Nat /\ 0 \in Slots
  <2>1. frames[t] \in Seq(Frames)
    BY <1>1 DEF TaskStackTypeOK
  <2>2. k \in Nat
    BY <1>1, <2>1, EmptySeq
  <2>3. IsInjective(frames[t])
    BY <1>1, OwnFrames
  <2> HIDE DEF k
  <2> QED BY <2>1, <2>2, <2>3, FrameSize
<1>3. /\ frames'[t] \in Seq(Frames) /\ Len(frames'[t]) = k
      /\ \A i \in 1 .. k : frames'[t][i] = frames[t][i]
      /\ current_index'[t] = SCOREP_TASK_STACK_SIZE - 1
      /\ \A u \in Tasks \ {t} : frames'[u] = frames[u] /\ current_index'[u] = current_index[u]
  <2>1. /\ frames'[t] = SubSeq(frames[t], 1, Len(frames[t]) - 1)
        /\ current_index'[t] = SCOREP_TASK_STACK_SIZE - 1
        /\ \A u \in Tasks \ {t} : frames'[u] = frames[u] /\ current_index'[u] = current_index[u]
    BY <1>1 DEF TaskStackTypeOK
  <2> QED BY <1>1, <1>2, <2>1, WithoutLast
<1>4. Depth(t) = SCOREP_TASK_STACK_SIZE * k + 0 + 1
  BY <1>1 DEF Depth
<1>5. Depth(t)' = SCOREP_TASK_STACK_SIZE * k
  <2>1. CASE k = 0
    <3>1. frames'[t] = << >>
      BY <1>3, <2>1, EmptySeq
    <3> HIDE DEF k
    <3> QED BY <2>1, <3>1, TaskStackAssumption DEF Depth
  <2>2. CASE k # 0
    <3>1. frames'[t] # << >>
      BY <1>3, <2>2
    <3>2. Depth(t)' = SCOREP_TASK_STACK_SIZE * (k - 1) + (SCOREP_TASK_STACK_SIZE - 1) + 1
      BY <1>3, <3>1 DEF Depth
    <3> HIDE DEF k
    <3>3. SCOREP_TASK_STACK_SIZE * (k - 1) = SCOREP_TASK_STACK_SIZE * k - SCOREP_TASK_STACK_SIZE
      BY <1>2, FrameSize
    <3> QED BY <1>2, <3>2, <3>3, TaskStackAssumption
  <2> QED BY <2>1, <2>2
<1> HIDE DEF k
<1>6. ASSUME NEW n \in 1 .. Depth(t)' PROVE frames'[t][Row(n) + 1] = frames[t][Row(n) + 1]
  <2>1. n \in 1 .. SCOREP_TASK_STACK_SIZE * k + 0 + 1 /\ n < SCOREP_TASK_STACK_SIZE * k + 0 + 1
    BY <1>2, <1>5
  <2>2. Row(n) \in 0 .. k /\ Column(n) \in Slots /\ (Row(n) = k => Column(n) < 0)
    BY <1>2, <2>1, Positions
  <2>3. Row(n) # k
    BY <2>2 DEF Slots
  <2>4. Row(n) + 1 \in 1 .. k
    BY <1>2, <2>2, <2>3
  <2> QED BY <1>3, <2>4
<1>7. Depth(t) = Depth(t)' + 1
  BY <1>2, <1>4, <1>5
<1>8. Shape(t) /\ Shape(t)'
  BY <1>1, ContentShape, ContentAfter
<1>9. ASSUME NEW u \in Tasks \ {t} PROVE Content(u)' = Content(u)
  BY <1>1, <1>3, ContentKept
<1> QED BY <1>1, <1>6, <1>7, <1>8, <1>9, RegionPopped

(* Steps that touch no stack. *)
LEMMA StacksKept ==
  ASSUME TaskStackTypeOK, TaskStackTypeOK', UNCHANGED <<frames, current_index, regions>>
  PROVE  \A u \in Tasks : Content(u)' = Content(u)
BY ContentKept

(* Every step is a step of the abstract stacks, or leaves them alone.      *)
LEMMA StepRefines ==
  ASSUME TaskStackInvariant, TaskStackTypeOK', [TaskStackNext]_taskStackVars
  PROVE  [Abstract!Next]_(Abstract!vars)
<1> DEFINE stack == [u \in Tasks |-> Content(u)]
<1>0. TaskStackTypeOK
  BY DEF TaskStackInvariant, OwnedOnce
<1>a. stack' = [u \in Tasks |-> Content(u)']
  OBVIOUS
<1>1. ASSUME NEW l \in Locations, NEW t \in Tasks, Create(l, t), ~finalized,
             current_task' = [current_task EXCEPT ![l] = t], regions' = regions
      PROVE  Abstract!Begin(l, t)
  <2>1. t \notin live /\ frames[t] = << >>
    BY <1>1, TaskForIsFree DEF Create
  <2>2. frames' = frames /\ current_index' = current_index
    BY <1>0, <1>1, <2>1 DEF Create, TaskStackTypeOK, TaskStackInvariant, StacksOfTasks, Full
  <2>3. \A u \in Tasks : Content(u)' = Content(u)
    BY <1>0, <1>1, <2>2, StacksKept
  <2>4. stack' = [stack EXCEPT ![t] = << >>]
    BY <1>a, <2>1, <2>3, ContentOfEmpty
  <2> QED BY <1>1, <2>1, <2>4 DEF Abstract!Begin, Create
<1>2. ASSUME NEW l \in Locations, InitLocation(l) \/ TaskBegin(l) PROVE Abstract!Next
  <2>1. \E t \in Tasks : Abstract!Begin(l, t)
    BY <1>1, <1>2 DEF InitLocation, TaskBegin
  <2> QED BY <2>1 DEF Abstract!Next
<1>3. ASSUME NEW l \in Locations, TaskEnd(l) PROVE Abstract!Next
  <2> DEFINE t == current_task[l]
  <2>1. t \in Tasks /\ t \in live /\ frames[t] = << >>
    BY <1>0, <1>3 DEF TaskEnd, Executing, TaskStackTypeOK
  <2>2. \A u \in Tasks : Content(u)' = Content(u)
    BY <1>0, <1>3, StacksKept DEF TaskEnd, taskVars
  <2>3. stack' = [stack EXCEPT ![t] = << >>]
    BY <1>a, <2>1, <2>2, ContentOfEmpty
  <2>4. Abstract!End(l)
    BY <1>3, <2>1, <2>3 DEF Abstract!End, TaskEnd
  <2> QED BY <2>4 DEF Abstract!Next
<1>4. ASSUME NEW l \in Locations, NEW t \in Tasks, TaskSwitch(l, t) PROVE Abstract!Next
  <2>1. \A u \in Tasks : Content(u)' = Content(u)
    BY <1>0, <1>4, StacksKept DEF TaskSwitch, taskVars
  <2>2. Abstract!Switch(l, t)
    BY <1>4, <1>a, <2>1 DEF Abstract!Switch, TaskSwitch
  <2> QED BY <2>2 DEF Abstract!Next
(* Steps that write to the stack of the task a location executes.          *)
<1>5. ASSUME NEW l \in Locations, NEW region \in Handles,
             EnterInFrame(l, region) \/ EnterNewFrame(l, region)
      PROVE  Abstract!Next
  <2> DEFINE t == current_task[l]
  <2>1. t \in Tasks /\ t \in live /\ live' = live /\ current_task' = current_task
    BY <1>0, <1>5 DEF EnterInFrame, EnterNewFrame, Executing, TaskStackTypeOK, locationVars
  <2>2. PICK u : u = t
    OBVIOUS
  <2> HIDE DEF t
  <2>3. /\ Content(u)' = Append(Content(u), region)
        /\ \A v \in Tasks \ {u} : Content(v)' = Content(v)
    BY <1>5, <2>2, EnterInFramePushes, EnterNewFramePushes DEF t
  <2>4. stack' = [stack EXCEPT ![u] = Append(@, region)]
    BY <1>a, <2>1, <2>2, <2>3
  <2>5. Abstract!Enter(l, region)
    BY <2>1, <2>2, <2>4 DEF Abstract!Enter, t
  <2> QED BY <2>5 DEF Abstract!Next
<1>6. ASSUME NEW l \in Locations, ExitInFrame(l) \/ ExitFrame(l) PROVE Abstract!Next
  <2> DEFINE t == current_task[l]
  <2>1. t \in Tasks /\ t \in live /\ live' = live /\ current_task' = current_task
    BY <1>0, <1>6 DEF ExitInFrame, ExitFrame, Executing, TaskStackTypeOK, locationVars
  <2>2. PICK u : u = t
    OBVIOUS
  <2> HIDE DEF t
  <2>3. /\ Content(u) # << >> /\ Content(u)' = SubSeq(Content(u), 1, Len(Content(u)) - 1)
        /\ \A v \in Tasks \ {u} : Content(v)' = Content(v)
    BY <1>6, <2>2, ExitInFramePops, ExitFramePops DEF t
  <2>4. stack' = [stack EXCEPT ![u] = SubSeq(@, 1, Len(@) - 1)] /\ stack[u] # << >>
    BY <1>a, <2>1, <2>2, <2>3
  <2>5. Abstract!Exit(l)
    BY <2>1, <2>2, <2>4 DEF Abstract!Exit, t
  <2> QED BY <2>5 DEF Abstract!Next
<1>7. ASSUME NEW l \in Locations, ExitAllRegions(l) PROVE Abstract!Next
  <2> DEFINE t == current_task[l]
  <2>1. t \in Tasks /\ t \in live /\ live' = live /\ current_task' = current_task
    BY <1>0, <1>7 DEF ExitAllRegions, Executing, TaskStackTypeOK
  <2>2. PICK u : u = t
    OBVIOUS
  <2>3. /\ frames'[u] = << >>
        /\ \A v \in Tasks \ {u} : frames'[v] = frames[v] /\ current_index'[v] = current_index[v]
        /\ regions' = regions
    BY <1>0, <1>7, <2>1, <2>2 DEF ExitAllRegions, TaskStackTypeOK
  <2> HIDE DEF t
  <2>4. \A v \in Tasks \ {u} : Content(v)' = Content(v)
    BY <1>0, <2>3, ContentKept
  <2>5. Content(u)' = << >>
    BY <2>1, <2>2, <2>3, ContentAfter
  <2>6. stack' = [stack EXCEPT ![u] = << >>]
    BY <1>a, <2>1, <2>2, <2>4, <2>5
  <2>7. Abstract!ExitAll(l)
    BY <2>1, <2>2, <2>6 DEF Abstract!ExitAll, t
  <2> QED BY <2>7 DEF Abstract!Next
<1>8. CASE FinalizeLocations
  <2>1. \A u \in Tasks : Content(u)' = Content(u)
    BY <1>0, <1>8, StacksKept DEF FinalizeLocations, taskVars
  <2>2. Abstract!EndAll
    BY <1>8, <1>a, <2>1 DEF Abstract!EndAll, FinalizeLocations
  <2> QED BY <2>2 DEF Abstract!Next
<1>9. CASE TaskStackStop \/ UNCHANGED taskStackVars
  <2>1. /\ UNCHANGED <<frames, current_index, regions, live, current_task>>
    BY <1>9 DEF TaskStackStop, taskStackVars, taskVars, locationVars
  <2>2. \A u \in Tasks : Content(u)' = Content(u)
    BY <1>0, <2>1, StacksKept
  <2> QED BY <1>a, <2>1, <2>2 DEF Abstract!vars
<1> QED BY <1>2, <1>3, <1>4, <1>5, <1>6, <1>7, <1>8, <1>9 DEF TaskStackNext

(* Every task has a stack of its own, which does what SCOREP_Task.h says:  *)
(* the frames, the index into them and the lists of recycled objects       *)
(* implement AbstractTaskStack.                                            *)
THEOREM TaskStackImplements == TaskStackSpec => Implements
<1>1. TaskStackInit => Abstract!Init
  <2> SUFFICES ASSUME TaskStackInit PROVE Abstract!Init
    OBVIOUS
  <2>1. \A t \in Tasks : Content(t) = << >>
    BY ContentOfEmpty DEF TaskStackInit
  <2> QED BY <2>1 DEF Abstract!Init, TaskStackInit
<1>2. TaskStackInvariant /\ TaskStackInvariant' /\ [TaskStackNext]_taskStackVars
        => [Abstract!Next]_(Abstract!vars)
  BY StepRefines DEF TaskStackInvariant, OwnedOnce
<1> QED BY <1>1, <1>2, InvariantAlways, PTL DEF TaskStackSpec, Implements, Abstract!Spec

-----------------------------------------------------------------------------
(* The rewind regions. *)

(* A prefix, element by element. *)
Starts(s, t) == Len(s) <= Len(t) /\ \A k \in 1 .. Len(s) : s[k] = t[k]

(* IsPrefix in the form the proofs use: the same elements up to its        *)
(* length.                                                                 *)
LEMMA PrefixIsStart ==
  ASSUME NEW S, NEW s \in Seq(S), NEW t \in Seq(S)
  PROVE  IsPrefix(s, t) <=> Starts(s, t)
<1>1. Len(s) \in Nat /\ Len(t) \in Nat
  BY LenProperties
<1>2. SubSeq(s, 1, Len(s)) = s
  BY SubSeqFull
<1>3. ASSUME Len(s) <= Len(t)
      PROVE  s = SubSeq(t, 1, Len(s)) <=> \A k \in 1 .. Len(s) : s[k] = t[k]
  <2>1. \A k \in 1 .. Len(s) : t[k] \in S
    BY <1>1, <1>3, ElementOfSeq
  <2>2. /\ SubSeq(t, 1, Len(s)) \in Seq(S)
        /\ Len(SubSeq(t, 1, Len(s))) = IF 1 <= Len(s) THEN Len(s) - 1 + 1 ELSE 0
        /\ \A k \in 1 .. Len(s) - 1 + 1 : SubSeq(t, 1, Len(s))[k] = t[1 + k - 1]
    BY <1>1, <2>1, SubSeqProperties
  <2>3. Len(SubSeq(t, 1, Len(s))) = Len(s) /\ \A k \in 1 .. Len(s) : SubSeq(t, 1, Len(s))[k] = t[k]
    BY <1>1, <2>2
  <2> QED BY <2>2, <2>3, SeqEqual
<1> QED BY <1>2, <1>3 DEF IsPrefix, Starts

(* The rest of a list behind its item d. *)
LEMMA RestOfList ==
  ASSUME NEW S, NEW s \in Seq(S), NEW d \in 0 .. Len(s)
  PROVE  /\ SubSeq(s, d + 1, Len(s)) \in Seq(S)
         /\ Len(SubSeq(s, d + 1, Len(s))) = Len(s) - d
         /\ \A i \in 1 .. Len(s) - d : SubSeq(s, d + 1, Len(s))[i] = s[d + i]
<1>1. Len(s) \in Nat /\ d \in Nat /\ d <= Len(s)
  BY LenProperties
<1>2. \A i \in d + 1 .. Len(s) : s[i] \in S
  BY <1>1, ElementOfSeq
<1>3. /\ SubSeq(s, d + 1, Len(s)) \in Seq(S)
      /\ Len(SubSeq(s, d + 1, Len(s))) = IF d + 1 <= Len(s) THEN Len(s) - (d + 1) + 1 ELSE 0
      /\ \A i \in 1 .. Len(s) - (d + 1) + 1 : SubSeq(s, d + 1, Len(s))[i] = s[d + 1 + i - 1]
  BY <1>1, <1>2, SubSeqProperties
<1> QED BY <1>1, <1>3

-----------------------------------------------------------------------------
(* The types, for a stack and a trace that need not be the current ones.   *)
Events == [time : Nat, paradigm : Paradigms \cup {Other}]
Items == [id : RewindRegions, entertimestamp : Nat, affected : SUBSET Paradigms]
IsTrace(tr) == tr \in [buffer : Seq(Events), disk : Nat, rewindlist : [Saved(tr) -> Seq(Events)]]

(* No region is twice on the stack, and each one has a rewind point. *)
Listed(stack, tr) ==
  /\ \A i, j \in 1 .. Len(stack) : stack[i].id = stack[j].id => i = j
  /\ \A i \in 1 .. Len(stack) : stack[i].id \in Saved(tr)

(* Rewind points are beginnings of the buffer, longer the nearer they are  *)
(* to the top.                                                             *)
Point(stack, tr, i) == tr.rewindlist[stack[i].id]
PointsNested(stack, tr) ==
  \A i \in 1 .. Len(stack) :
    /\ Starts(Point(stack, tr, i), tr.buffer)
    /\ \A j \in 1 .. i - 1 : Starts(Point(stack, tr, i), Point(stack, tr, j))

(* A region was entered when the events up to its point had happened, and  *)
(* is affected by every paradigm that has written an event since.          *)
PointsTimed(stack, tr) ==
  \A i \in 1 .. Len(stack) :
    /\ tr.disk <= stack[i].entertimestamp
    /\ \A k \in 1 .. Len(Point(stack, tr, i)) : tr.buffer[k].time <= stack[i].entertimestamp
PointsMarked(stack, tr) ==
  \A i \in 1 .. Len(stack) : \A k \in Len(Point(stack, tr, i)) + 1 .. Len(tr.buffer) :
    tr.buffer[k].paradigm \in stack[i].affected \cup {Other}

InOrder(tr) ==
  /\ \A k \in 1 .. Len(tr.buffer) : tr.disk <= tr.buffer[k].time
  /\ \A k, m \in 1 .. Len(tr.buffer) : k <= m => tr.buffer[k].time <= tr.buffer[m].time

Consistent(stack, tr) ==
  /\ stack \in Seq(Items) /\ IsTrace(tr)
  /\ Listed(stack, tr) /\ PointsNested(stack, tr)
  /\ PointsTimed(stack, tr) /\ PointsMarked(stack, tr)
  /\ InOrder(tr)

(* Nothing in the trace, and no region on the stack, is later than now.    *)
TraceBefore(tr, now) == tr.disk <= now /\ \A k \in 1 .. Len(tr.buffer) : tr.buffer[k].time <= now
StackBefore(stack, now) == \A i \in 1 .. Len(stack) : stack[i].entertimestamp <= now

Ids(stack) == {stack[i].id : i \in 1 .. Len(stack)}

(* The inductive invariant. *)
RewindIInv ==
  /\ clock \in Nat /\ program \in Programs
  /\ Consistent(rewind_stack, trace)
  /\ Saved(trace) = Ids(rewind_stack)
  /\ TraceBefore(trace, clock) /\ StackBefore(rewind_stack, clock)
  /\ removed \subseteq invalidated

(* The parts of a trace, and their types.                                  *)
LEMMA TraceFacts ==
  ASSUME NEW tr, IsTrace(tr)
  PROVE  /\ tr = [buffer |-> tr.buffer, disk |-> tr.disk, rewindlist |-> tr.rewindlist]
         /\ tr.buffer \in Seq(Events) /\ Len(tr.buffer) \in Nat /\ tr.disk \in Nat
         /\ tr.rewindlist \in [Saved(tr) -> Seq(Events)]
         /\ \A k \in 1 .. Len(tr.buffer) : tr.buffer[k] \in Events /\ tr.buffer[k].time \in Nat
<1>1. tr.buffer \in Seq(Events) /\ tr.disk \in Nat /\ tr.rewindlist \in [Saved(tr) -> Seq(Events)]
  BY DEF IsTrace
<1>2. \A k \in 1 .. Len(tr.buffer) : tr.buffer[k] \in Events
  BY <1>1, ElementOfSeq
<1>3. Len(tr.buffer) \in Nat
  BY <1>1, LenProperties
<1> QED BY <1>1, <1>2, <1>3 DEF IsTrace, Events

-----------------------------------------------------------------------------
(* OTF2. *)

(* Writing a record that is not earlier than the trace, of a paradigm that *)
(* affects all regions on the stack.                                       *)
LEMMA WriteKeeps ==
  ASSUME NEW stack, NEW tr, Consistent(stack, tr),
         NEW now \in Nat, TraceBefore(tr, now),
         NEW p \in Paradigms \cup {Other},
         \A i \in 1 .. Len(stack) : p \in stack[i].affected \cup {Other}
  PROVE  LET written == WriteRecord(tr, Event(now, p))
         IN  /\ Consistent(StackAfterWrite(stack, tr), written)
             /\ TraceBefore(written, now)
             /\ BufferFull(tr) => Saved(written) = {}
             /\ ~BufferFull(tr) => written.rewindlist = tr.rewindlist
<1> DEFINE e == Event(now, p)
           b == tr.buffer
           written == WriteRecord(tr, e)
<1>1. /\ tr = [buffer |-> b, disk |-> tr.disk, rewindlist |-> tr.rewindlist]
      /\ b \in Seq(Events) /\ Len(b) \in Nat /\ tr.disk \in Nat
      /\ tr.rewindlist \in [Saved(tr) -> Seq(Events)]
      /\ \A k \in 1 .. Len(b) : b[k] \in Events /\ b[k].time \in Nat
  BY TraceFacts DEF Consistent
<1>2. e \in Events /\ e.time = now /\ e.paradigm = p
  BY DEF Event, Events
<1>3. CASE BufferFull(tr)
  <2>1. b # << >> /\ Len(b) \in 1 .. Len(b)
    BY <1>1, <1>3, RewindAssumption DEF BufferFull
  <2>2. Last(b).time \in Nat /\ Last(b).time <= now
    BY <1>1, <2>1 DEF Last, TraceBefore
  <2>3. written = [buffer |-> << >> \o <<e>>, disk |-> Last(b).time, rewindlist |-> << >>]
    BY <1>3 DEF WriteRecord, FlushBuffer
  <2>4. << >> \o <<e>> \in Seq(Events) /\ Len(<< >> \o <<e>>) = 1 /\ (<< >> \o <<e>>)[1] = e
    BY <1>2
  <2>5. Saved(written) = {} /\ written.rewindlist \in [{} -> Seq(Events)]
    BY <2>3 DEF Saved
  <2>6. IsTrace(written)
    BY <2>2, <2>3, <2>4, <2>5 DEF IsTrace
  <2>7. InOrder(written) /\ TraceBefore(written, now)
    BY <1>2, <2>2, <2>3, <2>4 DEF InOrder, TraceBefore
  <2>8. StackAfterWrite(stack, tr) = << >> /\ Len(<< >>) = 0 /\ << >> \in Seq(Items)
    BY <1>3 DEF StackAfterWrite
  <2> HIDE DEF written
  <2>9. Consistent(StackAfterWrite(stack, tr), written)
    BY <2>6, <2>7, <2>8 DEF Consistent, Listed, PointsNested, PointsTimed, PointsMarked
  <2> QED BY <1>3, <2>5, <2>7, <2>9 DEF written
<1>4. CASE ~BufferFull(tr)
  <2>1. /\ written.buffer = b \o <<e>> /\ written.disk = tr.disk /\ written.rewindlist = tr.rewindlist
        /\ written = [buffer |-> b \o <<e>>, disk |-> tr.disk, rewindlist |-> tr.rewindlist]
    <3> HIDE DEF e
    <3>1. written = [tr EXCEPT !.buffer = b \o <<e>>]
      BY <1>4 DEF WriteRecord
    <3>2. \A r, v : [[buffer |-> b, disk |-> tr.disk, rewindlist |-> r] EXCEPT !.buffer = v]
                     = [buffer |-> v, disk |-> tr.disk, rewindlist |-> r]
      OBVIOUS
    <3>3. written = [buffer |-> b \o <<e>>, disk |-> tr.disk, rewindlist |-> tr.rewindlist]
      BY <1>1, <3>1, <3>2, Zenon
    <3> HIDE DEF written
    <3> QED BY <3>3
  <2>2. /\ b \o <<e>> \in Seq(Events) /\ Len(b \o <<e>>) = Len(b) + 1
        /\ \A k \in 1 .. Len(b) : (b \o <<e>>)[k] = b[k]
        /\ (b \o <<e>>)[Len(b) + 1] = e
    <3>1. <<e>> \in Seq(Events) /\ Len(<<e>>) = 1 /\ <<e>>[1] = e
      BY <1>2
    <3>2. /\ b \o <<e>> \in Seq(Events) /\ Len(b \o <<e>>) = Len(b) + Len(<<e>>)
          /\ \A k \in 1 .. Len(b) + Len(<<e>>) :
                (b \o <<e>>)[k] = IF k <= Len(b) THEN b[k] ELSE <<e>>[k - Len(b)]
      BY <1>1, <3>1, ConcatProperties
    <3> QED BY <1>1, <3>1, <3>2
  <2>3. Saved(written) = Saved(tr)
    BY <2>1 DEF Saved
  <2>4. IsTrace(written)
    BY <1>1, <2>1, <2>2, <2>3 DEF IsTrace
  <2>5. StackAfterWrite(stack, tr) = stack
    BY <1>4 DEF StackAfterWrite
  <2> DEFINE w == written.buffer
  <2>6. /\ Len(w) = Len(b) + 1 /\ \A k \in 1 .. Len(b) : w[k] = b[k]
        /\ w[Len(b) + 1] = e
    BY <2>1, <2>2
  <2> HIDE DEF written, w, b, e
  <2>7. InOrder(written) /\ TraceBefore(written, now)
    <3>1. \A k \in 1 .. Len(w) : /\ written.disk <= w[k].time /\ w[k].time <= now
                                 /\ k = Len(b) + 1 => w[k].time = now
                                 /\ k # Len(b) + 1 => k \in 1 .. Len(b) /\ w[k].time = b[k].time
      BY <1>1, <1>2, <2>1, <2>6 DEF Consistent, InOrder, TraceBefore, b
    <3>2. \A k, m \in 1 .. Len(w) : k <= m => w[k].time <= w[m].time
      BY <1>1, <2>6, <3>1 DEF Consistent, InOrder, b
    <3>3. written.disk <= now
      BY <2>1 DEF TraceBefore
    <3> QED BY <3>1, <3>2, <3>3 DEF InOrder, TraceBefore, w
  <2>8. ASSUME NEW i \in 1 .. Len(stack)
        PROVE  /\ Starts(Point(stack, written, i), w)
               /\ \A j \in 1 .. i - 1 : Starts(Point(stack, written, i), Point(stack, written, j))
               /\ written.disk <= stack[i].entertimestamp
               /\ \A k \in 1 .. Len(Point(stack, written, i)) : w[k].time <= stack[i].entertimestamp
               /\ \A k \in Len(Point(stack, written, i)) + 1 .. Len(w) :
                    w[k].paradigm \in stack[i].affected \cup {Other}
    <3> DEFINE pt == Point(stack, tr, i)
    <3>1. Point(stack, written, i) = pt /\ \A j : Point(stack, written, j) = Point(stack, tr, j)
      BY <2>1 DEF Point
    <3>2. Starts(pt, b) /\ \A j \in 1 .. i - 1 : Starts(pt, Point(stack, tr, j))
      BY DEF Consistent, PointsNested, b
    <3>3. Len(pt) \in Nat
      BY <1>1, LenProperties DEF Consistent, Listed, Point
    <3>4. /\ tr.disk <= stack[i].entertimestamp
          /\ \A k \in 1 .. Len(pt) : b[k].time <= stack[i].entertimestamp
          /\ \A k \in Len(pt) + 1 .. Len(b) : b[k].paradigm \in stack[i].affected \cup {Other}
      BY DEF Consistent, PointsTimed, PointsMarked, b
    <3> HIDE DEF pt
    <3>5. /\ Len(pt) <= Len(b) /\ \A k \in 1 .. Len(pt) : k \in 1 .. Len(b) /\ pt[k] = b[k]
      BY <1>1, <3>2, <3>3 DEF Starts
    <3>6. Starts(pt, w)
      BY <1>1, <2>6, <3>3, <3>5 DEF Starts
    <3>7. \A k \in 1 .. Len(pt) : w[k].time <= stack[i].entertimestamp
      BY <2>6, <3>4, <3>5
    <3>8. \A k \in Len(pt) + 1 .. Len(w) : w[k].paradigm \in stack[i].affected \cup {Other}
      <4> SUFFICES ASSUME NEW k \in Len(pt) + 1 .. Len(w)
                   PROVE  w[k].paradigm \in stack[i].affected \cup {Other}
        OBVIOUS
      <4>1. CASE k = Len(b) + 1
        BY <1>2, <2>6, <4>1
      <4>2. CASE k # Len(b) + 1
        <5>1. k \in Len(pt) + 1 .. Len(b) /\ k \in 1 .. Len(b)
          <6>1. Len(w) = Len(b) + 1 /\ Len(b) \in Nat
            BY <1>1, <2>6
          <6> QED BY <3>3, <4>2, <6>1
        <5> QED BY <2>6, <3>4, <5>1
      <4> QED BY <4>1, <4>2
    <3> QED BY <2>1, <3>1, <3>2, <3>4, <3>6, <3>7, <3>8
  <2>9. Listed(stack, written) /\ stack \in Seq(Items)
    BY <2>3 DEF Consistent, Listed
  <2>10. Consistent(stack, written)
    BY <2>4, <2>7, <2>8, <2>9 DEF Consistent, PointsNested, PointsTimed, PointsMarked, w
  <2> QED BY <1>4, <2>1, <2>5, <2>7, <2>10 DEF written, e
<1> QED BY <1>3, <1>4

(* Forgetting rewind points of regions that are not on the stack.          *)
LEMMA ClearKeeps ==
  ASSUME NEW stack, NEW tr, Consistent(stack, tr), NEW ids, ids \cap Ids(stack) = {}
  PROVE  /\ Consistent(stack, ClearPoints(tr, ids))
         /\ Saved(ClearPoints(tr, ids)) = Saved(tr) \ ids
         /\ ClearPoints(tr, ids).buffer = tr.buffer
         /\ ClearPoints(tr, ids).disk = tr.disk
         /\ \A id \in Saved(tr) \ ids : ClearPoints(tr, ids).rewindlist[id] = tr.rewindlist[id]
<1> DEFINE kept == Restrict(tr.rewindlist, Saved(tr) \ ids)
           cleared == ClearPoints(tr, ids)
<1>1. /\ tr = [buffer |-> tr.buffer, disk |-> tr.disk, rewindlist |-> tr.rewindlist]
      /\ tr.buffer \in Seq(Events) /\ tr.disk \in Nat
      /\ tr.rewindlist \in [Saved(tr) -> Seq(Events)]
  BY TraceFacts DEF Consistent
<1>2. kept = [i \in Saved(tr) \ ids |-> tr.rewindlist[i]]
  BY DEF Restrict
<1>3. cleared = [tr EXCEPT !.rewindlist = kept]
  BY DEF ClearPoints
<1> HIDE DEF kept, cleared
<1>4. \A b, d, r, v : [[buffer |-> b, disk |-> d, rewindlist |-> r] EXCEPT !.rewindlist = v]
                      = [buffer |-> b, disk |-> d, rewindlist |-> v]
  OBVIOUS
<1>5. cleared = [buffer |-> tr.buffer, disk |-> tr.disk, rewindlist |-> kept]
  BY <1>1, <1>3, <1>4, Zenon
<1>6. cleared.buffer = tr.buffer /\ cleared.disk = tr.disk /\ cleared.rewindlist = kept
  BY <1>5
<1>7. Saved(cleared) = Saved(tr) \ ids /\ kept \in [Saved(cleared) -> Seq(Events)]
  BY <1>1, <1>2, <1>6 DEF Saved
<1>8. IsTrace(cleared)
  BY <1>1, <1>5, <1>6, <1>7 DEF IsTrace
<1>9. \A i \in 1 .. Len(stack) : stack[i].id \in Saved(tr) \ ids
  BY DEF Consistent, Listed, Ids
<1>10. \A i \in 1 .. Len(stack) : Point(stack, cleared, i) = Point(stack, tr, i)
  BY <1>2, <1>6, <1>9 DEF Point
<1>11. Listed(stack, cleared)
  BY <1>7, <1>9 DEF Consistent, Listed
<1>12. PointsNested(stack, cleared)
  <2>1. \A i \in 1 .. Len(stack) : \A j \in 1 .. i - 1 : j \in 1 .. Len(stack)
    <3>1. Len(stack) \in Nat
      BY LenProperties DEF Consistent
    <3> QED BY <3>1
  <2> QED BY <1>6, <1>10, <2>1 DEF Consistent, PointsNested
<1>13. PointsTimed(stack, cleared) /\ PointsMarked(stack, cleared) /\ InOrder(cleared)
  BY <1>6, <1>10 DEF Consistent, PointsTimed, PointsMarked, InOrder
<1> QED BY <1>2, <1>6, <1>7, <1>8, <1>11, <1>12, <1>13 DEF Consistent, cleared

-----------------------------------------------------------------------------
(* The stack. *)

(* Taking regions off the stack, wherever they are.                        *)
LEMMA SublistKeeps ==
  ASSUME NEW stack, NEW tr, Consistent(stack, tr),
         NEW rest \in Seq(Items), NEW place \in [1 .. Len(rest) -> 1 .. Len(stack)],
         \A i, j \in 1 .. Len(rest) : i < j => place[i] < place[j],
         \A i \in 1 .. Len(rest) : rest[i] = stack[place[i]]
  PROVE  Consistent(rest, tr)
<1>1. Len(rest) \in Nat /\ Len(stack) \in Nat /\ \A i \in 1 .. Len(rest) : place[i] \in 1 .. Len(stack)
  BY LenProperties DEF Consistent
<1>2. \A i \in 1 .. Len(rest) : Point(rest, tr, i) = Point(stack, tr, place[i])
  BY DEF Point
<1>3. Listed(rest, tr)
  <2>1. ASSUME NEW i \in 1 .. Len(rest), NEW j \in 1 .. Len(rest), rest[i].id = rest[j].id
        PROVE  i = j
    <3>1. place[i] = place[j]
      BY <1>1, <2>1 DEF Consistent, Listed
    <3> QED BY <1>1, <3>1
  <2> QED BY <1>1, <2>1 DEF Consistent, Listed
<1>4. PointsNested(rest, tr)
  <2>1. ASSUME NEW i \in 1 .. Len(rest), NEW j \in 1 .. i - 1
        PROVE  Starts(Point(rest, tr, i), Point(rest, tr, j))
    <3>1. j \in 1 .. Len(rest) /\ place[j] \in 1 .. place[i] - 1
      BY <1>1
    <3> QED BY <1>1, <1>2, <3>1 DEF Consistent, PointsNested
  <2>2. \A i \in 1 .. Len(rest) : Starts(Point(rest, tr, i), tr.buffer)
    BY <1>1, <1>2 DEF Consistent, PointsNested
  <2> QED BY <2>1, <2>2 DEF PointsNested
<1>5. PointsTimed(rest, tr)
  BY <1>1, <1>2 DEF Consistent, PointsTimed
<1>6. PointsMarked(rest, tr)
  BY <1>1, <1>2 DEF Consistent, PointsMarked
<1> QED BY <1>3, <1>4, <1>5, <1>6 DEF Consistent

(* Popping the first d regions.                                            *)
LEMMA PopKeeps ==
  ASSUME NEW stack, NEW tr, Consistent(stack, tr), NEW d \in 0 .. Len(stack)
  PROVE  LET rest == SubSeq(stack, d + 1, Len(stack))
         IN  /\ Consistent(rest, tr)
             /\ Len(rest) = Len(stack) - d
             /\ \A i \in 1 .. Len(rest) : d + i \in 1 .. Len(stack) /\ rest[i] = stack[d + i]
             /\ Ids(rest) = {stack[i].id : i \in d + 1 .. Len(stack)}
<1> DEFINE rest == SubSeq(stack, d + 1, Len(stack))
           place == [i \in 1 .. Len(rest) |-> d + i]
<1>1. Len(stack) \in Nat /\ d \in Nat /\ stack \in Seq(Items)
  BY LenProperties DEF Consistent
<1>2. /\ rest \in Seq(Items) /\ Len(rest) = Len(stack) - d
      /\ \A i \in 1 .. Len(stack) - d : rest[i] = stack[d + i]
  BY <1>1, RestOfList
<1> HIDE DEF rest
<1>3. \A i \in 1 .. Len(rest) : d + i \in 1 .. Len(stack) /\ rest[i] = stack[d + i]
  BY <1>1, <1>2
<1>4. place \in [1 .. Len(rest) -> 1 .. Len(stack)]
  BY <1>3
<1>5. \A i, j \in 1 .. Len(rest) : i < j => place[i] < place[j]
  BY <1>1, <1>2
<1>6. \A i \in 1 .. Len(rest) : rest[i] = stack[place[i]]
  BY <1>3
<1> HIDE DEF place
<1>7. Consistent(rest, tr)
  <2>1. rest \in Seq(Items)
    BY <1>2
  <2> QED BY <1>4, <1>5, <1>6, <2>1, SublistKeeps
<1>8. Ids(rest) = {stack[i].id : i \in d + 1 .. Len(stack)}
  <2>1. ASSUME NEW i \in d + 1 .. Len(stack) PROVE stack[i].id \in Ids(rest)
    <3>1. i - d \in 1 .. Len(rest) /\ d + (i - d) = i
      BY <1>1, <1>2
    <3> QED BY <1>3, <3>1 DEF Ids
  <2>2. ASSUME NEW i \in 1 .. Len(rest) PROVE rest[i].id \in {stack[k].id : k \in d + 1 .. Len(stack)}
    <3>1. d + i \in d + 1 .. Len(stack)
      BY <1>1, <1>2
    <3> QED BY <1>3, <3>1
  <2> QED BY <2>1, <2>2 DEF Ids
<1> QED BY <1>2, <1>3, <1>7, <1>8 DEF rest

(* Taking the i-th region off.                                             *)
LEMMA RemoveKeeps ==
  ASSUME NEW stack, NEW tr, Consistent(stack, tr), NEW i \in 1 .. Len(stack)
  PROVE  LET rest == RemoveAt(stack, i)
         IN  /\ Consistent(rest, tr)
             /\ Ids(rest) = Ids(stack) \ {stack[i].id}
             /\ Len(rest) = Len(stack) - 1
             /\ \A k \in 1 .. Len(rest) : rest[k] = stack[IF k < i THEN k ELSE k + 1]
<1> DEFINE front == SubSeq(stack, 1, i - 1)
           back == SubSeq(stack, i + 1, Len(stack))
           rest == front \o back
           place == [k \in 1 .. Len(rest) |-> IF k < i THEN k ELSE k + 1]
<1>1. /\ Len(stack) \in Nat /\ i \in Nat /\ stack \in Seq(Items)
      /\ \A k \in 1 .. Len(stack) : stack[k] \in Items
  BY LenProperties, ElementOfSeq DEF Consistent
<1>2. /\ front \in Seq(Items) /\ Len(front) = i - 1
      /\ \A k \in 1 .. i - 1 : front[k] = stack[k]
  <2>1. \A k \in 1 .. i - 1 : stack[k] \in Items
    BY <1>1
  <2>2. /\ front \in Seq(Items)
        /\ Len(front) = IF 1 <= i - 1 THEN i - 1 - 1 + 1 ELSE 0
        /\ \A k \in 1 .. i - 1 - 1 + 1 : front[k] = stack[1 + k - 1]
    BY <1>1, <2>1, SubSeqProperties
  <2> QED BY <1>1, <2>2
<1>3. /\ back \in Seq(Items) /\ Len(back) = Len(stack) - i
      /\ \A k \in 1 .. Len(stack) - i : back[k] = stack[i + k]
  BY <1>1, RestOfList
<1> HIDE DEF front, back
<1>4. /\ rest \in Seq(Items) /\ Len(rest) = Len(front) + Len(back)
      /\ \A k \in 1 .. Len(front) + Len(back) :
            rest[k] = IF k <= Len(front) THEN front[k] ELSE back[k - Len(front)]
  BY <1>2, <1>3, ConcatProperties
<1> HIDE DEF rest
<1>5. Len(rest) = Len(stack) - 1
  BY <1>1, <1>2, <1>3, <1>4
<1>6. ASSUME NEW k \in 1 .. Len(rest)
      PROVE  /\ place[k] \in 1 .. Len(stack) /\ place[k] # i
             /\ rest[k] = stack[place[k]]
  <2>1. CASE k < i
    <3>1. /\ k \in 1 .. i - 1 /\ k \in 1 .. Len(stack) /\ k # i
          /\ k \in 1 .. Len(front) + Len(back) /\ k <= Len(front)
      BY <1>1, <1>2, <1>3, <1>5, <2>1
    <3>2. rest[k] = stack[k]
      BY <1>2, <1>4, <3>1
    <3>3. place[k] = k
      BY <2>1
    <3> QED BY <3>1, <3>2, <3>3
  <2>2. CASE k >= i
    <3>1. k - (i - 1) \in 1 .. Len(stack) - i /\ i + (k - (i - 1)) = k + 1 /\ ~(k <= i - 1) /\ ~(k < i)
      BY <1>1, <1>5, <2>2
    <3>2. rest[k] = back[k - (i - 1)]
      BY <1>2, <1>4, <1>5, <3>1
    <3>3. back[k - (i - 1)] = stack[k + 1]
      BY <1>3, <3>1
    <3>4. k + 1 \in 1 .. Len(stack) /\ k + 1 # i
      BY <1>1, <1>5, <2>2
    <3>5. place[k] = k + 1
      BY <3>1
    <3> QED BY <3>2, <3>3, <3>4, <3>5
  <2> QED BY <1>1, <2>1, <2>2
<1>7. place \in [1 .. Len(rest) -> 1 .. Len(stack)]
  BY <1>6
<1>8. \A k, m \in 1 .. Len(rest) : k < m => place[k] < place[m]
  BY <1>1, <1>5
<1>9. \A k \in 1 .. Len(rest) : place[k] = IF k < i THEN k ELSE k + 1
  OBVIOUS
<1>10. \A m \in 1 .. Len(stack) : m # i => \E k \in 1 .. Len(rest) : place[k] = m
  <2> SUFFICES ASSUME NEW m \in 1 .. Len(stack), m # i
               PROVE  \E k \in 1 .. Len(rest) : place[k] = m
    OBVIOUS
  <2>1. CASE m < i
    <3>1. m \in 1 .. Len(rest)
      BY <1>1, <1>5, <2>1
    <3> QED BY <1>9, <2>1, <3>1
  <2>2. CASE m > i
    <3>1. m - 1 \in 1 .. Len(rest) /\ ~(m - 1 < i) /\ (m - 1) + 1 = m
      BY <1>1, <1>5, <2>2
    <3> QED BY <1>9, <3>1
  <2> QED BY <1>1, <2>1, <2>2
<1> HIDE DEF place
<1>11. Consistent(rest, tr)
  <2>1. \A k \in 1 .. Len(rest) : rest[k] = stack[place[k]]
    BY <1>6
  <2>2. rest \in Seq(Items)
    BY <1>4
  <2> QED BY <1>7, <1>8, <2>1, <2>2, SublistKeeps
<1>12. Ids(rest) = Ids(stack) \ {stack[i].id}
  <2>1. \A m \in 1 .. Len(stack) : m # i => stack[m].id # stack[i].id
    BY DEF Consistent, Listed
  <2>2. Ids(rest) \subseteq Ids(stack) \ {stack[i].id}
    <3> SUFFICES ASSUME NEW k \in 1 .. Len(rest) PROVE rest[k].id \in Ids(stack) \ {stack[i].id}
      BY DEF Ids
    <3>1. place[k] \in 1 .. Len(stack) /\ place[k] # i /\ rest[k] = stack[place[k]]
      BY <1>6
    <3> QED BY <2>1, <3>1 DEF Ids
  <2>3. ASSUME NEW id \in Ids(stack) \ {stack[i].id} PROVE id \in Ids(rest)
    <3>1. PICK m \in 1 .. Len(stack) : m # i /\ stack[m].id = id
      BY <2>3 DEF Ids
    <3>2. PICK k \in 1 .. Len(rest) : place[k] = m
      BY <1>10, <3>1
    <3> QED BY <1>6, <3>1, <3>2 DEF Ids
  <2> QED BY <2>2, <2>3
<1>13. RemoveAt(stack, i) = rest
  BY DEF RemoveAt, rest, front, back
<1> QED BY <1>5, <1>6, <1>9, <1>11, <1>12, <1>13

(* A region that is not on the stack, entered now: its rewind point is the *)
(* whole buffer.                                                           *)
LEMMA EnterKeeps ==
  ASSUME NEW stack, NEW tr, Consistent(stack, tr),
         NEW item \in Items, item.id \notin Ids(stack), TraceBefore(tr, item.entertimestamp)
  PROVE  LET pushed == <<item>> \o stack
             stored == StorePoint(tr, item.id)
         IN  /\ Consistent(pushed, stored)
             /\ Saved(stored) = Saved(tr) \cup {item.id}
             /\ stored.buffer = tr.buffer /\ stored.disk = tr.disk
             /\ Ids(pushed) = {item.id} \cup Ids(stack)
             /\ Len(pushed) = Len(stack) + 1 /\ pushed[1] = item
             /\ \A i \in 1 .. Len(stack) : pushed[i + 1] = stack[i]
<1> DEFINE id == item.id
           pushed == <<item>> \o stack
           points == [i \in Saved(tr) \cup {id} |->
                        IF i = id THEN tr.buffer ELSE tr.rewindlist[i]]
           stored == StorePoint(tr, id)
<1>1. /\ tr = [buffer |-> tr.buffer, disk |-> tr.disk, rewindlist |-> tr.rewindlist]
      /\ tr.buffer \in Seq(Events) /\ tr.disk \in Nat /\ Len(tr.buffer) \in Nat
      /\ tr.rewindlist \in [Saved(tr) -> Seq(Events)]
  BY TraceFacts DEF Consistent
<1>2. stored = [tr EXCEPT !.rewindlist = points]
  BY DEF StorePoint
<1>3. \A b, d, r, v : [[buffer |-> b, disk |-> d, rewindlist |-> r] EXCEPT !.rewindlist = v]
                      = [buffer |-> b, disk |-> d, rewindlist |-> v]
  OBVIOUS
<1>4. points \in [Saved(tr) \cup {id} -> Seq(Events)]
  BY <1>1
<1>5. points[id] = tr.buffer /\ \A i \in Saved(tr) : i # id => points[i] = tr.rewindlist[i]
  OBVIOUS
<1> HIDE DEF points, stored
<1>6. stored = [buffer |-> tr.buffer, disk |-> tr.disk, rewindlist |-> points]
  BY <1>1, <1>2, <1>3, Zenon
<1>7. stored.buffer = tr.buffer /\ stored.disk = tr.disk /\ stored.rewindlist = points
  BY <1>6
<1>8. Saved(stored) = Saved(tr) \cup {id}
  BY <1>4, <1>7 DEF Saved
<1>9. IsTrace(stored)
  BY <1>1, <1>4, <1>6, <1>7, <1>8 DEF IsTrace
<1>10. /\ pushed \in Seq(Items) /\ Len(pushed) = Len(stack) + 1 /\ Len(stack) \in Nat
       /\ pushed[1] = item
       /\ \A i \in 1 .. Len(stack) : pushed[i + 1] = stack[i]
       /\ \A i \in 2 .. Len(stack) + 1 : i - 1 \in 1 .. Len(stack) /\ pushed[i] = stack[i - 1]
  <2>1. <<item>> \in Seq(Items) /\ Len(<<item>>) = 1 /\ <<item>>[1] = item
    OBVIOUS
  <2>2. stack \in Seq(Items) /\ Len(stack) \in Nat
    BY LenProperties DEF Consistent
  <2>3. /\ pushed \in Seq(Items) /\ Len(pushed) = 1 + Len(stack)
        /\ \A i \in 1 .. 1 + Len(stack) : pushed[i] = IF i <= 1 THEN <<item>>[i] ELSE stack[i - 1]
    BY <2>1, <2>2, ConcatProperties
  <2> HIDE DEF pushed
  <2>4. \A i \in 2 .. Len(stack) + 1 : i - 1 \in 1 .. Len(stack) /\ pushed[i] = stack[i - 1]
    BY <2>2, <2>3
  <2>5. \A i \in 1 .. Len(stack) : i + 1 \in 2 .. Len(stack) + 1 /\ (i + 1) - 1 = i
    BY <2>2
  <2>6. pushed[1] = item
    BY <2>1, <2>2, <2>3
  <2> QED BY <2>2, <2>3, <2>4, <2>5, <2>6
<1> HIDE DEF pushed
<1>11. \A i \in 1 .. Len(pushed) : i = 1 \/ i \in 2 .. Len(stack) + 1
  BY <1>10
<1>12. \A i \in 1 .. Len(stack) : stack[i].id # id /\ stack[i].id \in Saved(tr)
  BY DEF Consistent, Listed, Ids
<1>13. \A i \in 2 .. Len(stack) + 1 : Point(pushed, stored, i) = Point(stack, tr, i - 1)
  BY <1>5, <1>7, <1>10, <1>12 DEF Point
<1>14. Point(pushed, stored, 1) = tr.buffer
  BY <1>5, <1>7, <1>10 DEF Point
<1>15. Listed(pushed, stored)
  <2>1. ASSUME NEW i \in 1 .. Len(pushed), NEW j \in 1 .. Len(pushed), pushed[i].id = pushed[j].id
        PROVE  i = j
    <3>1. CASE i = 1 /\ j = 1
      BY <3>1
    <3>2. CASE i = 1 /\ j # 1
      BY <1>10, <1>11, <1>12, <2>1, <3>2
    <3>3. CASE i # 1 /\ j = 1
      BY <1>10, <1>11, <1>12, <2>1, <3>3
    <3>4. CASE i # 1 /\ j # 1
      <4>1. i - 1 \in 1 .. Len(stack) /\ j - 1 \in 1 .. Len(stack)
            /\ stack[i - 1].id = stack[j - 1].id
        BY <1>10, <1>11, <2>1, <3>4
      <4>2. i - 1 = j - 1
        BY <4>1 DEF Consistent, Listed
      <4> QED BY <1>10, <4>2
    <3> QED BY <3>1, <3>2, <3>3, <3>4
  <2>2. \A i \in 1 .. Len(pushed) : pushed[i].id \in Saved(stored)
    BY <1>8, <1>10, <1>11, <1>12
  <2> QED BY <2>1, <2>2 DEF Listed
<1>16. PointsNested(pushed, stored)
  <2>1. Starts(tr.buffer, tr.buffer)
    BY <1>1 DEF Starts
  <2>2. ASSUME NEW i \in 2 .. Len(stack) + 1
        PROVE  /\ Starts(Point(pushed, stored, i), tr.buffer)
               /\ \A j \in 1 .. i - 1 : Starts(Point(pushed, stored, i), Point(pushed, stored, j))
    <3> DEFINE p == i - 1
    <3>1. p \in 1 .. Len(stack) /\ Point(pushed, stored, i) = Point(stack, tr, p)
      BY <1>10, <1>13
    <3>2. /\ Starts(Point(stack, tr, p), tr.buffer)
          /\ \A j \in 1 .. p - 1 : Starts(Point(stack, tr, p), Point(stack, tr, j))
      BY <3>1 DEF Consistent, PointsNested
    <3>3. ASSUME NEW j \in 1 .. i - 1, j # 1
          PROVE  Starts(Point(pushed, stored, i), Point(pushed, stored, j))
      <4>1. j \in 2 .. Len(stack) + 1 /\ j - 1 \in 1 .. p - 1
        BY <1>10, <3>3
      <4>2. Point(pushed, stored, j) = Point(stack, tr, j - 1)
        BY <1>13, <4>1
      <4> QED BY <3>1, <3>2, <4>1, <4>2
    <3> QED BY <1>14, <3>1, <3>2, <3>3
  <2>3. \A i \in 1 .. Len(pushed) :
          /\ Starts(Point(pushed, stored, i), stored.buffer)
          /\ \A j \in 1 .. i - 1 : Starts(Point(pushed, stored, i), Point(pushed, stored, j))
    BY <1>7, <1>11, <1>14, <2>1, <2>2
  <2> QED BY <2>3 DEF PointsNested
<1>17. PointsTimed(pushed, stored)
  <2>1. /\ tr.disk <= pushed[1].entertimestamp
        /\ \A k \in 1 .. Len(tr.buffer) : tr.buffer[k].time <= pushed[1].entertimestamp
    BY <1>10 DEF TraceBefore
  <2>2. \A i \in 2 .. Len(stack) + 1 :
          /\ tr.disk <= pushed[i].entertimestamp
          /\ \A k \in 1 .. Len(Point(pushed, stored, i)) : tr.buffer[k].time <= pushed[i].entertimestamp
    BY <1>10, <1>13 DEF Consistent, PointsTimed
  <2> QED BY <1>7, <1>11, <1>14, <2>1, <2>2 DEF PointsTimed
<1>18. PointsMarked(pushed, stored)
  <2>1. \A k : k \notin Len(tr.buffer) + 1 .. Len(tr.buffer)
    BY <1>1
  <2>2. \A i \in 2 .. Len(stack) + 1 : \A k \in Len(Point(pushed, stored, i)) + 1 .. Len(tr.buffer) :
          tr.buffer[k].paradigm \in pushed[i].affected \cup {Other}
    BY <1>10, <1>13 DEF Consistent, PointsMarked
  <2> QED BY <1>7, <1>11, <1>14, <2>1, <2>2 DEF PointsMarked
<1>19. InOrder(stored)
  BY <1>7 DEF Consistent, InOrder
<1>20. Ids(pushed) = {id} \cup Ids(stack)
  <2>1. Ids(pushed) \subseteq {id} \cup Ids(stack)
    BY <1>10, <1>11 DEF Ids
  <2>2. ASSUME NEW i \in 1 .. Len(stack) PROVE stack[i].id \in Ids(pushed)
    <3>1. i + 1 \in 1 .. Len(pushed) /\ pushed[i + 1] = stack[i]
      BY <1>10
    <3> QED BY <3>1 DEF Ids
  <2>3. id \in Ids(pushed)
    <3>1. 1 \in 1 .. Len(pushed)
      BY <1>10
    <3> QED BY <1>10, <3>1 DEF Ids
  <2> QED BY <2>1, <2>2, <2>3 DEF Ids
<1> QED BY <1>7, <1>8, <1>9, <1>10, <1>15, <1>16, <1>17, <1>18, <1>19, <1>20
        DEF Consistent, pushed, stored

(* Marking all regions on the stack.                                       *)
LEMMA MarkKeeps ==
  ASSUME NEW stack, NEW tr, Consistent(stack, tr), NEW paradigms \in SUBSET Paradigms
  PROVE  LET marked == SetAffected(stack, paradigms)
         IN  /\ Consistent(marked, tr)
             /\ Len(marked) = Len(stack) /\ Ids(marked) = Ids(stack)
             /\ \A i \in 1 .. Len(stack) : /\ paradigms \subseteq marked[i].affected
                                           /\ marked[i].entertimestamp = stack[i].entertimestamp
<1> DEFINE marked == SetAffected(stack, paradigms)
<1>1. /\ stack \in Seq(Items) /\ Len(stack) \in Nat /\ DOMAIN stack = 1 .. Len(stack)
      /\ \A i \in 1 .. Len(stack) : stack[i] \in Items
  BY LenProperties, ElementOfSeq DEF Consistent
<1>2. \A i \in 1 .. Len(stack) :
        marked[i] = [stack[i] EXCEPT !.affected = stack[i].affected \cup paradigms]
  BY <1>1 DEF SetAffected
<1>3. \A item \in Items :
        LET new == [item EXCEPT !.affected = item.affected \cup paradigms]
        IN  /\ new \in Items /\ new.id = item.id /\ new.entertimestamp = item.entertimestamp
            /\ new.affected = item.affected \cup paradigms
  BY DEF Items
<1>4. marked = [i \in 1 .. Len(stack) |-> marked[i]]
  BY <1>1 DEF SetAffected
<1> HIDE DEF marked
<1>5. ASSUME NEW i \in 1 .. Len(stack)
      PROVE  /\ marked[i] \in Items /\ marked[i].id = stack[i].id
             /\ marked[i].entertimestamp = stack[i].entertimestamp
             /\ marked[i].affected = stack[i].affected \cup paradigms
  BY <1>1, <1>2, <1>3
<1>6. marked \in Seq(Items) /\ Len(marked) = Len(stack)
  <2>1. marked \in [1 .. Len(stack) -> Items]
    BY <1>4, <1>5
  <2> QED BY <1>1, <2>1, SeqDef, LenProperties
<1>7. \A i \in 1 .. Len(stack) : Point(marked, tr, i) = Point(stack, tr, i)
  BY <1>5 DEF Point
<1>8. Listed(marked, tr)
  BY <1>5, <1>6 DEF Consistent, Listed
<1>9. PointsNested(marked, tr)
  <2>1. \A i \in 1 .. Len(stack) : \A j \in 1 .. i - 1 : j \in 1 .. Len(stack)
    BY <1>1
  <2> QED BY <1>6, <1>7, <2>1 DEF Consistent, PointsNested
<1>10. PointsTimed(marked, tr)
  BY <1>5, <1>6, <1>7 DEF Consistent, PointsTimed
<1>11. PointsMarked(marked, tr)
  BY <1>5, <1>6, <1>7 DEF Consistent, PointsMarked
<1>12. Ids(marked) = Ids(stack)
  BY <1>5, <1>6 DEF Ids
<1> QED BY <1>5, <1>6, <1>8, <1>9, <1>10, <1>11, <1>12 DEF Consistent, marked

-----------------------------------------------------------------------------
(* Rewinding the region at depth d: the events since it was pushed are    *)
(* cut off.                                                                *)
LEMMA RewindKeeps ==
  ASSUME NEW stack, NEW tr, Consistent(stack, tr), NEW d \in 1 .. Len(stack)
  PROVE  LET rewound == RewindBuffer(tr, stack[d].id)
             rest == SubSeq(stack, d + 1, Len(stack))
         IN  /\ Consistent(rest, rewound)
             /\ TraceBefore(rewound, stack[d].entertimestamp)
             /\ rewound.rewindlist = tr.rewindlist
             /\ Len(rewound.buffer) = Len(Point(stack, tr, d))
<1> DEFINE point == Point(stack, tr, d)
           rewound == RewindBuffer(tr, stack[d].id)
           rest == SubSeq(stack, d + 1, Len(stack))
<1>1. /\ tr = [buffer |-> tr.buffer, disk |-> tr.disk, rewindlist |-> tr.rewindlist]
      /\ tr.buffer \in Seq(Events) /\ tr.disk \in Nat /\ Len(tr.buffer) \in Nat
      /\ tr.rewindlist \in [Saved(tr) -> Seq(Events)]
  BY TraceFacts DEF Consistent
<1>2. Len(stack) \in Nat /\ d \in 0 .. Len(stack) /\ d \in Nat
  <2>1. Len(stack) \in Nat
    BY LenProperties DEF Consistent
  <2> QED BY <2>1
<1>3. /\ Consistent(rest, tr) /\ Len(rest) = Len(stack) - d
      /\ \A i \in 1 .. Len(rest) : d + i \in 1 .. Len(stack) /\ rest[i] = stack[d + i]
  BY <1>2, PopKeeps
<1>4. point \in Seq(Events) /\ Len(point) \in Nat
  <2>1. point \in Seq(Events)
    BY <1>1 DEF Consistent, Listed, Point
  <2> QED BY <2>1, LenProperties
<1>5. rewound = [tr EXCEPT !.buffer = point]
  BY DEF RewindBuffer, Point
<1>6. \A b, k, r, v : [[buffer |-> b, disk |-> k, rewindlist |-> r] EXCEPT !.buffer = v]
                      = [buffer |-> v, disk |-> k, rewindlist |-> r]
  OBVIOUS
<1>7. Starts(point, tr.buffer)
  BY DEF Consistent, PointsNested
<1> HIDE DEF point, rewound, rest
<1>8. rewound = [buffer |-> point, disk |-> tr.disk, rewindlist |-> tr.rewindlist]
  BY <1>1, <1>5, <1>6, Zenon
<1>9. rewound.buffer = point /\ rewound.disk = tr.disk /\ rewound.rewindlist = tr.rewindlist
  BY <1>8
<1>10. Saved(rewound) = Saved(tr)
  BY <1>9 DEF Saved
<1>11. IsTrace(rewound)
  BY <1>1, <1>4, <1>8, <1>10 DEF IsTrace
<1>12. \A k \in 1 .. Len(point) : k \in 1 .. Len(tr.buffer) /\ point[k] = tr.buffer[k]
  BY <1>1, <1>4, <1>7 DEF Starts
<1>13. InOrder(rewound)
  BY <1>9, <1>12 DEF Consistent, InOrder
<1>14. TraceBefore(rewound, stack[d].entertimestamp)
  BY <1>9, <1>12 DEF Consistent, PointsTimed, TraceBefore, point
<1>15. ASSUME NEW i \in 1 .. Len(rest)
       PROVE  /\ Point(rest, rewound, i) = Point(rest, tr, i)
              /\ Starts(Point(rest, tr, i), point)
              /\ Len(Point(rest, tr, i)) \in Nat
  <2>1. Point(rest, rewound, i) = Point(rest, tr, i) /\ Point(rest, tr, i) = Point(stack, tr, d + i)
    BY <1>3, <1>9 DEF Point
  <2>2. d + i \in 1 .. Len(stack) /\ d \in 1 .. (d + i) - 1
    BY <1>2, <1>3
  <2>3. Starts(Point(stack, tr, d + i), point)
    BY <2>2 DEF Consistent, PointsNested, point
  <2>4. Point(rest, tr, i) \in Seq(Events)
    BY <1>1, <1>3 DEF Consistent, Listed, Point
  <2> QED BY <2>1, <2>3, <2>4, LenProperties
<1>16. PointsNested(rest, rewound)
  <2>1. \A i \in 1 .. Len(rest) : \A j \in 1 .. i - 1 : j \in 1 .. Len(rest)
    BY <1>2, <1>3
  <2> QED BY <1>3, <1>9, <1>15, <2>1 DEF Consistent, PointsNested
<1>17. PointsTimed(rest, rewound)
  <2> SUFFICES ASSUME NEW i \in 1 .. Len(rest)
               PROVE  /\ tr.disk <= rest[i].entertimestamp
                      /\ \A k \in 1 .. Len(Point(rest, tr, i)) : point[k].time <= rest[i].entertimestamp
    BY <1>9, <1>15 DEF PointsTimed
  <2>1. \A k \in 1 .. Len(Point(rest, tr, i)) : k \in 1 .. Len(point)
    BY <1>4, <1>15 DEF Starts
  <2> QED BY <1>3, <1>12, <2>1 DEF Consistent, PointsTimed
<1>18. PointsMarked(rest, rewound)
  <2> SUFFICES ASSUME NEW i \in 1 .. Len(rest), NEW k \in Len(Point(rest, tr, i)) + 1 .. Len(point)
               PROVE  point[k].paradigm \in rest[i].affected \cup {Other}
    BY <1>9, <1>15 DEF PointsMarked
  <2>1. k \in 1 .. Len(point)
    BY <1>4, <1>15
  <2>2. k \in Len(Point(rest, tr, i)) + 1 .. Len(tr.buffer)
    BY <1>1, <1>4, <1>12, <1>15, <2>1
  <2> QED BY <1>3, <1>12, <2>1, <2>2 DEF Consistent, PointsMarked
<1>19. Listed(rest, rewound)
  BY <1>3, <1>10 DEF Consistent, Listed
<1>20. Consistent(rest, rewound)
  BY <1>3, <1>11, <1>13, <1>16, <1>17, <1>18, <1>19 DEF Consistent
<1> QED BY <1>9, <1>14, <1>20 DEF rewound, rest, point

-----------------------------------------------------------------------------
(* The steps.  The stack is a list of items.                               *)
LEMMA StackFacts ==
  RewindIInv => /\ rewind_stack \in Seq(Items) /\ Len(rewind_stack) \in Nat
                /\ DOMAIN rewind_stack = 1 .. Len(rewind_stack)
                /\ \A i \in 1 .. Len(rewind_stack) : rewind_stack[i] \in Items
BY LenProperties, ElementOfSeq DEF RewindIInv, Consistent

(* The place of a region on the stack is found.                            *)
LEMMA DepthFound ==
  ASSUME NEW stack \in Seq(Items), NEW id, IsEntered(stack, id)
  PROVE  /\ DepthOf(stack, id) \in 1 .. Len(stack)
         /\ stack[DepthOf(stack, id)].id = id
<1>1. DOMAIN stack = 1 .. Len(stack)
  BY LenProperties
<1>2. \E i \in DOMAIN stack : stack[i].id = id
  BY DEF IsEntered
<1> QED BY <1>1, <1>2 DEF DepthOf

(* Time passes. *)
LEMMA TimePasses ==
  ASSUME RewindIInv, Tick
  PROVE  /\ clock' \in Nat /\ clock <= clock'
         /\ TraceBefore(trace, clock') /\ StackBefore(rewind_stack, clock')
<1>1. clock \in Nat /\ clock' = clock + 1
  BY DEF RewindIInv, Tick
<1>2. /\ trace.disk \in Nat /\ \A k \in 1 .. Len(trace.buffer) : trace.buffer[k].time \in Nat
  BY TraceFacts DEF RewindIInv, Consistent
<1>3. \A i \in 1 .. Len(rewind_stack) : rewind_stack[i].entertimestamp \in Nat
  BY StackFacts DEF Items
<1> QED BY <1>1, <1>2, <1>3 DEF RewindIInv, TraceBefore, StackBefore

(* The stack is the old one with an item for the region and the time in    *)
(* front, less the item the region had.                                    *)
OnTop(stack, id, time, pushed) ==
  \E item \in Items :
    /\ item.id = id /\ item.entertimestamp = time
    /\ \/ /\ ~IsEntered(stack, id)
          /\ pushed = <<item>> \o stack
       \/ \E i \in 1 .. Len(stack) :
            /\ stack[i].id = id
            /\ pushed = <<item>> \o RemoveAt(stack, i)

(* What Push does: the region and its new time, before the others.         *)
LEMMA RewindPushed ==
  ASSUME NEW stack \in Seq(Items), NEW id \in RewindRegions, NEW time \in Nat,
         \A i, j \in 1 .. Len(stack) : stack[i].id = stack[j].id => i = j,
         ~(Len(stack) > 1 /\ stack[2].id = id)
  PROVE  OnTop(stack, id, time, Push(stack, id, time))
<1>1. Len(stack) \in Nat /\ \A i \in 1 .. Len(stack) : stack[i] \in Items
  BY LenProperties, ElementOfSeq
<1>2. CASE ~IsEntered(stack, id)
  <2> DEFINE item == [id |-> id, entertimestamp |-> time, affected |-> {}]
  <2>1. item \in Items /\ item.id = id /\ item.entertimestamp = time
    BY DEF Items
  <2>2. Push(stack, id, time) = <<item>> \o stack
    BY <1>2 DEF Push
  <2> HIDE DEF item
  <2> QED BY <1>2, <2>1, <2>2 DEF OnTop
<1>3. CASE IsEntered(stack, id)
  <2> DEFINE i == DepthOf(stack, id)
             item == [stack[i] EXCEPT !.entertimestamp = time]
             rest == RemoveAt(stack, i)
             moved == IF i > 2 THEN << stack[i] >> \o rest ELSE stack
  <2>1. i \in 1 .. Len(stack) /\ stack[i].id = id
    BY <1>3, DepthFound
  <2>2. item \in Items /\ item.id = id /\ item.entertimestamp = time
    BY <1>1, <2>1 DEF Items
  <2>3. i # 2
    BY <1>1, <2>1
  <2>4. /\ rest \in Seq(Items) /\ Len(rest) \in Nat
        /\ i = 1 => Len(rest) = Len(stack) - 1 /\ \A k \in 1 .. Len(rest) : rest[k] = stack[k + 1]
    <3> DEFINE front == SubSeq(stack, 1, i - 1)
               back == SubSeq(stack, i + 1, Len(stack))
    <3>1. \A k \in 1 .. i - 1 : stack[k] \in Items
      BY <1>1, <2>1
    <3>2. front \in Seq(Items) /\ Len(front) = IF 1 <= i - 1 THEN i - 1 - 1 + 1 ELSE 0
      BY <1>1, <2>1, <3>1, SubSeqProperties
    <3>8. front \in Seq(Items)
      BY <3>2
    <3>3. i \in 0 .. Len(stack)
      BY <1>1, <2>1
    <3>4. /\ back \in Seq(Items) /\ Len(back) = Len(stack) - i
          /\ \A k \in 1 .. Len(stack) - i : back[k] = stack[i + k]
      BY <3>3, RestOfList
    <3>9. back \in Seq(Items)
      BY <3>4
    <3> HIDE DEF front, back, i
    <3>5. /\ front \o back \in Seq(Items) /\ Len(front \o back) = Len(front) + Len(back)
          /\ \A k \in 1 .. Len(front) + Len(back) :
               (front \o back)[k] = IF k <= Len(front) THEN front[k] ELSE back[k - Len(front)]
      BY <3>8, <3>9, ConcatProperties
    <3>6. rest = front \o back
      BY DEF RemoveAt, front, back
    <3>7. ASSUME i = 1
          PROVE  Len(rest) = Len(stack) - 1 /\ \A k \in 1 .. Len(rest) : rest[k] = stack[k + 1]
      <4>1. Len(front) = 0
        BY <3>2, <3>7
      <4>2. Len(rest) = Len(stack) - 1
        BY <1>1, <3>4, <3>5, <3>6, <3>7, <4>1
      <4>3. ASSUME NEW k \in 1 .. Len(rest) PROVE rest[k] = stack[k + 1]
        <5>1. k \in 1 .. Len(front) + Len(back) /\ ~(k <= Len(front)) /\ k - Len(front) = k
              /\ k \in 1 .. Len(stack) - i
          BY <1>1, <3>4, <3>7, <4>1, <4>2
        <5>2. rest[k] = back[k]
          BY <3>5, <3>6, <5>1
        <5> QED BY <3>4, <3>7, <5>1, <5>2
      <4> QED BY <4>2, <4>3
    <3> QED BY <3>5, <3>6, <3>7, LenProperties
  <2> HIDE DEF i, rest, item
  <2>5. /\ <<item>> \o rest \in Seq(Items) /\ Len(<<item>> \o rest) = 1 + Len(rest)
        /\ \A k \in 1 .. 1 + Len(rest) :
             (<<item>> \o rest)[k] = IF k <= 1 THEN item ELSE rest[k - 1]
    <3>1. <<item>> \in Seq(Items) /\ Len(<<item>>) = 1 /\ <<item>>[1] = item
      BY <2>2
    <3>2. /\ <<item>> \o rest \in Seq(Items) /\ Len(<<item>> \o rest) = 1 + Len(rest)
          /\ \A k \in 1 .. 1 + Len(rest) :
               (<<item>> \o rest)[k] = IF k <= 1 THEN <<item>>[k] ELSE rest[k - 1]
      BY <2>4, <3>1, ConcatProperties
    <3>3. \A k \in 1 .. 1 + Len(rest) : k <= 1 => k = 1
      BY <2>4
    <3> QED BY <3>1, <3>2, <3>3
  <2>6. /\ moved \in Seq(Items) /\ Len(moved) = 1 + Len(rest) /\ moved[1] = stack[i]
        /\ \A k \in 2 .. 1 + Len(rest) : moved[k] = rest[k - 1]
    <3>1. CASE i > 2
      <4>1. <<stack[i]>> \in Seq(Items) /\ Len(<<stack[i]>>) = 1 /\ <<stack[i]>>[1] = stack[i]
        BY <1>1, <2>1
      <4>2. /\ <<stack[i]>> \o rest \in Seq(Items) /\ Len(<<stack[i]>> \o rest) = 1 + Len(rest)
            /\ \A k \in 1 .. 1 + Len(rest) :
                 (<<stack[i]>> \o rest)[k] = IF k <= 1 THEN <<stack[i]>>[k] ELSE rest[k - 1]
        BY <2>4, <4>1, ConcatProperties
      <4>3. 1 \in 1 .. 1 + Len(rest) /\ \A k \in 2 .. 1 + Len(rest) : k \in 1 .. 1 + Len(rest) /\ ~(k <= 1)
        BY <2>4
      <4> QED BY <3>1, <4>1, <4>2, <4>3
    <3>2. CASE i = 1
      <4>1. \A k \in 2 .. 1 + Len(rest) : k - 1 \in 1 .. Len(rest) /\ (k - 1) + 1 = k
        BY <2>4
      <4> QED BY <1>1, <2>4, <3>2, <4>1
    <3> QED BY <1>1, <2>1, <2>3, <3>1, <3>2
  <2>7. Push(stack, id, time) = [moved EXCEPT ![1].entertimestamp = time]
    BY <1>3 DEF Push, i, rest
  <2> HIDE DEF moved
  <2>8. Push(stack, id, time) = <<item>> \o rest
    <3> DEFINE new == [moved EXCEPT ![1] = item]
    <3>1. DOMAIN moved = 1 .. 1 + Len(rest) /\ 1 \in DOMAIN moved
      BY <2>4, <2>6, LenProperties
    <3>2. Push(stack, id, time) = new
      BY <2>6, <2>7, <3>1 DEF item
    <3>3. \A k \in 1 .. 1 + Len(rest) : new[k] = IF k <= 1 THEN item ELSE rest[k - 1]
      BY <2>4, <2>6, <3>1
    <3>4. new \in Seq(Items) /\ Len(new) = 1 + Len(rest)
      BY <2>2, <2>6, <3>1, ExceptSeq
    <3> HIDE DEF new
    <3>5. new = <<item>> \o rest
      BY <2>4, <2>5, <3>3, <3>4, SeqEqual
    <3> QED BY <3>2, <3>5
  <2> QED BY <2>1, <2>2, <2>8 DEF rest, OnTop
<1> QED BY <1>2, <1>3

-----------------------------------------------------------------------------
(* Initially there is nothing.                                             *)
LEMMA RewindInitially == RewindInit => RewindIInv
<1> SUFFICES ASSUME RewindInit PROVE RewindIInv
  OBVIOUS
<1>1. /\ clock = 0 /\ program \in Programs /\ removed = {} /\ invalidated = {}
      /\ rewind_stack = << >>
      /\ trace = [buffer |-> << >>, disk |-> 0, rewindlist |-> << >>]
  BY DEF RewindInit
<1>2. << >> \in Seq(Events) /\ << >> \in Seq(Items) /\ Len(<< >>) = 0 /\ DOMAIN << >> = {}
  OBVIOUS
<1>3. trace.buffer = << >> /\ trace.disk = 0 /\ trace.rewindlist = << >>
  BY <1>1
<1>4. Saved(trace) = {}
  BY <1>2, <1>3 DEF Saved
<1>5. IsTrace(trace)
  BY <1>1, <1>2, <1>3, <1>4 DEF IsTrace
<1>6. Len(rewind_stack) = 0 /\ Len(trace.buffer) = 0 /\ rewind_stack \in Seq(Items)
  BY <1>1, <1>2, <1>3
<1>7. Consistent(rewind_stack, trace)
  BY <1>5, <1>6 DEF Consistent, Listed, PointsNested, PointsTimed, PointsMarked, InOrder
<1>8. Ids(rewind_stack) = {}
  BY <1>6 DEF Ids
<1>9. TraceBefore(trace, clock) /\ StackBefore(rewind_stack, clock)
  BY <1>1, <1>3, <1>6 DEF TraceBefore, StackBefore
<1> QED BY <1>1, <1>4, <1>7, <1>8, <1>9 DEF RewindIInv

(* Entering a region. *)
LEMMA StoreKeeps ==
  ASSUME RewindIInv, Programs \subseteq {"nested"}, NEW id \in RewindRegions, store_rewind_point(id)
  PROVE  RewindIInv'
<1>1. /\ rewind_stack \in Seq(Items) /\ Len(rewind_stack) \in Nat
      /\ \A i \in 1 .. Len(rewind_stack) : rewind_stack[i] \in Items
  BY StackFacts
<1>2. /\ Tick /\ trace' = StorePoint(trace, id) /\ rewind_stack' = Push(rewind_stack, id, clock')
      /\ UNCHANGED <<program, invalidated, removed>>
      /\ ~(Len(rewind_stack) > 1 /\ rewind_stack[2].id = id)
  BY DEF store_rewind_point, MayEnter, RewindIInv
<1>3. /\ clock' \in Nat /\ clock <= clock'
      /\ TraceBefore(trace, clock') /\ StackBefore(rewind_stack, clock')
  BY <1>2, TimePasses
<1>4. \A i, j \in 1 .. Len(rewind_stack) : rewind_stack[i].id = rewind_stack[j].id => i = j
  BY DEF RewindIInv, Consistent, Listed
<1> DEFINE now == clock'
<1>5. PICK item \in Items :
           /\ item.id = id /\ item.entertimestamp = now
           /\ \/ /\ ~IsEntered(rewind_stack, id)
                 /\ rewind_stack' = <<item>> \o rewind_stack
              \/ \E i \in 1 .. Len(rewind_stack) :
                   /\ rewind_stack[i].id = id
                   /\ rewind_stack' = <<item>> \o RemoveAt(rewind_stack, i)
  <2>1. now \in Nat
    BY <1>3
  <2> HIDE DEF now
  <2>2. OnTop(rewind_stack, id, now, Push(rewind_stack, id, now))
    <3>1. rewind_stack \in Seq(Items)
      BY <1>1
    <3>2. ~(Len(rewind_stack) > 1 /\ rewind_stack[2].id = id)
      BY <1>2
    <3> QED BY <1>4, <2>1, <3>1, <3>2, RewindPushed
  <2>3. rewind_stack' = Push(rewind_stack, id, now)
    BY <1>2 DEF now
  <2> QED BY <2>2, <2>3 DEF OnTop
<1>6. PICK others : /\ rewind_stack' = <<item>> \o others
                    /\ Consistent(others, trace) /\ id \notin Ids(others)
                    /\ {id} \cup Ids(others) = {id} \cup Ids(rewind_stack)
                    /\ StackBefore(others, now) /\ Len(others) \in Nat
  <2>1. CASE ~IsEntered(rewind_stack, id) /\ rewind_stack' = <<item>> \o rewind_stack
    <3>1. DOMAIN rewind_stack = 1 .. Len(rewind_stack)
      BY StackFacts
    <3>2. id \notin Ids(rewind_stack)
      BY <2>1, <3>1 DEF IsEntered, Ids
    <3> QED BY <1>1, <1>3, <2>1, <3>2 DEF RewindIInv
  <2>2. ASSUME NEW i \in 1 .. Len(rewind_stack), rewind_stack[i].id = id,
               rewind_stack' = <<item>> \o RemoveAt(rewind_stack, i)
        PROVE  \E others : /\ rewind_stack' = <<item>> \o others
                    /\ Consistent(others, trace) /\ id \notin Ids(others)
                    /\ {id} \cup Ids(others) = {id} \cup Ids(rewind_stack)
                    /\ StackBefore(others, now) /\ Len(others) \in Nat
    <3> DEFINE others == RemoveAt(rewind_stack, i)
    <3>1. /\ Consistent(others, trace)
          /\ Ids(others) = Ids(rewind_stack) \ {rewind_stack[i].id}
          /\ Len(others) = Len(rewind_stack) - 1
          /\ \A k \in 1 .. Len(others) : others[k] = rewind_stack[IF k < i THEN k ELSE k + 1]
      <4>1. Consistent(rewind_stack, trace)
        BY DEF RewindIInv
      <4> QED BY <4>1, RemoveKeeps
    <3> HIDE DEF others
    <3>2. id \in Ids(rewind_stack)
      BY <2>2 DEF Ids
    <3>3. StackBefore(others, now)
      <4>1. \A k \in 1 .. Len(others) : (IF k < i THEN k ELSE k + 1) \in 1 .. Len(rewind_stack)
        BY <1>1, <3>1
      <4> QED BY <1>3, <3>1, <4>1 DEF StackBefore
    <3>4. Len(others) \in Nat
      BY <1>1, <3>1
    <3>5. rewind_stack' = <<item>> \o others
      BY <2>2 DEF others
    <3> QED BY <2>2, <3>1, <3>2, <3>3, <3>4, <3>5
  <2> QED BY <1>5, <2>1, <2>2
<1>7. /\ Consistent(rewind_stack', trace') /\ Saved(trace') = Saved(trace) \cup {id}
      /\ trace'.buffer = trace.buffer /\ trace'.disk = trace.disk
      /\ Ids(rewind_stack') = {id} \cup Ids(others)
      /\ Len(rewind_stack') = Len(others) + 1 /\ rewind_stack'[1] = item
      /\ \A i \in 1 .. Len(others) : rewind_stack'[i + 1] = others[i]
  <2> HIDE DEF now
  <2>1. TraceBefore(trace, item.entertimestamp) /\ item.id \notin Ids(others)
    BY <1>3, <1>5, <1>6 DEF now
  <2> QED BY <1>2, <1>5, <1>6, <2>1, EnterKeeps
<1>8. Saved(trace') = Ids(rewind_stack')
  BY <1>6, <1>7 DEF RewindIInv
<1>9. TraceBefore(trace', clock')
  BY <1>3, <1>7 DEF TraceBefore
<1>10. StackBefore(rewind_stack', clock')
  <2>1. \A i \in 1 .. Len(rewind_stack') : i = 1 \/ (i - 1 \in 1 .. Len(others) /\ i = (i - 1) + 1)
    BY <1>6, <1>7
  <2> QED BY <1>3, <1>5, <1>6, <1>7, <2>1 DEF StackBefore
<1> QED BY <1>2, <1>3, <1>7, <1>8, <1>9, <1>10
        DEF RewindIInv, Consistent, Saved, Ids, TraceBefore, StackBefore, Listed, PointsNested,
            PointsTimed, PointsMarked, InOrder, IsTrace, Point, Starts, Items, Events

(* An event is written, and marks the regions on the stack.                *)
LEMMA WriteEventKeeps ==
  ASSUME RewindIInv, NEW p \in Paradigms \cup {Other}, WriteEvent(p)
  PROVE  RewindIInv'
<1> DEFINE marks == {p} \ {Other}
           marked == SetAffected(rewind_stack, marks)
           written == WriteRecord(trace, Event(clock', p))
<1>1. /\ Tick /\ trace' = written
      /\ rewind_stack' = SetAffected(StackAfterWrite(rewind_stack, trace), marks)
      /\ UNCHANGED <<program, invalidated, removed>>
  BY DEF WriteEvent
<1>2. /\ clock' \in Nat /\ clock <= clock'
      /\ TraceBefore(trace, clock') /\ StackBefore(rewind_stack, clock')
  BY <1>1, TimePasses
<1>3. marks \in SUBSET Paradigms
  BY RewindAssumption
<1>4. /\ Consistent(marked, trace)
      /\ Len(marked) = Len(rewind_stack) /\ Ids(marked) = Ids(rewind_stack)
      /\ \A i \in 1 .. Len(rewind_stack) :
           /\ marks \subseteq marked[i].affected
           /\ marked[i].entertimestamp = rewind_stack[i].entertimestamp
  <2>1. Consistent(rewind_stack, trace)
    BY DEF RewindIInv
  <2> QED BY <1>3, <2>1, MarkKeeps
<1>5. /\ Consistent(StackAfterWrite(marked, trace), written)
      /\ TraceBefore(written, clock')
      /\ BufferFull(trace) => Saved(written) = {}
      /\ ~BufferFull(trace) => written.rewindlist = trace.rewindlist
  <2> DEFINE now == clock'
  <2>1. now \in Nat /\ TraceBefore(trace, now)
    BY <1>2
  <2>2. \A i \in 1 .. Len(marked) : p \in marked[i].affected \cup {Other}
    BY <1>4
  <2> HIDE DEF marked, now
  <2>3. LET w == WriteRecord(trace, Event(now, p))
         IN  /\ Consistent(StackAfterWrite(marked, trace), w)
             /\ TraceBefore(w, now)
             /\ BufferFull(trace) => Saved(w) = {}
             /\ ~BufferFull(trace) => w.rewindlist = trace.rewindlist
    BY <1>4, <2>1, <2>2, WriteKeeps
  <2> QED BY <2>3 DEF now
<1>6. rewind_stack' = StackAfterWrite(marked, trace)
  <2>1. CASE BufferFull(trace)
    <3>1. StackAfterWrite(rewind_stack, trace) = << >> /\ StackAfterWrite(marked, trace) = << >>
      BY <2>1 DEF StackAfterWrite
    <3>2. SetAffected(<< >>, marks) = << >>
      <4>1. DOMAIN << >> = 1 .. 0 /\ 0 \in Nat
        OBVIOUS
      <4>2. SetAffected(<< >>, marks) \in [1 .. 0 -> Items]
        BY <4>1 DEF SetAffected
      <4>3. SetAffected(<< >>, marks) \in Seq(Items)
        BY <4>1, <4>2, SeqDef
      <4>4. Len(SetAffected(<< >>, marks)) = 0
        BY <4>2, <4>3, LenProperties
      <4> QED BY <4>3, <4>4, EmptySeq
    <3> QED BY <1>1, <3>1, <3>2
  <2>2. CASE ~BufferFull(trace)
    BY <1>1, <2>2 DEF StackAfterWrite
  <2> QED BY <2>1, <2>2
<1>7. Saved(trace') = Ids(rewind_stack') /\ StackBefore(rewind_stack', clock')
  <2>1. CASE BufferFull(trace)
    <3>1. Len(rewind_stack') = 0
      BY <1>6, <2>1 DEF StackAfterWrite
    <3>2. Ids(rewind_stack') = {} /\ StackBefore(rewind_stack', clock')
      BY <3>1 DEF Ids, StackBefore
    <3> HIDE DEF written, marked
    <3> QED BY <1>1, <1>5, <2>1, <3>2
  <2>2. CASE ~BufferFull(trace)
    <3>1. rewind_stack' = marked
      BY <1>6, <2>2 DEF StackAfterWrite
    <3>2. Saved(trace') = Saved(trace)
      BY <1>1, <1>5, <2>2 DEF Saved
    <3> HIDE DEF marked
    <3>3. Saved(trace) = Ids(rewind_stack)
      BY DEF RewindIInv
    <3>4. Ids(rewind_stack') = Ids(marked)
      BY <3>1 DEF Ids
    <3>5. StackBefore(marked, clock')
      BY <1>2, <1>4 DEF StackBefore
    <3> QED BY <1>4, <3>1, <3>2, <3>3, <3>4, <3>5
  <2> QED BY <2>1, <2>2
<1>8. Consistent(rewind_stack', trace') /\ TraceBefore(trace', clock')
  BY <1>1, <1>5, <1>6
<1> HIDE DEF marked, written, marks
<1> QED BY <1>1, <1>2, <1>7, <1>8
        DEF RewindIInv, Consistent, Saved, Ids, TraceBefore, StackBefore, Listed, PointsNested,
            PointsTimed, PointsMarked, InOrder, IsTrace, Point, Starts, Items, Events

(* A region is popped, with those above it: what is left on the stack.     *)
LEMMA PoppedAndBelow ==
  ASSUME RewindIInv, NEW id \in RewindRegions, IsEntered(rewind_stack, id)
  PROVE  LET d == DepthOf(rewind_stack, id)
         IN  /\ d \in 1 .. Len(rewind_stack) /\ rewind_stack[d].id = id
             /\ Consistent(Below(id), trace)
             /\ Ids(Below(id)) = Ids(rewind_stack) \ Popped(id)
             /\ id \in Popped(id)
             /\ \A now : StackBefore(rewind_stack, now) => StackBefore(Below(id), now)
<1> DEFINE d == DepthOf(rewind_stack, id)
<1>1. rewind_stack \in Seq(Items) /\ Len(rewind_stack) \in Nat
  BY StackFacts
<1>2. d \in 1 .. Len(rewind_stack) /\ rewind_stack[d].id = id
  BY <1>1, DepthFound
<1>3. Popped(id) = {rewind_stack[i].id : i \in 1 .. d} /\ Below(id) = SubSeq(rewind_stack, d + 1, Len(rewind_stack))
  BY DEF Popped, Below
<1> HIDE DEF d
<1>4. d \in 0 .. Len(rewind_stack) /\ d \in 1 .. d
  BY <1>1, <1>2
<1>5. /\ Consistent(Below(id), trace) /\ Len(Below(id)) = Len(rewind_stack) - d
      /\ \A i \in 1 .. Len(Below(id)) : d + i \in 1 .. Len(rewind_stack)
                                        /\ Below(id)[i] = rewind_stack[d + i]
      /\ Ids(Below(id)) = {rewind_stack[i].id : i \in d + 1 .. Len(rewind_stack)}
  <2>1. Consistent(rewind_stack, trace)
    BY DEF RewindIInv
  <2> QED BY <1>3, <1>4, <2>1, PopKeeps
<1>6. Ids(Below(id)) = Ids(rewind_stack) \ Popped(id)
  <2>1. \A i \in 1 .. Len(rewind_stack) : i \in 1 .. d \/ i \in d + 1 .. Len(rewind_stack)
    BY <1>1, <1>2
  <2>2. \A i \in 1 .. d : i \in 1 .. Len(rewind_stack) /\ i \notin d + 1 .. Len(rewind_stack)
    BY <1>1, <1>2
  <2>3. \A i \in d + 1 .. Len(rewind_stack) : i \in 1 .. Len(rewind_stack)
    BY <1>1, <1>2
  <2>4. \A i, j \in 1 .. Len(rewind_stack) : rewind_stack[i].id = rewind_stack[j].id => i = j
    BY DEF RewindIInv, Consistent, Listed
  <2>5. ASSUME NEW i \in d + 1 .. Len(rewind_stack)
        PROVE  rewind_stack[i].id \in Ids(rewind_stack) \ Popped(id)
    BY <1>3, <2>2, <2>3, <2>4, <2>5 DEF Ids
  <2>6. ASSUME NEW x \in Ids(rewind_stack) \ Popped(id)
        PROVE  x \in Ids(Below(id))
    BY <1>3, <1>5, <2>1, <2>6 DEF Ids
  <2> QED BY <1>5, <2>5, <2>6
<1>7. ASSUME NEW now, StackBefore(rewind_stack, now) PROVE StackBefore(Below(id), now)
  BY <1>5, <1>7 DEF StackBefore
<1> QED BY <1>2, <1>3, <1>4, <1>5, <1>6, <1>7 DEF d

(* Leaving a region whose events are kept. *)
LEMMA ExitKeepingKeeps ==
  ASSUME RewindIInv, NEW id \in RewindRegions, ExitKeeping(id)
  PROVE  RewindIInv'
<1>1. /\ Tick /\ IsEntered(rewind_stack, id)
      /\ rewind_stack' = Below(id) /\ trace' = ClearPoints(trace, Popped(id))
      /\ UNCHANGED <<program, invalidated, removed>>
  BY DEF ExitKeeping
<1>2. /\ clock' \in Nat /\ clock <= clock'
      /\ TraceBefore(trace, clock') /\ StackBefore(rewind_stack, clock')
  BY <1>1, TimePasses
<1>3. /\ Consistent(Below(id), trace) /\ Ids(Below(id)) = Ids(rewind_stack) \ Popped(id)
      /\ StackBefore(Below(id), clock')
  BY <1>1, <1>2, PoppedAndBelow
<1>4. /\ Consistent(rewind_stack', trace') /\ Saved(trace') = Saved(trace) \ Popped(id)
      /\ trace'.buffer = trace.buffer /\ trace'.disk = trace.disk
  BY <1>1, <1>3, ClearKeeps
<1>5. Saved(trace') = Ids(rewind_stack')
  BY <1>1, <1>3, <1>4 DEF RewindIInv
<1>6. TraceBefore(trace', clock') /\ StackBefore(rewind_stack', clock')
  BY <1>1, <1>2, <1>3, <1>4 DEF TraceBefore
<1> QED BY <1>1, <1>2, <1>4, <1>5, <1>6
        DEF RewindIInv, Consistent, Saved, Ids, TraceBefore, StackBefore, Listed, PointsNested,
            PointsTimed, PointsMarked, InOrder, IsTrace, Point, Starts, Items, Events

(* The region is rewound, and two records are written in place of what is  *)
(* cut off; each of them may flush the buffer and with it the stack.       *)
LEMMA ExitWithRewindKeeps ==
  ASSUME RewindIInv, NEW id \in RewindRegions, ExitWithRewind(id)
  PROVE  RewindIInv'
<1> DEFINE d == DepthOf(rewind_stack, id)
           item == rewind_stack[d]
           onOff == Event(item.entertimestamp, Other)
           cleared == ClearPoints(trace, Above(id))
           rewound == RewindBuffer(cleared, id)
           off == WriteRecord(rewound, onOff)
           on == WriteRecord(off, onOff)
           afterOff == StackAfterWrite(Below(id), rewound)
           afterOn == StackAfterWrite(afterOff, off)
           cut == {trace.buffer[i].paradigm : i \in Len(rewound.buffer) + 1 .. Len(trace.buffer)} \ {Other}
<1>1. /\ Tick /\ IsEntered(rewind_stack, id)
      /\ trace' = ClearPoints(on, {id}) /\ rewind_stack' = afterOn
      /\ invalidated' = invalidated \cup item.affected
      /\ removed' = removed \cup cut
      /\ UNCHANGED program
  BY DEF ExitWithRewind
<1>2. /\ clock' \in Nat /\ clock <= clock'
      /\ TraceBefore(trace, clock') /\ StackBefore(rewind_stack, clock')
  BY <1>1, TimePasses
<1>3. /\ d \in 1 .. Len(rewind_stack) /\ item.id = id
      /\ Consistent(Below(id), trace)
      /\ Ids(Below(id)) = Ids(rewind_stack) \ Popped(id) /\ id \in Popped(id)
      /\ StackBefore(Below(id), clock')
  BY <1>1, <1>2, PoppedAndBelow
<1>4. Consistent(rewind_stack, trace) /\ Saved(trace) = Ids(rewind_stack) /\ removed \subseteq invalidated
  BY DEF RewindIInv
<1>5. /\ rewind_stack \in Seq(Items) /\ Len(rewind_stack) \in Nat /\ item \in Items
  BY <1>3, StackFacts
<1>6. Above(id) = Popped(id) \ {id} /\ id \in Saved(trace)
  BY <1>3, <1>4 DEF Above, Ids
<1>7. Below(id) = SubSeq(rewind_stack, d + 1, Len(rewind_stack))
  BY DEF Below
<1> HIDE DEF d
(* The rest of the stack and the rewound trace. *)
<1>8. /\ Consistent(Below(id), cleared) /\ Saved(cleared) = Saved(trace) \ Above(id)
      /\ cleared.buffer = trace.buffer /\ cleared.disk = trace.disk
      /\ cleared.rewindlist[id] = trace.rewindlist[id]
  <2>1. Above(id) \cap Ids(Below(id)) = {}
    BY <1>3, <1>6
  <2> HIDE DEF cleared, rewound, off, on
  <2>2. id \in Saved(trace) \ Above(id)
    BY <1>6
  <2> QED BY <1>3, <2>1, <2>2, ClearKeeps DEF cleared
<1>9. /\ Consistent(Below(id), rewound)
      /\ TraceBefore(rewound, item.entertimestamp)
      /\ Saved(rewound) = Saved(cleared)
      /\ Len(rewound.buffer) = Len(Point(rewind_stack, trace, d))
  <2> DEFINE direct == RewindBuffer(trace, item.id)
  <2>1. /\ Consistent(Below(id), direct)
        /\ TraceBefore(direct, item.entertimestamp)
        /\ direct.rewindlist = trace.rewindlist
        /\ Len(direct.buffer) = Len(Point(rewind_stack, trace, d))
    BY <1>3, <1>4, <1>7, RewindKeeps
  <2>2. /\ trace = [buffer |-> trace.buffer, disk |-> trace.disk, rewindlist |-> trace.rewindlist]
        /\ cleared = [buffer |-> cleared.buffer, disk |-> cleared.disk, rewindlist |-> cleared.rewindlist]
    <3>1. IsTrace(trace) /\ IsTrace(cleared)
      BY <1>4, <1>8 DEF Consistent
    <3> QED BY <3>1, TraceFacts
  <2> DEFINE point == trace.rewindlist[id]
  <2>3. /\ direct = [trace EXCEPT !.buffer = point]
        /\ rewound = [cleared EXCEPT !.buffer = point]
    BY <1>3, <1>8 DEF RewindBuffer
  <2>4. \A b, k, r, v : [[buffer |-> b, disk |-> k, rewindlist |-> r] EXCEPT !.buffer = v]
                        = [buffer |-> v, disk |-> k, rewindlist |-> r]
    OBVIOUS
  <2> HIDE DEF direct, rewound, cleared, point
  <2>5. /\ direct = [buffer |-> point, disk |-> trace.disk, rewindlist |-> trace.rewindlist]
        /\ rewound = [buffer |-> point, disk |-> cleared.disk, rewindlist |-> cleared.rewindlist]
    BY <2>2, <2>3, <2>4, Zenon
  <2>6. /\ direct.buffer = point /\ direct.disk = trace.disk /\ direct.rewindlist = trace.rewindlist
        /\ rewound.buffer = point /\ rewound.disk = trace.disk
        /\ rewound.rewindlist = cleared.rewindlist
    BY <1>8, <2>5
  <2>7. Saved(rewound) = Saved(cleared) /\ Saved(direct) = Saved(trace)
    BY <2>6 DEF Saved
  <2> DEFINE again == ClearPoints(direct, Above(id))
  <2>8. /\ Consistent(Below(id), again) /\ Saved(again) = Saved(direct) \ Above(id)
        /\ again.buffer = direct.buffer /\ again.disk = direct.disk
    <3>1. Above(id) \cap Ids(Below(id)) = {}
      BY <1>3, <1>6
    <3> QED BY <2>1, <3>1, ClearKeeps
  <2>9. again = rewound
    <3>1. again.rewindlist = Restrict(trace.rewindlist, Saved(trace) \ Above(id))
      BY <2>5, <2>6, <2>7 DEF ClearPoints
    <3>2. cleared.rewindlist = Restrict(trace.rewindlist, Saved(trace) \ Above(id))
      BY <2>2 DEF ClearPoints, cleared
    <3>3. again = [buffer |-> again.buffer, disk |-> again.disk, rewindlist |-> again.rewindlist]
      BY <2>8, TraceFacts DEF Consistent
    <3> HIDE DEF again
    <3> QED BY <1>8, <2>5, <2>6, <2>8, <3>1, <3>2, <3>3
  <2>10. TraceBefore(rewound, item.entertimestamp)
    BY <2>1, <2>6 DEF TraceBefore
  <2> QED BY <2>1, <2>6, <2>7, <2>8, <2>9, <2>10
<1> DEFINE then == item.entertimestamp
<1>10. then \in Nat /\ Other \in Paradigms \cup {Other}
  BY <1>5 DEF Items
<1> HIDE DEF rewound, cleared, item
<1> HIDE DEF off, on, afterOff, afterOn, then
<1>11. /\ Consistent(afterOff, off) /\ TraceBefore(off, then)
       /\ BufferFull(rewound) => Saved(off) = {}
       /\ ~BufferFull(rewound) => off.rewindlist = rewound.rewindlist
  <2>1. \A i \in 1 .. Len(Below(id)) : Other \in Below(id)[i].affected \cup {Other}
    OBVIOUS
  <2>2. TraceBefore(rewound, then)
    BY <1>9 DEF then
  <2>3. LET w == WriteRecord(rewound, Event(then, Other))
         IN  /\ Consistent(StackAfterWrite(Below(id), rewound), w)
             /\ TraceBefore(w, then)
             /\ BufferFull(rewound) => Saved(w) = {}
             /\ ~BufferFull(rewound) => w.rewindlist = rewound.rewindlist
    BY <1>9, <1>10, <2>1, <2>2, WriteKeeps
  <2> QED BY <2>3 DEF off, afterOff, then
<1>12. /\ Consistent(afterOn, on) /\ TraceBefore(on, then)
       /\ BufferFull(off) => Saved(on) = {}
       /\ ~BufferFull(off) => on.rewindlist = off.rewindlist
  <2>1. \A i \in 1 .. Len(afterOff) : Other \in afterOff[i].affected \cup {Other}
    OBVIOUS
  <2>3. LET w == WriteRecord(off, Event(then, Other))
         IN  /\ Consistent(StackAfterWrite(afterOff, off), w)
             /\ TraceBefore(w, then)
             /\ BufferFull(off) => Saved(w) = {}
             /\ ~BufferFull(off) => w.rewindlist = off.rewindlist
    BY <1>10, <1>11, <2>1, WriteKeeps
  <2> QED BY <2>3 DEF on, afterOn, then
(* A flush leaves nothing on the stack and no rewind point. *)
<1>13. /\ Saved(on) \ {id} = Ids(afterOn) /\ id \notin Ids(afterOn)
       /\ StackBefore(afterOn, clock')
  <2>1. Ids(<< >>) = {} /\ \A now : StackBefore(<< >>, now)
    <3>1. Len(<< >>) = 0
      OBVIOUS
    <3> QED BY <3>1 DEF Ids, StackBefore
  <2>2. Saved(rewound) \ {id} = Ids(Below(id)) /\ id \notin Ids(Below(id))
    BY <1>3, <1>4, <1>6, <1>8, <1>9
  <2>3. /\ Saved(off) \ {id} = Ids(afterOff) /\ id \notin Ids(afterOff)
        /\ StackBefore(afterOff, clock')
    <3>1. CASE BufferFull(rewound)
      BY <1>11, <2>1, <3>1 DEF StackAfterWrite, afterOff
    <3>2. CASE ~BufferFull(rewound)
      <4>1. afterOff = Below(id) /\ Saved(off) = Saved(rewound)
        BY <1>11, <3>2 DEF StackAfterWrite, afterOff, Saved
      <4> QED BY <1>3, <2>2, <4>1
    <3> QED BY <3>1, <3>2
  <2>4. CASE BufferFull(off)
    BY <1>12, <2>1, <2>4 DEF StackAfterWrite, afterOn
  <2>5. CASE ~BufferFull(off)
    <3>1. afterOn = afterOff /\ Saved(on) = Saved(off)
      BY <1>12, <2>5 DEF StackAfterWrite, afterOn, Saved
    <3> QED BY <2>3, <3>1
  <2> QED BY <2>4, <2>5
<1>14. /\ Consistent(rewind_stack', trace') /\ Saved(trace') = Saved(on) \ {id}
       /\ trace'.buffer = on.buffer /\ trace'.disk = on.disk
  <2>1. {id} \cap Ids(afterOn) = {}
    BY <1>13
  <2> QED BY <1>1, <1>12, <2>1, ClearKeeps
<1>15. TraceBefore(trace', clock')
  <2>1. then <= clock' /\ clock' \in Nat
    BY <1>2, <1>3 DEF StackBefore, then, item
  <2>2. trace'.disk \in Nat /\ \A k \in 1 .. Len(trace'.buffer) : trace'.buffer[k].time \in Nat
    BY <1>14, TraceFacts DEF Consistent
  <2>3. TraceBefore(trace', then)
    BY <1>12, <1>14 DEF TraceBefore
  <2> QED BY <1>10, <2>1, <2>2, <2>3 DEF TraceBefore
(* What was cut off is of paradigms that had marked the region. *)
<1>16. removed' \subseteq invalidated'
  <2>1. \A k \in Len(Point(rewind_stack, trace, d)) + 1 .. Len(trace.buffer) :
          trace.buffer[k].paradigm \in item.affected \cup {Other}
    BY <1>3, <1>4 DEF Consistent, PointsMarked, item
  <2>2. cut \subseteq item.affected
    BY <1>9, <2>1
  <2> HIDE DEF cut
  <2> QED BY <1>1, <1>4, <2>2
<1>17. Saved(trace') = Ids(rewind_stack') /\ StackBefore(rewind_stack', clock')
  BY <1>1, <1>13, <1>14
<1> HIDE DEF cut
<1> QED BY <1>1, <1>2, <1>14, <1>15, <1>16, <1>17
        DEF RewindIInv, Consistent, Saved, Ids, TraceBefore, StackBefore, Listed, PointsNested,
            PointsTimed, PointsMarked, InOrder, IsTrace, Point, Starts, Items, Events

-----------------------------------------------------------------------------
(* Every step keeps the invariant. *)
LEMMA RewindStep ==
  ASSUME Programs \subseteq {"nested"}
  PROVE  RewindIInv /\ [RewindNext]_rewindVars => RewindIInv'
<1> SUFFICES ASSUME RewindIInv, [RewindNext]_rewindVars PROVE RewindIInv'
  OBVIOUS
<1>1. ASSUME NEW id \in RewindRegions, store_rewind_point(id) PROVE RewindIInv'
  BY <1>1, StoreKeeps
<1>2. ASSUME NEW p \in Paradigms \cup {Other}, WriteEvent(p) PROVE RewindIInv'
  BY <1>2, WriteEventKeeps
<1>3. ASSUME NEW id \in RewindRegions, ExitOfUnknown(id) PROVE RewindIInv'
  <2>1. Tick /\ UNCHANGED <<program, rewind_stack, trace, invalidated, removed>>
    BY <1>3 DEF ExitOfUnknown
  <2>2. /\ Consistent(rewind_stack', trace') /\ Saved(trace') = Ids(rewind_stack')
        /\ TraceBefore(trace', clock') /\ StackBefore(rewind_stack', clock') /\ clock' \in Nat
    BY <2>1, TimePasses DEF RewindIInv
  <2> QED BY <2>1, <2>2
          DEF RewindIInv, Consistent, Saved, Ids, TraceBefore, StackBefore, Listed, PointsNested,
              PointsTimed, PointsMarked, InOrder, IsTrace, Point, Starts, Items, Events
<1>4. ASSUME NEW id \in RewindRegions, ExitKeeping(id) PROVE RewindIInv'
  BY <1>4, ExitKeepingKeeps
<1>5. ASSUME NEW id \in RewindRegions, ExitWithRewind(id) PROVE RewindIInv'
  BY <1>5, ExitWithRewindKeeps
<1>6. CASE RewindFinalize \/ UNCHANGED rewindVars
  <2>1. UNCHANGED <<program, clock, rewind_stack, trace, invalidated, removed>>
    BY <1>6 DEF RewindFinalize, rewindVars
  <2>2. /\ Consistent(rewind_stack', trace') /\ Saved(trace') = Ids(rewind_stack')
        /\ TraceBefore(trace', clock') /\ StackBefore(rewind_stack', clock')
    BY <2>1 DEF RewindIInv
  <2> QED BY <2>1, <2>2
          DEF RewindIInv, Consistent, Saved, Ids, TraceBefore, StackBefore, Listed, PointsNested,
              PointsTimed, PointsMarked, InOrder, IsTrace, Point, Starts, Items, Events
<1> QED BY <1>1, <1>2, <1>3, <1>4, <1>5, <1>6 DEF RewindNext

(* The invariant implies that the stack and OTF2's list of rewind points   *)
(* agree, and that the times in the trace are in order.                    *)
LEMMA InvariantImpliesConsistent == RewindIInv => RewindConsistent
<1> SUFFICES ASSUME RewindIInv PROVE RewindConsistent
  OBVIOUS
<1>1. Consistent(rewind_stack, trace) /\ Saved(trace) = Ids(rewind_stack)
  BY DEF RewindIInv
<1>2. /\ rewind_stack \in Seq(Items) /\ Len(rewind_stack) \in Nat
      /\ DOMAIN rewind_stack = 1 .. Len(rewind_stack)
  BY StackFacts
<1>3. /\ trace.buffer \in Seq(Events) /\ Len(trace.buffer) \in Nat /\ trace.disk \in Nat
      /\ trace.rewindlist \in [Saved(trace) -> Seq(Events)]
      /\ \A k \in 1 .. Len(trace.buffer) : trace.buffer[k].time \in Nat
      /\ DOMAIN trace.buffer = 1 .. Len(trace.buffer)
  <2>1. IsTrace(trace)
    BY <1>1 DEF Consistent
  <2>2. /\ trace.buffer \in Seq(Events) /\ Len(trace.buffer) \in Nat /\ trace.disk \in Nat
        /\ trace.rewindlist \in [Saved(trace) -> Seq(Events)]
        /\ \A k \in 1 .. Len(trace.buffer) : trace.buffer[k].time \in Nat
    BY <2>1, TraceFacts
  <2> QED BY <2>2, LenProperties
<1>4. PointsAgree
  <2>1. \A i \in 1 .. Len(rewind_stack) :
          /\ PointOf(rewind_stack[i]) = Point(rewind_stack, trace, i)
          /\ Point(rewind_stack, trace, i) \in Seq(Events)
    BY <1>1, <1>3 DEF PointOf, Point, Consistent, Listed
  <2>2. \A s, t \in Seq(Events) : IsPrefix(s, t) <=> Starts(s, t)
    BY PrefixIsStart
  <2>3. \A i \in 1 .. Len(rewind_stack) : \A j \in 1 .. i - 1 : j \in 1 .. Len(rewind_stack)
    BY <1>2
  <2>4. \A i \in 1 .. Len(rewind_stack) :
          /\ Starts(Point(rewind_stack, trace, i), trace.buffer)
          /\ \A j \in 1 .. i - 1 : Starts(Point(rewind_stack, trace, i), Point(rewind_stack, trace, j))
    BY <1>1 DEF Consistent, PointsNested
  <2>5. Saved(trace) = {rewind_stack[i].id : i \in DOMAIN rewind_stack}
    BY <1>1, <1>2 DEF Ids
  <2> QED BY <1>2, <1>3, <2>1, <2>2, <2>3, <2>4, <2>5 DEF PointsAgree
<1>5. TraceInOrder
  <2> DEFINE b == trace.buffer
             stamps == [i \in DOMAIN trace.buffer |-> trace.buffer[i].time]
             times == << trace.disk >> \o stamps
  <2>1. /\ stamps \in Seq(Nat) /\ Len(stamps) = Len(b)
        /\ \A i \in 1 .. Len(b) : stamps[i] = b[i].time
    <3>1. stamps \in [1 .. Len(b) -> Nat]
      BY <1>3
    <3>2. stamps \in Seq(Nat)
      BY <1>3, <3>1, SeqDef
    <3> QED BY <1>3, <3>1, <3>2, LenProperties
  <2>2. << trace.disk >> \in Seq(Nat) /\ Len(<< trace.disk >>) = 1 /\ << trace.disk >>[1] = trace.disk
    BY <1>3
  <2> HIDE DEF stamps
  <2>3. /\ Len(times) = 1 + Len(b)
        /\ \A i \in 1 .. 1 + Len(b) :
             times[i] = IF i <= 1 THEN << trace.disk >>[i] ELSE stamps[i - 1]
    BY <2>1, <2>2, ConcatProperties
  <2>4. ASSUME NEW i \in 1 .. Len(times) - 1 PROVE times[i] <= times[i + 1]
    <3>1. i \in 1 .. Len(b) /\ times[i + 1] = b[i].time
      BY <1>3, <2>1, <2>3
    <3>2. CASE i = 1
      <4>1. times[i] = trace.disk
        BY <1>3, <2>2, <2>3, <3>2
      <4> QED BY <1>1, <3>1, <4>1 DEF Consistent, InOrder
    <3>3. CASE i > 1
      <4>1. i - 1 \in 1 .. Len(b) /\ i - 1 <= i
        BY <1>3, <3>1, <3>3
      <4>2. times[i] = b[i - 1].time
        BY <1>3, <2>1, <2>3, <3>1, <3>3, <4>1
      <4> QED BY <1>1, <3>1, <4>1, <4>2 DEF Consistent, InOrder
    <3> QED BY <1>3, <3>1, <3>2, <3>3
  <2> QED BY <2>4 DEF TraceInOrder, stamps
<1> QED BY <1>4, <1>5 DEF RewindConsistent

(* Hence it holds at all times. *)
LEMMA RewindAlways ==
  ASSUME Programs \subseteq {"nested"}
  PROVE  RewindSpec => []RewindIInv
BY RewindInitially, RewindStep, PTL DEF RewindSpec

(* With programs that enter their rewind regions nested, the stack and     *)
(* OTF2's list of saved states always name the same regions, every saved   *)
(* state is a beginning of the buffer and of what was saved for a region   *)
(* pushed later, and the times in the trace never decrease, whatever the  *)
(* size of the buffer (exit_rewind_point, scorep_on_trace_pre_flush).      *)
THEOREM RewindAgrees ==
  ASSUME Programs \subseteq {"nested"}
  PROVE  RewindSpec => []RewindConsistent
BY RewindAlways, InvariantImpliesConsistent, PTL

(* A paradigm that lost events by rewinding is always declared incomplete. *)
THEOREM RewindDeclares ==
  ASSUME Programs \subseteq {"nested"}
  PROVE  RewindSpec => []RemovedIsDeclared
<1>1. RewindIInv => RemovedIsDeclared
  BY DEF RewindIInv, RemovedIsDeclared
<1> QED BY <1>1, RewindAlways, PTL

-----------------------------------------------------------------------------
(* Recording. *)

(* The types that the proofs need.                                         *)
ValuesOK ==
  /\ recording_setup \in RecordingSetups
  /\ phase \in {"PRE", "WITHIN", "POST"}
  /\ recordingEnabled \in BOOLEAN
  /\ open \in [ProgramThreads -> Seq(UserRegions)]
  /\ selected \in [UserRegions -> BOOLEAN]
  /\ DOMAIN index = UserRegions
  /\ enters \in [UserRegions -> 0 .. Word - 1]
  /\ exits \in [UserRegions -> 0 .. Word - 1]
  /\ hasEnabled \in [UserRegions -> BOOLEAN]
  /\ pc \in [ProgramThreads -> Steps]
  /\ arg \in [ProgramThreads -> UserRegions \cup {CHOOSE r \in UserRegions : TRUE}]
  /\ reg \in [ProgramThreads -> 0 .. Word - 1]
  /\ entered \in [UserRegions -> 0 .. MaxCalls]
  /\ \A t \in ProgramThreads : pc[t] # "idle" => arg[t] \in UserRegions

Clears(t, r) == pc[t] = "clear" /\ arg[t] = r

(* Only the main thread runs outside of parallel regions; there, and only  *)
(* there, selective recording switches recording.                          *)
ThreadsOK ==
  /\ phase = "PRE" => forkDepth = NotForked /\ \A r \in UserRegions : ~hasEnabled[r]
  /\ forkDepth = NotForked => \A t \in TeamThreads : pc[t] = "idle"
  /\ phase = "PRE" => \A t \in ProgramThreads : pc[t] = "idle" /\ open[t] = << >>
  /\ forkDepth = NotForked /\ pc[MainThread] \in {"load_exit", "store_exit", "test_exit"}
       => hasEnabled[arg[MainThread]]

EnablerOK ==
  /\ \A r \in UserRegions : selected[r] \/ hasEnabled[r] => Intervals[r] # {}
  /\ EnablerUnique

Serial == Selective /\ ~recording_setup.parallel

(* The calls that the counts of exits are about: those that MainThread is  *)
(* in, and the one whose enter has been counted, or whose exit has not.    *)
Calls == IF pc[MainThread] \in {"enter", "check_exit", "load_exit", "store_exit", "test_exit"}
         THEN Append(open[MainThread], arg[MainThread]) ELSE open[MainThread]

Count(calls, p, r) == Cardinality({i \in p .. Len(calls) : calls[i] = r})

Counting == {"check_enter", "load_enters", "store_enters", "load_both", "store_both",
             "load_exits", "store_exits", "enter"}

(* The exits to come of the region that switched recording on: it is       *)
(* counted from that call, the p-th, on.                                   *)
CountedFrom(p, r) ==
  /\ Calls[p] = r
  /\ exits[r] = Count(Calls, p, r) - (IF pc[MainThread] = "test_exit" /\ arg[MainThread] = r THEN 1 ELSE 0)

ExitsCounted(r) ==
  hasEnabled[r] /\ ~Clears(MainThread, r) => \E p \in 1 .. Len(Calls) : CountedFrom(p, r)

EntersCounted(r) ==
  Count(open[MainThread], 1, r)
    + (IF pc[MainThread] \in Counting /\ arg[MainThread] = r THEN 1 ELSE 0) <= entered[r]

(* Which places of the code a thread can only be at with the region that   *)
(* switched recording on, and which only with another.                     *)
PlacesOK ==
  /\ pc[MainThread] \in {"load_both", "store_both", "load_exits", "store_exits", "clear"} => hasEnabled[arg[MainThread]]
  /\ pc[MainThread] \in {"load_enters", "store_enters", "advance"} => ~hasEnabled[arg[MainThread]]
  /\ pc[MainThread] \in {"store_exits", "store_exit"} => reg[MainThread] = exits[arg[MainThread]]

SwitchOK ==
  /\ forkDepth = NotForked
  /\ pc[MainThread] = "clear" => ~recordingEnabled
  /\ phase = "WITHIN" /\ recordingEnabled => \E r \in UserRegions : hasEnabled[r]
  /\ \A r \in UserRegions : hasEnabled[r] => selected[r]

ExitsOK ==
  /\ SwitchOK
  /\ PlacesOK
  /\ phase = "WITHIN" => \A r \in UserRegions : EntersCounted(r) /\ ExitsCounted(r)

RecordingIInv == ValuesOK /\ ThreadsOK /\ EnablerOK /\ (Serial => ExitsOK)

-----------------------------------------------------------------------------
(* Counters stay in their words. *)
LEMMA ModWord == \A x \in Nat, w \in Nat \ {0} : x % w \in 0 .. w - 1 /\ (x < w => x % w = x)
OBVIOUS

(* The unsigned decrement of a count that is not zero. *)
LEMMA ModBack == \A w \in Nat \ {0} : \A x \in 1 .. w - 1 : (x + w - 1) % w = x - 1
OBVIOUS

(* What the assumption says of the setup the program was started with.     *)
LEMMA WordPositive ==
  ASSUME RecordingAssumption, recording_setup \in RecordingSetups
  PROVE  Word \in Nat \ {0, 1} /\ MaxCalls \in 0 .. Word - 1 /\ Intervals \in [UserRegions -> SUBSET [first : Nat, last : Nat]]
BY DEF RecordingAssumption, SetupAssumption, MaxCalls, Intervals

(* The last call taken off. *)
LEMMA LastCall ==
  ASSUME NEW S, NEW s \in Seq(S), s # << >>
  PROVE  /\ Last(s) \in S /\ Front(s) \in Seq(S) /\ Append(Front(s), Last(s)) = s
<1> DEFINE front == SubSeq(s, 1, Len(s) - 1)
<1>1. Len(s) \in Nat \ {0} /\ DOMAIN s = 1 .. Len(s) /\ \A i \in 1 .. Len(s) : s[i] \in S
  BY EmptySeq, LenProperties, ElementOfSeq
<1>2. /\ front \in Seq(S) /\ Len(front) = Len(s) - 1
      /\ \A i \in 1 .. Len(s) - 1 : front[i] = s[i]
  <2>1. \A i \in 1 .. Len(s) - 1 : s[i] \in S
    BY <1>1
  <2>2. /\ front \in Seq(S)
        /\ Len(front) = IF 1 <= Len(s) - 1 THEN Len(s) - 1 - 1 + 1 ELSE 0
        /\ \A i \in 1 .. Len(s) - 1 - 1 + 1 : front[i] = s[1 + i - 1]
    BY <1>1, <2>1, SubSeqProperties
  <2> QED BY <1>1, <2>2
<1> HIDE DEF front
<1>3. Last(s) \in S
  BY <1>1 DEF Last
<1>4. Append(front, Last(s)) = s
  <2>1. Append(front, Last(s)) \in Seq(S) /\ Len(Append(front, Last(s))) = Len(s)
        /\ \A i \in 1 .. Len(s) : Append(front, Last(s))[i] = s[i]
    <3>1. /\ Append(front, Last(s)) \in Seq(S) /\ Len(Append(front, Last(s))) = Len(front) + 1
          /\ \A i \in 1 .. Len(front) : Append(front, Last(s))[i] = front[i]
          /\ Append(front, Last(s))[Len(front) + 1] = Last(s)
      BY <1>2, <1>3, AppendProperties
    <3> QED BY <1>1, <1>2, <3>1 DEF Last
  <2> QED BY <2>1, SeqEqual
<1> QED BY <1>2, <1>3, <1>4 DEF front, Front

(* Every step of a thread keeps the types. *)
LEMMA ValuesStep ==
  ASSUME RecordingAssumption, ValuesOK, NEW t \in ProgramThreads, RecordingStep(t)
  PROVE  ValuesOK'
<1>0. Word \in Nat \ {0, 1} /\ MaxCalls \in 0 .. Word - 1
  BY WordPositive DEF ValuesOK
<1>1. CASE UserRegionEnter(t)
  <2>1. PICK r \in UserRegions : /\ entered[r] < MaxCalls /\ entered' = [entered EXCEPT ![r] = @ + 1]
                               /\ arg' = [arg EXCEPT ![t] = r]
    BY <1>1 DEF UserRegionEnter
  <2>2. /\ pc' = [pc EXCEPT ![t] = "check_enter"]
        /\ UNCHANGED <<recording_setup, phase, recordingEnabled, open, regionVars, reg>>
    BY <1>1 DEF UserRegionEnter, GotoStep
  <2>3. entered' \in [UserRegions -> 0 .. MaxCalls'] /\ MaxCalls' = MaxCalls
    BY <1>0, <2>1, <2>2 DEF ValuesOK, MaxCalls
  <2>4. "check_enter" \in Steps
    BY DEF Steps
  <2> QED BY <2>1, <2>2, <2>3, <2>4 DEF ValuesOK, regionVars
<1>2. CASE CheckEnterCounts(t)
  BY <1>0, <1>2 DEF CheckEnterCounts, ValuesOK, AtStep, GotoStep, Steps, Untouched, RecordingRefused,
    EnableRecording, DisableRecording, regionVars, threadVars, MaxCalls
<1>3. CASE CheckEnterEnables(t)
  <2>1. arg[t] \in UserRegions
    BY <1>3 DEF CheckEnterEnables, ValuesOK, AtStep
  <2>a. (enters[arg[t]] + 1) \in Nat
    BY <1>0, <2>1 DEF ValuesOK
  <2>2. (enters[arg[t]] + 1) % Word \in 0 .. Word - 1
    BY <1>0, <2>a, ModWord
  <2>3. /\ recordingEnabled' = TRUE /\ pc' = [pc EXCEPT ![t] = "enter"]
        /\ enters' = [enters EXCEPT ![arg[t]] = (@ + 1) % Word]
        /\ hasEnabled' = [hasEnabled EXCEPT ![arg[t]] = TRUE]
        /\ exits' = [exits EXCEPT ![arg[t]] = 1]
        /\ UNCHANGED <<recording_setup, phase, open, selected, index, entered, arg, reg>>
    BY <1>3 DEF CheckEnterEnables, EnableRecording, GotoStep, Untouched
  <2> QED BY <1>0, <2>1, <2>2, <2>3 DEF ValuesOK, MaxCalls, Steps
<1>4. CASE CheckEnterDoesNotCount(t)
  BY <1>0, <1>4 DEF CheckEnterDoesNotCount, ValuesOK, AtStep, GotoStep, Steps, Untouched, RecordingRefused,
    EnableRecording, DisableRecording, regionVars, threadVars, MaxCalls
<1>5. CASE LoadEnters(t)
  BY <1>0, <1>5 DEF LoadEnters, ValuesOK, AtStep, GotoStep, Steps, Untouched, RecordingRefused,
    EnableRecording, DisableRecording, regionVars, threadVars, MaxCalls
<1>6. CASE StoreEnters(t)
  <2>1. arg[t] \in UserRegions
    BY <1>6 DEF StoreEnters, ValuesOK, AtStep
  <2>a. (reg[t] + 1) \in Nat
    BY <1>0, <2>1 DEF ValuesOK
  <2>2. (reg[t] + 1) % Word \in 0 .. Word - 1
    BY <1>0, <2>a, ModWord
  <2> QED
    BY <1>0, <1>6, <2>1, <2>2 DEF StoreEnters, ValuesOK, AtStep, GotoStep, Steps, Untouched, RecordingRefused,
      EnableRecording, DisableRecording, regionVars, threadVars, MaxCalls
<1>7. CASE LoadExits(t)
  BY <1>0, <1>7 DEF LoadExits, ValuesOK, AtStep, GotoStep, Steps, Untouched, RecordingRefused,
    EnableRecording, DisableRecording, regionVars, threadVars, MaxCalls
<1>8. CASE StoreExits(t)
  <2>1. arg[t] \in UserRegions
    BY <1>8 DEF StoreExits, ValuesOK, AtStep
  <2>a. (reg[t] + 1) \in Nat
    BY <1>0, <2>1 DEF ValuesOK
  <2>2. (reg[t] + 1) % Word \in 0 .. Word - 1
    BY <1>0, <2>a, ModWord
  <2> QED
    BY <1>0, <1>8, <2>1, <2>2 DEF StoreExits, ValuesOK, AtStep, GotoStep, Steps, Untouched, RecordingRefused,
      EnableRecording, DisableRecording, regionVars, threadVars, MaxCalls
<1>9. CASE EnterRegion(t)
  <2>1. arg[t] \in UserRegions
    BY <1>9 DEF EnterRegion, ValuesOK, AtStep
  <2>2. Append(open[t], arg[t]) \in Seq(UserRegions)
    BY <2>1 DEF ValuesOK
  <2> QED
    BY <1>9, <2>1, <2>2 DEF EnterRegion, ValuesOK, AtStep, GotoStep, Steps, Untouched, RecordingRefused,
      EnableRecording, DisableRecording, regionVars, threadVars, MaxCalls
<1>10. CASE UserRegionExit(t)
  <2>1. Last(open[t]) \in UserRegions /\ Front(open[t]) \in Seq(UserRegions)
    BY <1>10, LastCall DEF UserRegionExit, MayExit, ValuesOK
  <2> QED
    BY <1>10, <2>1 DEF UserRegionExit, ValuesOK, AtStep, GotoStep, Steps, Untouched, RecordingRefused,
      EnableRecording, DisableRecording, regionVars, threadVars, MaxCalls
<1>11. CASE CheckExit(t)
  BY <1>0, <1>11 DEF CheckExit, ValuesOK, AtStep, GotoStep, Steps, Untouched, RecordingRefused,
    EnableRecording, DisableRecording, regionVars, threadVars, MaxCalls
<1>12. CASE LoadExit(t)
  BY <1>0, <1>12 DEF LoadExit, ValuesOK, AtStep, GotoStep, Steps, Untouched, RecordingRefused,
    EnableRecording, DisableRecording, regionVars, threadVars, MaxCalls
<1>13. CASE StoreExit(t)
  <2>1. arg[t] \in UserRegions
    BY <1>13 DEF StoreExit, ValuesOK, AtStep
  <2>a. (reg[t] + Word - 1) \in Nat
    BY <1>0, <2>1 DEF ValuesOK
  <2>2. (reg[t] + Word - 1) % Word \in 0 .. Word - 1
    BY <1>0, <2>a, ModWord
  <2> QED
    BY <1>0, <1>13, <2>1, <2>2 DEF StoreExit, ValuesOK, AtStep, GotoStep, Steps, Untouched, RecordingRefused,
      EnableRecording, DisableRecording, regionVars, threadVars, MaxCalls
<1>14. CASE TestExit(t)
  BY <1>0, <1>14 DEF TestExit, ValuesOK, AtStep, GotoStep, Steps, Untouched, RecordingRefused,
    EnableRecording, DisableRecording, regionVars, threadVars, MaxCalls
<1>15. CASE ClearHasEnabled(t)
  BY <1>0, <1>15 DEF ClearHasEnabled, ValuesOK, AtStep, GotoStep, Steps, Untouched, RecordingRefused,
    EnableRecording, DisableRecording, regionVars, threadVars, MaxCalls
<1>16. CASE Advance(t)
  BY <1>0, <1>16 DEF Advance, ValuesOK, AtStep, GotoStep, Steps, Untouched, RecordingRefused,
    EnableRecording, DisableRecording, regionVars, threadVars, MaxCalls
<1>17. CASE SwitchOn(t)
  BY <1>0, <1>17 DEF SwitchOn, ValuesOK, AtStep, GotoStep, Steps, Untouched, RecordingRefused,
    EnableRecording, DisableRecording, regionVars, threadVars, MaxCalls
<1>18. CASE SwitchOff(t)
  BY <1>0, <1>18 DEF SwitchOff, ValuesOK, AtStep, GotoStep, Steps, Untouched, RecordingRefused,
    EnableRecording, DisableRecording, regionVars, threadVars, MaxCalls
<1> QED BY <1>1, <1>2, <1>3, <1>4, <1>5, <1>6, <1>7, <1>8, <1>9, <1>10, <1>11, <1>12, <1>13, <1>14, <1>15, <1>16, <1>17, <1>18 DEF RecordingStep

(* So does every other step. *)
LEMMA ValuesNext ==
  ASSUME RecordingAssumption, ValuesOK, [RecordingNext]_recordingVars
  PROVE  ValuesOK'
<1>1. CASE UNCHANGED recordingVars
  BY <1>1 DEF ValuesOK, recordingVars, regionVars, threadVars, MaxCalls
<1>2. CASE RecordingStop
  BY <1>1, <1>2 DEF RecordingStop
<1>3. ASSUME NEW r \in UserRegions, ParseFile(r) PROVE ValuesOK'
  BY <1>3 DEF ParseFile, ValuesOK, threadVars, MaxCalls
<1>4. CASE InitMeasurement
  BY <1>4, WordPositive DEF InitMeasurement, ValuesOK, regionVars, threadVars, MaxCalls, DefaultMode, RecordingAssumption, SetupAssumption
<1>5. CASE Fork \/ Join
  BY <1>5 DEF Fork, Join, ValuesOK, regionVars, threadVars, MaxCalls
<1>6. CASE Finalize
  <2>1. /\ UNCHANGED <<recording_setup, forkDepth, regionVars, threadVars, entered>>
        /\ recordingEnabled' = (recordingEnabled \/ ~DefaultMode) /\ phase' = "POST"
        /\ open' = [open EXCEPT ![MainThread] = << >>]
    BY <1>6 DEF Finalize
  <2>2. << >> \in Seq(UserRegions)
    OBVIOUS
  <2> QED BY <2>1, <2>2 DEF ValuesOK, regionVars, threadVars, MaxCalls
<1>7. ASSUME NEW t \in ProgramThreads, RecordingStep(t) PROVE ValuesOK'
  BY <1>7, ValuesStep
<1> QED BY <1>1, <1>2, <1>3, <1>4, <1>5, <1>6, <1>7 DEF RecordingNext

-----------------------------------------------------------------------------
(* Outside of parallel regions only the main thread takes a step.          *)
LEMMA MainOnly ==
  ASSUME RecordingAssumption, ThreadsOK, NEW t \in ProgramThreads, ~InParallel(t)
  PROVE  /\ t = MainThread /\ forkDepth = NotForked
         /\ \A u \in ProgramThreads : pc[u] # "idle" => u = t
BY DEF InParallel, ThreadsOK, ProgramThreads

(* A step of a thread of the measured program that neither enables nor     *)
(* ends the selection of an instance.                                      *)
LEMMA EnablerKept ==
  ASSUME RecordingAssumption, ValuesOK, ThreadsOK, EnablerOK, NEW t \in ProgramThreads,
         pc'[t] \in Steps, pc'[t] \notin {"load_exit", "store_exit", "test_exit"}
           \/ pc[t] \in {"load_exit", "store_exit"} \/ (pc'[t] = "load_exit" /\ hasEnabled[arg[t]]),
         pc[t] # "clear", Runs(t), pc' = [pc EXCEPT ![t] = pc'[t]], UNCHANGED <<recording_setup, phase, forkDepth, hasEnabled>>,
         recordingEnabled => recordingEnabled',
         arg' = arg \/ (pc[t] = "idle" /\ pc'[t] \in {"check_enter", "check_exit"} /\ \E r : arg' = [arg EXCEPT ![t] = r]),
         \A r \in UserRegions : selected'[r] => selected[r]
  PROVE  ThreadsOK' /\ EnablerOK'
<1>1. /\ phase = "WITHIN" /\ (t # MainThread => forkDepth # NotForked) /\ MainThread \in ProgramThreads
      /\ TeamThreads \subseteq ProgramThreads
  BY DEF Runs, Within, ProgramThreads
<1>2. ThreadsOK'
  BY <1>1 DEF ThreadsOK, ValuesOK, RecordingAssumption
<1>3. \A r \in UserRegions, u \in ProgramThreads : Clears(u, r) => Clears(u, r)'
  BY <1>1 DEF Clears, ValuesOK
<1>4. EnablerUnique'
  <2>1. ASSUME NEW r \in UserRegions, hasEnabled'[r]
        PROVE  /\ \A s \in UserRegions : hasEnabled'[s] => s = r
               /\ recordingEnabled' \/ \E u \in ProgramThreads : Clears(u, r)'
    <3>1. /\ \A s \in UserRegions : hasEnabled[s] => s = r
          /\ recordingEnabled \/ \E u \in ProgramThreads : Clears(u, r)
      BY <2>1 DEF EnablerOK, EnablerUnique, Clears
    <3> QED BY <1>3, <3>1
  <2> QED BY <2>1 DEF EnablerUnique, Clears
<1>5. ASSUME NEW r \in UserRegions, hasEnabled'[r] PROVE hasEnabled[r]
  BY <1>5
<1>6. EnablerOK'
  <2> SUFFICES ASSUME EnablerUnique' PROVE EnablerOK'
    BY <1>4
  <2> QED BY <1>1, <1>3 DEF EnablerOK, Clears, ValuesOK, Intervals
<1> QED BY <1>2, <1>6

(* The files select instances only for programs that leave the switching   *)
(* of recording to the measurement.                                        *)
NoMixing ==
  \A s \in RecordingSetups : s.switching = "never" \/ \A r \in UserRegions : s.intervals[r] = {}

(* Every step of a thread keeps recording with one region: only outside of *)
(* parallel regions, where one thread runs, is it switched on, and only    *)
(* while no region has it.                                                 *)
LEMMA EnablerStep ==
  ASSUME RecordingAssumption, NoMixing, ValuesOK, ThreadsOK, EnablerOK, NEW t \in ProgramThreads, RecordingStep(t)
  PROVE  ThreadsOK' /\ EnablerOK'
<1>1. CASE UserRegionEnter(t)
  <2> DEFINE label == "check_enter"
  <2>1. /\ GotoStep(t, label) /\ pc[t] # "clear" /\ Runs(t)
        /\ UNCHANGED <<recording_setup, phase, forkDepth, hasEnabled, recordingEnabled, selected>>
        /\ \E r : arg' = [arg EXCEPT ![t] = r]
    BY <1>1 DEF UserRegionEnter, AtStep, Untouched, RecordingRefused, regionVars
  <2>2. /\ label \in Steps
        /\ \/ label \notin {"load_exit", "store_exit", "test_exit"}
           \/ pc[t] \in {"load_exit", "store_exit"}
           \/ label = "load_exit" /\ hasEnabled[arg[t]]
    BY <1>1 DEF UserRegionEnter, AtStep, Steps
  <2>3. arg' = arg \/ (pc[t] = "idle" /\ label \in {"check_enter", "check_exit"} /\ \E r : arg' = [arg EXCEPT ![t] = r])
    BY <1>1, <2>1 DEF UserRegionEnter, AtStep
  <2>4. /\ UNCHANGED <<recording_setup, phase, forkDepth, hasEnabled>>
        /\ recordingEnabled => recordingEnabled'
        /\ \A r \in UserRegions : selected'[r] => selected[r]
    BY <2>1
  <2>5. pc'[t] = label /\ pc' = [pc EXCEPT ![t] = pc'[t]]
    BY <2>1 DEF GotoStep, ValuesOK
  <2>6. /\ pc'[t] \in Steps
        /\ pc'[t] \notin {"load_exit", "store_exit", "test_exit"}
           \/ pc[t] \in {"load_exit", "store_exit"} \/ (pc'[t] = "load_exit" /\ hasEnabled[arg[t]])
        /\ arg' = arg \/ (pc[t] = "idle" /\ pc'[t] \in {"check_enter", "check_exit"} /\ \E r : arg' = [arg EXCEPT ![t] = r])
        /\ \A r \in UserRegions : selected'[r] => selected[r]
    BY <2>2, <2>3, <2>4, <2>5
  <2> HIDE DEF label
  <2> QED BY <2>1, <2>4, <2>5, <2>6, EnablerKept
<1>2. CASE CheckEnterCounts(t)
  <2> DEFINE label == IF hasEnabled[arg[t]] THEN "load_both" ELSE "load_enters"
  <2>1. /\ GotoStep(t, label) /\ pc[t] # "clear" /\ Runs(t)
        /\ UNCHANGED <<recording_setup, phase, forkDepth, hasEnabled, recordingEnabled, selected>>
        /\ arg' = arg
    BY <1>2 DEF CheckEnterCounts, AtStep, Untouched, RecordingRefused, regionVars
  <2>2. /\ label \in Steps
        /\ \/ label \notin {"load_exit", "store_exit", "test_exit"}
           \/ pc[t] \in {"load_exit", "store_exit"}
           \/ label = "load_exit" /\ hasEnabled[arg[t]]
    BY <1>2 DEF CheckEnterCounts, AtStep, Steps
  <2>3. arg' = arg \/ (pc[t] = "idle" /\ label \in {"check_enter", "check_exit"} /\ \E r : arg' = [arg EXCEPT ![t] = r])
    BY <1>2, <2>1 DEF CheckEnterCounts, AtStep
  <2>4. /\ UNCHANGED <<recording_setup, phase, forkDepth, hasEnabled>>
        /\ recordingEnabled => recordingEnabled'
        /\ \A r \in UserRegions : selected'[r] => selected[r]
    BY <2>1
  <2>5. pc'[t] = label /\ pc' = [pc EXCEPT ![t] = pc'[t]]
    BY <2>1 DEF GotoStep, ValuesOK
  <2>6. /\ pc'[t] \in Steps
        /\ pc'[t] \notin {"load_exit", "store_exit", "test_exit"}
           \/ pc[t] \in {"load_exit", "store_exit"} \/ (pc'[t] = "load_exit" /\ hasEnabled[arg[t]])
        /\ arg' = arg \/ (pc[t] = "idle" /\ pc'[t] \in {"check_enter", "check_exit"} /\ \E r : arg' = [arg EXCEPT ![t] = r])
        /\ \A r \in UserRegions : selected'[r] => selected[r]
    BY <2>2, <2>3, <2>4, <2>5
  <2> HIDE DEF label
  <2> QED BY <2>1, <2>4, <2>5, <2>6, EnablerKept
<1>3. CASE CheckEnterDoesNotCount(t)
  <2> DEFINE label == "enter"
  <2>1. /\ GotoStep(t, label) /\ pc[t] # "clear" /\ Runs(t)
        /\ UNCHANGED <<recording_setup, phase, forkDepth, hasEnabled, recordingEnabled, selected>>
        /\ arg' = arg
    BY <1>3 DEF CheckEnterDoesNotCount, AtStep, Untouched, RecordingRefused, regionVars
  <2>2. /\ label \in Steps
        /\ \/ label \notin {"load_exit", "store_exit", "test_exit"}
           \/ pc[t] \in {"load_exit", "store_exit"}
           \/ label = "load_exit" /\ hasEnabled[arg[t]]
    BY <1>3 DEF CheckEnterDoesNotCount, AtStep, Steps
  <2>3. arg' = arg \/ (pc[t] = "idle" /\ label \in {"check_enter", "check_exit"} /\ \E r : arg' = [arg EXCEPT ![t] = r])
    BY <1>3, <2>1 DEF CheckEnterDoesNotCount, AtStep
  <2>4. /\ UNCHANGED <<recording_setup, phase, forkDepth, hasEnabled>>
        /\ recordingEnabled => recordingEnabled'
        /\ \A r \in UserRegions : selected'[r] => selected[r]
    BY <2>1
  <2>5. pc'[t] = label /\ pc' = [pc EXCEPT ![t] = pc'[t]]
    BY <2>1 DEF GotoStep, ValuesOK
  <2>6. /\ pc'[t] \in Steps
        /\ pc'[t] \notin {"load_exit", "store_exit", "test_exit"}
           \/ pc[t] \in {"load_exit", "store_exit"} \/ (pc'[t] = "load_exit" /\ hasEnabled[arg[t]])
        /\ arg' = arg \/ (pc[t] = "idle" /\ pc'[t] \in {"check_enter", "check_exit"} /\ \E r : arg' = [arg EXCEPT ![t] = r])
        /\ \A r \in UserRegions : selected'[r] => selected[r]
    BY <2>2, <2>3, <2>4, <2>5
  <2> HIDE DEF label
  <2> QED BY <2>1, <2>4, <2>5, <2>6, EnablerKept
<1>4. CASE LoadEnters(t)
  <2> DEFINE label == IF pc[t] = "load_both" THEN "store_both" ELSE "store_enters"
  <2>1. /\ GotoStep(t, label) /\ pc[t] # "clear" /\ Runs(t)
        /\ UNCHANGED <<recording_setup, phase, forkDepth, hasEnabled, recordingEnabled, selected>>
        /\ arg' = arg
    BY <1>4 DEF LoadEnters, AtStep, Untouched, RecordingRefused, regionVars
  <2>2. /\ label \in Steps
        /\ \/ label \notin {"load_exit", "store_exit", "test_exit"}
           \/ pc[t] \in {"load_exit", "store_exit"}
           \/ label = "load_exit" /\ hasEnabled[arg[t]]
    BY <1>4 DEF LoadEnters, AtStep, Steps
  <2>3. arg' = arg \/ (pc[t] = "idle" /\ label \in {"check_enter", "check_exit"} /\ \E r : arg' = [arg EXCEPT ![t] = r])
    BY <1>4, <2>1 DEF LoadEnters, AtStep
  <2>4. /\ UNCHANGED <<recording_setup, phase, forkDepth, hasEnabled>>
        /\ recordingEnabled => recordingEnabled'
        /\ \A r \in UserRegions : selected'[r] => selected[r]
    BY <2>1
  <2>5. pc'[t] = label /\ pc' = [pc EXCEPT ![t] = pc'[t]]
    BY <2>1 DEF GotoStep, ValuesOK
  <2>6. /\ pc'[t] \in Steps
        /\ pc'[t] \notin {"load_exit", "store_exit", "test_exit"}
           \/ pc[t] \in {"load_exit", "store_exit"} \/ (pc'[t] = "load_exit" /\ hasEnabled[arg[t]])
        /\ arg' = arg \/ (pc[t] = "idle" /\ pc'[t] \in {"check_enter", "check_exit"} /\ \E r : arg' = [arg EXCEPT ![t] = r])
        /\ \A r \in UserRegions : selected'[r] => selected[r]
    BY <2>2, <2>3, <2>4, <2>5
  <2> HIDE DEF label
  <2> QED BY <2>1, <2>4, <2>5, <2>6, EnablerKept
<1>5. CASE StoreEnters(t)
  <2> DEFINE label == IF pc[t] = "store_both" THEN "load_exits" ELSE "enter"
  <2>1. /\ GotoStep(t, label) /\ pc[t] # "clear" /\ Runs(t)
        /\ UNCHANGED <<recording_setup, phase, forkDepth, hasEnabled, recordingEnabled, selected>>
        /\ arg' = arg
    BY <1>5 DEF StoreEnters, AtStep, Untouched, RecordingRefused, regionVars
  <2>2. /\ label \in Steps
        /\ \/ label \notin {"load_exit", "store_exit", "test_exit"}
           \/ pc[t] \in {"load_exit", "store_exit"}
           \/ label = "load_exit" /\ hasEnabled[arg[t]]
    BY <1>5 DEF StoreEnters, AtStep, Steps
  <2>3. arg' = arg \/ (pc[t] = "idle" /\ label \in {"check_enter", "check_exit"} /\ \E r : arg' = [arg EXCEPT ![t] = r])
    BY <1>5, <2>1 DEF StoreEnters, AtStep
  <2>4. /\ UNCHANGED <<recording_setup, phase, forkDepth, hasEnabled>>
        /\ recordingEnabled => recordingEnabled'
        /\ \A r \in UserRegions : selected'[r] => selected[r]
    BY <2>1
  <2>5. pc'[t] = label /\ pc' = [pc EXCEPT ![t] = pc'[t]]
    BY <2>1 DEF GotoStep, ValuesOK
  <2>6. /\ pc'[t] \in Steps
        /\ pc'[t] \notin {"load_exit", "store_exit", "test_exit"}
           \/ pc[t] \in {"load_exit", "store_exit"} \/ (pc'[t] = "load_exit" /\ hasEnabled[arg[t]])
        /\ arg' = arg \/ (pc[t] = "idle" /\ pc'[t] \in {"check_enter", "check_exit"} /\ \E r : arg' = [arg EXCEPT ![t] = r])
        /\ \A r \in UserRegions : selected'[r] => selected[r]
    BY <2>2, <2>3, <2>4, <2>5
  <2> HIDE DEF label
  <2> QED BY <2>1, <2>4, <2>5, <2>6, EnablerKept
<1>6. CASE LoadExits(t)
  <2> DEFINE label == "store_exits"
  <2>1. /\ GotoStep(t, label) /\ pc[t] # "clear" /\ Runs(t)
        /\ UNCHANGED <<recording_setup, phase, forkDepth, hasEnabled, recordingEnabled, selected>>
        /\ arg' = arg
    BY <1>6 DEF LoadExits, AtStep, Untouched, RecordingRefused, regionVars
  <2>2. /\ label \in Steps
        /\ \/ label \notin {"load_exit", "store_exit", "test_exit"}
           \/ pc[t] \in {"load_exit", "store_exit"}
           \/ label = "load_exit" /\ hasEnabled[arg[t]]
    BY <1>6 DEF LoadExits, AtStep, Steps
  <2>3. arg' = arg \/ (pc[t] = "idle" /\ label \in {"check_enter", "check_exit"} /\ \E r : arg' = [arg EXCEPT ![t] = r])
    BY <1>6, <2>1 DEF LoadExits, AtStep
  <2>4. /\ UNCHANGED <<recording_setup, phase, forkDepth, hasEnabled>>
        /\ recordingEnabled => recordingEnabled'
        /\ \A r \in UserRegions : selected'[r] => selected[r]
    BY <2>1
  <2>5. pc'[t] = label /\ pc' = [pc EXCEPT ![t] = pc'[t]]
    BY <2>1 DEF GotoStep, ValuesOK
  <2>6. /\ pc'[t] \in Steps
        /\ pc'[t] \notin {"load_exit", "store_exit", "test_exit"}
           \/ pc[t] \in {"load_exit", "store_exit"} \/ (pc'[t] = "load_exit" /\ hasEnabled[arg[t]])
        /\ arg' = arg \/ (pc[t] = "idle" /\ pc'[t] \in {"check_enter", "check_exit"} /\ \E r : arg' = [arg EXCEPT ![t] = r])
        /\ \A r \in UserRegions : selected'[r] => selected[r]
    BY <2>2, <2>3, <2>4, <2>5
  <2> HIDE DEF label
  <2> QED BY <2>1, <2>4, <2>5, <2>6, EnablerKept
<1>7. CASE StoreExits(t)
  <2> DEFINE label == "enter"
  <2>1. /\ GotoStep(t, label) /\ pc[t] # "clear" /\ Runs(t)
        /\ UNCHANGED <<recording_setup, phase, forkDepth, hasEnabled, recordingEnabled, selected>>
        /\ arg' = arg
    BY <1>7 DEF StoreExits, AtStep, Untouched, RecordingRefused, regionVars
  <2>2. /\ label \in Steps
        /\ \/ label \notin {"load_exit", "store_exit", "test_exit"}
           \/ pc[t] \in {"load_exit", "store_exit"}
           \/ label = "load_exit" /\ hasEnabled[arg[t]]
    BY <1>7 DEF StoreExits, AtStep, Steps
  <2>3. arg' = arg \/ (pc[t] = "idle" /\ label \in {"check_enter", "check_exit"} /\ \E r : arg' = [arg EXCEPT ![t] = r])
    BY <1>7, <2>1 DEF StoreExits, AtStep
  <2>4. /\ UNCHANGED <<recording_setup, phase, forkDepth, hasEnabled>>
        /\ recordingEnabled => recordingEnabled'
        /\ \A r \in UserRegions : selected'[r] => selected[r]
    BY <2>1
  <2>5. pc'[t] = label /\ pc' = [pc EXCEPT ![t] = pc'[t]]
    BY <2>1 DEF GotoStep, ValuesOK
  <2>6. /\ pc'[t] \in Steps
        /\ pc'[t] \notin {"load_exit", "store_exit", "test_exit"}
           \/ pc[t] \in {"load_exit", "store_exit"} \/ (pc'[t] = "load_exit" /\ hasEnabled[arg[t]])
        /\ arg' = arg \/ (pc[t] = "idle" /\ pc'[t] \in {"check_enter", "check_exit"} /\ \E r : arg' = [arg EXCEPT ![t] = r])
        /\ \A r \in UserRegions : selected'[r] => selected[r]
    BY <2>2, <2>3, <2>4, <2>5
  <2> HIDE DEF label
  <2> QED BY <2>1, <2>4, <2>5, <2>6, EnablerKept
<1>8. CASE EnterRegion(t)
  <2> DEFINE label == "idle"
  <2>1. /\ GotoStep(t, label) /\ pc[t] # "clear" /\ Runs(t)
        /\ UNCHANGED <<recording_setup, phase, forkDepth, hasEnabled, recordingEnabled, selected>>
        /\ arg' = arg
    BY <1>8 DEF EnterRegion, AtStep, Untouched, RecordingRefused, regionVars
  <2>2. /\ label \in Steps
        /\ \/ label \notin {"load_exit", "store_exit", "test_exit"}
           \/ pc[t] \in {"load_exit", "store_exit"}
           \/ label = "load_exit" /\ hasEnabled[arg[t]]
    BY <1>8 DEF EnterRegion, AtStep, Steps
  <2>3. arg' = arg \/ (pc[t] = "idle" /\ label \in {"check_enter", "check_exit"} /\ \E r : arg' = [arg EXCEPT ![t] = r])
    BY <1>8, <2>1 DEF EnterRegion, AtStep
  <2>4. /\ UNCHANGED <<recording_setup, phase, forkDepth, hasEnabled>>
        /\ recordingEnabled => recordingEnabled'
        /\ \A r \in UserRegions : selected'[r] => selected[r]
    BY <2>1
  <2>5. pc'[t] = label /\ pc' = [pc EXCEPT ![t] = pc'[t]]
    BY <2>1 DEF GotoStep, ValuesOK
  <2>6. /\ pc'[t] \in Steps
        /\ pc'[t] \notin {"load_exit", "store_exit", "test_exit"}
           \/ pc[t] \in {"load_exit", "store_exit"} \/ (pc'[t] = "load_exit" /\ hasEnabled[arg[t]])
        /\ arg' = arg \/ (pc[t] = "idle" /\ pc'[t] \in {"check_enter", "check_exit"} /\ \E r : arg' = [arg EXCEPT ![t] = r])
        /\ \A r \in UserRegions : selected'[r] => selected[r]
    BY <2>2, <2>3, <2>4, <2>5
  <2> HIDE DEF label
  <2> QED BY <2>1, <2>4, <2>5, <2>6, EnablerKept
<1>9. CASE UserRegionExit(t)
  <2> DEFINE label == "check_exit"
  <2>1. /\ GotoStep(t, label) /\ pc[t] # "clear" /\ Runs(t)
        /\ UNCHANGED <<recording_setup, phase, forkDepth, hasEnabled, recordingEnabled, selected>>
        /\ \E r : arg' = [arg EXCEPT ![t] = r]
    BY <1>9 DEF UserRegionExit, AtStep, Untouched, RecordingRefused, regionVars
  <2>2. /\ label \in Steps
        /\ \/ label \notin {"load_exit", "store_exit", "test_exit"}
           \/ pc[t] \in {"load_exit", "store_exit"}
           \/ label = "load_exit" /\ hasEnabled[arg[t]]
    BY <1>9 DEF UserRegionExit, AtStep, Steps
  <2>3. arg' = arg \/ (pc[t] = "idle" /\ label \in {"check_enter", "check_exit"} /\ \E r : arg' = [arg EXCEPT ![t] = r])
    BY <1>9, <2>1 DEF UserRegionExit, AtStep
  <2>4. /\ UNCHANGED <<recording_setup, phase, forkDepth, hasEnabled>>
        /\ recordingEnabled => recordingEnabled'
        /\ \A r \in UserRegions : selected'[r] => selected[r]
    BY <2>1
  <2>5. pc'[t] = label /\ pc' = [pc EXCEPT ![t] = pc'[t]]
    BY <2>1 DEF GotoStep, ValuesOK
  <2>6. /\ pc'[t] \in Steps
        /\ pc'[t] \notin {"load_exit", "store_exit", "test_exit"}
           \/ pc[t] \in {"load_exit", "store_exit"} \/ (pc'[t] = "load_exit" /\ hasEnabled[arg[t]])
        /\ arg' = arg \/ (pc[t] = "idle" /\ pc'[t] \in {"check_enter", "check_exit"} /\ \E r : arg' = [arg EXCEPT ![t] = r])
        /\ \A r \in UserRegions : selected'[r] => selected[r]
    BY <2>2, <2>3, <2>4, <2>5
  <2> HIDE DEF label
  <2> QED BY <2>1, <2>4, <2>5, <2>6, EnablerKept
<1>10. CASE CheckExit(t)
  <2> DEFINE label == IF hasEnabled[arg[t]] THEN "load_exit" ELSE "idle"
  <2>1. /\ GotoStep(t, label) /\ pc[t] # "clear" /\ Runs(t)
        /\ UNCHANGED <<recording_setup, phase, forkDepth, hasEnabled, recordingEnabled, selected>>
        /\ arg' = arg
    BY <1>10 DEF CheckExit, AtStep, Untouched, RecordingRefused, regionVars
  <2>2. /\ label \in Steps
        /\ \/ label \notin {"load_exit", "store_exit", "test_exit"}
           \/ pc[t] \in {"load_exit", "store_exit"}
           \/ label = "load_exit" /\ hasEnabled[arg[t]]
    BY <1>10 DEF CheckExit, AtStep, Steps
  <2>3. arg' = arg \/ (pc[t] = "idle" /\ label \in {"check_enter", "check_exit"} /\ \E r : arg' = [arg EXCEPT ![t] = r])
    BY <1>10, <2>1 DEF CheckExit, AtStep
  <2>4. /\ UNCHANGED <<recording_setup, phase, forkDepth, hasEnabled>>
        /\ recordingEnabled => recordingEnabled'
        /\ \A r \in UserRegions : selected'[r] => selected[r]
    BY <2>1
  <2>5. pc'[t] = label /\ pc' = [pc EXCEPT ![t] = pc'[t]]
    BY <2>1 DEF GotoStep, ValuesOK
  <2>6. /\ pc'[t] \in Steps
        /\ pc'[t] \notin {"load_exit", "store_exit", "test_exit"}
           \/ pc[t] \in {"load_exit", "store_exit"} \/ (pc'[t] = "load_exit" /\ hasEnabled[arg[t]])
        /\ arg' = arg \/ (pc[t] = "idle" /\ pc'[t] \in {"check_enter", "check_exit"} /\ \E r : arg' = [arg EXCEPT ![t] = r])
        /\ \A r \in UserRegions : selected'[r] => selected[r]
    BY <2>2, <2>3, <2>4, <2>5
  <2> HIDE DEF label
  <2> QED BY <2>1, <2>4, <2>5, <2>6, EnablerKept
<1>11. CASE LoadExit(t)
  <2> DEFINE label == "store_exit"
  <2>1. /\ GotoStep(t, label) /\ pc[t] # "clear" /\ Runs(t)
        /\ UNCHANGED <<recording_setup, phase, forkDepth, hasEnabled, recordingEnabled, selected>>
        /\ arg' = arg
    BY <1>11 DEF LoadExit, AtStep, Untouched, RecordingRefused, regionVars
  <2>2. /\ label \in Steps
        /\ \/ label \notin {"load_exit", "store_exit", "test_exit"}
           \/ pc[t] \in {"load_exit", "store_exit"}
           \/ label = "load_exit" /\ hasEnabled[arg[t]]
    BY <1>11 DEF LoadExit, AtStep, Steps
  <2>3. arg' = arg \/ (pc[t] = "idle" /\ label \in {"check_enter", "check_exit"} /\ \E r : arg' = [arg EXCEPT ![t] = r])
    BY <1>11, <2>1 DEF LoadExit, AtStep
  <2>4. /\ UNCHANGED <<recording_setup, phase, forkDepth, hasEnabled>>
        /\ recordingEnabled => recordingEnabled'
        /\ \A r \in UserRegions : selected'[r] => selected[r]
    BY <2>1
  <2>5. pc'[t] = label /\ pc' = [pc EXCEPT ![t] = pc'[t]]
    BY <2>1 DEF GotoStep, ValuesOK
  <2>6. /\ pc'[t] \in Steps
        /\ pc'[t] \notin {"load_exit", "store_exit", "test_exit"}
           \/ pc[t] \in {"load_exit", "store_exit"} \/ (pc'[t] = "load_exit" /\ hasEnabled[arg[t]])
        /\ arg' = arg \/ (pc[t] = "idle" /\ pc'[t] \in {"check_enter", "check_exit"} /\ \E r : arg' = [arg EXCEPT ![t] = r])
        /\ \A r \in UserRegions : selected'[r] => selected[r]
    BY <2>2, <2>3, <2>4, <2>5
  <2> HIDE DEF label
  <2> QED BY <2>1, <2>4, <2>5, <2>6, EnablerKept
<1>12. CASE StoreExit(t)
  <2> DEFINE label == "test_exit"
  <2>1. /\ GotoStep(t, label) /\ pc[t] # "clear" /\ Runs(t)
        /\ UNCHANGED <<recording_setup, phase, forkDepth, hasEnabled, recordingEnabled, selected>>
        /\ arg' = arg
    BY <1>12 DEF StoreExit, AtStep, Untouched, RecordingRefused, regionVars
  <2>2. /\ label \in Steps
        /\ \/ label \notin {"load_exit", "store_exit", "test_exit"}
           \/ pc[t] \in {"load_exit", "store_exit"}
           \/ label = "load_exit" /\ hasEnabled[arg[t]]
    BY <1>12 DEF StoreExit, AtStep, Steps
  <2>3. arg' = arg \/ (pc[t] = "idle" /\ label \in {"check_enter", "check_exit"} /\ \E r : arg' = [arg EXCEPT ![t] = r])
    BY <1>12, <2>1 DEF StoreExit, AtStep
  <2>4. /\ UNCHANGED <<recording_setup, phase, forkDepth, hasEnabled>>
        /\ recordingEnabled => recordingEnabled'
        /\ \A r \in UserRegions : selected'[r] => selected[r]
    BY <2>1
  <2>5. pc'[t] = label /\ pc' = [pc EXCEPT ![t] = pc'[t]]
    BY <2>1 DEF GotoStep, ValuesOK
  <2>6. /\ pc'[t] \in Steps
        /\ pc'[t] \notin {"load_exit", "store_exit", "test_exit"}
           \/ pc[t] \in {"load_exit", "store_exit"} \/ (pc'[t] = "load_exit" /\ hasEnabled[arg[t]])
        /\ arg' = arg \/ (pc[t] = "idle" /\ pc'[t] \in {"check_enter", "check_exit"} /\ \E r : arg' = [arg EXCEPT ![t] = r])
        /\ \A r \in UserRegions : selected'[r] => selected[r]
    BY <2>2, <2>3, <2>4, <2>5
  <2> HIDE DEF label
  <2> QED BY <2>1, <2>4, <2>5, <2>6, EnablerKept
<1>13. CASE Advance(t)
  <2> DEFINE label == IF index[arg[t]] \notin {i \in index[arg[t]] .. Len(intervals[arg[t]]) : intervals[arg[t]][i].last >= enters[arg[t]]}
                         /\ ~selected[arg[t]] THEN "crashed" ELSE "idle"
  <2>1. /\ GotoStep(t, label) /\ pc[t] = "advance" /\ Runs(t)
        /\ UNCHANGED <<recording_setup, phase, forkDepth, hasEnabled, recordingEnabled, arg>>
    BY <1>13 DEF Advance, AtStep, Untouched, RecordingRefused
  <2>2. \A r \in UserRegions : selected'[r] => selected[r]
    BY <1>13 DEF Advance, ValuesOK
  <2>3. label \in Steps /\ label \notin {"load_exit", "store_exit", "test_exit"}
    BY DEF Steps
  <2>4. /\ UNCHANGED <<recording_setup, phase, forkDepth, hasEnabled>>
        /\ recordingEnabled => recordingEnabled'
        /\ arg' = arg /\ pc[t] # "clear"
    BY <2>1
  <2>5. pc'[t] = label /\ pc' = [pc EXCEPT ![t] = pc'[t]]
    BY <2>1 DEF GotoStep, ValuesOK
  <2>6. /\ pc'[t] \in Steps
        /\ pc'[t] \notin {"load_exit", "store_exit", "test_exit"}
           \/ pc[t] \in {"load_exit", "store_exit"} \/ (pc'[t] = "load_exit" /\ hasEnabled[arg[t]])
        /\ arg' = arg \/ (pc[t] = "idle" /\ pc'[t] \in {"check_enter", "check_exit"} /\ \E r : arg' = [arg EXCEPT ![t] = r])
        /\ \A r \in UserRegions : selected'[r] => selected[r]
    BY <2>2, <2>3, <2>4, <2>5
  <2> HIDE DEF label
  <2> QED BY <2>1, <2>4, <2>5, <2>6, EnablerKept
<1>14. CASE CheckEnterEnables(t)
  <2> DEFINE r == arg[t]
  <2>1. /\ Runs(t) /\ pc[t] = "check_enter" /\ GotoStep(t, "enter") /\ ~InParallel(t)
        /\ UNCHANGED <<recording_setup, phase, forkDepth, arg, selected>>
        /\ ~recordingEnabled /\ recordingEnabled' = TRUE /\ hasEnabled' = [hasEnabled EXCEPT ![r] = TRUE]
        /\ selected[r] /\ r \in UserRegions
    BY <1>14 DEF CheckEnterEnables, AtStep, Untouched, EnableRecording, ValuesOK
  <2>2. /\ t = MainThread /\ forkDepth = NotForked
        /\ \A u \in ProgramThreads : pc[u] # "idle" => u = t
    BY <2>1, MainOnly
  <2>3. \A s \in UserRegions : ~hasEnabled[s]
    BY <2>1, <2>2 DEF EnablerOK, EnablerUnique
  <2>4. ThreadsOK'
    BY <2>1, <2>2 DEF ThreadsOK, Runs, Within, GotoStep, ValuesOK, RecordingAssumption, ProgramThreads
  <2>5. \A s \in UserRegions : hasEnabled'[s] => s = r
    BY <2>1, <2>3 DEF ValuesOK
  <2>6. EnablerUnique'
    BY <2>1, <2>5 DEF EnablerUnique
  <2>7. \A s \in UserRegions : selected'[s] \/ hasEnabled'[s] => recording_setup'.intervals[s] # {}
    BY <2>1, <2>5 DEF EnablerOK, Intervals
  <2>8. EnablerOK'
    BY <2>6, <2>7 DEF EnablerOK, Intervals
  <2> QED BY <2>4, <2>8
<1>15. CASE TestExit(t)
  <2> DEFINE r == arg[t]
             label == IF exits[r] = 0 THEN "clear" ELSE "idle"
  <2>1. /\ Runs(t) /\ pc[t] = "test_exit" /\ GotoStep(t, label)
        /\ UNCHANGED <<recording_setup, phase, forkDepth, arg, selected, hasEnabled>>
        /\ r \in UserRegions
    BY <1>15 DEF TestExit, AtStep, Untouched, ValuesOK, regionVars
  <2>2. /\ pc' = [pc EXCEPT ![t] = label] /\ label \in {"clear", "idle"}
        /\ phase = "WITHIN" /\ MainThread \in ProgramThreads /\ TeamThreads \subseteq ProgramThreads
        /\ t # MainThread => forkDepth # NotForked
    BY <2>1 DEF GotoStep, Runs, Within, ProgramThreads
  <2>3. ThreadsOK'
    BY <2>1, <2>2 DEF ThreadsOK, ValuesOK, RecordingAssumption
  <2>4. CASE recordingEnabled' = recordingEnabled
    <3>1. \A s \in UserRegions, u \in ProgramThreads : Clears(u, s) => Clears(u, s)'
      BY <2>1, <2>2 DEF Clears, ValuesOK
    <3> QED BY <2>1, <2>3, <2>4, <3>1 DEF EnablerOK, EnablerUnique, Clears, Intervals
  <2>5. CASE recordingEnabled' # recordingEnabled
    <3>1. exits[r] = 0 /\ ~InParallel(t)
      BY <1>15, <2>5 DEF TestExit, RecordingRefused
    <3>2. t = MainThread /\ forkDepth = NotForked
      BY <3>1, MainOnly
    <3>3. hasEnabled[r]
      BY <2>1, <3>2 DEF ThreadsOK
    <3>4. pc'[t] = "clear" /\ arg'[t] = r
      BY <2>1, <2>2, <3>1 DEF ValuesOK
    <3>5. \A s \in UserRegions : hasEnabled[s] => s = r
      BY <2>1, <3>3 DEF EnablerOK, EnablerUnique
    <3>6. EnablerOK'
      BY <2>1, <3>4, <3>5 DEF EnablerOK, EnablerUnique, Intervals
    <3> QED BY <2>3, <3>6
  <2> QED BY <2>4, <2>5
<1>16. CASE ClearHasEnabled(t)
  <2> DEFINE r == arg[t]
  <2>1. /\ Runs(t) /\ pc[t] = "clear" /\ GotoStep(t, "advance")
        /\ UNCHANGED <<recording_setup, phase, forkDepth, arg, selected, recordingEnabled>>
        /\ hasEnabled' = [hasEnabled EXCEPT ![r] = FALSE] /\ r \in UserRegions
    BY <1>16 DEF ClearHasEnabled, AtStep, Untouched, RecordingRefused, ValuesOK
  <2>2. /\ pc' = [pc EXCEPT ![t] = "advance"]
        /\ phase = "WITHIN" /\ MainThread \in ProgramThreads /\ TeamThreads \subseteq ProgramThreads
        /\ t # MainThread => forkDepth # NotForked
    BY <2>1 DEF GotoStep, Runs, Within, ProgramThreads
  <2>3. ThreadsOK'
    <3>1. forkDepth = NotForked => pc[MainThread] \notin {"load_exit", "store_exit", "test_exit"} \/ t # MainThread
      BY <2>1
    <3> QED BY <2>1, <2>2, <3>1 DEF ThreadsOK, ValuesOK, RecordingAssumption
  <2>4. \A s \in UserRegions \ {r}, u \in ProgramThreads : Clears(u, s) => Clears(u, s)'
    BY <2>1, <2>2 DEF Clears, ValuesOK
  <2>5. \A s \in UserRegions : hasEnabled'[s] => hasEnabled[s] /\ s # r
    BY <2>1 DEF ValuesOK
  <2>6. EnablerUnique'
    <3> SUFFICES ASSUME NEW s \in UserRegions, hasEnabled'[s]
                 PROVE  /\ \A o \in UserRegions : hasEnabled'[o] => o = s
                        /\ recordingEnabled' \/ \E u \in ProgramThreads : Clears(u, s)'
      BY DEF EnablerUnique, Clears
    <3>1. hasEnabled[s] /\ s # r
      BY <2>5
    <3>2. /\ \A o \in UserRegions : hasEnabled[o] => o = s
          /\ recordingEnabled \/ \E u \in ProgramThreads : Clears(u, s)
      BY <3>1 DEF EnablerOK, EnablerUnique, Clears
    <3> QED BY <2>1, <2>4, <2>5, <3>1, <3>2
  <2>7. \A s \in UserRegions : selected'[s] \/ hasEnabled'[s] => recording_setup'.intervals[s] # {}
    BY <2>1, <2>5 DEF EnablerOK, Intervals
  <2>8. EnablerOK'
    BY <2>6, <2>7 DEF EnablerOK, Intervals
  <2> QED BY <2>3, <2>8
<1>17. CASE SwitchOn(t) \/ SwitchOff(t)
  <2>1. /\ Switching \in {"free", "nested"} /\ Runs(t)
        /\ UNCHANGED <<recording_setup, phase, forkDepth, regionVars, threadVars, open>>
    BY <1>17 DEF SwitchOn, SwitchOff, MayEnable, MayDisable, AtStep, Untouched
  <2>2. \A r \in UserRegions : Intervals[r] = {}
    BY <2>1 DEF NoMixing, ValuesOK, Switching, Intervals
  <2>3. \A r \in UserRegions : ~selected[r] /\ ~hasEnabled[r]
    BY <2>2 DEF EnablerOK
  <2>4. ThreadsOK'
    BY <2>1 DEF ThreadsOK, regionVars, threadVars
  <2>5. EnablerOK'
    BY <2>1, <2>3 DEF EnablerOK, EnablerUnique, regionVars
  <2> QED BY <2>4, <2>5
<1> QED BY <1>1, <1>2, <1>3, <1>4, <1>5, <1>6, <1>7, <1>8, <1>9, <1>10, <1>11, <1>12, <1>13, <1>14, <1>15, <1>16, <1>17 DEF RecordingStep

(* So does every other step; a fork and a join find the threads idle.      *)
LEMMA EnablerNext ==
  ASSUME RecordingAssumption, NoMixing, ValuesOK, ThreadsOK, EnablerOK, [RecordingNext]_recordingVars
  PROVE  ThreadsOK' /\ EnablerOK'
<1> USE DEF Clears
<1>1. CASE UNCHANGED recordingVars
  BY <1>1 DEF recordingVars, regionVars, threadVars, ThreadsOK, EnablerOK, EnablerUnique, Intervals
<1>2. CASE RecordingStop
  BY <1>1, <1>2 DEF RecordingStop
<1>3. ASSUME NEW r \in UserRegions, ParseFile(r) PROVE ThreadsOK' /\ EnablerOK'
  BY <1>3 DEF ParseFile, threadVars, ThreadsOK, EnablerOK, EnablerUnique, Intervals
<1>4. CASE InitMeasurement
  <2>1. /\ phase = "PRE" /\ phase' = "WITHIN"
        /\ UNCHANGED <<recording_setup, forkDepth, open, regionVars, threadVars, entered>>
    BY <1>4 DEF InitMeasurement
  <2> QED BY <2>1 DEF regionVars, threadVars, ThreadsOK, EnablerOK, EnablerUnique, Intervals
<1>5. CASE Fork
  <2>1. /\ phase = "WITHIN" /\ pc[MainThread] = "idle"
        /\ UNCHANGED <<recording_setup, phase, recordingEnabled, open, regionVars, threadVars>>
        /\ forkDepth = NotForked
    BY <1>5 DEF Fork, AtStep, Runs, Within
  <2> QED BY <2>1 DEF regionVars, threadVars, ThreadsOK, EnablerOK, EnablerUnique, Intervals
<1>6. CASE Join
  <2>1. /\ phase = "WITHIN" /\ pc[MainThread] = "idle" /\ \A t \in TeamThreads : pc[t] = "idle"
        /\ UNCHANGED <<recording_setup, phase, recordingEnabled, open, regionVars, threadVars>>
    BY <1>6 DEF Join, AtStep, Runs, Within
  <2> QED BY <2>1 DEF regionVars, threadVars, ThreadsOK, EnablerOK, EnablerUnique, Intervals
<1>7. CASE Finalize
  <2>1. /\ phase' = "POST" /\ UNCHANGED <<recording_setup, forkDepth, regionVars, threadVars, entered>>
        /\ recordingEnabled => recordingEnabled'
    BY <1>7 DEF Finalize
  <2> QED BY <2>1 DEF regionVars, threadVars, ThreadsOK, EnablerOK, EnablerUnique, Intervals
<1>8. ASSUME NEW t \in ProgramThreads, RecordingStep(t) PROVE ThreadsOK' /\ EnablerOK'
  BY <1>8, EnablerStep
<1> QED BY <1>1, <1>2, <1>3, <1>4, <1>5, <1>6, <1>7, <1>8 DEF RecordingNext

(* There are no parallel regions before the measurement is initialised. *)
NotForkedYet == phase = "PRE" => forkDepth = NotForked

(* Inside of a parallel region both functions refuse, and the measurement  *)
(* is neither begun nor ended.                                             *)
LEMMA NotSwitched ==
  ASSUME NotForkedYet, [RecordingNext]_recordingVars, forkDepth # NotForked
  PROVE  recordingEnabled' = recordingEnabled
<1>1. CASE UNCHANGED recordingVars
  BY <1>1 DEF recordingVars
<1>2. CASE RecordingStop \/ Fork \/ Join \/ \E r \in UserRegions : ParseFile(r)
  BY <1>2 DEF RecordingStop, recordingVars, Fork, Join, ParseFile
<1>3. CASE InitMeasurement \/ Finalize
  BY <1>3 DEF InitMeasurement, Finalize, NotForkedYet
<1>4. ASSUME NEW t \in ProgramThreads, RecordingStep(t) PROVE recordingEnabled' = recordingEnabled
  <2>1. InParallel(t)
    BY DEF InParallel
  <2> QED BY <1>4, <2>1 DEF RecordingStep, UserRegionEnter, CheckEnterCounts, CheckEnterEnables, CheckEnterDoesNotCount,
    LoadEnters, StoreEnters, LoadExits, StoreExits, EnterRegion, UserRegionExit, CheckExit, LoadExit, StoreExit, TestExit,
    ClearHasEnabled, Advance, SwitchOn, SwitchOff, RecordingRefused
<1> QED BY <1>1, <1>2, <1>3, <1>4 DEF RecordingNext

-----------------------------------------------------------------------------
(* Counting calls.                                                         *)

Places(calls, p, r) == {i \in p .. Len(calls) : calls[i] = r}

(* A call more or a call less changes the count of its region by one.      *)
LEMMA CountOfAppend ==
  ASSUME NEW S, NEW s \in Seq(S), NEW x \in S, NEW r, NEW p \in 1 .. Len(s) + 1
  PROVE  /\ Count(s, p, r) \in Nat
         /\ Count(Append(s, x), p, r) = Count(s, p, r) + (IF x = r THEN 1 ELSE 0)
<1>1. /\ Len(s) \in Nat /\ Len(Append(s, x)) = Len(s) + 1
      /\ \A i \in 1 .. Len(s) : Append(s, x)[i] = s[i]
      /\ Append(s, x)[Len(s) + 1] = x
  BY AppendProperties, LenProperties
<1>2. IsFiniteSet(Places(s, p, r))
  <2>1. p \in Int /\ Len(s) \in Int
    BY <1>1
  <2>2. IsFiniteSet(p .. Len(s))
    BY <2>1, FS_Interval
  <2> QED BY <2>2, FS_Subset DEF Places
<1>3. CASE x = r
  <2>1. Places(Append(s, x), p, r) = Places(s, p, r) \cup {Len(s) + 1}
    BY <1>1, <1>3 DEF Places
  <2>2. Len(s) + 1 \notin Places(s, p, r)
    BY <1>1 DEF Places
  <2> QED BY <1>2, <1>3, <2>1, <2>2, FS_AddElement, FS_CardinalityType DEF Count, Places
<1>4. CASE x # r
  <2>1. Places(Append(s, x), p, r) = Places(s, p, r)
    BY <1>1, <1>4 DEF Places
  <2>2. Count(Append(s, x), p, r) = Count(s, p, r) /\ Count(s, p, r) \in Nat
    BY <1>2, <2>1, FS_CardinalityType DEF Count, Places
  <2> QED BY <1>4, <2>2
<1> QED BY <1>3, <1>4

(* Fewer calls are counted from later on, and there is one at the start of *)
(* a count that starts at one.                                             *)
LEMMA CountBounds ==
  ASSUME NEW S, NEW s \in Seq(S), NEW r, NEW p \in 1 .. Len(s), s[p] = r
  PROVE  Count(s, p, r) \in 1 .. Count(s, 1, r) /\ Count(s, 1, r) \in Nat
<1>1. Len(s) \in Nat
  BY LenProperties
<1>2. IsFiniteSet(Places(s, 1, r)) /\ Places(s, p, r) \subseteq Places(s, 1, r) /\ p \in Places(s, p, r)
  <2>1. IsFiniteSet(1 .. Len(s))
    BY <1>1, FS_Interval
  <2> QED BY <1>1, <2>1, FS_Subset DEF Places
<1>3. /\ IsFiniteSet(Places(s, p, r)) /\ Cardinality(Places(s, p, r)) \in Nat
      /\ Cardinality(Places(s, 1, r)) \in Nat
      /\ Cardinality(Places(s, p, r)) <= Cardinality(Places(s, 1, r))
  BY <1>2, FS_Subset, FS_CardinalityType
<1>4. Cardinality(Places(s, p, r)) # 0
  BY <1>2, <1>3, FS_EmptySet
<1> QED BY <1>3, <1>4 DEF Count, Places

-----------------------------------------------------------------------------
(* In a serial program that leaves the switching to selective recording    *)
(* only MainThread takes steps.                                            *)
LEMMA SerialStep ==
  ASSUME RecordingAssumption, ValuesOK, Serial, SwitchOK, NEW t \in ProgramThreads, RecordingStep(t)
  PROVE  /\ t = MainThread /\ MainThread \in ProgramThreads /\ ~InParallel(MainThread) /\ phase = "WITHIN"
         /\ ~SwitchOn(t) /\ ~SwitchOff(t)
         /\ UNCHANGED <<recording_setup, phase, forkDepth>>
<1>1. t = MainThread /\ phase = "WITHIN" /\ UNCHANGED <<recording_setup, phase, forkDepth>>
  BY DEF RecordingStep, SwitchOK, SwitchOn, SwitchOff, UserRegionEnter, CheckEnterCounts, CheckEnterEnables, CheckEnterDoesNotCount, LoadEnters, StoreEnters, LoadExits, StoreExits, EnterRegion, UserRegionExit, CheckExit, LoadExit, StoreExit, TestExit, ClearHasEnabled, Advance, AtStep, Runs, Within, Untouched
<1> QED BY <1>1 DEF Serial, Selective, SwitchOn, SwitchOff, MayEnable, MayDisable, ProgramThreads, InParallel, SwitchOK

(* Recording stays on only for a region that has switched it on, and that  *)
(* is still selected.                                                      *)
LEMMA SwitchStep ==
  ASSUME RecordingAssumption, ValuesOK, ThreadsOK, EnablerOK, Serial, SwitchOK, PlacesOK,
         NEW t \in ProgramThreads, RecordingStep(t)
  PROVE  SwitchOK'
<1>0. /\ t = MainThread /\ MainThread \in ProgramThreads /\ ~InParallel(MainThread) /\ phase = "WITHIN"
      /\ ~SwitchOn(t) /\ ~SwitchOff(t) /\ UNCHANGED <<recording_setup, phase, forkDepth>>
  BY SerialStep
<1>1. arg[t] \in UserRegions \/ pc[t] = "idle"
  BY DEF ValuesOK
<1>2. CASE UserRegionEnter(t) \/ CheckEnterCounts(t) \/ CheckEnterDoesNotCount(t) \/ LoadEnters(t) \/ StoreEnters(t) \/ LoadExits(t) \/ StoreExits(t) \/ EnterRegion(t) \/ UserRegionExit(t) \/ CheckExit(t) \/ LoadExit(t) \/ StoreExit(t)
  <2>1. /\ UNCHANGED <<recordingEnabled, hasEnabled, selected>>
        /\ pc'[t] # "clear"
    BY <1>0, <1>2 DEF UserRegionEnter, CheckEnterCounts, CheckEnterDoesNotCount, LoadEnters, StoreEnters, LoadExits, StoreExits, EnterRegion, UserRegionExit, CheckExit, LoadExit, StoreExit, ValuesOK,
      AtStep, Runs, Within, GotoStep, Untouched, RecordingRefused,
      regionVars, threadVars
  <2> QED BY <1>0, <2>1 DEF SwitchOK
<1>3. CASE CheckEnterEnables(t)
  <2>1. /\ hasEnabled' = [hasEnabled EXCEPT ![arg[t]] = TRUE] /\ selected' = selected /\ selected[arg[t]]
        /\ pc'[t] # "clear" /\ arg[t] \in UserRegions
    BY <1>0, <1>1, <1>3 DEF CheckEnterEnables, ValuesOK, AtStep, Runs, Within, GotoStep, Untouched, RecordingRefused,
      regionVars, threadVars
  <2> QED BY <1>0, <2>1 DEF SwitchOK, ValuesOK
<1>4. CASE TestExit(t)
  <2>1. /\ UNCHANGED <<hasEnabled, selected>>
        /\ IF exits[arg[t]] = 0 THEN ~recordingEnabled' ELSE recordingEnabled' = recordingEnabled /\ pc'[t] = "idle"
    BY <1>0, <1>4 DEF TestExit, ValuesOK, DisableRecording, AtStep, Runs, Within, GotoStep, Untouched, RecordingRefused,
      regionVars, threadVars
  <2> QED BY <1>0, <2>1 DEF SwitchOK
<1>5. CASE ClearHasEnabled(t)
  <2>1. /\ hasEnabled' = [hasEnabled EXCEPT ![arg[t]] = FALSE] /\ selected' = selected
        /\ pc[t] = "clear" /\ pc'[t] = "advance" /\ recordingEnabled' = recordingEnabled
    BY <1>0, <1>5 DEF ClearHasEnabled, ValuesOK, AtStep, Runs, Within, GotoStep, Untouched, RecordingRefused,
      regionVars, threadVars
  <2> QED BY <1>0, <2>1 DEF SwitchOK, ValuesOK
<1>6. CASE Advance(t)
  <2>1. /\ UNCHANGED <<recordingEnabled, hasEnabled>> /\ pc'[t] # "clear" /\ ~hasEnabled[arg[t]]
        /\ \A r \in UserRegions \ {arg[t]} : selected'[r] = selected[r]
    BY <1>0, <1>6 DEF Advance, ValuesOK, PlacesOK, AtStep, Runs, Within, GotoStep, Untouched, RecordingRefused,
      regionVars, threadVars
  <2> QED BY <1>0, <2>1 DEF SwitchOK
<1> QED BY <1>0, <1>2, <1>3, <1>4, <1>5, <1>6 DEF RecordingStep

(* Whether its region has switched recording on decides on a call's way    *)
(* through the code.                                                       *)
LEMMA PlacesStep ==
  ASSUME RecordingAssumption, ValuesOK, ThreadsOK, EnablerOK, Serial, SwitchOK, PlacesOK,
         NEW t \in ProgramThreads, RecordingStep(t)
  PROVE  PlacesOK'
<1>0. /\ t = MainThread /\ MainThread \in ProgramThreads /\ ~InParallel(MainThread) /\ phase = "WITHIN"
      /\ ~SwitchOn(t) /\ ~SwitchOff(t) /\ UNCHANGED <<recording_setup, phase, forkDepth>>
  BY SerialStep
<1>1. arg[t] \in UserRegions \/ pc[t] = "idle"
  BY DEF ValuesOK
<1>2. CASE UserRegionEnter(t)
  BY <1>0, <1>1, <1>2 DEF UserRegionEnter, PlacesOK, ValuesOK, AtStep, Runs, Within, GotoStep, Untouched, RecordingRefused,
      regionVars, threadVars
<1>3. CASE CheckEnterCounts(t)
  BY <1>0, <1>1, <1>3 DEF CheckEnterCounts, PlacesOK, ValuesOK, AtStep, Runs, Within, GotoStep, Untouched, RecordingRefused,
      regionVars, threadVars
<1>4. CASE CheckEnterEnables(t)
  BY <1>0, <1>1, <1>4 DEF CheckEnterEnables, PlacesOK, ValuesOK, AtStep, Runs, Within, GotoStep, Untouched, RecordingRefused,
      regionVars, threadVars
<1>5. CASE CheckEnterDoesNotCount(t)
  BY <1>0, <1>1, <1>5 DEF CheckEnterDoesNotCount, PlacesOK, ValuesOK, AtStep, Runs, Within, GotoStep, Untouched, RecordingRefused,
      regionVars, threadVars
<1>6. CASE LoadEnters(t)
  BY <1>0, <1>1, <1>6 DEF LoadEnters, PlacesOK, ValuesOK, AtStep, Runs, Within, GotoStep, Untouched, RecordingRefused,
      regionVars, threadVars
<1>7. CASE StoreEnters(t)
  BY <1>0, <1>1, <1>7 DEF StoreEnters, PlacesOK, ValuesOK, AtStep, Runs, Within, GotoStep, Untouched, RecordingRefused,
      regionVars, threadVars
<1>8. CASE LoadExits(t)
  BY <1>0, <1>1, <1>8 DEF LoadExits, PlacesOK, ValuesOK, AtStep, Runs, Within, GotoStep, Untouched, RecordingRefused,
      regionVars, threadVars
<1>9. CASE StoreExits(t)
  BY <1>0, <1>1, <1>9 DEF StoreExits, PlacesOK, ValuesOK, AtStep, Runs, Within, GotoStep, Untouched, RecordingRefused,
      regionVars, threadVars
<1>10. CASE EnterRegion(t)
  BY <1>0, <1>1, <1>10 DEF EnterRegion, PlacesOK, ValuesOK, AtStep, Runs, Within, GotoStep, Untouched, RecordingRefused,
      regionVars, threadVars
<1>11. CASE UserRegionExit(t)
  BY <1>0, <1>1, <1>11 DEF UserRegionExit, PlacesOK, ValuesOK, AtStep, Runs, Within, GotoStep, Untouched, RecordingRefused,
      regionVars, threadVars
<1>12. CASE CheckExit(t)
  BY <1>0, <1>1, <1>12 DEF CheckExit, PlacesOK, ValuesOK, AtStep, Runs, Within, GotoStep, Untouched, RecordingRefused,
      regionVars, threadVars
<1>13. CASE LoadExit(t)
  BY <1>0, <1>1, <1>13 DEF LoadExit, PlacesOK, ValuesOK, AtStep, Runs, Within, GotoStep, Untouched, RecordingRefused,
      regionVars, threadVars
<1>14. CASE StoreExit(t)
  BY <1>0, <1>1, <1>14 DEF StoreExit, PlacesOK, ValuesOK, AtStep, Runs, Within, GotoStep, Untouched, RecordingRefused,
      regionVars, threadVars
<1>15. CASE TestExit(t)
  BY <1>0, <1>1, <1>15 DEF TestExit, PlacesOK, ValuesOK, ThreadsOK, SwitchOK, InParallel, DisableRecording, AtStep, Runs, Within, GotoStep, Untouched, RecordingRefused,
      regionVars, threadVars
<1>16. CASE ClearHasEnabled(t)
  BY <1>0, <1>1, <1>16 DEF ClearHasEnabled, PlacesOK, ValuesOK, AtStep, Runs, Within, GotoStep, Untouched, RecordingRefused,
      regionVars, threadVars
<1>17. CASE Advance(t)
  BY <1>0, <1>1, <1>17 DEF Advance, PlacesOK, ValuesOK, AtStep, Runs, Within, GotoStep, Untouched, RecordingRefused,
      regionVars, threadVars
<1> QED BY <1>0, <1>2, <1>3, <1>4, <1>5, <1>6, <1>7, <1>8, <1>9, <1>10, <1>11, <1>12, <1>13, <1>14, <1>15, <1>16, <1>17 DEF RecordingStep

AfterCount == {"enter", "check_exit", "load_exit", "store_exit", "test_exit"}

(* What the steps do to the calls in question. *)
LEMMA CallsAre ==
  ASSUME ValuesOK, MainThread \in ProgramThreads
  PROVE  /\ Calls = IF pc[MainThread] \in AfterCount THEN Append(open[MainThread], arg[MainThread])
                     ELSE open[MainThread]
         /\ open[MainThread] \in Seq(UserRegions) /\ Calls \in Seq(UserRegions)
         /\ pc[MainThread] # "idle" => arg[MainThread] \in UserRegions
BY AppendProperties DEF Calls, AfterCount, ValuesOK

(* The calls in question, the counts and the marks stay. *)
LEMMA ExitsKept ==
  ASSUME Calls' = Calls, UNCHANGED <<exits, hasEnabled>>, pc[MainThread] # "test_exit", pc'[MainThread] # "test_exit",
         pc[MainThread] # "clear", NEW r \in UserRegions, ExitsCounted(r)
  PROVE  ExitsCounted(r)'
<1>1. ASSUME NEW p, CountedFrom(p, r) PROVE CountedFrom(p, r)'
  BY <1>1 DEF CountedFrom
<1> QED BY <1>1 DEF ExitsCounted, Clears

(* No region is open more often than it was entered. *)
LEMMA EntersStep ==
  ASSUME RecordingAssumption, ValuesOK, ValuesOK', Serial, SwitchOK, NEW t \in ProgramThreads, RecordingStep(t),
         NEW r \in UserRegions, EntersCounted(r)
  PROVE  EntersCounted(r)'
<1> DEFINE M == MainThread
<1>0. /\ t = M /\ M \in ProgramThreads /\ ~SwitchOn(t) /\ ~SwitchOff(t)
  BY SerialStep
<1>1. /\ open[M] \in Seq(UserRegions) /\ Count(open[M], 1, r) \in Nat /\ entered[r] \in Nat
  <2>1. open[M] \in Seq(UserRegions) /\ entered[r] \in Nat
    BY <1>0 DEF ValuesOK
  <2>2. Len(open[M]) \in Nat
    BY <2>1, LenProperties
  <2>3. 1 \in 1 .. Len(open[M]) + 1
    BY <2>2
  <2> HIDE DEF M
  <2>4. Count(open[M], 1, r) \in Nat
    BY <2>1, <2>3, CountOfAppend
  <2> QED BY <2>1, <2>4
<1>2. CASE UserRegionEnter(t)
  <2>1. /\ pc[M] = "idle" /\ pc'[M] = "check_enter" /\ open' = open
        /\ \E s \in UserRegions : arg'[M] = s /\ entered' = [entered EXCEPT ![s] = @ + 1]
    BY <1>0, <1>2 DEF UserRegionEnter, ValuesOK, AtStep, Runs, Within, GotoStep, Untouched, RecordingRefused,
      regionVars, threadVars
  <2>2. entered'[r] = entered[r] + (IF arg'[M] = r THEN 1 ELSE 0)
    <3>1. PICK s \in UserRegions : arg'[M] = s /\ entered' = [entered EXCEPT ![s] = @ + 1]
      BY <2>1
    <3>2. DOMAIN entered = UserRegions
      BY DEF ValuesOK
    <3>3. CASE s = r
      BY <1>1, <3>1, <3>2, <3>3
    <3>4. CASE s # r
      BY <1>1, <3>1, <3>2, <3>4
    <3> QED BY <3>3, <3>4
  <2>3. Count(open[M], 1, r) <= entered[r]
    BY <1>1, <2>1 DEF EntersCounted, Counting
  <2> QED BY <1>1, <2>1, <2>2, <2>3 DEF EntersCounted, Counting
<1>3. CASE CheckEnterCounts(t) \/ CheckEnterEnables(t) \/ CheckEnterDoesNotCount(t) \/ LoadEnters(t) \/ StoreEnters(t) \/ LoadExits(t) \/ StoreExits(t)
  <2>1. /\ pc[M] \in Counting /\ pc'[M] \in Counting /\ UNCHANGED <<open, arg, entered>>
    BY <1>0, <1>3 DEF CheckEnterCounts, CheckEnterEnables, CheckEnterDoesNotCount, LoadEnters, StoreEnters, LoadExits, StoreExits, Counting, ValuesOK,
      AtStep, Runs, Within, GotoStep, Untouched, RecordingRefused,
      regionVars, threadVars
  <2> QED BY <1>1, <2>1 DEF EntersCounted
<1>4. CASE EnterRegion(t)
  <2>1. /\ pc[M] = "enter" /\ pc'[M] = "idle" /\ open'[M] = Append(open[M], arg[M])
        /\ UNCHANGED <<arg, entered>> /\ arg[M] \in UserRegions
    BY <1>0, <1>4 DEF EnterRegion, ValuesOK, AtStep, Runs, Within, GotoStep, Untouched, RecordingRefused,
      regionVars, threadVars
  <2>2. Count(open'[M], 1, r) = Count(open[M], 1, r) + (IF arg[M] = r THEN 1 ELSE 0)
    <3>1. 1 \in 1 .. Len(open[M]) + 1
      BY <1>1, LenProperties
    <3>2. Count(Append(open[M], arg[M]), 1, r) = Count(open[M], 1, r) + (IF arg[M] = r THEN 1 ELSE 0)
      BY <1>1, <2>1, <3>1, CountOfAppend
    <3> QED BY <2>1, <3>2
  <2> QED BY <1>1, <2>1, <2>2 DEF EntersCounted, Counting
<1>5. CASE UserRegionExit(t)
  <2>1. /\ pc[M] = "idle" /\ pc'[M] = "check_exit" /\ open'[M] = Front(open[M]) /\ open[M] # << >>
        /\ UNCHANGED entered
    BY <1>0, <1>5 DEF UserRegionExit, MayExit, ValuesOK, AtStep, Runs, Within, GotoStep, Untouched, RecordingRefused,
      regionVars, threadVars
  <2>2. /\ Front(open[M]) \in Seq(UserRegions) /\ Last(open[M]) \in UserRegions
        /\ Append(Front(open[M]), Last(open[M])) = open[M]
    BY <1>1, <2>1, LastCall
  <2>3. /\ Count(open[M], 1, r) = Count(Front(open[M]), 1, r) + (IF Last(open[M]) = r THEN 1 ELSE 0)
        /\ Count(Front(open[M]), 1, r) \in Nat
    <3>1. 1 \in 1 .. Len(Front(open[M])) + 1
      BY <2>2, LenProperties
    <3>2. PICK f \in Seq(UserRegions), l \in UserRegions : f = Front(open[M]) /\ l = Last(open[M])
      BY <2>2
    <3>3. /\ Count(Append(f, l), 1, r) = Count(f, 1, r) + (IF l = r THEN 1 ELSE 0)
          /\ Count(f, 1, r) \in Nat
      BY <3>1, <3>2, CountOfAppend
    <3> QED BY <2>2, <3>2, <3>3
  <2> QED BY <1>1, <2>1, <2>3 DEF EntersCounted, Counting
<1>6. CASE CheckExit(t) \/ LoadExit(t) \/ StoreExit(t) \/ TestExit(t) \/ ClearHasEnabled(t)
  <2>1. /\ pc'[M] \notin Counting /\ pc[M] \notin Counting /\ UNCHANGED <<open, entered>>
    <3>1. CASE CheckExit(t) \/ LoadExit(t) \/ StoreExit(t)
      <4>1. CASE CheckExit(t)
        BY <1>0, <4>1 DEF CheckExit, Counting, ValuesOK, AtStep, GotoStep, Untouched
      <4>2. CASE LoadExit(t)
        BY <1>0, <4>2 DEF LoadExit, Counting, ValuesOK, AtStep, GotoStep, Untouched
      <4>3. CASE StoreExit(t)
        BY <1>0, <4>3 DEF StoreExit, Counting, ValuesOK, AtStep, GotoStep, Untouched
      <4> QED BY <3>1, <4>1, <4>2, <4>3
    <3>2. CASE TestExit(t)
      BY <1>0, <3>2 DEF TestExit, Counting, ValuesOK, AtStep, GotoStep, Untouched, regionVars
    <3>3. CASE ClearHasEnabled(t)
      BY <1>0, <3>3 DEF ClearHasEnabled, Counting, ValuesOK, AtStep, GotoStep, Untouched
    <3> QED BY <1>6, <3>1, <3>2, <3>3
  <2> QED BY <1>1, <2>1 DEF EntersCounted
<1>7. CASE Advance(t)
  <2>1. /\ pc[M] = "advance" /\ UNCHANGED <<open, entered>> /\ pc'[M] \in {"crashed", "idle"}
    BY <1>0, <1>7 DEF Advance, ValuesOK, AtStep, Runs, Within, GotoStep, Untouched, RecordingRefused,
      regionVars, threadVars
  <2> QED BY <1>1, <2>1 DEF EntersCounted, Counting
<1> QED BY <1>0, <1>2, <1>3, <1>4, <1>5, <1>6, <1>7 DEF RecordingStep

(* A call of another region is added to the calls in question, or taken    *)
(* off them.                                                               *)
LEMMA OtherCall ==
  ASSUME NEW s \in Seq(UserRegions), NEW x \in UserRegions, NEW r, x # r
  PROVE  /\ \A p \in 1 .. Len(s) : Append(s, x)[p] = s[p] /\ Count(Append(s, x), p, r) = Count(s, p, r)
         /\ \A p \in 1 .. Len(Append(s, x)) : Append(s, x)[p] = r => p \in 1 .. Len(s)
         /\ Len(Append(s, x)) = Len(s) + 1 /\ Len(s) \in Nat
<1>1. /\ Len(s) \in Nat /\ Len(Append(s, x)) = Len(s) + 1
      /\ \A p \in 1 .. Len(s) : Append(s, x)[p] = s[p]
      /\ Append(s, x)[Len(s) + 1] = x
  BY AppendProperties, LenProperties
<1>2. ASSUME NEW p \in 1 .. Len(s) PROVE Count(Append(s, x), p, r) = Count(s, p, r)
  <2>1. p \in 1 .. Len(s) + 1
    BY <1>1
  <2>2. Count(Append(s, x), p, r) = Count(s, p, r) + 0 /\ Count(s, p, r) \in Nat
    BY <2>1, CountOfAppend
  <2> QED BY <2>2
<1>3. ASSUME NEW p \in 1 .. Len(Append(s, x)), Append(s, x)[p] = r PROVE p \in 1 .. Len(s)
  BY <1>1, <1>3
<1> QED BY <1>1, <1>2, <1>3

(* Nothing is counted behind the end. *)
LEMMA CountBehind ==
  ASSUME NEW S, NEW s \in Seq(S), NEW r
  PROVE  Count(s, Len(s) + 1, r) = 0
<1>1. Len(s) \in Nat
  BY LenProperties
<1>2. Places(s, Len(s) + 1, r) = {}
  BY <1>1 DEF Places
<1> QED BY <1>2, FS_EmptySet DEF Count, Places

(* A selected region's own call is taken up into the count. *)
LEMMA OwnCall ==
  ASSUME NEW s \in Seq(UserRegions), NEW x \in UserRegions
  PROVE  /\ \A p \in 1 .. Len(s) + 1 : Count(s, p, x) \in Nat /\ Count(Append(s, x), p, x) = Count(s, p, x) + 1
         /\ \A p \in 1 .. Len(s) : Append(s, x)[p] = s[p]
         /\ Append(s, x)[Len(s) + 1] = x /\ Len(Append(s, x)) = Len(s) + 1 /\ Len(s) \in Nat
<1>1. /\ Len(s) \in Nat /\ Len(Append(s, x)) = Len(s) + 1
      /\ \A p \in 1 .. Len(s) : Append(s, x)[p] = s[p]
      /\ Append(s, x)[Len(s) + 1] = x
  BY AppendProperties, LenProperties
<1>2. \A p \in 1 .. Len(s) + 1 : Count(s, p, x) \in Nat /\ Count(Append(s, x), p, x) = Count(s, p, x) + 1
  BY CountOfAppend
<1> QED BY <1>1, <1>2

(* The count of exits to come stays the number of open calls of its        *)
(* region, from the one that switched recording on.                        *)
LEMMA ExitsStep ==
  ASSUME RecordingAssumption, ValuesOK, ValuesOK', ThreadsOK, EnablerOK, Serial, SwitchOK, PlacesOK,
         NEW t \in ProgramThreads, RecordingStep(t),
         \A s \in UserRegions : EntersCounted(s), NEW r \in UserRegions, ExitsCounted(r)
  PROVE  ExitsCounted(r)'
<1> DEFINE M == MainThread
           calls == open[M]
           x == arg[M]
<1>0. /\ t = M /\ M \in ProgramThreads /\ ~SwitchOn(t) /\ ~SwitchOff(t) /\ ~InParallel(M) /\ forkDepth = NotForked
  BY SerialStep DEF SwitchOK
<1>1. /\ calls \in Seq(UserRegions) /\ Calls \in Seq(UserRegions) /\ (pc[M] # "idle" => x \in UserRegions)
      /\ Calls = IF pc[M] \in AfterCount THEN Append(calls, x) ELSE calls
      /\ Calls' = IF pc'[M] \in AfterCount THEN Append(open'[M], arg'[M]) ELSE open'[M]
  BY <1>0, CallsAre DEF Calls, AfterCount
<1>2. hasEnabled[r] => \A s \in UserRegions : hasEnabled[s] => s = r
  BY DEF EnablerOK, EnablerUnique
<1>3. CASE UserRegionEnter(t) \/ CheckEnterCounts(t) \/ LoadEnters(t) \/ LoadExits(t) \/ LoadExit(t)
  <2>1. /\ UNCHANGED <<open, exits, hasEnabled>> /\ pc[M] \notin {"clear", "test_exit"} /\ pc'[M] # "test_exit"
        /\ (pc[M] \in AfterCount <=> pc'[M] \in AfterCount) /\ (pc[M] \in AfterCount => arg' = arg)
    <3>1. CASE UserRegionEnter(t) \/ CheckEnterCounts(t)
      <4>1. CASE UserRegionEnter(t)
        BY <1>0, <4>1 DEF UserRegionEnter, AfterCount, ValuesOK, AtStep, GotoStep, Untouched, regionVars
      <4>2. CASE CheckEnterCounts(t)
        BY <1>0, <4>2 DEF CheckEnterCounts, AfterCount, ValuesOK, AtStep, GotoStep, Untouched, regionVars
      <4> QED BY <3>1, <4>1, <4>2
    <3>2. CASE LoadEnters(t)
      BY <1>0, <3>2 DEF LoadEnters, AfterCount, ValuesOK,
        AtStep, Runs, Within, GotoStep, Untouched, RecordingRefused,
        regionVars, threadVars
    <3>3. CASE LoadExits(t) \/ LoadExit(t)
      <4>1. CASE LoadExits(t)
        BY <1>0, <4>1 DEF LoadExits, AfterCount, ValuesOK, AtStep, GotoStep, Untouched, regionVars
      <4>2. CASE LoadExit(t)
        BY <1>0, <4>2 DEF LoadExit, AfterCount, ValuesOK, AtStep, GotoStep, Untouched, regionVars
      <4> QED BY <3>3, <4>1, <4>2
    <3> QED BY <1>3, <3>1, <3>2, <3>3
  <2> QED BY <1>1, <2>1, ExitsKept
<1>4. CASE CheckEnterEnables(t)
  <2>1. /\ pc[M] = "check_enter" /\ pc'[M] = "enter" /\ UNCHANGED <<open, arg>> /\ x \in UserRegions
        /\ exits' = [exits EXCEPT ![x] = 1] /\ hasEnabled' = [hasEnabled EXCEPT ![x] = TRUE]
        /\ ~recordingEnabled
    BY <1>0, <1>1, <1>4 DEF CheckEnterEnables, ValuesOK, AtStep, Runs, Within, GotoStep, Untouched, RecordingRefused,
      regionVars, threadVars
  <2>2. \A s \in UserRegions : ~hasEnabled[s]
    BY <1>0, <1>4, <2>1, MainOnly DEF EnablerOK, EnablerUnique, CheckEnterEnables, AtStep
  <2>3. CASE r # x
    BY <2>1, <2>2, <2>3 DEF ExitsCounted
  <2>4. CASE r = x
    <3>1. Calls' = Append(calls, x)
      BY <1>1, <2>1 DEF AfterCount
    <3>2. /\ Count(Append(calls, x), Len(calls) + 1, x) = 1 /\ Len(calls) + 1 \in 1 .. Len(Append(calls, x))
          /\ Append(calls, x)[Len(calls) + 1] = x
      <4>1. calls \in Seq(UserRegions) /\ x \in UserRegions
        BY <1>1, <2>1
      <4> HIDE DEF calls, x
      <4>2. Append(calls, x) \in Seq(UserRegions) /\ Len(calls) \in Nat
            /\ Len(Append(calls, x)) = Len(calls) + 1 /\ Append(calls, x)[Len(calls) + 1] = x
        BY <4>1, AppendProperties, LenProperties
      <4>3. Count(Append(calls, x), Len(calls) + 1, x) = 1
        BY <4>1, OwnCall, CountBehind
      <4> QED BY <4>2, <4>3
    <3>3. exits'[r] = 1
      BY <2>1, <2>4 DEF ValuesOK
    <3> QED BY <2>1, <2>4, <3>1, <3>2, <3>3 DEF ExitsCounted, CountedFrom
  <2> QED BY <2>3, <2>4
<1>5. CASE CheckEnterDoesNotCount(t) \/ StoreEnters(t)
  <2>1. /\ UNCHANGED <<open, arg, exits, hasEnabled>> /\ x \in UserRegions
        /\ pc[M] \in {"check_enter", "store_enters", "store_both"} /\ pc'[M] \in {"enter", "load_exits"}
        /\ pc'[M] = "enter" => ~hasEnabled[x]
    BY <1>0, <1>1, <1>5 DEF CheckEnterDoesNotCount, StoreEnters, PlacesOK, SwitchOK, ValuesOK,
      AtStep, Runs, Within, GotoStep, Untouched, RecordingRefused,
      regionVars, threadVars
  <2>2. CASE pc'[M] # "enter"
    <3>1. Calls' = Calls
      BY <1>1, <2>1, <2>2 DEF AfterCount
    <3> QED BY <2>1, <3>1, ExitsKept
  <2>3. CASE pc'[M] = "enter" /\ hasEnabled[r]
    <3>1. /\ Calls = calls /\ Calls' = Append(calls, x) /\ r # x
      BY <1>1, <2>1, <2>3 DEF AfterCount
    <3>2. PICK p \in 1 .. Len(calls) : CountedFrom(p, r)
      BY <2>1, <2>3, <3>1 DEF ExitsCounted, Clears
    <3>3. /\ Append(calls, x)[p] = calls[p] /\ Count(Append(calls, x), p, r) = Count(calls, p, r)
          /\ p \in 1 .. Len(Append(calls, x))
      BY <1>1, <2>1, <3>1, OtherCall
    <3>4. CountedFrom(p, r)'
      BY <2>1, <2>3, <3>1, <3>2, <3>3 DEF CountedFrom
    <3> QED BY <3>1, <3>3, <3>4 DEF ExitsCounted
  <2> QED BY <2>1, <2>2, <2>3 DEF ExitsCounted
<1>6. CASE EnterRegion(t)
  <2>1. /\ UNCHANGED <<arg, exits, hasEnabled>> /\ pc[M] = "enter" /\ pc'[M] = "idle" /\ open'[M] = Append(calls, x)
    BY <1>0, <1>6 DEF EnterRegion, ValuesOK, AtStep, Runs, Within, GotoStep, Untouched, RecordingRefused,
      regionVars, threadVars
  <2>2. Calls' = Calls
    BY <1>1, <2>1 DEF AfterCount
  <2> QED BY <2>1, <2>2, ExitsKept
<1>7. CASE UserRegionExit(t)
  <2>1. /\ UNCHANGED <<exits, hasEnabled>> /\ pc[M] = "idle" /\ pc'[M] = "check_exit"
        /\ open'[M] = Front(calls) /\ calls # << >> /\ arg'[M] = Last(calls)
    BY <1>0, <1>7 DEF UserRegionExit, MayExit, ValuesOK, AtStep, Runs, Within, GotoStep, Untouched, RecordingRefused,
      regionVars, threadVars
  <2>2. Calls' = Calls
    BY <1>1, <2>1, LastCall DEF AfterCount
  <2> QED BY <2>1, <2>2, ExitsKept
<1>8. CASE StoreExits(t)
  <2>1. /\ UNCHANGED <<open, arg, hasEnabled>> /\ x \in UserRegions /\ hasEnabled[x] /\ reg[M] = exits[x]
        /\ pc[M] = "store_exits" /\ pc'[M] = "enter" /\ exits' = [exits EXCEPT ![x] = (reg[M] + 1) % Word]
    BY <1>0, <1>1, <1>8 DEF StoreExits, PlacesOK, ValuesOK, AtStep, Runs, Within, GotoStep, Untouched, RecordingRefused,
      regionVars, threadVars
  <2>2. /\ Calls = calls /\ Calls' = Append(calls, x)
    BY <1>1, <2>1 DEF AfterCount
  <2>3. CASE hasEnabled[r]
    <3>1. r = x
      BY <1>2, <2>1, <2>3
    <3>2. PICK p \in 1 .. Len(calls) : calls[p] = x /\ exits[x] = Count(calls, p, x)
      <4>1. PICK p \in 1 .. Len(calls) : CountedFrom(p, r)
        BY <2>1, <2>2, <2>3 DEF ExitsCounted, Clears
      <4>2. Count(calls, p, x) \in Nat /\ calls[p] = x
        BY <1>1, <2>1, <2>2, <3>1, <4>1, OwnCall DEF CountedFrom
      <4>3. exits[x] = Count(calls, p, x)
        BY <2>1, <2>2, <3>1, <4>1, <4>2 DEF CountedFrom
      <4> QED BY <4>2, <4>3
    <3>3. /\ Count(calls, p, x) + 1 = Count(Append(calls, x), p, x) /\ p \in 1 .. Len(Append(calls, x))
          /\ Append(calls, x)[p] = x
      BY <1>1, <2>1, <3>2, OwnCall
    <3>4. exits'[x] = exits[x] + 1
      <4>1. Count(calls, p, x) <= Count(calls, 1, x) /\ Count(calls, 1, x) \in Nat /\ Count(calls, p, x) \in Nat
        BY <1>1, <3>2, CountBounds
      <4>2. Count(calls, 1, x) + 1 <= entered[x]
        BY <2>1 DEF EntersCounted, Counting
      <4>3. entered[x] \in Nat /\ entered[x] <= MaxCalls /\ MaxCalls \in Nat /\ MaxCalls <= Word - 1 /\ Word \in Nat \ {0}
        <5>1. entered[x] \in 0 .. MaxCalls /\ MaxCalls \in 0 .. Word - 1 /\ Word \in Nat \ {0}
          BY <2>1, WordPositive DEF ValuesOK
        <5> QED BY <5>1
      <4>4. reg[M] + 1 \in Nat /\ reg[M] + 1 < Word
        BY <2>1, <3>2, <4>1, <4>2, <4>3
      <4>5. (reg[M] + 1) % Word = reg[M] + 1
        BY <4>3, <4>4, ModWord
      <4> QED BY <2>1, <4>5 DEF ValuesOK
    <3>5. /\ Calls'[p] = x /\ exits'[x] = Count(Calls', p, x) /\ Count(Calls', p, x) \in Nat
          /\ pc'[M] # "test_exit"
      <4>1. Count(calls, p, x) \in Nat
        BY <1>1, <2>1, <3>2, OwnCall
      <4> QED BY <2>1, <2>2, <3>2, <3>3, <3>4, <4>1
    <3>6. CountedFrom(p, r)'
      BY <3>1, <3>5 DEF CountedFrom
    <3> QED BY <2>2, <3>3, <3>6 DEF ExitsCounted
  <2> QED BY <2>1, <2>3 DEF ExitsCounted
<1>9. CASE CheckExit(t)
  <2>1. /\ UNCHANGED <<open, arg, exits, hasEnabled>> /\ x \in UserRegions
        /\ pc[M] = "check_exit" /\ pc'[M] = IF hasEnabled[x] THEN "load_exit" ELSE "idle"
    BY <1>0, <1>1, <1>9 DEF CheckExit, ValuesOK, AtStep, Runs, Within, GotoStep, Untouched, RecordingRefused,
      regionVars, threadVars
  <2>2. CASE hasEnabled[x]
    <3>1. Calls' = Calls
      BY <1>1, <2>1, <2>2 DEF AfterCount
    <3> QED BY <2>1, <3>1, ExitsKept
  <2>3. CASE ~hasEnabled[x] /\ hasEnabled[r]
    <3>1. Calls = Append(calls, x) /\ Calls' = calls /\ r # x
      BY <1>1, <2>1, <2>3 DEF AfterCount
    <3>2. PICK p \in 1 .. Len(Append(calls, x)) : CountedFrom(p, r)
      BY <2>1, <2>3, <3>1 DEF ExitsCounted, Clears
    <3>3. p \in 1 .. Len(calls)
      BY <1>1, <2>1, <3>1, <3>2, OtherCall DEF CountedFrom
    <3>4. Append(calls, x)[p] = calls[p] /\ Count(Append(calls, x), p, r) = Count(calls, p, r)
      BY <1>1, <2>1, <3>1, <3>3, OtherCall
    <3>5. CountedFrom(p, r)'
      BY <2>1, <2>3, <3>1, <3>2, <3>4 DEF CountedFrom
    <3> QED BY <3>1, <3>3, <3>5 DEF ExitsCounted
  <2> QED BY <2>1, <2>2, <2>3 DEF ExitsCounted
<1>10. CASE StoreExit(t)
  <2>1. /\ UNCHANGED <<open, arg, hasEnabled>> /\ x \in UserRegions /\ hasEnabled[x] /\ reg[M] = exits[x]
        /\ pc[M] = "store_exit" /\ pc'[M] = "test_exit" /\ exits' = [exits EXCEPT ![x] = (reg[M] + Word - 1) % Word]
    BY <1>0, <1>1, <1>10 DEF StoreExit, PlacesOK, ThreadsOK, ValuesOK, AtStep, Runs, Within, GotoStep, Untouched, RecordingRefused,
      regionVars, threadVars
  <2>2. /\ Calls = Append(calls, x) /\ Calls' = Calls
    BY <1>1, <2>1 DEF AfterCount
  <2>3. CASE hasEnabled[r]
    <3>1. r = x
      BY <1>2, <2>1, <2>3
    <3>2. PICK p \in 1 .. Len(Calls) : CountedFrom(p, r)
      BY <2>1, <2>3 DEF ExitsCounted, Clears
    <3>3. Calls[p] = x /\ exits[x] = Count(Calls, p, x) /\ exits[x] >= 1
      <4>1. Calls[p] = x
        BY <3>1, <3>2 DEF CountedFrom
      <4>2. Count(Calls, p, x) \in 1 .. Count(Calls, 1, x) /\ Count(Calls, 1, x) \in Nat
        BY <1>1, <4>1, CountBounds
      <4> QED BY <2>1, <3>1, <3>2, <4>1, <4>2 DEF CountedFrom
    <3>4. exits'[x] = exits[x] - 1
      <4>1. exits[x] \in 0 .. Word - 1 /\ Word \in Nat \ {0}
        BY <2>1, WordPositive DEF ValuesOK
      <4>2. (exits[x] + Word - 1) % Word = exits[x] - 1
        <5> DEFINE n == exits[x]
                   w == Word
        <5>1. n \in 1 .. w - 1 /\ w \in Nat \ {0}
          BY <3>3, <4>1
        <5> HIDE DEF n, w
        <5>2. (n + w - 1) % w = n - 1
          BY <5>1, ModBack
        <5> QED BY <5>2 DEF n, w
      <4> QED BY <2>1, <4>2 DEF ValuesOK
    <3>5. CountedFrom(p, r)'
      BY <2>1, <2>2, <3>1, <3>3, <3>4 DEF CountedFrom
    <3> QED BY <2>2, <3>5 DEF ExitsCounted
  <2> QED BY <2>1, <2>3 DEF ExitsCounted
<1>11. CASE TestExit(t)
  <2>1. /\ UNCHANGED <<open, arg, exits, hasEnabled>> /\ x \in UserRegions /\ hasEnabled[x]
        /\ pc[M] = "test_exit" /\ pc'[M] = IF exits[x] = 0 THEN "clear" ELSE "idle"
    BY <1>0, <1>1, <1>11 DEF TestExit, ThreadsOK, ValuesOK, AtStep, Runs, Within, GotoStep, Untouched, RecordingRefused,
      regionVars, threadVars
  <2>2. CASE hasEnabled[r]
    <3>1. r = x
      BY <1>2, <2>1, <2>2
    <3>2. CASE exits[x] = 0
      BY <2>1, <3>1, <3>2 DEF ExitsCounted, Clears
    <3>3. CASE exits[x] # 0
      <4>1. Calls = Append(calls, x) /\ Calls' = calls
        BY <1>1, <2>1, <3>3 DEF AfterCount
      <4>2. PICK p \in 1 .. Len(Append(calls, x)) : CountedFrom(p, r)
        BY <2>1, <2>2, <4>1 DEF ExitsCounted, Clears
      <4>3. /\ Count(calls, p, x) \in Nat /\ Count(Append(calls, x), p, x) = Count(calls, p, x) + 1
            /\ Len(calls) \in Nat /\ Len(Append(calls, x)) = Len(calls) + 1
            /\ p \in 1 .. Len(calls) => Append(calls, x)[p] = calls[p]
        BY <1>1, <2>1, OwnCall
      <4>4. exits[x] = Count(calls, p, x) /\ Append(calls, x)[p] = x
        BY <2>1, <3>1, <4>1, <4>2, <4>3 DEF CountedFrom
      <4>5. p # Len(calls) + 1
        BY <1>1, <3>3, <4>4, CountBehind
      <4>6. p \in 1 .. Len(calls) /\ calls[p] = x
        BY <4>3, <4>4, <4>5
      <4>7. CountedFrom(p, r)'
        BY <2>1, <3>1, <3>3, <4>1, <4>3, <4>4, <4>6 DEF CountedFrom
      <4> QED BY <4>1, <4>6, <4>7 DEF ExitsCounted
    <3> QED BY <3>2, <3>3
  <2> QED BY <2>1, <2>2 DEF ExitsCounted
<1>12. CASE ClearHasEnabled(t)
  <2>1. /\ UNCHANGED <<open, arg, exits>> /\ x \in UserRegions /\ hasEnabled' = [hasEnabled EXCEPT ![x] = FALSE]
        /\ pc[M] = "clear" /\ pc'[M] = "advance"
    BY <1>0, <1>1, <1>12 DEF ClearHasEnabled, ValuesOK, AtStep, Runs, Within, GotoStep, Untouched, RecordingRefused,
      regionVars, threadVars
  <2>2. Calls' = Calls
    BY <1>1, <2>1 DEF AfterCount
  <2>3. CASE r # x
    <3>1. ASSUME NEW p, CountedFrom(p, r) PROVE CountedFrom(p, r)'
      BY <2>1, <2>2, <3>1 DEF CountedFrom
    <3> QED BY <2>1, <2>2, <2>3, <3>1 DEF ExitsCounted, Clears, ValuesOK
  <2> QED BY <2>1, <2>3 DEF ExitsCounted, ValuesOK
<1>13. CASE Advance(t)
  <2>1. /\ UNCHANGED <<open, exits, hasEnabled>> /\ pc[M] = "advance" /\ pc'[M] \in {"idle", "crashed"}
    BY <1>0, <1>13 DEF Advance, ValuesOK, AtStep, Runs, Within, GotoStep, Untouched, RecordingRefused,
      regionVars, threadVars
  <2>2. Calls' = Calls
    BY <1>1, <2>1 DEF AfterCount
  <2> QED BY <2>1, <2>2, ExitsKept
<1> QED BY <1>0, <1>3, <1>4, <1>5, <1>6, <1>7, <1>8, <1>9, <1>10, <1>11, <1>12, <1>13 DEF RecordingStep

-----------------------------------------------------------------------------
(* The invariant holds always.                                             *)

(* The invariant holds at the beginning. *)
LEMMA RecordingInitially ==
  ASSUME RecordingAssumption, RecordingInit
  PROVE  RecordingIInv
<1>1. ValuesOK
  <2>1. << >> \in Seq(UserRegions)
    OBVIOUS
  <2> QED BY <2>1, WordPositive DEF RecordingInit, ValuesOK, Steps
<1>2. ThreadsOK /\ EnablerOK
  BY DEF RecordingInit, ThreadsOK, EnablerOK, EnablerUnique, ProgramThreads
<1>3. ExitsOK
  BY DEF RecordingInit, ExitsOK, SwitchOK, PlacesOK, ProgramThreads
<1> QED BY <1>1, <1>2, <1>3 DEF RecordingIInv

(* The program and its configuration stay. *)
LEMMA SetupStays ==
  ASSUME [RecordingNext]_recordingVars
  PROVE  recording_setup' = recording_setup /\ (Serial' <=> Serial)
<1>1. recording_setup' = recording_setup
  BY DEF RecordingNext, recordingVars, RecordingStop, ParseFile, InitMeasurement, Fork, Join, Finalize, RecordingStep,
    UserRegionEnter, CheckEnterCounts, CheckEnterEnables, CheckEnterDoesNotCount, LoadEnters, StoreEnters, LoadExits,
    StoreExits, EnterRegion, UserRegionExit, CheckExit, LoadExit, StoreExit, TestExit, ClearHasEnabled, Advance,
    SwitchOn, SwitchOff, Untouched
<1> QED BY <1>1 DEF Serial, Selective, DefaultMode, Switching

(* The counts stay right in every step of a serial program. *)
LEMMA ExitsNext ==
  ASSUME RecordingAssumption, NoMixing, ValuesOK, ThreadsOK, EnablerOK, ValuesOK', Serial, ExitsOK,
         [RecordingNext]_recordingVars
  PROVE  ExitsOK'
<1>1. CASE UNCHANGED recordingVars \/ RecordingStop
  <2>1. UNCHANGED <<phase, recordingEnabled, forkDepth, open, selected, exits, hasEnabled, pc, arg, reg, entered>>
    BY <1>1 DEF RecordingStop, recordingVars, regionVars, threadVars
  <2> QED BY <2>1 DEF ExitsOK, SwitchOK, PlacesOK, EntersCounted, ExitsCounted, CountedFrom, Calls, Clears
<1>2. ASSUME NEW r \in UserRegions, ParseFile(r) PROVE ExitsOK'
  <2>1. /\ phase = "PRE"
        /\ UNCHANGED <<phase, recordingEnabled, forkDepth, open, selected, exits, hasEnabled, pc, arg, reg, entered>>
    BY <1>2 DEF ParseFile, threadVars
  <2> QED BY <2>1 DEF ExitsOK, SwitchOK, PlacesOK
<1>3. CASE InitMeasurement
  <2>1. /\ phase = "PRE" /\ recordingEnabled' = DefaultMode
        /\ UNCHANGED <<forkDepth, open, regionVars, threadVars, entered>>
    BY <1>3 DEF InitMeasurement
  <2>2. /\ MainThread \in ProgramThreads /\ pc[MainThread] = "idle" /\ open[MainThread] = << >>
        /\ \A r \in UserRegions : ~hasEnabled[r]
    BY <2>1 DEF ThreadsOK, ProgramThreads
  <2>3. ~recordingEnabled'
    BY <2>1 DEF Serial, Selective
  <2>4. \A r \in UserRegions : Count(<< >>, 1, r) = 0
    <3>1. << >> \in Seq(UserRegions) /\ Len(<< >>) + 1 = 1
      OBVIOUS
    <3>2. \A r : Count(<< >>, Len(<< >>) + 1, r) = 0
      BY <3>1, CountBehind
    <3> QED BY <3>1, <3>2
  <2>5. ASSUME NEW r \in UserRegions PROVE EntersCounted(r)' /\ ExitsCounted(r)'
    <3>1. entered'[r] \in Nat
      BY <2>1, WordPositive DEF ValuesOK
    <3>2. Count(open'[MainThread], 1, r) = 0 /\ pc'[MainThread] \notin Counting
      BY <2>1, <2>2, <2>4 DEF threadVars, Counting
    <3> QED BY <2>1, <2>2, <3>1, <3>2 DEF EntersCounted, ExitsCounted, regionVars, threadVars
  <2> QED BY <2>1, <2>2, <2>3, <2>5 DEF ExitsOK, SwitchOK, PlacesOK, regionVars, threadVars
<1>4. CASE Fork \/ Join
  <2>1. /\ UNCHANGED <<phase, recordingEnabled, open, regionVars, threadVars, entered>>
        /\ forkDepth' = NotForked
    BY <1>4 DEF Fork, Join, Serial
  <2> QED BY <2>1 DEF ExitsOK, SwitchOK, PlacesOK, EntersCounted, ExitsCounted, CountedFrom, Calls, Clears, regionVars,
    threadVars
<1>5. CASE Finalize
  <2>1. /\ phase' = "POST" /\ UNCHANGED <<forkDepth, regionVars, threadVars, entered>> /\ pc[MainThread] = "idle"
    BY <1>5 DEF Finalize, AtStep
  <2> QED BY <2>1 DEF ExitsOK, SwitchOK, PlacesOK, regionVars, threadVars
<1>6. ASSUME NEW t \in ProgramThreads, RecordingStep(t) PROVE ExitsOK'
  <2>1. phase = "WITHIN"
    BY <1>6, SerialStep DEF ExitsOK
  <2>2. SwitchOK' /\ PlacesOK'
    BY <1>6, SwitchStep, PlacesStep DEF ExitsOK
  <2>3. \A r \in UserRegions : EntersCounted(r)'
    BY <1>6, <2>1, EntersStep DEF ExitsOK
  <2>4. \A r \in UserRegions : ExitsCounted(r)'
    BY <1>6, <2>1, ExitsStep DEF ExitsOK
  <2> QED BY <2>2, <2>3, <2>4 DEF ExitsOK
<1> QED BY <1>1, <1>2, <1>3, <1>4, <1>5, <1>6 DEF RecordingNext

(* The invariant holds in every state. *)
LEMMA RecordingAlways ==
  ASSUME NoMixing
  PROVE  RecordingSpec => []RecordingIInv
<1>1. RecordingInit => RecordingIInv
  BY RecordingInitially, RecordingAssumption
<1>2. RecordingIInv /\ [RecordingNext]_recordingVars => RecordingIInv'
  BY RecordingAssumption, ValuesNext, EnablerNext, ExitsNext, SetupStays DEF RecordingIInv
<1> QED BY <1>1, <1>2, PTL DEF RecordingSpec

(* In a program that leaves the switching to selective recording, it       *)
(* always knows the one region recording is on for, whose exits to come    *)
(* are positive, for any number of threads and regions, any file, and      *)
(* calls of any depth (scorep_selective_region.c).                         *)
THEOREM OneEnabler ==
  ASSUME NoMixing
  PROVE  RecordingSpec => []EnablerKnown
<1>1. RecordingIInv => EnablerKnown
  <2> SUFFICES ASSUME RecordingIInv PROVE EnablerKnown
    OBVIOUS
  <2>1. EnablerUnique
    BY DEF RecordingIInv, EnablerOK
  <2>2. OnlyWithinSelected
    <3> SUFFICES ASSUME Serial, phase = "WITHIN", BetweenCalls, recordingEnabled
                 PROVE  \E r \in UserRegions : hasEnabled[r] /\ exits[r] > 0 /\ EnabledInside(r)
      BY DEF OnlyWithinSelected, Serial
    <3>1. pc[MainThread] = "idle" /\ ValuesOK /\ ExitsOK /\ MainThread \in ProgramThreads
      BY DEF BetweenCalls, ProgramThreads, RecordingIInv
    <3>2. PICK r \in UserRegions : hasEnabled[r]
      BY <3>1 DEF ExitsOK, SwitchOK
    <3>3. Calls = open[MainThread] /\ open[MainThread] \in Seq(UserRegions)
      BY <3>1 DEF Calls, ValuesOK
    <3>4. PICK p \in 1 .. Len(open[MainThread]) : CountedFrom(p, r)
      BY <3>1, <3>2, <3>3 DEF ExitsOK, ExitsCounted, Clears
    <3>5. open[MainThread][p] = r
      BY <3>3, <3>4 DEF CountedFrom
    <3>6. Count(open[MainThread], p, r) \in 1 .. Count(open[MainThread], 1, r) /\ Count(open[MainThread], 1, r) \in Nat
      BY <3>3, <3>5, CountBounds
    <3>7. exits[r] > 0
      BY <3>1, <3>3, <3>4, <3>6 DEF CountedFrom
    <3>8. EnabledInside(r)
      BY <3>3, <3>5, LenProperties DEF EnabledInside
    <3> QED BY <3>2, <3>7, <3>8
  <2> QED BY <2>1, <2>2 DEF EnablerKnown
<1> QED BY <1>1, RecordingAlways, PTL

(* From the fork to the join of a parallel region recording is neither     *)
(* switched on nor off: all of its threads read the same table of          *)
(* substrates (SCOREP_RuntimeManagement.c, SCOREP_EnableRecording).        *)
THEOREM NeverSwitchedInParallel == RecordingSpec => NoSwitchInParallel
<1>1. RecordingInit => NotForkedYet
  BY DEF RecordingInit, NotForkedYet
<1>2. NotForkedYet /\ [RecordingNext]_recordingVars => NotForkedYet'
  <2> SUFFICES ASSUME NotForkedYet, [RecordingNext]_recordingVars PROVE NotForkedYet'
    OBVIOUS
  <2>1. CASE UNCHANGED recordingVars
    BY <2>1 DEF recordingVars, NotForkedYet
  <2>2. CASE RecordingStop \/ InitMeasurement \/ Join \/ Finalize \/ \E r \in UserRegions : ParseFile(r)
    BY <2>2 DEF RecordingStop, recordingVars, InitMeasurement, Join, Finalize, ParseFile, NotForkedYet
  <2>3. CASE Fork
    BY <2>3 DEF Fork, AtStep, Runs, Within, NotForkedYet
  <2>4. ASSUME NEW t \in ProgramThreads, RecordingStep(t) PROVE NotForkedYet'
    BY <2>4 DEF NotForkedYet, RecordingStep, UserRegionEnter, CheckEnterCounts, CheckEnterEnables,
      CheckEnterDoesNotCount, LoadEnters, StoreEnters, LoadExits, StoreExits, EnterRegion, UserRegionExit, CheckExit,
      LoadExit, StoreExit, TestExit, ClearHasEnabled, Advance, SwitchOn, SwitchOff, Untouched
  <2> QED BY <2>1, <2>2, <2>3, <2>4 DEF RecordingNext
<1>3. NotForkedYet /\ [RecordingNext]_recordingVars
        => [forkDepth # NotForked => recordingEnabled' = recordingEnabled]_recordingVars
  BY NotSwitched
<1> QED BY <1>1, <1>2, <1>3, PTL DEF RecordingSpec, NoSwitchInParallel
-----------------------------------------------------------------------------
(* Which selected instances are recorded.                                  *)
(* The intervals are kept as lists, in the order of their first instances. *)
ListsInOrder == Sorted /\ \A r \in UserRegions : intervals[r] \in Seq(Intervals[r])

(* MainThread is at one of these places of a call of r.                    *)
In(r, places) == pc[MainThread] \in places /\ arg[MainThread] = r
Entering == {"load_enters", "store_enters", "load_both", "store_both", "load_exits", "store_exits", "enter"}
Uncounted == {"check_enter", "load_enters", "store_enters", "load_both", "store_both"}

Selected(r, instance) == \E i \in Intervals[r] : i.first <= instance /\ instance <= i.last

(* While the region is selected, its enters are counted.                   *)
EntersExact(r) == selected[r] => enters[r] = entered[r] - (IF In(r, Uncounted) THEN 1 ELSE 0)

(* A selected instance is entered with recording on, or the interval that  *)
(* is looked at was over before it.                                        *)
Passed(r, instance) ==
  selected[r] /\ index[r] \in 1 .. Len(intervals[r]) /\ intervals[r][index[r]].last < instance
Judged(r) ==
  In(r, Entering) /\ Selected(r, entered[r] - 1) => recordingEnabled \/ Passed(r, entered[r] - 1)

(* A selection is dropped when all intervals are over.                     *)
DroppedOver(r) ==
  ~selected[r] => \A i \in Intervals[r] : i.last < entered[r] - (IF In(r, {"check_enter"}) THEN 1 ELSE 0)

(* The intervals before the current one are over.                          *)
CurrentInterval(r) ==
  selected[r] =>
    /\ index[r] \in 1 .. Len(intervals[r])
    /\ \A j \in 1 .. index[r] - 1 : intervals[r][j].last < enters[r]

(* With a plain selection the current interval is not over, unless         *)
(* recording is on for it, or the next one is being looked for.            *)
NotOver(r) ==
  selected[r] /\ PlainSelection =>
    /\ ~hasEnabled[r] /\ ~In(r, {"advance"}) => enters[r] <= intervals[r][index[r]].last
    /\ In(r, {"load_enters", "store_enters"}) => enters[r] < intervals[r][index[r]].first

ChecksSelected ==
  /\ pc[MainThread] \in {"load_both", "store_both", "load_enters", "store_enters", "advance"} => selected[arg[MainThread]]
  /\ pc[MainThread] \in {"store_both", "store_enters"} => reg[MainThread] = enters[arg[MainThread]]

IndexOK(r) == 
  /\ Range(intervals[r]) = Intervals[r] /\ EntersExact(r) /\ Judged(r) /\ DroppedOver(r)
  /\ CurrentInterval(r) /\ NotOver(r)

NothingCounted ==
  \A r \in UserRegions : index[r] = 1 /\ enters[r] = 0 /\ entered[r] = 0 /\ (selected[r] <=> Intervals[r] # {})

IndicesOK ==
  /\ phase = "PRE" => NothingCounted
  /\ Serial /\ phase = "WITHIN" /\ ListsInOrder =>
       ChecksSelected /\ \A r \in UserRegions : IndexOK(r)

(* What the list of a region's intervals is like: r's first and last       *)
(* instances are numbers, and later intervals start later.                 *)
LEMMA IntervalsOfList ==
  ASSUME RecordingAssumption, ValuesOK, ListsInOrder, NEW r \in UserRegions,
         Range(intervals[r]) = Intervals[r]
  PROVE  /\ Len(intervals[r]) \in Nat
         /\ \A j \in 1 .. Len(intervals[r]) :
              /\ intervals[r][j] \in Intervals[r]
              /\ intervals[r][j].first \in Nat /\ intervals[r][j].last \in Nat
              /\ PlainSelection => intervals[r][j].first <= intervals[r][j].last
         /\ \A i \in Intervals[r] : \E j \in 1 .. Len(intervals[r]) : i = intervals[r][j]
         /\ \A j, k \in 1 .. Len(intervals[r]) : j <= k => intervals[r][j].first <= intervals[r][k].first
<1>1. /\ Len(intervals[r]) \in Nat /\ DOMAIN intervals[r] = 1 .. Len(intervals[r])
      /\ \A j \in 1 .. Len(intervals[r]) : intervals[r][j] \in Intervals[r]
  BY LenProperties, ElementOfSeq DEF ListsInOrder
<1>2. \A i \in Intervals[r] : i.first \in Nat /\ i.last \in Nat /\ (PlainSelection => i.first <= i.last)
  BY WordPositive DEF ValuesOK, PlainSelection
<1>3. \A i \in Intervals[r] : \E j \in 1 .. Len(intervals[r]) : i = intervals[r][j]
  BY <1>1 DEF Range
<1>4. \A j, k \in 1 .. Len(intervals[r]) : j <= k => intervals[r][j].first <= intervals[r][k].first
  <2>1. \A j, k \in 1 .. Len(intervals[r]) : j < k => intervals[r][j].first <= intervals[r][k].first
    BY <1>1 DEF ListsInOrder, Sorted
  <2> QED BY <1>1, <1>2, <2>1
<1> QED BY <1>1, <1>2, <1>3, <1>4

(* A set of numbers that is not empty has a least one.                     *)
LEMMA LeastOne ==
  ASSUME NEW T, T \subseteq Nat, T # {}
  PROVE  Min(T) \in T /\ \A y \in T : Min(T) <= y
<1>1. PICK x \in T : \A y \in T : ~ (<<y, x>> \in OpToRel(<, Nat))
  BY NatLessThanWellFounded, WFMin
<1>2. \A y \in T : x <= y
  <2> SUFFICES ASSUME NEW y \in T PROVE ~(y < x)
    OBVIOUS
  <2>1. ~ (<<y, x>> \in OpToRel(<, Nat))
    BY <1>1
  <2>2. <<y, x>> \in Nat \X Nat /\ <<y, x>>[1] = y /\ <<y, x>>[2] = x
    OBVIOUS
  <2> QED BY <2>1, <2>2, Zenon DEF OpToRel
<1> QED BY <1>1, <1>2 DEF Min

(* The steps that change neither counts nor selections, nor switch         *)
(* recording within a call.                                                *)
LEMMA IndexKept ==
  ASSUME UNCHANGED <<recording_setup, intervals, selected, index, enters, entered>>, NEW r \in UserRegions, IndexOK(r),
         hasEnabled'[r] = hasEnabled[r], recordingEnabled' = recordingEnabled,
         In(r, Uncounted)' <=> In(r, Uncounted), In(r, {"check_enter"})' <=> In(r, {"check_enter"}),
         In(r, {"advance"})' <=> In(r, {"advance"}), In(r, {"load_enters", "store_enters"})' => In(r, {"load_enters", "store_enters"}),
         In(r, Entering)' => In(r, Entering)
  PROVE  IndexOK(r)'
<1>1. EntersExact(r)' /\ DroppedOver(r)' /\ Judged(r)'
  BY DEF IndexOK, EntersExact, DroppedOver, Judged, Passed, Selected, Intervals
<1>2. CurrentInterval(r)' /\ NotOver(r)'
  BY DEF IndexOK, CurrentInterval, NotOver, PlainSelection, Intervals
<1> QED BY <1>1, <1>2 DEF IndexOK, Intervals

(* With a plain selection, a program that leaves the switching to        *)
(* selective recording has recording on only for that region.              *)
LEMMA OnForIt ==
  ASSUME ValuesOK, EnablerOK, SwitchOK, PlainSelection, phase = "WITHIN", recordingEnabled,
         NEW r \in UserRegions, Intervals[r] # {}
  PROVE  hasEnabled[r]
<1>1. PICK s \in UserRegions : hasEnabled[s]
  BY DEF SwitchOK
<1>2. Intervals[s] # {}
  BY <1>1 DEF EnablerOK
<1> QED BY <1>1, <1>2 DEF PlainSelection

(* A step of the program keeps what is known about the current interval of *)
(* a selected region.                                                      *)
LEMMA IndexStep ==
  ASSUME RecordingAssumption, ValuesOK, ValuesOK', ThreadsOK, EnablerOK, Serial, ListsInOrder,
         SwitchOK, PlacesOK, ChecksSelected, NEW t \in ProgramThreads, RecordingStep(t),
         NEW r \in UserRegions, Intervals[r] # {}, IndexOK(r)
  PROVE  IndexOK(r)'
<1> DEFINE M == MainThread  x == arg[M]
<1>0. /\ t = M /\ M \in ProgramThreads /\ ~InParallel(M) /\ ~SwitchOn(t) /\ ~SwitchOff(t) /\ phase = "WITHIN"
  BY SerialStep
<1>1. pc[M] # "idle" => x \in UserRegions
  BY <1>0 DEF ValuesOK
<1>2. /\ Word \in Nat \ {0, 1} /\ MaxCalls \in 0 .. Word - 1
      /\ enters[r] \in 0 .. Word - 1 /\ entered[r] \in 0 .. MaxCalls
  BY WordPositive DEF ValuesOK
<1>3. \A i \in Intervals[r] : i.first \in Nat /\ i.last \in Nat
  <2>1. Intervals[r] \subseteq [first : Nat, last : Nat]
    BY WordPositive DEF ValuesOK
  <2> QED BY <2>1
<1>14. PlainSelection' <=> PlainSelection
  <2>1. recording_setup' = recording_setup
    BY SerialStep
  <2> QED BY <2>1 DEF PlainSelection, Intervals
<1>4. CASE UserRegionEnter(t)
  <2>1. PICK s \in UserRegions : /\ entered' = [entered EXCEPT ![s] = @ + 1] /\ arg'[M] = s
                               /\ pc[M] = "idle" /\ pc'[M] = "check_enter"
                               /\ UNCHANGED <<recording_setup, recordingEnabled, regionVars>>
    BY <1>0, <1>4 DEF UserRegionEnter, ValuesOK, AtStep, Runs, Within, GotoStep, Untouched, RecordingRefused, regionVars, threadVars
  <2>2. CASE s # r
    <3>1. entered'[r] = entered[r]
      BY <2>1, <2>2 DEF ValuesOK
    <3> QED BY <1>14, <2>1, <2>2, <3>1 DEF IndexOK, EntersExact, DroppedOver, Judged, Passed, Selected, Intervals, CurrentInterval, NotOver, In,
          Uncounted, Entering, regionVars
  <2>3. CASE s = r
    <3>1. entered'[r] = entered[r] + 1
      BY <2>1, <2>3 DEF ValuesOK
    <3>2. EntersExact(r)' /\ DroppedOver(r)' /\ Judged(r)'
      BY <1>2, <1>3, <2>1, <2>3, <3>1 DEF IndexOK, EntersExact, DroppedOver, Judged, Intervals, In, Uncounted, Entering,
          regionVars
    <3>3. CurrentInterval(r)' /\ NotOver(r)'
      BY <1>14, <2>1 DEF IndexOK, CurrentInterval, NotOver, Intervals, In, regionVars
    <3> QED BY <2>1, <3>2, <3>3 DEF IndexOK, Intervals, regionVars
  <2> QED BY <2>2, <2>3
<1>5. CASE CheckEnterCounts(t)
  <2>1. /\ pc[M] = "check_enter" /\ selected[x] /\ (hasEnabled[x] \/ recordingEnabled \/ ~InInterval(x))
        /\ pc'[M] = (IF hasEnabled[x] THEN "load_both" ELSE "load_enters") /\ arg'[M] = x
        /\ UNCHANGED <<recording_setup, recordingEnabled, regionVars, entered>>
    BY <1>0, <1>5 DEF CheckEnterCounts, ValuesOK, AtStep, Runs, Within, GotoStep, Untouched, RecordingRefused, regionVars, threadVars
  <2>2. CASE x # r
    BY <2>1, <2>2, IndexKept DEF In, regionVars
  <2>3. CASE x = r /\ hasEnabled[r]
    <3>1. recordingEnabled
      BY <1>0, <2>1, <2>3 DEF EnablerOK, EnablerUnique, ThreadsOK, SwitchOK, ProgramThreads
    <3> QED BY <1>14, <2>1, <2>3, <3>1 DEF IndexOK, EntersExact, DroppedOver, Judged, Passed, Intervals, CurrentInterval, NotOver, In,
          Uncounted, Entering, regionVars
  <2>4. CASE x = r /\ ~hasEnabled[r]
    <3>1. enters[r] = entered[r] - 1
      BY <2>1, <2>4 DEF IndexOK, EntersExact, In, Uncounted
    <3>2. /\ index[r] \in 1 .. Len(intervals[r])
          /\ \A j \in 1 .. index[r] - 1 : intervals[r][j].last < enters[r]
          /\ PlainSelection => enters[r] <= intervals[r][index[r]].last
      BY <2>1, <2>4 DEF IndexOK, CurrentInterval, NotOver, In
    <3>3. /\ Len(intervals[r]) \in Nat
          /\ intervals[r][index[r]].first \in Nat /\ intervals[r][index[r]].last \in Nat
      BY <3>2, IntervalsOfList DEF IndexOK
    <3>4. ASSUME recordingEnabled PROVE Judged(r)' /\ NotOver(r)'
      <4>1. ~PlainSelection
        BY <1>0, <2>4, <3>4, OnForIt
      <4>2. Judged(r)' /\ NotOver(r)'
        BY <1>14, <2>1, <3>4, <4>1 DEF Judged, NotOver, Intervals
      <4> QED BY <4>2
    <3>5. ASSUME ~recordingEnabled, intervals[r][index[r]].last < enters[r]
          PROVE  Judged(r)' /\ NotOver(r)'
      <4>1. Passed(r, entered[r] - 1)
        BY <2>1, <2>4, <3>1, <3>2, <3>5 DEF Passed
      <4>2. ~PlainSelection
        <5>1. enters[r] \in Nat
          BY <1>2
        <5> QED BY <3>2, <3>3, <3>5, <5>1
      <4>3. Judged(r)' /\ NotOver(r)'
        BY <1>14, <2>1, <4>1, <4>2 DEF Judged, Passed, NotOver, Intervals, regionVars
      <4> QED BY <4>3
    <3>6. ASSUME ~recordingEnabled, ~(intervals[r][index[r]].last < enters[r])
          PROVE  Judged(r)' /\ NotOver(r)'
      <4>1. ~InInterval(r)
        BY <2>1, <2>4, <3>6
      <4>2. enters[r] < intervals[r][index[r]].first
        <5>1. enters[r] \in Nat
          BY <1>2
        <5>2. enters[r] <= intervals[r][index[r]].last
          BY <3>3, <3>6, <5>1
        <5>3. ~(enters[r] >= intervals[r][index[r]].first)
          BY <4>1, <5>2 DEF InInterval
        <5> QED BY <3>3, <5>1, <5>3
      <4>3. ~Selected(r, enters[r])
        <5> SUFFICES ASSUME NEW i \in Intervals[r], i.first <= enters[r], enters[r] <= i.last PROVE FALSE
          BY DEF Selected
        <5>1. PICK j \in 1 .. Len(intervals[r]) : i = intervals[r][j]
          BY IntervalsOfList DEF IndexOK
        <5>2. CASE j < index[r]
          <6>1. index[r] \in Nat /\ j \in Nat /\ 1 <= j
            BY <3>2, <4>2, <5>1
          <6>2. intervals[r][j].last < enters[r]
            BY <3>2, <4>2, <5>2, <6>1
          <6>3. intervals[r][j].last = i.last /\ i.last \in Nat /\ enters[r] \in Nat
            BY <1>2, <1>3, <5>1
          <6> QED BY <6>2, <6>3
        <5>3. CASE index[r] <= j
          <6>1. intervals[r][index[r]].first <= intervals[r][j].first
            BY <3>2, <4>2, <5>3, IntervalsOfList DEF IndexOK
          <6>2. intervals[r][index[r]].first \in Nat
            BY <3>2, <4>2, IntervalsOfList DEF IndexOK
          <6>3. enters[r] < intervals[r][index[r]].first /\ enters[r] \in Nat
            BY <1>2, <3>2, <4>2
          <6>4. intervals[r][j].first = i.first /\ i.first \in Nat
            BY <1>3, <5>1
          <6> QED BY <6>1, <6>2, <6>3, <6>4
        <5>4. index[r] \in Nat /\ j \in Nat
          BY <3>2, <4>2, <5>1
        <5> QED BY <5>2, <5>3, <5>4
      <4>4. Judged(r)'
        BY <2>1, <3>1, <4>3 DEF Judged, Selected, Intervals
      <4>5. NotOver(r)'
        BY <1>14, <2>1, <2>4, <3>2, <4>2 DEF NotOver, Intervals, In, regionVars
      <4> QED BY <4>4, <4>5
    <3>7. EntersExact(r)' /\ DroppedOver(r)'
      BY <2>1, <2>4 DEF IndexOK, EntersExact, DroppedOver, Intervals, In, Uncounted, regionVars
    <3>8. CurrentInterval(r)'
      BY <2>1, <3>2 DEF CurrentInterval, regionVars
    <3>9. Judged(r)' /\ NotOver(r)'
      BY <3>4, <3>5, <3>6
    <3> QED BY <2>1, <3>7, <3>8, <3>9 DEF IndexOK, Intervals, regionVars
  <2> QED BY <2>2, <2>3, <2>4
<1>6. CASE CheckEnterEnables(t)
  <2>1. /\ pc[M] = "check_enter" /\ selected[x] /\ pc'[M] = "enter" /\ arg'[M] = x
        /\ recordingEnabled' = TRUE
        /\ enters' = [enters EXCEPT ![x] = (@ + 1) % Word] /\ hasEnabled' = [hasEnabled EXCEPT ![x] = TRUE]
        /\ UNCHANGED <<recording_setup, intervals, selected, index, entered>>
    BY <1>0, <1>6 DEF CheckEnterEnables, EnableRecording, ValuesOK, AtStep, Runs, Within, GotoStep, Untouched, RecordingRefused, regionVars, threadVars
  <2>2. CASE x # r
    <3>1. enters'[r] = enters[r] /\ hasEnabled'[r] = hasEnabled[r]
      BY <1>1, <2>1, <2>2 DEF ValuesOK
    <3> QED BY <1>14, <2>1, <2>2, <3>1 DEF IndexOK, EntersExact, DroppedOver, Judged, Passed, Intervals, CurrentInterval, NotOver, In,
          Uncounted, Entering
  <2>3. CASE x = r
    <3>1. enters[r] = entered[r] - 1
      BY <2>1, <2>3 DEF IndexOK, EntersExact, In, Uncounted
    <3>2. enters'[r] = enters[r] + 1 /\ hasEnabled'[r]
      <4>1. enters[r] + 1 \in Nat /\ enters[r] + 1 < Word /\ Word \in Nat \ {0}
        BY <1>2, <3>1
      <4>2. (enters[r] + 1) % Word = enters[r] + 1
        BY <4>1, ModWord
      <4> QED BY <2>1, <2>3, <4>2 DEF ValuesOK
    <3>3. EntersExact(r)' /\ DroppedOver(r)' /\ Judged(r)'
      BY <1>2, <2>1, <2>3, <3>1, <3>2 DEF EntersExact, DroppedOver, Judged, In, Uncounted
    <3>4. CurrentInterval(r)'
      <4>0. /\ Len(intervals[r]) \in Nat
            /\ \A j \in 1 .. Len(intervals[r]) : intervals[r][j].last \in Nat
        BY IntervalsOfList DEF IndexOK
      <4>1. /\ index[r] \in 1 .. Len(intervals[r]) /\ Len(intervals[r]) \in Nat
            /\ \A j \in 1 .. index[r] - 1 : intervals[r][j].last < enters[r] /\ intervals[r][j].last \in Nat
        BY <2>1, <2>3, <4>0 DEF IndexOK, CurrentInterval
      <4>2. \A j \in 1 .. index[r] - 1 : intervals[r][j].last < enters[r] + 1
        <5> SUFFICES ASSUME NEW j \in 1 .. index[r] - 1 PROVE intervals[r][j].last < enters[r] + 1
          OBVIOUS
        <5>1. intervals[r][j].last < enters[r] /\ intervals[r][j].last \in Nat
          BY <4>1
        <5>2. enters[r] \in Nat
          BY <1>2
        <5> QED BY <5>1, <5>2
      <4> QED BY <2>1, <3>2, <4>1, <4>2 DEF CurrentInterval
    <3>5. NotOver(r)'
      BY <2>1, <3>2 DEF NotOver, In
    <3> QED BY <2>1, <3>3, <3>4, <3>5 DEF IndexOK, Intervals
  <2> QED BY <2>2, <2>3
<1>7. CASE CheckEnterDoesNotCount(t)
  <2>1. /\ pc[M] = "check_enter" /\ ~selected[x] /\ pc'[M] = "enter" /\ arg'[M] = x
        /\ UNCHANGED <<recording_setup, recordingEnabled, regionVars, entered>>
    BY <1>0, <1>7 DEF CheckEnterDoesNotCount, ValuesOK, AtStep, Runs, Within, GotoStep, Untouched, RecordingRefused, regionVars, threadVars
  <2>2. CASE x # r
    BY <2>1, <2>2, IndexKept DEF In, regionVars
  <2>3. CASE x = r
    <3>1. \A i \in Intervals[r] : i.last < entered[r] - 1
      BY <2>1, <2>3 DEF IndexOK, DroppedOver, In
    <3>2. Judged(r)' /\ DroppedOver(r)'
      BY <1>2, <1>3, <2>1, <2>3, <3>1 DEF Judged, Selected, DroppedOver, In, Intervals
    <3>3. EntersExact(r)' /\ CurrentInterval(r)' /\ NotOver(r)'
      BY <2>1, <2>3 DEF EntersExact, CurrentInterval, NotOver, regionVars
    <3> QED BY <2>1, <3>2, <3>3 DEF IndexOK, Intervals, regionVars
  <2> QED BY <2>2, <2>3
<1>8. CASE LoadEnters(t) \/ LoadExits(t) \/ StoreExits(t) \/ EnterRegion(t) \/ CheckExit(t) \/ LoadExit(t) \/ StoreExit(t)
  <2>1. /\ arg'[M] = x /\ UNCHANGED <<recording_setup, recordingEnabled, intervals, selected, index, enters, hasEnabled, entered>>
        /\ (pc[M] \in Uncounted) <=> (pc'[M] \in Uncounted)
        /\ pc[M] # "check_enter" /\ pc'[M] # "check_enter" /\ pc[M] # "advance" /\ pc'[M] # "advance"
        /\ (pc'[M] \in {"load_enters", "store_enters"} => pc[M] \in {"load_enters", "store_enters"})
        /\ (pc'[M] \in Entering => pc[M] \in Entering)
    <3>1. pc[M] \in Steps /\ DOMAIN pc = ProgramThreads /\ DOMAIN arg = ProgramThreads
      BY <1>0 DEF ValuesOK
    <3>2. CASE LoadEnters(t)
      BY <1>0, <3>1, <3>2 DEF LoadEnters, Uncounted, Entering, AtStep, GotoStep, Untouched, RecordingRefused, regionVars, threadVars
    <3>3. CASE LoadExits(t)
      BY <1>0, <3>1, <3>3 DEF LoadExits, Uncounted, Entering, AtStep, GotoStep, Untouched, RecordingRefused, regionVars, threadVars
    <3>4. CASE StoreExits(t)
      BY <1>0, <3>1, <3>4 DEF StoreExits, Uncounted, Entering, AtStep, GotoStep, Untouched, RecordingRefused, regionVars, threadVars
    <3>5. CASE EnterRegion(t)
      BY <1>0, <3>1, <3>5 DEF EnterRegion, Uncounted, Entering, AtStep, GotoStep, Untouched, RecordingRefused, regionVars, threadVars
    <3>6. CASE CheckExit(t)
      BY <1>0, <3>1, <3>6 DEF CheckExit, Uncounted, Entering, AtStep, GotoStep, Untouched, RecordingRefused, regionVars, threadVars
    <3>7. CASE LoadExit(t)
      BY <1>0, <3>1, <3>7 DEF LoadExit, Uncounted, Entering, AtStep, GotoStep, Untouched, RecordingRefused, regionVars, threadVars
    <3>8. CASE StoreExit(t)
      BY <1>0, <3>1, <3>8 DEF StoreExit, Uncounted, Entering, AtStep, GotoStep, Untouched, RecordingRefused, regionVars, threadVars
    <3> QED BY <1>8, <3>2, <3>3, <3>4, <3>5, <3>6, <3>7, <3>8
  <2> QED BY <2>1, IndexKept DEF In
<1>9. CASE UserRegionExit(t)
  <2>1. /\ pc[M] = "idle" /\ pc'[M] = "check_exit"
        /\ UNCHANGED <<recording_setup, recordingEnabled, regionVars, entered>>
    BY <1>0, <1>9 DEF UserRegionExit, ValuesOK, AtStep, Runs, Within, GotoStep, Untouched, RecordingRefused, regionVars, threadVars
  <2> QED BY <2>1, IndexKept DEF In, regionVars, Uncounted, Entering
<1>10. CASE StoreEnters(t)
  <2>1. /\ pc[M] \in {"store_enters", "store_both"} /\ arg'[M] = x /\ reg[M] = enters[x] /\ selected[x]
        /\ enters' = [enters EXCEPT ![x] = (enters[x] + 1) % Word]
        /\ pc'[M] = (IF pc[M] = "store_both" THEN "load_exits" ELSE "enter")
        /\ UNCHANGED <<recording_setup, recordingEnabled, intervals, selected, index, hasEnabled, entered>>
    BY <1>0, <1>10 DEF StoreEnters, ChecksSelected, ValuesOK, AtStep, Runs, Within, GotoStep, Untouched, RecordingRefused, regionVars, threadVars
  <2>2. CASE x # r
    <3>1. enters'[r] = enters[r]
      BY <1>1, <2>1, <2>2 DEF ValuesOK
    <3> QED BY <1>14, <2>1, <2>2, <3>1 DEF IndexOK, EntersExact, DroppedOver, Judged, Passed, Intervals, CurrentInterval, NotOver, In,
          Uncounted, Entering
  <2>3. CASE x = r
    <3>1. enters[r] = entered[r] - 1
      BY <2>1, <2>3 DEF IndexOK, EntersExact, In, Uncounted
    <3>2. enters'[r] = enters[r] + 1
      <4>1. enters[r] + 1 \in Nat /\ enters[r] + 1 < Word /\ Word \in Nat \ {0}
        BY <1>2, <3>1
      <4>2. (enters[r] + 1) % Word = enters[r] + 1
        BY <4>1, ModWord
      <4> QED BY <2>1, <2>3, <4>2 DEF ValuesOK
    <3>3. EntersExact(r)' /\ DroppedOver(r)'
      BY <1>2, <2>1, <2>3, <3>1, <3>2 DEF EntersExact, DroppedOver, In, Uncounted
    <3>4. Judged(r)'
      BY <2>1, <2>3 DEF IndexOK, Judged, Passed, Selected, In, Entering, Intervals
    <3>5. CurrentInterval(r)'
      <4>1. /\ Len(intervals[r]) \in Nat
            /\ \A j \in 1 .. Len(intervals[r]) : intervals[r][j].last \in Nat
        BY IntervalsOfList DEF IndexOK
      <4>2. /\ index[r] \in 1 .. Len(intervals[r])
            /\ \A j \in 1 .. index[r] - 1 : intervals[r][j].last < enters[r] /\ intervals[r][j].last \in Nat
        BY <2>1, <2>3, <4>1 DEF IndexOK, CurrentInterval
      <4>3. \A j \in 1 .. index[r] - 1 : intervals[r][j].last < enters[r] + 1
        <5> SUFFICES ASSUME NEW j \in 1 .. index[r] - 1 PROVE intervals[r][j].last < enters[r] + 1
          OBVIOUS
        <5>1. intervals[r][j].last < enters[r] /\ intervals[r][j].last \in Nat
          BY <4>2
        <5>2. enters[r] \in Nat
          BY <1>2
        <5> QED BY <5>1, <5>2
      <4> QED BY <2>1, <3>2, <4>2, <4>3 DEF CurrentInterval
    <3>6. NotOver(r)'
      <4>1. CASE hasEnabled[r] \/ ~PlainSelection
        BY <1>14, <2>1, <4>1 DEF NotOver, Intervals, In
      <4>2. CASE ~hasEnabled[r] /\ PlainSelection
        <5>1. pc[M] = "store_enters"
          BY <2>1, <2>3, <4>2 DEF PlacesOK
        <5>2. PICK first, last : first = intervals[r][index[r]].first /\ last = intervals[r][index[r]].last
          OBVIOUS
        <5>3. enters[r] < first
          BY <2>1, <2>3, <4>2, <5>1, <5>2 DEF IndexOK, NotOver, In
        <5>4. index[r] \in 1 .. Len(intervals[r])
          BY <2>1, <2>3 DEF IndexOK, CurrentInterval
        <5>5. first \in Nat /\ last \in Nat /\ first <= last
          BY <4>2, <5>2, <5>4, IntervalsOfList DEF IndexOK
        <5>6. enters[r] + 1 <= last
          <6>1. enters[r] \in Nat
            BY <1>2
          <6> QED BY ONLY <5>3, <5>5, <6>1
        <5> QED BY <2>1, <3>2, <5>2, <5>6 DEF NotOver, In
      <4> QED BY <4>1, <4>2
    <3> QED BY <2>1, <3>3, <3>4, <3>5, <3>6 DEF IndexOK, Intervals
  <2> QED BY <2>2, <2>3
<1>11. CASE TestExit(t)
  <2>1. /\ pc[M] = "test_exit" /\ pc'[M] \in {"clear", "idle"} /\ arg'[M] = x
        /\ UNCHANGED <<recording_setup, regionVars, entered>>
    BY <1>0, <1>11 DEF TestExit, ValuesOK, AtStep, Runs, Within, GotoStep, Untouched, RecordingRefused, regionVars, threadVars
  <2> QED BY <1>14, <2>1 DEF IndexOK, EntersExact, DroppedOver, Judged, Passed, Intervals, CurrentInterval, NotOver, In, Uncounted, Entering,
        regionVars
<1>12. CASE ClearHasEnabled(t)
  <2>1. /\ pc[M] = "clear" /\ pc'[M] = "advance" /\ arg'[M] = x /\ hasEnabled[x]
        /\ hasEnabled' = [hasEnabled EXCEPT ![x] = FALSE]
        /\ UNCHANGED <<recording_setup, intervals, selected, index, enters, entered>>
    BY <1>0, <1>12 DEF ClearHasEnabled, PlacesOK, ValuesOK, AtStep, Runs, Within, GotoStep, Untouched, RecordingRefused, regionVars, threadVars
  <2>2. CASE x # r
    <3>1. hasEnabled'[r] = hasEnabled[r]
      BY <2>1, <2>2 DEF ValuesOK
    <3> QED BY <1>14, <2>1, <2>2, <3>1 DEF IndexOK, EntersExact, DroppedOver, Judged, Passed, Intervals, CurrentInterval, NotOver,
          In, Uncounted, Entering
  <2>3. CASE x = r
    BY <1>14, <2>1, <2>3 DEF IndexOK, EntersExact, DroppedOver, Judged, Passed, Intervals, CurrentInterval, NotOver, In, Uncounted, Entering
  <2> QED BY <2>2, <2>3
<1>13. CASE Advance(t)
  <2> DEFINE ahead == {i \in index[r] .. Len(intervals[r]) : intervals[r][i].last >= enters[r]}
  <2>1. pc[M] = "advance" /\ selected[x]
    BY <1>0, <1>13 DEF Advance, ChecksSelected, AtStep
  <2>2. CASE x # r
    <3>1. /\ pc'[M] \notin Entering /\ pc'[M] \notin Uncounted /\ arg'[M] = x
          /\ selected'[r] = selected[r] /\ index'[r] = index[r]
          /\ UNCHANGED <<recording_setup, recordingEnabled, intervals, enters, hasEnabled, entered>>
      BY <1>0, <1>13, <2>2 DEF Advance, Entering, Uncounted, ValuesOK, AtStep, Runs, Within, GotoStep, Untouched, RecordingRefused, regionVars, threadVars
    <3> QED BY <1>14, <2>1, <2>2, <3>1 DEF IndexOK, EntersExact, DroppedOver, Judged, Passed, Intervals, CurrentInterval, NotOver,
          In, Uncounted, Entering
  <2> SUFFICES ASSUME x = r PROVE IndexOK(r)'
    BY <2>2
  <2>3. /\ pc'[M] = "idle" /\ arg'[M] = x
        /\ index'[r] = IF ahead = {} THEN Len(intervals[r]) ELSE Min(ahead)
        /\ selected'[r] = (ahead # {})
        /\ UNCHANGED <<recording_setup, recordingEnabled, intervals, enters, hasEnabled, entered>>
    BY <1>0, <1>13, <2>1 DEF Advance, ValuesOK, AtStep, Runs, Within, GotoStep, Untouched, RecordingRefused, regionVars, threadVars
  <2>4. enters[r] = entered[r]
    BY <1>2, <2>1 DEF IndexOK, EntersExact, In, Uncounted
  <2>5. /\ index[r] \in 1 .. Len(intervals[r]) /\ Len(intervals[r]) \in Nat
        /\ \A j \in 1 .. index[r] - 1 : intervals[r][j].last < enters[r]
        /\ \A j \in 1 .. Len(intervals[r]) : intervals[r][j].last \in Nat
    BY <2>1, IntervalsOfList DEF IndexOK, CurrentInterval
  <2>6. \A j \in 1 .. Len(intervals[r]) : j \notin ahead => intervals[r][j].last < enters[r]
    BY <1>2, <2>5
  <2>7. ahead \subseteq Nat
    BY <2>5
  <2>8. EntersExact(r)' /\ Judged(r)'
    BY <1>2, <2>3, <2>4 DEF EntersExact, Judged, In, Uncounted, Entering
  <2>9. CASE ahead = {}
    <3>1. \A i \in Intervals[r] : i.last < entered[r]
      BY <2>4, <2>6, <2>9, IntervalsOfList DEF IndexOK
    <3>2. \A i \in Intervals[r] : i.last < entered[r] - 0
      BY <1>2, <3>1
    <3>3. DroppedOver(r)' /\ CurrentInterval(r)' /\ NotOver(r)'
      BY <2>3, <2>9, <3>2 DEF DroppedOver, CurrentInterval, NotOver, In, Intervals
    <3> QED BY <2>3, <2>8, <3>3 DEF IndexOK, Intervals
  <2>10. CASE ahead # {}
    <3>1. index'[r] \in ahead /\ \A y \in ahead : index'[r] <= y
      <4>1. Min(ahead) \in ahead /\ \A y \in ahead : Min(ahead) <= y
        BY <2>7, <2>10, LeastOne
      <4>2. index'[r] = Min(ahead)
        BY <2>3, <2>10
      <4> QED BY <4>1, <4>2
    <3>2. index'[r] \in 1 .. Len(intervals[r]) /\ enters[r] <= intervals[r][index'[r]].last
      BY <1>2, <2>5, <3>1
    <3>3. ASSUME NEW j \in 1 .. index'[r] - 1 PROVE intervals[r][j].last < enters[r]
      <4>1. j \in 1 .. Len(intervals[r]) /\ j \notin ahead
        BY <2>5, <3>1, <3>2
      <4> QED BY <2>6, <4>1
    <3>4. DroppedOver(r)' /\ CurrentInterval(r)' /\ NotOver(r)'
      BY <2>3, <2>10, <3>2, <3>3 DEF DroppedOver, CurrentInterval, NotOver, In
    <3> QED BY <2>3, <2>8, <3>4 DEF IndexOK, Intervals
  <2> QED BY <2>9, <2>10
<1> QED BY <1>0, <1>4, <1>5, <1>6, <1>7, <1>8, <1>9, <1>10, <1>11, <1>12, <1>13 DEF RecordingStep

(* A thread counts an enter, or looks for the next interval, only in a     *)
(* region that is still selected.                                          *)
LEMMA ChecksStep ==
  ASSUME RecordingAssumption, ValuesOK, ValuesOK', ThreadsOK, EnablerOK, Serial, SwitchOK, PlacesOK, ChecksSelected,
         NEW t \in ProgramThreads, RecordingStep(t)
  PROVE  ChecksSelected'
<1>0. t = MainThread /\ MainThread \in ProgramThreads /\ ~SwitchOn(t) /\ ~SwitchOff(t)
  BY SerialStep
<1>1. arg[t] \in UserRegions \/ pc[t] = "idle"
  BY DEF ValuesOK
<1>2. CASE UserRegionEnter(t) \/ CheckEnterEnables(t) \/ CheckEnterDoesNotCount(t) \/ StoreEnters(t) \/ LoadExits(t) \/ StoreExits(t) \/ EnterRegion(t)
             \/ UserRegionExit(t) \/ CheckExit(t) \/ LoadExit(t) \/ StoreExit(t) \/ TestExit(t) \/ Advance(t)
  <2>1. pc'[t] \notin {"load_both", "store_both", "load_enters", "store_enters", "advance"}
    <3>1. DOMAIN pc = ProgramThreads
      BY DEF ValuesOK
    <3>2. CASE UserRegionEnter(t)
      BY <3>1, <3>2 DEF UserRegionEnter, AtStep, GotoStep
    <3>3. CASE CheckEnterEnables(t)
      BY <3>1, <3>3 DEF CheckEnterEnables, AtStep, GotoStep
    <3>4. CASE CheckEnterDoesNotCount(t)
      BY <3>1, <3>4 DEF CheckEnterDoesNotCount, AtStep, GotoStep
    <3>5. CASE StoreEnters(t)
      BY <3>1, <3>5 DEF StoreEnters, AtStep, GotoStep
    <3>6. CASE LoadExits(t)
      BY <3>1, <3>6 DEF LoadExits, AtStep, GotoStep
    <3>7. CASE StoreExits(t)
      BY <3>1, <3>7 DEF StoreExits, AtStep, GotoStep
    <3>8. CASE EnterRegion(t)
      BY <3>1, <3>8 DEF EnterRegion, AtStep, GotoStep
    <3>9. CASE UserRegionExit(t)
      BY <3>1, <3>9 DEF UserRegionExit, AtStep, GotoStep
    <3>10. CASE CheckExit(t)
      BY <3>1, <3>10 DEF CheckExit, AtStep, GotoStep
    <3>11. CASE LoadExit(t)
      BY <3>1, <3>11 DEF LoadExit, AtStep, GotoStep
    <3>12. CASE StoreExit(t)
      BY <3>1, <3>12 DEF StoreExit, AtStep, GotoStep
    <3>13. CASE TestExit(t)
      BY <3>1, <3>13 DEF TestExit, AtStep, GotoStep
    <3>14. CASE Advance(t)
      BY <3>1, <3>14 DEF Advance, AtStep, GotoStep
    <3> QED BY <1>2, <3>2, <3>3, <3>4, <3>5, <3>6, <3>7, <3>8, <3>9, <3>10, <3>11, <3>12, <3>13, <3>14
  <2> QED BY <1>0, <2>1 DEF ChecksSelected
<1>3. CASE CheckEnterCounts(t)
  <2>1. /\ pc'[t] \in {"load_both", "load_enters"} /\ arg'[t] = arg[t] /\ selected[arg[t]] /\ selected' = selected
    BY <1>0, <1>3 DEF CheckEnterCounts, ValuesOK, AtStep, Runs, Within, GotoStep, Untouched, RecordingRefused, regionVars, threadVars
  <2> QED BY <1>0, <2>1 DEF ChecksSelected
<1>4. CASE LoadEnters(t)
  <2>1. /\ pc[t] \in {"load_both", "load_enters"} /\ arg'[t] = arg[t] /\ selected' = selected
        /\ pc'[t] \in {"store_both", "store_enters"} /\ reg'[t] = enters'[arg[t]]
    BY <1>0, <1>4 DEF LoadEnters, ValuesOK, AtStep, Runs, Within, GotoStep, Untouched, RecordingRefused, regionVars, threadVars
  <2> QED BY <1>0, <2>1 DEF ChecksSelected
<1>5. CASE ClearHasEnabled(t)
  <2>1. /\ pc[t] = "clear" /\ pc'[t] = "advance" /\ arg'[t] = arg[t] /\ selected' = selected /\ arg[t] \in UserRegions
    BY <1>0, <1>1, <1>5 DEF ClearHasEnabled, ValuesOK, AtStep, Runs, Within, GotoStep, Untouched, RecordingRefused, regionVars, threadVars
  <2> QED BY <1>0, <2>1 DEF ChecksSelected, SwitchOK, PlacesOK
<1> QED BY <1>0, <1>2, <1>3, <1>4, <1>5 DEF RecordingStep

(* They are kept as long as nothing they speak of changes.                 *)
LEMMA IndicesUntouched ==
  ASSUME UNCHANGED <<recording_setup, phase, recordingEnabled, regionVars, threadVars, entered>>, IndicesOK
  PROVE  IndicesOK'
<1>1. /\ recording_setup' = recording_setup /\ phase' = phase /\ recordingEnabled' = recordingEnabled
      /\ entered' = entered /\ pc' = pc /\ arg' = arg /\ reg' = reg
  BY DEF threadVars
<1>2. /\ intervals' = intervals /\ selected' = selected /\ index' = index /\ enters' = enters
      /\ hasEnabled' = hasEnabled
  BY DEF regionVars
<1>3. Intervals' = Intervals /\ (Serial' <=> Serial)
  BY <1>1 DEF Intervals, Serial, Selective, DefaultMode, Switching
<1>4. PlainSelection' <=> PlainSelection
  BY <1>3 DEF PlainSelection
<1>5. (ListsInOrder' <=> ListsInOrder) /\ (NothingCounted' <=> NothingCounted) /\ (ChecksSelected' <=> ChecksSelected)
  <2>1. ListsInOrder' <=> ListsInOrder
    BY <1>2, <1>3 DEF ListsInOrder, Sorted
  <2>2. NothingCounted' <=> NothingCounted
    BY <1>1, <1>2, <1>3 DEF NothingCounted
  <2>3. ChecksSelected' <=> ChecksSelected
    BY <1>1, <1>2 DEF ChecksSelected
  <2> QED BY <2>1, <2>2, <2>3
<1>6. ASSUME NEW r \in UserRegions, IndexOK(r) PROVE IndexOK(r)'
  <2>1. Range(intervals'[r]) = (Intervals[r])'
    BY <1>2, <1>3, <1>6 DEF IndexOK
  <2>2. EntersExact(r)'
    BY <1>1, <1>2, <1>6 DEF IndexOK, EntersExact, In
  <2>3. Judged(r)'
    BY <1>1, <1>2, <1>3, <1>6 DEF IndexOK, Judged, Passed, Selected, In
  <2>4. DroppedOver(r)'
    BY <1>1, <1>2, <1>3, <1>6 DEF IndexOK, DroppedOver, In
  <2>5. CurrentInterval(r)'
    BY <1>2, <1>6 DEF IndexOK, CurrentInterval
  <2>6. NotOver(r)'
    BY <1>1, <1>2, <1>4, <1>6 DEF IndexOK, NotOver, In
  <2> QED BY <2>1, <2>2, <2>3, <2>4, <2>5, <2>6 DEF IndexOK
<1> QED BY <1>1, <1>3, <1>5, <1>6 DEF IndicesOK

(* So does every other step. *)
LEMMA IndicesNext ==
  ASSUME RecordingAssumption, ValuesOK, ValuesOK', ThreadsOK, EnablerOK, EnablerOK', Serial => ExitsOK,
         IndicesOK, [RecordingNext]_recordingVars
  PROVE  IndicesOK'
<1>0. recording_setup' = recording_setup /\ (Serial' <=> Serial) /\ (PlainSelection' <=> PlainSelection)
  BY SetupStays DEF PlainSelection, Intervals
<1>1. CASE UNCHANGED recordingVars \/ RecordingStop
  <2>1. UNCHANGED recordingVars
    BY <1>1 DEF RecordingStop
  <2> QED BY <2>1, IndicesUntouched DEF recordingVars
<1>2. ASSUME NEW r \in UserRegions, ParseFile(r) PROVE IndicesOK'
  BY <1>0, <1>2 DEF ParseFile, IndicesOK, NothingCounted, Intervals
<1>3. CASE InitMeasurement
  <2>1. /\ phase = "PRE" /\ phase' = "WITHIN" /\ UNCHANGED <<regionVars, threadVars, entered>>
        /\ \A r \in UserRegions : Range(intervals[r]) = Intervals[r]
    BY <1>3 DEF InitMeasurement
  <2>2. MainThread \in ProgramThreads /\ pc'[MainThread] = "idle"
    BY <2>1 DEF ThreadsOK, ProgramThreads, threadVars
  <2>3. ASSUME ListsInOrder', NEW r \in UserRegions PROVE IndexOK(r)'
    <3>1. Range(intervals'[r]) = (Intervals[r])'
      BY <1>0, <2>1 DEF Intervals, regionVars
    <3>2. /\ index'[r] = 1 /\ enters'[r] = 0 /\ entered'[r] = 0 /\ (selected'[r] <=> Intervals[r] # {})
      BY <2>1 DEF IndicesOK, NothingCounted, regionVars
    <3>3. EntersExact(r)' /\ Judged(r)' /\ DroppedOver(r)'
      <4>1. /\ ~In(r, Uncounted)' /\ ~In(r, Entering)' /\ ~In(r, {"check_enter"})'
            /\ (Intervals[r])' = Intervals[r]
        BY <1>0, <2>2 DEF In, Uncounted, Entering, Intervals
      <4>2. Judged(r)'
        BY <4>1 DEF Judged
      <4>3. DroppedOver(r)'
        BY <3>2, <4>1 DEF DroppedOver
      <4>4. EntersExact(r)'
        <5>1. enters'[r] = entered'[r] - 0
          BY <3>2
        <5> QED BY <4>1, <5>1, Zenon DEF EntersExact
      <4> QED BY <4>2, <4>3, <4>4
    <3>4. ASSUME Intervals[r] # {} PROVE Len(intervals[r]) \in Nat /\ 1 <= Len(intervals[r]) /\ intervals[r][1].last \in Nat
      <4>1. Intervals[r] # {} /\ intervals[r] \in Seq(Intervals[r])
        BY <1>0, <2>1, <2>3, <3>4 DEF ListsInOrder, Intervals, regionVars
      <4>2. Len(intervals[r]) \in Nat /\ DOMAIN intervals[r] = 1 .. Len(intervals[r])
        BY <4>1, LenProperties
      <4>3. 1 <= Len(intervals[r])
        BY <2>1, <4>1, <4>2 DEF Range
      <4>4. intervals[r][1] \in Intervals[r]
        BY <4>1, <4>2, <4>3, ElementOfSeq
      <4> QED BY <4>2, <4>3, <4>4, WordPositive DEF ValuesOK
    <3>5. intervals' = intervals /\ ~In(r, {"load_enters", "store_enters"})'
      BY <2>1, <2>2 DEF regionVars, In
    <3>6. CurrentInterval(r)'
      <4>1. ASSUME selected'[r]
            PROVE  index'[r] \in 1 .. Len(intervals'[r]) /\ 1 .. index'[r] - 1 = {}
        BY <3>2, <3>4, <3>5, <4>1
      <4> QED BY <4>1 DEF CurrentInterval
    <3>7. NotOver(r)'
      <4>1. selected'[r] => enters'[r] <= intervals'[r][index'[r]].last
        BY <3>2, <3>4, <3>5
      <4> QED BY <3>5, <4>1 DEF NotOver
    <3> QED BY <3>1, <3>3, <3>6, <3>7 DEF IndexOK
  <2> QED BY <2>1, <2>2, <2>3 DEF IndicesOK, ChecksSelected
<1>4. CASE Fork \/ Join
  <2>1. UNCHANGED <<recording_setup, phase, recordingEnabled, open, regionVars, threadVars, entered>>
    BY <1>4 DEF Fork, Join
  <2> QED BY <2>1, IndicesUntouched
<1>5. CASE Finalize
  BY <1>5 DEF Finalize, IndicesOK
<1>6. ASSUME NEW t \in ProgramThreads, RecordingStep(t) PROVE IndicesOK'
  <2>1. phase = "WITHIN" /\ UNCHANGED <<phase, intervals>>
    BY <1>6 DEF RecordingStep, SwitchOn, SwitchOff, UserRegionEnter, CheckEnterCounts, CheckEnterEnables, CheckEnterDoesNotCount, LoadEnters, StoreEnters, LoadExits, StoreExits, EnterRegion, UserRegionExit, CheckExit, LoadExit, StoreExit, TestExit, ClearHasEnabled, Advance, AtStep, Runs, Within, Untouched, regionVars
  <2>2. ASSUME Serial, ListsInOrder'
        PROVE  ChecksSelected' /\ \A r \in UserRegions : IndexOK(r)'
    <3>1. ListsInOrder /\ ChecksSelected /\ \A r \in UserRegions : IndexOK(r)
      BY <1>0, <2>1, <2>2 DEF IndicesOK, ListsInOrder, Sorted, Intervals
    <3>2. ExitsOK
      BY <2>2
    <3>3. ChecksSelected'
      BY <1>6, <2>2, <3>1, <3>2, ChecksStep DEF ExitsOK
    <3>4. ASSUME NEW r \in UserRegions PROVE IndexOK(r)'
      <4>1. CASE Intervals[r] # {}
        BY <1>6, <2>2, <3>1, <3>2, <4>1, IndexStep DEF ExitsOK
      <4>2. CASE Intervals[r] = {}
        <5>1. (Intervals[r])' = {} /\ Range(intervals'[r]) = (Intervals[r])'
          BY <1>0, <2>1, <3>1, <4>2 DEF Intervals, IndexOK
        <5>2. ~selected'[r]
          BY <5>1 DEF EnablerOK
        <5> QED BY <5>1, <5>2 DEF IndexOK, EntersExact, Judged, Selected, DroppedOver, CurrentInterval, NotOver
      <4> QED BY <4>1, <4>2
    <3> QED BY <3>3, <3>4
  <2> QED BY <1>0, <2>1, <2>2 DEF IndicesOK
<1> QED BY <1>1, <1>2, <1>3, <1>4, <1>5, <1>6 DEF RecordingNext

-----------------------------------------------------------------------------
(* While the lists are in order, the selected instances are recorded.      *)
THEOREM RecordedInOrder ==
  ASSUME NoMixing
  PROVE  RecordingSpec => [](ListsInOrder => SelectedRecorded)
<1>1. RecordingInit => IndicesOK
  <2>1. ASSUME RecordingInit, NEW r \in UserRegions
        PROVE  index[r] = 1 /\ enters[r] = 0 /\ entered[r] = 0 /\ (selected[r] <=> Intervals[r] # {})
    BY <2>1 DEF RecordingInit
  <2>2. RecordingInit => phase = "PRE"
    BY DEF RecordingInit
  <2> QED BY <2>1, <2>2 DEF IndicesOK, NothingCounted
<1>2. RecordingIInv /\ RecordingIInv' /\ IndicesOK /\ [RecordingNext]_recordingVars => IndicesOK'
  BY RecordingAssumption, IndicesNext DEF RecordingIInv
<1>3. RecordingIInv /\ IndicesOK => (ListsInOrder => SelectedRecorded)
  <2> SUFFICES ASSUME RecordingIInv, IndicesOK, ListsInOrder, Serial, AtStep(MainThread, "enter"),
                      Selected(arg[MainThread], entered[arg[MainThread]] - 1),
                      PlainSelection \/ CurrentOpen(arg[MainThread], entered[arg[MainThread]] - 1)
               PROVE  recordingEnabled
    BY DEF SelectedRecorded, Serial, Selected
  <2>1. phase = "WITHIN" /\ pc[MainThread] = "enter" /\ MainThread \in ProgramThreads
    BY DEF AtStep, Runs, Within, ProgramThreads
  <2>2. PICK r \in UserRegions : r = arg[MainThread]
    BY <2>1 DEF RecordingIInv, ValuesOK
  <2>3. IndexOK(r)
    BY <2>1, <2>2 DEF IndicesOK
  <2>4. recordingEnabled \/ Passed(r, entered[r] - 1)
    BY <2>1, <2>2, <2>3 DEF IndexOK, Judged, In, Entering
  <2>5. entered[r] - 1 \in Int /\ \A j \in 1 .. Len(intervals[r]) : intervals[r][j].last \in Nat
    <3>1. entered[r] \in Int
      BY WordPositive DEF RecordingIInv, ValuesOK
    <3> QED BY RecordingAssumption, <2>3, <3>1, IntervalsOfList DEF RecordingIInv, IndexOK
  <2>6. CASE CurrentOpen(r, entered[r] - 1)
    BY <2>4, <2>5, <2>6 DEF Passed, CurrentOpen
  <2>7. CASE PlainSelection
    <3> SUFFICES ASSUME ~recordingEnabled, Passed(r, entered[r] - 1) PROVE FALSE
      BY <2>4
    <3>1. selected[r] /\ ~hasEnabled[r]
      BY <2>1 DEF Passed, RecordingIInv, EnablerOK, EnablerUnique, ThreadsOK, ExitsOK, SwitchOK, ProgramThreads
    <3>2. PICK last : last = intervals[r][index[r]].last
      OBVIOUS
    <3>3. enters[r] = entered[r] /\ enters[r] <= last
      <4>1. enters[r] = entered[r] - 0
        BY <2>1, <2>3, <3>1 DEF IndexOK, EntersExact, In, Uncounted
      <4>2. entered[r] \in Int
        BY WordPositive DEF RecordingIInv, ValuesOK
      <4> QED BY <2>1, <2>3, <2>7, <3>1, <3>2, <4>1, <4>2 DEF IndexOK, NotOver, In
    <3>4. last < entered[r] - 1 /\ last \in Nat /\ entered[r] \in Int
      BY <2>5, <3>2, WordPositive DEF Passed, RecordingIInv, ValuesOK
    <3> QED BY <3>3, <3>4
  <2> QED BY <2>2, <2>6, <2>7
<1> QED BY <1>1, <1>2, <1>3, RecordingAlways, PTL DEF RecordingSpec

-----------------------------------------------------------------------------
(* What is left of a vector to look at, from an index on; the items.       *)
Ranges == [left : Nat, size : Nat]
Numbered == [first : Nat, last : Nat]

(* A round leaves less, or nothing.                                         *)
LEMMA RoundTyped ==
  ASSUME NEW seq, NEW value, NEW range \in Ranges
  PROVE  Round(seq, value, range) \in Ranges
<1> DEFINE half == range.size \div 2
<1>1. range.left \in Nat /\ range.size \in Nat
  BY DEF Ranges
<1>2. half \in Nat /\ half <= range.size
  BY <1>1
<1>3. range.size # 0 => range.size - half - 1 \in Nat
  BY <1>1
<1> HIDE DEF half
<1>4. range.left + half + 1 \in Nat
  BY <1>1, <1>2
<1>5. range.size # 0 => /\ [left |-> range.left + half + 1, size |-> range.size - half - 1] \in Ranges
                        /\ [left |-> range.left, size |-> half] \in Ranges
  BY <1>1, <1>2, <1>3, <1>4 DEF Ranges
<1> QED BY <1>5 DEF Round, half

(* The loop is the rounds, one after the other.                            *)
LEMMA SearchRounds ==
  ASSUME NEW seq, NEW value, Len(seq) \in Nat
  PROVE  /\ Search(seq, value) \in [Nat -> Ranges]
         /\ Search(seq, value)[0] = [left |-> 0, size |-> Len(seq)]
         /\ \A n \in Nat : Search(seq, value)[n + 1] = Round(seq, value, Search(seq, value)[n])
<1> DEFINE step == [range \in Ranges |-> Round(seq, value, range)]
           start == [left |-> 0, size |-> Len(seq)]
           Whole(f) == [n \in Nat |-> IF n = 0 THEN start ELSE Round(seq, value, f[n - 1])]
           search == CHOOSE f : f = Whole(f)
<1>1. step \in [Ranges -> Ranges]
  BY RoundTyped
<1>2. start \in Ranges
  BY DEF Ranges
<1>3. PICK f : IsIteration(f, Ranges, step, start)
  <2> HIDE DEF step, start
  <2> QED BY <1>1, <1>2, Iterates
<1>4. f = Whole(f)
  <2>0. f \in [Nat -> Ranges] /\ f[0] = start /\ \A n \in Nat : f[n + 1] = step[f[n]]
    BY <1>3 DEF IsIteration
  <2>1. ASSUME NEW n \in Nat PROVE f[n] = Whole(f)[n]
    <3>1. CASE n = 0
      BY <2>0, <3>1
    <3>2. CASE n # 0
      <4>1. n - 1 \in Nat /\ n - 1 + 1 = n
        BY <3>2
      <4>2. f[n] = step[f[n - 1]] /\ f[n - 1] \in Ranges
        BY <2>0, <4>1
      <4> QED BY <3>2, <4>2
    <3> QED BY <3>1, <3>2
  <2> QED BY <2>0, <2>1
<1>5. search = Whole(search)
  <2> HIDE DEF Whole
  <2> QED BY <1>4
<1>6. Search(seq, value) = search
  BY DEF Search
<1> HIDE DEF search
<1>7. search[0] = start /\ \A n \in Nat : search[n + 1] = Round(seq, value, search[n])
  BY <1>5
<1>8. \A n \in Nat : search[n] \in Ranges
  <2> DEFINE Wrong == {n \in Nat : search[n] \notin Ranges}
  <2> SUFFICES ASSUME Wrong # {} PROVE FALSE
    OBVIOUS
  <2>1. PICK n \in Wrong : \A m \in Wrong : n <= m
    <3>1. Wrong \subseteq Nat
      OBVIOUS
    <3> HIDE DEF Wrong
    <3> QED BY <3>1, LeastNumber
  <2>2. n \in Nat /\ search[n] \notin Ranges
    BY <2>1
  <2>3. n # 0
    BY <1>2, <1>7, <2>2
  <2>4. n - 1 \in Nat /\ n - 1 + 1 = n /\ ~(n <= n - 1)
    BY <2>2, <2>3
  <2>5. search[n - 1] \in Ranges
    BY <2>1, <2>4
  <2>6. search[n] = Round(seq, value, search[n - 1])
    BY <1>7, <2>4
  <2> QED BY <2>2, <2>5, <2>6, RoundTyped
<1>9. search \in [Nat -> Ranges]
  BY <1>5, <1>8
<1> QED BY <1>6, <1>7, <1>9

(* Differences of one byte survive the conversion.                         *)
LEMMA Int8Exact ==
  ASSUME NEW x \in -128 .. 127
  PROVE  AsInt8(x) = x
<1>1. (x + 128) % 256 = x + 128
  OBVIOUS
<1> QED BY <1>1 DEF AsInt8

(* A list in the order of the first instances, near to a value.            *)
InOrderOfFirst(s) == \A i, j \in 1 .. Len(s) : i < j => s[i].first <= s[j].first
NearTo(s, v) == \A i \in 1 .. Len(s) : v - s[i].first \in -127 .. 127

(* The place of v is in the range, which has become smaller every round.   *)
Narrows(s, v, range, rounds) ==
  /\ range.left + range.size <= Len(s)
  /\ range.size = 0 \/ range.size + rounds <= Len(s)
  /\ \A j \in 1 .. Len(s) : j <= range.left => s[j].first < v
  /\ \A j \in 1 .. Len(s) : j > range.left + range.size => s[j].first >= v

(* A round keeps it there: the item in the middle tells on which side.     *)
LEMMA RoundNarrows ==
  ASSUME NEW s \in Seq(Numbered), NEW v \in Nat, InOrderOfFirst(s), NearTo(s, v),
         NEW range \in Ranges, NEW n \in Nat, Narrows(s, v, range, n)
  PROVE  Narrows(s, v, Round(s, v, range), n + 1)
<1> DEFINE half == range.size \div 2  middle == range.left + half + 1
<1>1. range.left \in Nat /\ range.size \in Nat /\ Len(s) \in Nat
  BY LenProperties DEF Ranges
<1>2. \A j \in 1 .. Len(s) : s[j].first \in Nat
  <2>1. \A j \in 1 .. Len(s) : s[j] \in Numbered
    BY <1>1, ElementOfSeq
  <2> QED BY <2>1 DEF Numbered
<1>3. CASE range.size = 0
  BY <1>1, <1>3 DEF Narrows, Round
<1>4. CASE range.size # 0
  <2>1. half \in Nat /\ half + 1 <= range.size
    BY <1>1, <1>4
  <2> HIDE DEF half
  <2>2. middle \in 1 .. Len(s) /\ middle = range.left + half + 1
    BY <1>1, <2>1 DEF Narrows
  <2> HIDE DEF middle
  <2>3. CompareIntervals(v, s[middle]) = v - s[middle].first
    <3>1. v - s[middle].first \in -127 .. 127
      BY <2>2 DEF NearTo
    <3>2. v - s[middle].first \in -128 .. 127
      BY <3>1
    <3> QED BY <3>2, Int8Exact DEF CompareIntervals
  <2>4. CASE CompareIntervals(v, s[middle]) > 0
    <3>1. Round(s, v, range) = [left |-> range.left + half + 1, size |-> range.size - half - 1]
      BY <1>4, <2>4 DEF Round, half, middle
    <3>2. ASSUME NEW j \in 1 .. Len(s), j <= range.left + half + 1 PROVE s[j].first < v
      <4>1. s[middle].first < v
        BY <1>2, <2>2, <2>3, <2>4
      <4>2. j = middle \/ j < middle
        BY <2>2, <3>2
      <4>3. s[j].first <= s[middle].first
        BY <1>2, <2>2, <4>2 DEF InOrderOfFirst
      <4> QED BY <1>2, <2>2, <4>1, <4>3
    <3>3. Round(s, v, range).left = range.left + half + 1 /\ Round(s, v, range).size = range.size - half - 1
      BY <3>1
    <3>4. /\ Round(s, v, range).left + Round(s, v, range).size = range.left + range.size
          /\ Round(s, v, range).size = 0 \/ Round(s, v, range).size + (n + 1) <= Len(s)
      <4>1. range.left + range.size <= Len(s) /\ range.size + n <= Len(s)
        BY <1>4 DEF Narrows
      <4>2. range.size - half - 1 \in Nat
        BY <1>1, <2>1
      <4>4. range.left + half + 1 + (range.size - half - 1) = range.left + range.size
        BY <1>1, <2>1
      <4>3. range.size - half - 1 + (n + 1) <= Len(s)
        BY <1>1, <2>1, <4>1
      <4> QED BY <3>3, <4>2, <4>3, <4>4
    <3> QED BY <3>2, <3>3, <3>4 DEF Narrows
  <2>5. CASE ~(CompareIntervals(v, s[middle]) > 0)
    <3>1. Round(s, v, range) = [left |-> range.left, size |-> half]
      BY <1>4, <2>5 DEF Round, half, middle
    <3>2. ASSUME NEW j \in 1 .. Len(s), j > range.left + half PROVE s[j].first >= v
      <4>1. s[middle].first >= v
        BY <1>2, <2>2, <2>3, <2>5
      <4>2. j = middle \/ middle < j
        BY <1>1, <2>1, <2>2, <3>2
      <4>3. s[middle].first <= s[j].first
        BY <1>2, <2>2, <4>2 DEF InOrderOfFirst
      <4> QED BY <1>2, <2>2, <4>1, <4>3
    <3> QED BY <1>1, <1>4, <2>1, <3>1, <3>2 DEF Narrows
  <2> QED BY <2>4, <2>5
<1> QED BY <1>3, <1>4

(* In a list of any length the binary search finds the place of v.         *)
LEMMA LowerBoundFinds ==
  ASSUME NEW s \in Seq(Numbered), NEW v \in Nat, InOrderOfFirst(s), NearTo(s, v)
  PROVE  /\ LowerBound(s, v) \in 0 .. Len(s)
         /\ \A j \in 1 .. Len(s) : s[j].first < v <=> j <= LowerBound(s, v)
<1> DEFINE at(n) == Search(s, v)[n]
           Wrong == {n \in Nat : ~Narrows(s, v, at(n), n)}
<1>1. /\ Len(s) \in Nat /\ Search(s, v) \in [Nat -> Ranges]
      /\ at(0) = [left |-> 0, size |-> Len(s)]
      /\ \A n \in Nat : at(n + 1) = Round(s, v, at(n))
  BY LenProperties, SearchRounds
<1>2. Wrong = {}
  <2> SUFFICES ASSUME Wrong # {} PROVE FALSE
    OBVIOUS
  <2>1. PICK n \in Wrong : \A m \in Wrong : n <= m
    <3>1. Wrong \subseteq Nat
      OBVIOUS
    <3> HIDE DEF Wrong
    <3> QED BY <3>1, LeastNumber
  <2>2. n \in Nat /\ ~Narrows(s, v, at(n), n)
    BY <2>1
  <2>3. n # 0
    <3>1. at(0).left = 0 /\ at(0).size = Len(s)
      BY <1>1
    <3> HIDE DEF at
    <3>2. ASSUME NEW range, range.left = 0, range.size = Len(s) PROVE Narrows(s, v, range, 0)
      <4>1. \A j \in 1 .. Len(s) : ~(j <= 0) /\ ~(j > Len(s))
        BY <1>1
      <4>2. range.left + range.size = Len(s) /\ range.size + 0 = Len(s) /\ Len(s) <= Len(s)
        BY <1>1, <3>2
      <4> QED BY <3>2, <4>1, <4>2 DEF Narrows
    <3>3. Narrows(s, v, at(0), 0)
      BY <3>1, <3>2
    <3> QED BY <2>2, <3>3
  <2>4. n - 1 \in Nat /\ n - 1 + 1 = n /\ ~(n <= n - 1)
    BY <2>2, <2>3
  <2>5. Narrows(s, v, at(n - 1), n - 1)
    BY <2>1, <2>4
  <2>6. at(n) = Round(s, v, at(n - 1)) /\ at(n - 1) \in Ranges
    BY <1>1, <2>4
  <2> HIDE DEF at
  <2>7. Narrows(s, v, Round(s, v, at(n - 1)), n - 1 + 1)
    BY <2>4, <2>5, <2>6, RoundNarrows
  <2> QED BY <2>2, <2>4, <2>6, <2>7
<1>3. PICK last \in Ranges : LowerBound(s, v) = last.left /\ Narrows(s, v, last, Len(s))
  <2>1. at(Len(s)) \in Ranges /\ Narrows(s, v, at(Len(s)), Len(s))
    BY <1>1, <1>2
  <2> QED BY <2>1 DEF LowerBound
<1> HIDE DEF at, Wrong
<1>4. PICK left \in Nat : left = last.left
  BY DEF Ranges
<1>5. last.size = 0 /\ left \in 0 .. Len(s)
  <2>1. PICK size \in Nat : size = last.size
    BY DEF Ranges
  <2>2. (last.size = 0 \/ last.size + Len(s) <= Len(s)) /\ left + last.size <= Len(s)
    BY <1>3, <1>4 DEF Narrows
  <2>3. last.size = 0
    <3>1. size = 0 \/ size + Len(s) <= Len(s)
      BY <2>1, <2>2
    <3>2. size = 0
      BY <1>1, <3>1
    <3> QED BY <2>1, <3>2
  <2> QED BY <1>1, <2>2, <2>3
<1>6. \A j \in 1 .. Len(s) : s[j].first \in Nat
  <2>1. \A j \in 1 .. Len(s) : s[j] \in Numbered
    BY <1>1, ElementOfSeq
  <2> QED BY <2>1 DEF Numbered
<1>7. ASSUME NEW j \in 1 .. Len(s) PROVE s[j].first < v <=> j <= left
  <2>1. j <= left => s[j].first < v
    BY <1>3, <1>4 DEF Narrows
  <2>2. ASSUME ~(j <= left) PROVE s[j].first >= v
    <3>1. j > left + last.size
      BY <1>5, <2>2
    <3> QED BY <1>3, <1>4, <3>1 DEF Narrows
  <2> QED BY <1>6, <2>1, <2>2
<1> QED BY <1>3, <1>4, <1>5, <1>7

(* What InsertAt makes of a list.                                          *)
LEMMA InsertedAt ==
  ASSUME NEW S, NEW s \in Seq(S), NEW e \in S, NEW p \in 0 .. Len(s)
  PROVE  /\ InsertAt(s, p + 1, e) \in Seq(S) /\ Len(InsertAt(s, p + 1, e)) = Len(s) + 1
         /\ \A j \in 1 .. Len(s) + 1 :
              InsertAt(s, p + 1, e)[j] = IF j <= p THEN s[j] ELSE IF j = p + 1 THEN e ELSE s[j - 1]
<1> DEFINE before == SubSeq(s, 1, p)  after == SubSeq(s, p + 1, Len(s))
<1>1. Len(s) \in Nat /\ p \in Nat /\ (p + 1) - 1 = p
  BY LenProperties
<1>2. \A i \in 1 .. Len(s) : s[i] \in S
  BY ElementOfSeq
<1>3. /\ before \in Seq(S) /\ Len(before) = p
      /\ \A j \in 1 .. p : before[j] = s[j]
  <2>1. before = [j \in 1 .. p |-> s[j]]
    BY <1>1, SubSeqProperties
  <2> QED BY <1>1, <1>2, <2>1, SubSeqProperties
<1>4. /\ after \in Seq(S) /\ Len(after) = Len(s) - p
      /\ \A j \in 1 .. Len(s) - p : after[j] = s[p + j]
  BY <1>1, <1>2, SubSeqProperties
<1>5. <<e>> \in Seq(S) /\ Len(<<e>>) = 1 /\ <<e>>[1] = e
  OBVIOUS
<1>6. InsertAt(s, p + 1, e) = (before \o <<e>>) \o after
  <2>1. InsertAt(s, p + 1, e) = (SubSeq(s, 1, (p + 1) - 1) \o <<e>>) \o SubSeq(s, p + 1, Len(s))
    BY Zenon DEF InsertAt
  <2> QED BY <1>1, <2>1, Zenon
<1> HIDE DEF before, after
<1> DEFINE both == before \o <<e>>
<1>7. /\ both \in Seq(S) /\ Len(both) = p + 1
      /\ \A j \in 1 .. p + 1 : (both)[j] = IF j <= p THEN s[j] ELSE e
  <2>1. /\ both \in Seq(S) /\ Len(both) = Len(before) + Len(<<e>>)
        /\ \A j \in 1 .. Len(before) + Len(<<e>>) :
             (both)[j] = IF j <= Len(before) THEN before[j] ELSE <<e>>[j - Len(before)]
    BY <1>3, <1>5, ConcatProperties
  <2>2. ASSUME NEW j \in 1 .. p + 1, ~(j <= p) PROVE j - p = 1
    BY <1>1, <2>2
  <2> QED BY <1>1, <1>3, <1>5, <2>1, <2>2
<1> HIDE DEF both
<1>8. /\ both \o after \in Seq(S) /\ Len(both \o after) = Len(both) + Len(after)
      /\ \A j \in 1 .. Len(both) + Len(after) :
           (both \o after)[j] = IF j <= Len(both) THEN both[j] ELSE after[j - Len(both)]
  BY <1>4, <1>7, ConcatProperties
<1>9. Len(both) + Len(after) = Len(s) + 1
  BY <1>1, <1>4, <1>7
<1>10. ASSUME NEW j \in 1 .. Len(s) + 1
       PROVE  (both \o after)[j] = IF j <= p THEN s[j] ELSE IF j = p + 1 THEN e ELSE s[j - 1]
  <2>1. CASE j <= p + 1
    <3>1. (both \o after)[j] = both[j] /\ j \in 1 .. p + 1
      BY <1>1, <1>7, <1>8, <1>9, <2>1
    <3>2. both[j] = IF j <= p THEN s[j] ELSE e
      BY <1>7, <3>1
    <3>3. j <= p \/ j = p + 1
      BY <1>1, <2>1
    <3> QED BY <1>1, <3>1, <3>2, <3>3
  <2>2. CASE ~(j <= p + 1)
    <3>1. j - (p + 1) \in 1 .. Len(s) - p /\ p + (j - (p + 1)) = j - 1
      BY <1>1, <2>2
    <3>2. (both \o after)[j] = after[j - (p + 1)]
      BY <1>1, <1>7, <1>8, <1>9, <2>2
    <3>3. after[j - (p + 1)] = s[j - 1]
      BY <1>4, <3>1
    <3>4. ~(j <= p) /\ j # p + 1
      BY <1>1, <2>2
    <3> QED BY <3>2, <3>3, <3>4
  <2> QED BY <2>1, <2>2
<1> QED BY <1>6, <1>8, <1>9, <1>10 DEF both

(* The intervals of a region start within 127 instances: further apart the *)
(* comparison of the code errs.                                            *)
NearStarts ==
  \A s \in RecordingSetups : \A r \in UserRegions : \A i, j \in s.intervals[r] : i.first - j.first <= 127

(* Starts that differ by at most 127 either way.                           *)
LEMMA NearBothWays == \A a, b \in Nat : a - b <= 127 /\ b - a <= 127 => a - b \in -127 .. 127
OBVIOUS

(* An interval that is added takes its place.                              *)
LEMMA AddKeepsOrder ==
  ASSUME NEW S \in SUBSET Numbered, NEW s \in Seq(S), NEW e \in S,
         \A i, j \in S : i.first - j.first <= 127, InOrderOfFirst(s)
  PROVE  AddInterval(s, e) \in Seq(S) /\ InOrderOfFirst(AddInterval(s, e))
<1> DEFINE p == LowerBound(s, e.first)  t == InsertAt(s, p + 1, e)
<1>1. Len(s) \in Nat /\ \A i \in 1 .. Len(s) : s[i] \in S
  BY LenProperties, ElementOfSeq
<1>2. \A i \in S : i.first \in Nat
  BY DEF Numbered
<1>3. NearTo(s, e.first) /\ s \in Seq(Numbered) /\ e.first \in Nat
  <2>1. ASSUME NEW i \in 1 .. Len(s) PROVE e.first - s[i].first \in -127 .. 127
    <3>1. e.first - s[i].first <= 127 /\ s[i].first - e.first <= 127
      BY <1>1
    <3>2. e.first \in Nat /\ s[i].first \in Nat
      BY <1>1, <1>2
    <3> QED BY <3>1, <3>2, NearBothWays
  <2>2. s \in Seq(Numbered)
    BY SeqMonotonic
  <2> QED BY <1>2, <2>1, <2>2 DEF NearTo
<1>4. p \in 0 .. Len(s) /\ \A j \in 1 .. Len(s) : s[j].first < e.first <=> j <= p
  BY <1>3, LowerBoundFinds
<1> HIDE DEF p
<1>5. /\ t \in Seq(S) /\ Len(t) = Len(s) + 1
      /\ \A j \in 1 .. Len(s) + 1 : t[j] = IF j <= p THEN s[j] ELSE IF j = p + 1 THEN e ELSE s[j - 1]
  <2>1. p \in 0 .. Len(s)
    BY <1>4
  <2>2. /\ InsertAt(s, p + 1, e) \in Seq(S) /\ Len(InsertAt(s, p + 1, e)) = Len(s) + 1
        /\ \A j \in 1 .. Len(s) + 1 :
             InsertAt(s, p + 1, e)[j] = IF j <= p THEN s[j] ELSE IF j = p + 1 THEN e ELSE s[j - 1]
    BY <2>1, InsertedAt
  <2> QED BY <2>2
<1> HIDE DEF t
<1>6. ASSUME NEW i \in 1 .. Len(t), NEW j \in 1 .. Len(t), i < j
      PROVE  t[i].first <= t[j].first
  <2>1. /\ i \in 1 .. Len(s) + 1 /\ j \in 1 .. Len(s) + 1 /\ p \in Nat
        /\ \A k \in 1 .. Len(s) : s[k].first \in Nat
    BY <1>1, <1>2, <1>4, <1>5
  <2>2. CASE j <= p
    <3>1. t[i] = s[i] /\ t[j] = s[j] /\ i \in 1 .. Len(s) /\ j \in 1 .. Len(s)
      BY <1>1, <1>4, <1>5, <1>6, <2>1, <2>2
    <3> QED BY <1>6, <3>1 DEF InOrderOfFirst
  <2>3. CASE j = p + 1
    <3>1. t[j] = e /\ t[i] = s[i] /\ i \in 1 .. Len(s) /\ i <= p
      BY <1>1, <1>4, <1>5, <1>6, <2>1, <2>3
    <3> QED BY <1>3, <1>4, <2>1, <3>1
  <2>4. CASE j > p + 1
    <3>1. t[j] = s[j - 1] /\ j - 1 \in 1 .. Len(s) /\ ~(j - 1 <= p)
      BY <1>1, <1>5, <2>1, <2>4
    <3>2. CASE i <= p
      <4>1. t[i] = s[i] /\ i \in 1 .. Len(s) /\ i < j - 1
        BY <1>1, <1>4, <1>5, <2>1, <2>4, <3>2
      <4> QED BY <3>1, <4>1 DEF InOrderOfFirst
    <3>3. CASE i = p + 1
      <4>1. t[i] = e
        BY <1>5, <2>1, <3>3
      <4> QED BY <1>3, <1>4, <2>1, <3>1, <4>1
    <3>4. CASE i > p + 1
      <4>1. t[i] = s[i - 1] /\ i - 1 \in 1 .. Len(s) /\ i - 1 < j - 1
        BY <1>1, <1>5, <1>6, <2>1, <3>4
      <4> QED BY <3>1, <4>1 DEF InOrderOfFirst
    <3> QED BY <2>1, <3>2, <3>3, <3>4
  <2> QED BY <2>1, <2>2, <2>3, <2>4
<1> QED BY <1>5, <1>6 DEF AddInterval, InOrderOfFirst, t, p

(* The lists of intervals, as reading the file leaves them.                *)
IntervalsListed ==
  /\ recording_setup \in RecordingSetups
  /\ DOMAIN intervals = UserRegions
  /\ \A r \in UserRegions : intervals[r] \in Seq(Intervals[r]) /\ InOrderOfFirst(intervals[r])

LEMMA ListedIntervals ==
  ASSUME NearStarts, recording_setup \in RecordingSetups, NEW r \in UserRegions
  PROVE  Intervals[r] \in SUBSET Numbered /\ \A i, j \in Intervals[r] : i.first - j.first <= 127
BY RecordingAssumption DEF NearStarts, Intervals, Numbered, SetupAssumption

(* The lists are in order however far the file has been read.              *)
LEMMA AlwaysListed ==
  ASSUME NearStarts
  PROVE  RecordingSpec => []IntervalsListed
<1>1. RecordingInit => IntervalsListed
  <2> SUFFICES ASSUME RecordingInit, NEW r \in UserRegions
               PROVE  intervals[r] \in Seq(Intervals[r]) /\ InOrderOfFirst(intervals[r])
    BY DEF RecordingInit, IntervalsListed
  <2>1. intervals[r] = << >>
    BY DEF RecordingInit
  <2> QED BY <2>1, EmptyList DEF InOrderOfFirst
<1>2. IntervalsListed /\ [RecordingNext]_recordingVars => IntervalsListed'
  <2> SUFFICES ASSUME IntervalsListed, [RecordingNext]_recordingVars PROVE IntervalsListed'
    OBVIOUS
  <2>1. recording_setup' = recording_setup /\ Intervals' = Intervals /\ recording_setup \in RecordingSetups
    BY SetupStays DEF Intervals, IntervalsListed
  <2>2. CASE intervals' = intervals
    BY <2>1, <2>2 DEF InOrderOfFirst, IntervalsListed
  <2>3. ASSUME NEW r \in UserRegions, ParseFile(r) PROVE IntervalsListed'
    <3>1. PICK i \in Intervals[r] : intervals' = [intervals EXCEPT ![r] = AddInterval(@, i)]
      BY <2>3 DEF ParseFile
    <3>2. Intervals[r] \in SUBSET Numbered /\ \A j, k \in Intervals[r] : j.first - k.first <= 127
      BY <2>1, ListedIntervals
    <3>3. /\ DOMAIN intervals = UserRegions /\ DOMAIN intervals' = UserRegions
          /\ intervals'[r] = AddInterval(intervals[r], i)
          /\ \A s \in UserRegions \ {r} : intervals'[s] = intervals[s]
      BY <3>1 DEF IntervalsListed
    <3>4. AddInterval(intervals[r], i) \in Seq(Intervals[r]) /\ InOrderOfFirst(AddInterval(intervals[r], i))
      <4>1. intervals[r] \in Seq(Intervals[r]) /\ InOrderOfFirst(intervals[r])
        BY DEF IntervalsListed
      <4> QED BY <3>1, <3>2, <4>1, AddKeepsOrder
    <3>5. ASSUME NEW s \in UserRegions PROVE intervals'[s] \in Seq(Intervals[s]) /\ InOrderOfFirst(intervals'[s])
      BY <3>3, <3>4 DEF IntervalsListed
    <3>6. \A s \in UserRegions : (intervals[s] \in Seq(Intervals[s]))' /\ InOrderOfFirst(intervals[s])'
      BY <2>1, <3>5 DEF InOrderOfFirst
    <3> QED BY <2>1, <3>3, <3>6 DEF IntervalsListed
  <2>4. intervals' = intervals \/ \E r \in UserRegions : ParseFile(r)
    BY DEF RecordingNext, recordingVars, regionVars, RecordingStop, InitMeasurement, Fork, Join, Finalize, RecordingStep, SwitchOn, SwitchOff, UserRegionEnter, CheckEnterCounts, CheckEnterEnables, CheckEnterDoesNotCount, LoadEnters, StoreEnters, LoadExits, StoreExits, EnterRegion, UserRegionExit, CheckExit, LoadExit, StoreExit, TestExit, ClearHasEnabled, Advance, Untouched
  <2> QED BY <2>2, <2>3, <2>4
<1> QED BY <1>1, <1>2, PTL DEF RecordingSpec

LEMMA ListedInOrder == IntervalsListed => ListsInOrder
<1> SUFFICES ASSUME IntervalsListed PROVE ListsInOrder
  OBVIOUS
<1>1. \A r \in UserRegions : DOMAIN intervals[r] = 1 .. Len(intervals[r])
  BY LenProperties DEF IntervalsListed
<1> QED BY <1>1 DEF ListsInOrder, Sorted, InOrderOfFirst, IntervalsListed

(* IntervalsInOrder: whatever the order of the file is and however many    *)
(* intervals it has for a region, they are kept in the order of their      *)
(* first instances, and the binary search finds the place of every one     *)
(* (add_interval, SCOREP_Vector_LowerBound).                               *)
THEOREM IntervalsSorted ==
  ASSUME NearStarts
  PROVE  RecordingSpec => []IntervalsInOrder
<1>1. IntervalsListed => IntervalsInOrder
  <2> SUFFICES ASSUME IntervalsListed, NEW r \in UserRegions, NEW i \in Intervals[r]
               PROVE  /\ LowerBound(intervals[r], i.first) \in 0 .. Len(intervals[r])
                      /\ \A j \in DOMAIN intervals[r] :
                           intervals[r][j].first < i.first <=> j <= LowerBound(intervals[r], i.first)
    BY ListedInOrder DEF IntervalsInOrder, LowerBoundCorrect, ListsInOrder
  <2>1. /\ Intervals[r] \in SUBSET Numbered /\ \A j, k \in Intervals[r] : j.first - k.first <= 127
        /\ intervals[r] \in Seq(Intervals[r])
    BY ListedIntervals DEF IntervalsListed
  <2>2. /\ DOMAIN intervals[r] = 1 .. Len(intervals[r]) /\ intervals[r] \in Seq(Numbered)
        /\ \A j \in 1 .. Len(intervals[r]) : intervals[r][j] \in Intervals[r]
    BY <2>1, LenProperties, ElementOfSeq, SeqMonotonic
  <2>3. InOrderOfFirst(intervals[r])
    BY DEF IntervalsListed
  <2>4. ASSUME NEW j \in 1 .. Len(intervals[r]) PROVE i.first - intervals[r][j].first \in -127 .. 127
    <3>1. i.first - intervals[r][j].first <= 127 /\ intervals[r][j].first - i.first <= 127
      BY <2>1, <2>2
    <3>2. i.first \in Nat /\ intervals[r][j].first \in Nat
      BY <2>1, <2>2 DEF Numbered
    <3> QED BY <3>1, <3>2, NearBothWays
  <2>5. NearTo(intervals[r], i.first) /\ i.first \in Nat
    BY <2>1, <2>4 DEF NearTo, Numbered
  <2> QED BY <2>2, <2>3, <2>5, LowerBoundFinds
<1> QED BY <1>1, AlwaysListed, PTL

(* In a serial program, with any number of selected regions and intervals, *)
(* overlapping or empty, an instance whose number is in an interval of its *)
(* region is entered with recording on, unless the region's current one    *)
(* was over before that instance.  There is no exception when one region   *)
(* is selected by intervals that are not empty (scorep_selective_region.c).*)
THEOREM SelectionIsRecorded ==
  ASSUME NoMixing, NearStarts
  PROVE  RecordingSpec => []SelectedRecorded
<1>1. RecordingSpec => [](ListsInOrder => SelectedRecorded)
  BY RecordedInOrder
<1>2. RecordingSpec => []ListsInOrder
  BY AlwaysListed, ListedInOrder, PTL
<1> QED BY <1>1, <1>2, PTL
=============================================================================
