--------------------------- MODULE MCComponents ---------------------------
(***************************************************************************)
(* One run for the components that share nothing in the model: which of    *)
(* them acts is chosen in the initial state, the others stay as they are.  *)
(***************************************************************************)
EXTENDS TLC, Recording, TaskStack, RewindStack, MpiRequests, OmptOverdue, SplayTree, IoHandles, MCUnify

VARIABLE component

(***************************************************************************)
(* Instances.                                                              *)
(***************************************************************************)
RequestObjects == 1 .. 3
EntryObjects == 11 .. 13

(* Programs under which the table of requests keeps its promises: one      *)
(* thread in MPI at a time, with dummy values; threads at any time if MPI  *)
(* returns a value only when nobody works with it any more, or two dummy   *)
(* values; persistent requests.                                            *)
With(features, operations) == [features |-> features, operations |-> operations]
SoundPrograms == {With({"dummy"}, 3), With({"multiple", "dummy"}, 2), With({"persistent"}, 2)}

(* Runtimes that report the ends late, or at any time.                     *)
Teams(sizes, runtime) == [sizes |-> sizes, runtime |-> runtime]
LateAndAny == {Teams(<<2, 2>>, "any"), Teams(<<1, 2>>, "any"),
               Teams(<<3, 2>>, "late"), Teams(<<2, 2, 2>>, "late")}

Allocating(metrics, number, before) ==
  [metrics |-> metrics, features |-> {}, calls |-> number, before |-> before]
AllReported == {Allocating({"host"}, 4, {}), Allocating({"host"}, 3, {2}),
                Allocating({"host", "mpi"}, 2, {2})}

(* One thread whose files share a bucket, with and without calls within    *)
(* calls (there fdopen may fail), and two threads whose files do not.      *)
CONSTANTS i1, i2
Using(locations, functions, features, descriptors, number) ==
  [locations |-> locations, functions |-> functions, features |-> features,
   descriptors |-> descriptors, io_calls |-> number]
SoundIo ==
  {Using({i1}, {"open", "fopen", "close", "dup", "dup2", "read"}, {"collision"}, 1 .. 3, 4),
   Using({i1}, {"creat", "fopen", "fclose", "freopen", "fdopen"},
         {"collision", "wrapped open", "fdopen fails"}, 1 .. 5, 4),
   Using({i1, i2}, {"open", "close", "read", "dup2"}, {}, 1 .. 3, 4)}

(* The application switches recording itself; a file selects instances of  *)
(* one region in a serial program; of two, with an interval that ends      *)
(* before it starts; two threads are in selected regions.                  *)
CONSTANTS ur1, ur2
Instances(first, last) == [first |-> first, last |-> last]
Selected(ofRegion1, ofRegion2) == [r \in {ur1, ur2} |-> IF r = ur1 THEN ofRegion1 ELSE ofRegion2]
Intervals1 == {Instances(0, 0), Instances(2, 3), Instances(4, 4), Instances(127, 127)}
Switched ==
  [intervals |-> Selected({}, {}), defaultMode |-> TRUE, switching |-> "nested",
   parallel |-> TRUE, earlyExit |-> TRUE, maxCalls |-> 3]
SelectiveSetup(file, parallelProgram, maxCalls) ==
  [intervals |-> file, defaultMode |-> FALSE, switching |-> "never",
   parallel |-> parallelProgram, earlyExit |-> FALSE, maxCalls |-> maxCalls]
SwitchedAndSelective ==
  {Switched, SelectiveSetup(Selected(Intervals1, {}), FALSE, 6),
   SelectiveSetup(Selected({Instances(0, 0), Instances(2, 2)}, {Instances(0, 1), Instances(2, 0), Instances(2, 3)}), FALSE, 4),
   SelectiveSetup(Selected({Instances(0, 0), Instances(1, 1)}, {Instances(0, 0)}), TRUE, 2)}

(* The threads, callers, workers, locations and paradigms are the same two *)
(* model values in the configuration: one permutation serves all.          *)
Symmetry == Permutations(Threads) \cup Permutations(Keys \ {Dummy})

-----------------------------------------------------------------------------

(* A component that does not act has one of its initial states.            *)
Pinned(name, variable, setups) ==
  component # name => variable = CHOOSE s \in setups : TRUE

(* The unification when it does not act: one process, nothing defined.     *)
UnifyIdle ==
  /\ local = [p \in {0} |-> NoMapping] /\ at = [p \in {0} |-> "local"]
  /\ unified = <<>> /\ local_mapping = <<>> /\ unified_mapping = <<>>
  /\ remote_mapping = <<>> /\ children_left = <<>>

ComponentsInit ==
  /\ component \in {"recording", "tasks", "rewind", "mpi", "ompt", "alloc", "io", "unify"}
  /\ RecordingInit /\ Pinned("recording", recording_setup, RecordingSetups)
  /\ TaskStackInit
  /\ RewindInit
  /\ MpiInit /\ Pinned("mpi", setup, MpiSetups)
  /\ OmptInit /\ Pinned("ompt", omp.setup, OmptSetups)
  /\ AllocInit /\ Pinned("alloc", alloc_setup, AllocSetups)
  /\ IoInit /\ Pinned("io", io_setup, IoSetups)
  /\ IF component = "unify" THEN UnifyInit ELSE UnifyIdle

ComponentsNext ==
  \/ /\ component = "recording" /\ RecordingNext
     /\ UNCHANGED <<component, taskStackVars, rewindVars, mpiVars,
                    omptVars, allocVars, ioVars, unifyVars>>
  \/ /\ component = "tasks" /\ TaskStackNext
     /\ UNCHANGED <<component, recordingVars, rewindVars, mpiVars,
                    omptVars, allocVars, ioVars, unifyVars>>
  \/ /\ component = "rewind" /\ RewindNext
     /\ UNCHANGED <<component, recordingVars, taskStackVars, mpiVars,
                    omptVars, allocVars, ioVars, unifyVars>>
  \/ /\ component = "mpi" /\ MpiNext
     /\ UNCHANGED <<component, recordingVars, taskStackVars, rewindVars,
                    omptVars, allocVars, ioVars, unifyVars>>
  \/ /\ component = "ompt" /\ OmptNext
     /\ UNCHANGED <<component, recordingVars, taskStackVars, rewindVars,
                    mpiVars, allocVars, ioVars, unifyVars>>
  \/ /\ component = "alloc" /\ AllocNext
     /\ UNCHANGED <<component, recordingVars, taskStackVars, rewindVars,
                    mpiVars, omptVars, ioVars, unifyVars>>
  \/ /\ component = "io" /\ IoNext
     /\ UNCHANGED <<component, recordingVars, taskStackVars, rewindVars,
                    mpiVars, omptVars, allocVars, unifyVars>>
  \/ /\ component = "unify" /\ UnifyNext
     /\ UNCHANGED <<component, recordingVars, taskStackVars, rewindVars,
                    mpiVars, omptVars, allocVars, ioVars>>

ComponentsSpec ==
  ComponentsInit
    /\ [][ComponentsNext]_<<component, recordingVars, taskStackVars, rewindVars, mpiVars,
                            omptVars, allocVars, ioVars, unifyVars>>
=============================================================================
