----------------------------- MODULE Recording -----------------------------
(***************************************************************************)
(* Switching the recording of events on and off, and the users of the      *)
(* switch: the application (SCOREP_RECORDING_ON / _OFF) and selective      *)
(* recording, which switches recording on for chosen instances of chosen   *)
(* user regions (SCOREP_RuntimeManagement.c, SCOREP_User_Region.c,         *)
(* scorep_selective_region.c).                                             *)
(*                                                                         *)
(* While recording is off the profile does not see the regions that are    *)
(* entered and left; in their place it has the one region record_off open. *)
(* It stops for good at the first exit that does not match its innermost   *)
(* open region (scorep_profile_event_base.c), so the switch and the        *)
(* nesting of the regions have to agree.                                   *)
(*                                                                         *)
(* Threads other than MainThread run only inside a parallel region.  The   *)
(* counts of a selected region are shared by all threads and incremented   *)
(* without a lock: an increment is a load and a store here.                *)
(***************************************************************************)
EXTENDS SelectiveIntervals, FiniteSetsExt

CONSTANTS
    MainThread,            \* the thread that initialised the measurement
    TeamThreads,           \* the other threads of a parallel region
    UserRegions,           \* user regions
    RecordingSetups,       \* programs and configurations: see SetupAssumption
    ProgramRegion, RecordOff, \* the artificial regions of the measurement
    MaxOpen,               \* bound: open regions per thread
    Word                   \* the counters are modulo Word (2^64 in the code)

ProgramThreads == {MainThread} \cup TeamThreads

(* What differs from program to program, and stays the same in a run.      *)
SetupAssumption(s) ==
    /\ s.intervals \in [UserRegions -> SUBSET [first : Nat, last : Nat]] \* the file
    /\ s.defaultMode \in BOOLEAN              \* enable_recording_by_default
    /\ s.switching \in {"never", "nested", "free"}  \* by the application: MayEnable
    /\ s.parallel \in BOOLEAN                 \* there are parallel regions
    /\ s.earlyExit \in BOOLEAN                \* exit() is called with regions open
    /\ s.maxCalls \in 0 .. Word - 1           \* bound: enters per region

ASSUME RecordingAssumption ==
    /\ MainThread \notin TeamThreads
    /\ UserRegions \cap {ProgramRegion, RecordOff} = {} /\ ProgramRegion # RecordOff
    /\ MaxOpen \in Nat /\ Word \in Nat \ {0, 1}
    /\ \A s \in RecordingSetups : SetupAssumption(s)

VARIABLES
    recording_setup,     \* the program and its configuration
    phase,               \* scorep_measurement_phase
    recordingEnabled,    \* recording_enabled and the table of the substrates
    profile,             \* MainThread's open nodes, and whether the profile stopped
    forkDepth,           \* MainThread's depth at the fork; NotForked outside
    open,                \* per thread, the regions it is in (its task's stack)
    intervals,           \* per region, the vector of its intervals
    selected, index,     \* per region: selection # NULL, current_interval_index
    enters, exits, hasEnabled,
    pc, arg, reg,        \* per thread: next step, region, loaded value
    entered              \* history: how often each region was entered

threadVars == <<pc, arg, reg>>
regionVars == <<intervals, selected, index, enters, exits, hasEnabled>>
recordingVars == <<recording_setup, phase, recordingEnabled, profile, forkDepth, open, regionVars,
          threadVars, entered>>

Intervals == recording_setup.intervals
DefaultMode == recording_setup.defaultMode
Switching == recording_setup.switching
EarlyExit == recording_setup.earlyExit
MaxCalls == recording_setup.maxCalls

NotForked == MaxOpen + 1
Steps == {"idle", "check_enter", "load_enters", "store_enters", "load_both",
          "store_both", "load_exits", "store_exits", "enter", "check_exit",
          "load_exit", "store_exit", "test_exit", "clear", "advance", "crashed"}

RecordingTypeOK ==
    /\ recording_setup \in RecordingSetups
    /\ phase \in {"PRE", "WITHIN", "POST"}
    /\ recordingEnabled \in BOOLEAN
    /\ profile \in [nodes : Seq(UserRegions \cup {ProgramRegion, RecordOff}),
                    stopped : BOOLEAN]
    /\ forkDepth \in 0 .. NotForked
    /\ open \in [ProgramThreads -> Seq(UserRegions)]
    /\ \A t \in ProgramThreads : Len(open[t]) <= MaxOpen
    /\ \A r \in UserRegions : Range(intervals[r]) \subseteq Intervals[r]
    /\ selected \in [UserRegions -> BOOLEAN]
    /\ index \in [UserRegions -> Nat]
    /\ \A r \in UserRegions : index[r] \in {1} \cup DOMAIN intervals[r]
    /\ enters \in [UserRegions -> 0 .. Word - 1]
    /\ exits \in [UserRegions -> 0 .. Word - 1]
    /\ hasEnabled \in [UserRegions -> BOOLEAN]
    /\ pc \in [ProgramThreads -> Steps]
    /\ arg \in [ProgramThreads -> UserRegions]
    /\ reg \in [ProgramThreads -> 0 .. Word - 1]
    /\ entered \in [UserRegions -> 0 .. MaxCalls]

-----------------------------------------------------------------------------
(* The profile: scorep_profile_event_base.c.                               *)

ProfileEnter(p, r) ==
    IF p.stopped THEN p ELSE [p EXCEPT !.nodes = Append(@, r)]

ProfileExit(p, r) ==
    IF p.stopped THEN p
    ELSE IF p.nodes # <<>> /\ Last(p.nodes) = r
         THEN [p EXCEPT !.nodes = Front(@)]
         ELSE [nodes |-> <<>>, stopped |-> TRUE]

(* A region event of thread t reaches the profile while recording is on.   *)
RecordsOf(t) == t = MainThread /\ recordingEnabled

(* mutant: only the workers count as being in a parallel region            *)
OnlyWorkersInParallel(t) == t # MainThread

InParallel(t) == t # MainThread \/ forkDepth # NotForked

(* mutant: the event goes to the table of the recording that is off        *)
EnableUnseen == recordingEnabled' = TRUE /\ UNCHANGED profile

(* SCOREP_EnableRecording and SCOREP_DisableRecording outside of parallel  *)
(* regions; inside of one both only report an error.                       *)
EnableRecording ==
    /\ recordingEnabled' = TRUE
    /\ profile' = ProfileExit(profile, RecordOff)

DisableRecording ==
    /\ recordingEnabled' = FALSE
    /\ profile' = IF recordingEnabled THEN ProfileEnter(profile, RecordOff)
                                      ELSE profile

RecordingRefused == UNCHANGED <<recordingEnabled, profile>>

-----------------------------------------------------------------------------
RecordingInit ==
    /\ recording_setup \in RecordingSetups
    /\ phase = "PRE"
    /\ recordingEnabled = TRUE
    /\ profile = [nodes |-> <<>>, stopped |-> FALSE]
    /\ forkDepth = NotForked
    /\ open = [t \in ProgramThreads |-> <<>>]
    /\ intervals = [r \in UserRegions |-> <<>>]
    /\ selected = [r \in UserRegions |-> Intervals[r] # {}]
    /\ index = [r \in UserRegions |-> 1]
    /\ enters = [r \in UserRegions |-> 0]
    /\ exits = [r \in UserRegions |-> 0]
    /\ hasEnabled = [r \in UserRegions |-> FALSE]
    /\ pc = [t \in ProgramThreads |-> "idle"]
    /\ arg \in [ProgramThreads -> {CHOOSE r \in UserRegions : TRUE}]
    /\ reg = [t \in ProgramThreads |-> 0]
    /\ entered = [r \in UserRegions |-> 0]

(* The user adapter reads the configuration file while it is initialised:  *)
(* the intervals of a region are there in any order.                       *)
ParseFile(r) ==
    /\ phase = "PRE"
    /\ \E i \in Intervals[r] \ Range(intervals[r]) :
          intervals' = [intervals EXCEPT ![r] = AddInterval(@, i)]
    /\ UNCHANGED <<recording_setup, phase, recordingEnabled, profile, forkDepth, open, selected,
                   index, enters, exits, hasEnabled, threadVars, entered>>

(* begin_epoch enters the program region; the default mode is applied      *)
(* before events from outside are let in.                                  *)
InitMeasurement ==
    /\ phase = "PRE" /\ \A r \in UserRegions : Range(intervals[r]) = Intervals[r]
    /\ phase' = "WITHIN"
    /\ recordingEnabled' = DefaultMode
    /\ profile' = LET begun == ProfileEnter(profile, ProgramRegion)
                  IN IF DefaultMode THEN begun ELSE ProfileEnter(begun, RecordOff)
    /\ UNCHANGED <<recording_setup, forkDepth, open, regionVars, threadVars, entered>>

Within == phase = "WITHIN" /\ \A t \in ProgramThreads : pc[t] # "crashed"
Runs(t) == Within /\ (t # MainThread => forkDepth # NotForked)
AtStep(t, step) == Runs(t) /\ pc[t] = step
GotoStep(t, step) == pc' = [pc EXCEPT ![t] = step]

-----------------------------------------------------------------------------
(* scorep_user_region_enter: the check, then the enter event.              *)

UserRegionEnter(t) ==
    /\ AtStep(t, "idle")
    /\ Len(open[t]) < MaxOpen
    /\ \E r \in UserRegions :
          /\ entered[r] < MaxCalls
          /\ entered' = [entered EXCEPT ![r] = @ + 1]
          /\ arg' = [arg EXCEPT ![t] = r]
    /\ GotoStep(t, "check_enter")
    /\ UNCHANGED <<recording_setup, phase, recordingEnabled, profile, forkDepth, open,
                   regionVars, reg>>

InInterval(r) ==
    /\ enters[r] >= intervals[r][index[r]].first
    /\ enters[r] <= intervals[r][index[r]].last

Untouched == UNCHANGED <<recording_setup, phase, forkDepth, open, entered, arg>>

CheckEnterCounts(t) ==
    LET r == arg[t] IN
    /\ AtStep(t, "check_enter")
    /\ selected[r] /\ (hasEnabled[r] \/ recordingEnabled \/ ~InInterval(r))
    /\ GotoStep(t, IF hasEnabled[r] THEN "load_both" ELSE "load_enters")
    /\ UNCHANGED <<regionVars, reg>> /\ RecordingRefused /\ Untouched

(* mutant: no count of exits for the instance that switched recording on   *)
CheckEnterEnablesUncounted(t) ==
    LET r == arg[t] IN
    /\ AtStep(t, "check_enter")
    /\ selected[r] /\ ~hasEnabled[r] /\ ~recordingEnabled /\ InInterval(r)
    /\ ~InParallel(t)
    /\ EnableRecording
    /\ enters' = [enters EXCEPT ![r] = (@ + 1) % Word]
    /\ hasEnabled' = [hasEnabled EXCEPT ![r] = TRUE]
    /\ GotoStep(t, "enter")
    /\ UNCHANGED <<intervals, selected, index, exits, reg>> /\ Untouched

CheckEnterEnables(t) ==
    LET r == arg[t] IN
    /\ AtStep(t, "check_enter")
    /\ selected[r] /\ ~hasEnabled[r] /\ ~recordingEnabled /\ InInterval(r)
    /\ ~InParallel(t)
    /\ EnableRecording
    /\ enters' = [enters EXCEPT ![r] = (@ + 1) % Word]
    /\ exits' = [exits EXCEPT ![r] = 1]
    /\ hasEnabled' = [hasEnabled EXCEPT ![r] = TRUE]
    /\ GotoStep(t, "enter")
    /\ UNCHANGED <<intervals, selected, index, reg>> /\ Untouched

CheckEnterDoesNotCount(t) ==
    LET r == arg[t] IN
    /\ AtStep(t, "check_enter")
    /\ \/ ~selected[r]
       \/ /\ selected[r] /\ ~hasEnabled[r] /\ ~recordingEnabled
          /\ InInterval(r) /\ InParallel(t)
    /\ GotoStep(t, "enter")
    /\ UNCHANGED <<regionVars, reg>> /\ RecordingRefused /\ Untouched

LoadEnters(t) ==
    /\ AtStep(t, "load_enters") \/ AtStep(t, "load_both")
    /\ reg' = [reg EXCEPT ![t] = enters[arg[t]]]
    /\ GotoStep(t, IF pc[t] = "load_both" THEN "store_both" ELSE "store_enters")
    /\ UNCHANGED regionVars /\ RecordingRefused /\ Untouched

(* exits is incremented too when this region has switched recording on.    *)
StoreEnters(t) ==
    /\ AtStep(t, "store_enters") \/ AtStep(t, "store_both")
    /\ enters' = [enters EXCEPT ![arg[t]] = (reg[t] + 1) % Word]
    /\ GotoStep(t, IF pc[t] = "store_both" THEN "load_exits" ELSE "enter")
    /\ UNCHANGED <<intervals, selected, index, exits, hasEnabled, reg>> /\ RecordingRefused /\ Untouched

LoadExits(t) ==
    /\ AtStep(t, "load_exits")
    /\ reg' = [reg EXCEPT ![t] = exits[arg[t]]]
    /\ GotoStep(t, "store_exits")
    /\ UNCHANGED regionVars /\ RecordingRefused /\ Untouched

StoreExits(t) ==
    /\ AtStep(t, "store_exits")
    /\ exits' = [exits EXCEPT ![arg[t]] = (reg[t] + 1) % Word]
    /\ GotoStep(t, "enter")
    /\ UNCHANGED <<intervals, selected, index, enters, hasEnabled, reg>> /\ RecordingRefused /\ Untouched

EnterRegion(t) ==
    /\ AtStep(t, "enter")
    /\ open' = [open EXCEPT ![t] = Append(@, arg[t])]
    /\ profile' = IF RecordsOf(t) THEN ProfileEnter(profile, arg[t]) ELSE profile
    /\ GotoStep(t, "idle")
    /\ UNCHANGED <<recording_setup, phase, recordingEnabled, forkDepth, regionVars, arg, reg, entered>>

-----------------------------------------------------------------------------
(* scorep_user_region_exit: the exit event, then the check.  Regions are   *)
(* properly nested, and a parallel region is left with what it was entered *)
(* with.                                                                   *)

MayExit(t) ==
    /\ open[t] # <<>>
    /\ t = MainThread /\ forkDepth # NotForked => Len(open[t]) > forkDepth
    \* with nested switching the application is back where it switched off
    /\ Switching = "nested" /\ t = MainThread /\ ~recordingEnabled
          => Len(open[t]) > Len(profile.nodes) - 2

UserRegionExit(t) ==
    LET r == Last(open[t]) IN
    /\ AtStep(t, "idle") /\ MayExit(t)
    /\ open' = [open EXCEPT ![t] = Front(@)]
    /\ profile' = IF RecordsOf(t) THEN ProfileExit(profile, r) ELSE profile
    /\ arg' = [arg EXCEPT ![t] = r]
    /\ GotoStep(t, "check_exit")
    /\ UNCHANGED <<recording_setup, phase, recordingEnabled, forkDepth, regionVars, reg, entered>>

CheckExit(t) ==
    /\ AtStep(t, "check_exit")
    /\ GotoStep(t, IF hasEnabled[arg[t]] THEN "load_exit" ELSE "idle")
    /\ UNCHANGED <<regionVars, reg>> /\ RecordingRefused /\ Untouched

LoadExit(t) ==
    /\ AtStep(t, "load_exit")
    /\ reg' = [reg EXCEPT ![t] = exits[arg[t]]]
    /\ GotoStep(t, "store_exit")
    /\ UNCHANGED regionVars /\ RecordingRefused /\ Untouched

StoreExit(t) ==
    /\ AtStep(t, "store_exit")
    /\ exits' = [exits EXCEPT ![arg[t]] = (reg[t] + Word - 1) % Word]
    /\ GotoStep(t, "test_exit")
    /\ UNCHANGED <<intervals, selected, index, enters, hasEnabled, reg>> /\ RecordingRefused /\ Untouched

(* exits is unsigned: exits <= 0 is exits = 0.                             *)
TestExit(t) ==
    LET last == exits[arg[t]] = 0 IN
    /\ AtStep(t, "test_exit")
    /\ IF last /\ ~InParallel(t) THEN DisableRecording ELSE RecordingRefused
    /\ GotoStep(t, IF last THEN "clear" ELSE "idle")
    /\ UNCHANGED <<regionVars, reg>> /\ Untouched

ClearHasEnabled(t) ==
    /\ AtStep(t, "clear")
    /\ hasEnabled' = [hasEnabled EXCEPT ![arg[t]] = FALSE]
    /\ GotoStep(t, "advance")
    /\ UNCHANGED <<intervals, selected, index, enters, exits, reg>> /\ RecordingRefused /\ Untouched

(* mutant: the last instance of an interval is taken for over              *)
AdvanceTooEarly(t) ==
    LET r == arg[t]
        ahead == {i \in index[r] .. Len(intervals[r]) :
                     intervals[r][i].last > enters[r]}
    IN
    /\ AtStep(t, "advance")
    /\ index' = [index EXCEPT ![r] =
          IF ahead = {} THEN Len(intervals[r]) ELSE Min(ahead)]
    /\ selected' = [selected EXCEPT ![r] = @ /\ ahead # {}]
    /\ GotoStep(t, "idle")
    /\ UNCHANGED <<intervals, enters, exits, hasEnabled, reg>> /\ RecordingRefused /\ Untouched

(* The next interval that is not over yet; without one the selection is    *)
(* dropped.  The loop reads the selection, which another thread may have   *)
(* dropped already.                                                        *)
Advance(t) ==
    LET r == arg[t]
        ahead == {i \in index[r] .. Len(intervals[r]) :
                     intervals[r][i].last >= enters[r]}
        over == index[r] \notin ahead
    IN
    /\ AtStep(t, "advance")
    /\ index' = [index EXCEPT ![r] =
          IF over /\ ~selected[r] THEN @
          ELSE IF ahead = {} THEN Len(intervals[r]) ELSE Min(ahead)]
    /\ selected' = [selected EXCEPT ![r] = @ /\ ahead # {}]
    /\ GotoStep(t, IF over /\ ~selected[r] THEN "crashed" ELSE "idle")
    /\ UNCHANGED <<intervals, enters, exits, hasEnabled, reg>> /\ RecordingRefused /\ Untouched

-----------------------------------------------------------------------------
(* SCOREP_User_EnableRecording and SCOREP_User_DisableRecording.           *)
(* "nested" is the documented use: off and on alternate, and at the same   *)
(* depth.                                                                  *)

MayEnable(t) ==
    \/ Switching = "free"
    \/ /\ Switching = "nested" /\ ~recordingEnabled
       /\ Len(open[MainThread]) = Len(profile.nodes) - 2

MayDisable(t) ==
    \/ Switching = "free"
    \/ Switching = "nested" /\ recordingEnabled

SwitchOn(t) ==
    /\ AtStep(t, "idle") /\ MayEnable(t)
    /\ IF InParallel(t) THEN RecordingRefused ELSE EnableRecording
    /\ UNCHANGED <<regionVars, threadVars>> /\ Untouched

SwitchOff(t) ==
    /\ AtStep(t, "idle") /\ MayDisable(t)
    /\ IF InParallel(t) THEN RecordingRefused ELSE DisableRecording
    /\ UNCHANGED <<regionVars, threadVars>> /\ Untouched

-----------------------------------------------------------------------------
Fork ==
    /\ recording_setup.parallel
    /\ AtStep(MainThread, "idle") /\ forkDepth = NotForked
    /\ forkDepth' = Len(open[MainThread])
    /\ UNCHANGED <<recording_setup, phase, recordingEnabled, profile, open, regionVars,
                   threadVars, entered>>

Join ==
    /\ AtStep(MainThread, "idle") /\ forkDepth = Len(open[MainThread])
    /\ \A t \in TeamThreads : pc[t] = "idle" /\ open[t] = <<>>
    /\ forkDepth' = NotForked
    /\ UNCHANGED <<recording_setup, phase, recordingEnabled, profile, open, regionVars,
                   threadVars, entered>>

(* scorep_finalize: the open regions are left first, with recording as it  *)
(* is; then recording is switched on if it was off by default; the program *)
(* region is left last.                                                    *)
LeaveAll(p) == FoldLeft(ProfileExit, p, Reverse(open[MainThread]))

Finalize ==
    /\ AtStep(MainThread, "idle") /\ forkDepth = NotForked
    /\ EarlyExit \/ open[MainThread] = <<>>
    /\ phase' = "POST"
    /\ open' = [open EXCEPT ![MainThread] = <<>>]
    /\ LET left == IF recordingEnabled THEN LeaveAll(profile) ELSE profile
           on   == IF DefaultMode THEN left ELSE ProfileExit(left, RecordOff)
       IN /\ recordingEnabled' = (recordingEnabled \/ ~DefaultMode)
          /\ profile' = IF recordingEnabled' THEN ProfileExit(on, ProgramRegion) ELSE on
    /\ UNCHANGED <<recording_setup, forkDepth, regionVars, threadVars, entered>>

RecordingStep(t) ==
    \/ UserRegionEnter(t) \/ CheckEnterCounts(t) \/ CheckEnterEnables(t)
    \/ CheckEnterDoesNotCount(t) \/ LoadEnters(t) \/ StoreEnters(t)
    \/ LoadExits(t) \/ StoreExits(t) \/ EnterRegion(t)
    \/ UserRegionExit(t) \/ CheckExit(t) \/ LoadExit(t) \/ StoreExit(t)
    \/ TestExit(t) \/ ClearHasEnabled(t) \/ Advance(t)
    \/ SwitchOn(t) \/ SwitchOff(t)

(* The measurement is over, or the program has crashed.                    *)
RecordingStop ==
    /\ phase = "POST" \/ \E t \in ProgramThreads : pc[t] = "crashed"
    /\ UNCHANGED recordingVars

RecordingNext ==
    \/ RecordingStop
    \/ (\E r \in UserRegions : ParseFile(r)) \/ InitMeasurement \/ Fork \/ Join \/ Finalize
    \/ \E t \in ProgramThreads : RecordingStep(t)

RecordingSpec == RecordingInit /\ [][RecordingNext]_recordingVars

-----------------------------------------------------------------------------
(* Properties.                                                             *)

BetweenCalls == \A t \in ProgramThreads : pc[t] = "idle"
Selective == ~DefaultMode /\ Switching = "never"
(* The counts of selected regions can only be trusted in a serial program: *)
(* with a lost increment, exits reaches zero within the instance, and in a *)
(* parallel region, where recording cannot be switched, it stays on.       *)
CountsExact == Selective => ~recording_setup.parallel
EnabledInside(r) == \E i \in DOMAIN open[MainThread] : open[MainThread][i] = r

(* Contained intervals are sorted after their first instance, which is     *)
(* what selective recording relies on when it looks only at one interval.  *)
Sorted ==
    \A r \in UserRegions : \A i, j \in DOMAIN intervals[r] :
       i < j => intervals[r][i].first <= intervals[r][j].first

(* The binary search finds the place that a scan from the start finds, for *)
(* every value that can still be added: behind the lesser ones.            *)
LowerBoundCorrect ==
    \A r \in UserRegions : \A i \in Intervals[r] :
       LET place == LowerBound(intervals[r], i.first)
       IN  /\ place \in 0 .. Len(intervals[r])
           /\ \A j \in DOMAIN intervals[r] : intervals[r][j].first < i.first <=> j <= place

(* Whatever the order of the file is, its intervals lie in the order in    *)
(* which their instances come (scorep_selective_region.c,                  *)
(* SCOREP_Vector_LowerBound).                                              *)
IntervalsInOrder == Sorted /\ LowerBoundCorrect

(* The profile has never met an exit of another region than its innermost  *)
(* one: SCOREP_EnableRecording is a noop when recording is on.             *)
ProfileIntact == ~profile.stopped

(* What the profile has open during the measurement are the calls the      *)
(* thread is in, from the one that was entered with recording on first to  *)
(* the one recording was switched off in, and record_off exactly while     *)
(* recording is off.                                                       *)
ProfileMirrorsCalls ==
    CountsExact /\ phase = "WITHIN" =>
      \E j \in 0 .. Len(open[MainThread]) : \E k \in j .. Len(open[MainThread]) :
         LET seen == <<ProgramRegion>> \o SubSeq(open[MainThread], j + 1, k) IN
         IF recordingEnabled
         THEN k = Len(open[MainThread]) /\ profile.nodes = seen
         ELSE profile.nodes = Append(seen, RecordOff)

(* A measurement that ends with recording on has left every region in the  *)
(* profile, the program's included, also when the program calls exit()     *)
(* with regions still open.                                                *)
ProfileClosed ==
    CountsExact /\ phase = "POST" /\ recordingEnabled =>
       profile = [nodes |-> <<>>, stopped |-> FALSE]

(* Switching the recording never takes the profile out of step with the    *)
(* calls of the program, neither while it is measured nor at its end       *)
(* (SCOREP_RuntimeManagement.c, scorep_profile_event_base.c).              *)
RecordingInvariant == RecordingTypeOK /\ ProfileMirrorsCalls /\ ProfileClosed

(* Selective recording records only what is executed inside of a selected  *)
(* region, and knows which region it is in for: recording is on between    *)
(* calls exactly while one open region has switched it on, whose count of  *)
(* exits to come is positive.                                              *)
OnlyWithinSelected ==
    Selective /\ ~recording_setup.parallel /\ phase = "WITHIN" /\ BetweenCalls /\ recordingEnabled =>
      \E r \in UserRegions : hasEnabled[r] /\ exits[r] > 0 /\ EnabledInside(r)

(* The interval looked at for r is not over before this instance.          *)
CurrentOpen(r, instance) == intervals[r][index[r]].last >= instance

(* One region is selected, by intervals that do not end before they start. *)
PlainSelection ==
    /\ \A r, s \in UserRegions : Intervals[r] # {} /\ Intervals[s] # {} => r = s
    /\ \A r \in UserRegions : \A i \in Intervals[r] : i.first <= i.last

(* In a serial program, every instance whose number is in an interval of   *)
(* its region is entered with recording on, unless the interval looked at  *)
(* for the region was over before: it moves on only when an instance is    *)
(* left that switched recording on itself.  This never happens with a      *)
(* plain selection; it does with two regions, or with an empty interval    *)
(* (scorep_selective_check_enter, scorep_selective_check_exit).            *)
SelectedRecorded ==
    Selective /\ ~recording_setup.parallel /\ AtStep(MainThread, "enter") =>
      LET r == arg[MainThread]  instance == entered[r] - 1 IN
      /\ \E i \in Intervals[r] : i.first <= instance /\ instance <= i.last
      /\ PlainSelection \/ CurrentOpen(r, instance)
      => recordingEnabled

(* At most one region is the one that switched recording on, and recording *)
(* is on as long as it is, except for a thread that is just undoing it.    *)
EnablerUnique ==
    \A r \in UserRegions : hasEnabled[r] =>
      /\ \A s \in UserRegions : hasEnabled[s] => s = r
      /\ recordingEnabled \/ \E t \in ProgramThreads : pc[t] = "clear" /\ arg[t] = r

(* Selective recording always knows for which region recording is on: that *)
(* region's exit, and no other, switches it off (scorep_selective_region.c)*)
EnablerKnown == OnlyWithinSelected /\ EnablerUnique

(* While threads other than the main one run, recording is not switched:   *)
(* all threads of a parallel region read the same table of substrates from *)
(* its fork to its join.                                                   *)
NoSwitchInParallel ==
    [][forkDepth # NotForked => recordingEnabled' = recordingEnabled]_recordingVars
=============================================================================
