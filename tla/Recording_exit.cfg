\* exit() inside of a selected instance.
CONSTANTS
    R = R
    S = S
    MainThread = main
    TeamThreads = {w1}
    UserRegions = {R, S}
    RecordingSetups <- ExitSetups
    ProgramRegion = program
    RecordOff = record_off
    MaxOpen = 2
    Word = 8
SPECIFICATION RecordingSpec
INVARIANTS
    ProfileIntact
