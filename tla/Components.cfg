CONSTANTS
  NULL = NULL
  \* Recording
  ur1 = ur1
  ur2 = ur2
  MainThread = main
  TeamThreads = {w1}
  UserRegions = {ur1, ur2}
  RecordingSetups <- SwitchedAndSelective
  ProgramRegion = program
  RecordOff = record_off
  MaxOpen = 3
  Word = 8
  \* TaskStack: two locations, tasks that move between them, stacks of two frames.
  Locations = {a, b}
  Tasks = {t1, t2, t3}
  Frames = {f1, f2}
  Regions = {r1}
  SCOREP_FILTERED_REGION = SCOREP_FILTERED_REGION
  SCOREP_TASK_STACK_SIZE = 2
  MaxDepth = 3
  \* RewindStack
  RewindRegions = {rr1, rr2, rr3}
  Paradigms = {a, b}
  Other = other
  BufferSize = 4
  MaxTime = 6
  Programs = {"nested"}
  \* MpiRequests
  Threads = {a, b}
  Keys = {D, k1, k2}
  Dummy = D
  Requests <- RequestObjects
  Entries <- EntryObjects
  MaxStarts = 2
  MpiSetups <- SoundPrograms
  \* OmptOverdue
  Primary = m
  Workers = {a, b}
  TaskObjects = {o1, o2, o3}
  ParallelObjects = {p1, p2, p3}
  OmptSetups <- LateAndAny
  \* AllocMetric
  Callers = {a, b}
  Addresses = {1, 2, 3, 4}
  Sizes = {1, 3}
  AllocSetups <- AllReported
  Trees <- SearchTrees
  ItemsOf <- ItemsBelow
  IsSearchTree <- IsOrdered
  Splay <- splay
  Insert <- insert_memory_allocation
  RemoveRoot <- remove_memory_allocation
  \* IoHandles
  i1 = i1
  i2 = i2
  IoLocations = {i1, i2}
  Descriptors = {1, 2, 3, 4, 5}
  Streams = {1, 2, 3, 4}
  Files = {"a", "b"}
  IoSetups <- SoundIo
  \* Unify
  UnifySetups <- SmallPrograms
SYMMETRY Symmetry
SPECIFICATION ComponentsSpec
INVARIANTS
  RecordingInvariant
  IntervalsInOrder
  EnablerKnown
  SelectedRecorded
  OwnedOnce
  RewindConsistent
  RemovedIsDeclared
  CompletionsRecorded
  ObjectsOwnedOnce
  EndedOnce
  TimesInOrderIfLate
  ObjectsLive
  AllocationsTracked
  OperationsOnOpenFile
  TableMatchesFiles
  UnifiedIds
PROPERTIES
  NoSwitchInParallel
  Implements
  CounterTimesInOrder
