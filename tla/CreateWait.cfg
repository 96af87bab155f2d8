\* Two joinable workers with one start routine, one that may be detached,
\* cancelled or call pthread_exit, and one orphan.
CONSTANTS
  w1 = w1
  w2 = w2
  w3 = w3
  o1 = o1
  Main = main
  MaxAlive = 2
  MayExit = {w3}
  MaxThreads = 3
  None = none
  Workers = {w1, w2, w3}
  Orphans = {o1}
  Routine <- TwoRoutines
  MayDetach = {w3}
  MayCancel = {w3}
  Policy = "same_start_routine"
  MaxDepth = 1
SYMMETRY Symmetry
SPECIFICATION Spec
CHECK_DEADLOCK FALSE
INVARIANTS
  OwnedOnce
  PooledIsClosed
  EndsFollowBegins
  DataConserved
  LatecomersEnded
  JoinDeliversValue
