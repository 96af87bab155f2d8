\* A persistent request that is asked for its status before it is started.
CONSTANTS
  Threads = {t1, t2}
  Keys = {D, k1, k2}
  Dummy = D
  Requests <- RequestObjects
  Entries <- EntryObjects
  MaxStarts = 2
  MpiSetups <- StatusOfInactive
  NULL = NULL
SYMMETRY Symmetry
SPECIFICATION MpiSpec
INVARIANTS
  CompletionsRecorded
