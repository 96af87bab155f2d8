\* Three threads, each reader and writer in any order; no symmetry, because
\* of the temporal properties.
CONSTANTS
  t1 = t1
  t2 = t2
  t3 = t3
  Threads = {t1, t2, t3}
  RWLOCK_MAX_READERS = 16384
SPECIFICATION FairSpec
INVARIANTS
  TypeOK
  Exclusion
  NoBug
  TicketsHaveTakers
  QuiescentIsClean
PROPERTIES
  AnnouncedWriterEnters
  NoReaderLeftBehind
  Implements
