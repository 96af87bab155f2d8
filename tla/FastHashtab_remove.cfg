\* Two threads, three keys in one bucket, two pairs per chunk.
CONSTANTS
  t1 = t1
  t2 = t2
  t3 = t3
  k1 = k1
  k2 = k2
  k3 = k3
  k4 = k4
  v1 = v1
  v2 = v2
  c1 = c1
  c2 = c2
  c3 = c3
  c4 = c4
  NULL = NULL
  Threads = {t1, t2}
  Keys = {k1, k2, k3}
  Values = {v1, v2}
  Calls = {"get", "insert", "remove"}
  HashTableSize = 1
  BucketIdx <- OneBucket
  NPairsPerChunk = 2
  UINT32 = 65536
  Chunks = {c1, c2, c3}
SYMMETRY Symmetry
SPECIFICATION Spec
INVARIANTS
  Conserved
  EmptyChunksAreFreed
  LastPairFound
PROPERTIES
  PairsStableWhileRead
  Implements
