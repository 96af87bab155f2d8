\* A query of one thread, a creation of another in the same bucket.
CONSTANTS
  i1 = i1
  i2 = i2
  IoLocations = {i1, i2}
  Descriptors = {1, 2, 3, 4, 5}
  Streams = {1, 2, 3, 4}
  Files = {"a", "b"}
  IoSetups <- OneBucket
SPECIFICATION IoSpec
INVARIANTS
  QueryFindsHandle
