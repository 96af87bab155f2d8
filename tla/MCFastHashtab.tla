--------------------------- MODULE MCFastHashtab ---------------------------
(* Model-checking instances of FastHashtab.                                *)
EXTENDS FastHashtab, TLC

CONSTANTS t1, t2, t3, k1, k2, k3, k4, v1, v2, c1, c2, c3, c4

OneBucket == [k \in Keys |-> 1]
TwoBuckets == [k \in Keys |-> IF k = k4 THEN 2 ELSE 1]

(* Threads and values are interchangeable, and so are keys of one bucket.  *)
Symmetry == UNION {Permutations(S) : S \in
  {Threads, Values} \cup {{k \in Keys : BucketIdx[k] = b} : b \in 1 .. HashTableSize}}
=============================================================================
