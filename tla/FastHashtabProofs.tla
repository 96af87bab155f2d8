------------------------- MODULE FastHashtabProofs -------------------------
(***************************************************************************)
(* Proofs about FastHashtab, for any number of threads, keys, buckets and  *)
(* chunks and any number of pairs per chunk:                               *)
(*   - no chunk is lost, shared or in two chains (ChunksAreConserved), and *)
(*     removing pairs leaves no empty chunk behind (EmptyChunksAreFreed);  *)
(*   - remove_if stays in the chunks of its bucket and removes all that    *)
(*     its predicate accepts;                                              *)
(*   - a pair that is read under the reader lock does not change;          *)
(*   - the table implements AbstractMap: every call takes effect at one    *)
(*     moment between its begin and its end.                               *)
(* The last two are why a search needs no insert lock: pairs are written   *)
(* behind those that are counted and the size is stored last, so that what *)
(* a reader knows stays true while others insert (Extends, GrownThread).   *)
(*                                                                         *)
(* The only assumption beyond the model's is OneChunkIfRemoveIf.           *)
(*                                                                         *)
(* The parts: rows and columns; chains; the invariant; one lemma per       *)
(* action, <Action>Keeps; the properties; the refinement.                  *)
(***************************************************************************)
EXTENDS FastHashtab, ListLemmas, FiniteSetTheorems

(* The n-th pair of a bucket is in this chunk of its chain and this slot.  *)
Row(n) == (n \div NPairsPerChunk) + 1
Col(n) == n % NPairsPerChunk

(* What the prover knows of division.                                      *)
LEMMA DivMod ==
  \A n \in Nat, k \in Nat \ {0} :
    n \div k \in Nat /\ n % k \in 0 .. k - 1 /\ n = k * (n \div k) + (n % k)
OBVIOUS

(* Multiplication is monotone.                                             *)
LEMMA MulMonotone == \A k, m, n \in Nat : m <= n => k * m <= k * n
OBVIOUS

(* Row and column determine the pair, and the pair them.                   *)
LEMMA RowAndCol ==
  ASSUME TableAssumption, NEW n \in Nat
  PROVE  /\ Row(n) \in Nat \ {0} /\ Col(n) \in Slots
         /\ n = NPairsPerChunk * (Row(n) - 1) + Col(n)
<1> DEFINE k == NPairsPerChunk
<1>1. k \in Nat \ {0}
  BY DEF TableAssumption
<1>2. n \div k \in Nat /\ n % k \in 0 .. k - 1 /\ n = k * (n \div k) + (n % k)
  BY <1>1, DivMod
<1>3. PICK q \in Nat : q = n \div k
  BY <1>2
<1>4. (q + 1) - 1 = q
  OBVIOUS
<1> QED BY <1>1, <1>2, <1>3, <1>4 DEF Row, Col, Slots

(* There is one way to write a number as row and column.                   *)
LEMMA IsInRow ==
  ASSUME TableAssumption, NEW n \in Nat, NEW row \in Nat \ {0}, NEW col \in Slots,
         n = NPairsPerChunk * (row - 1) + col
  PROVE  Row(n) = row /\ Col(n) = col
<1>1. PICK k \in Nat \ {0} : k = NPairsPerChunk
  BY DEF TableAssumption
<1>2. PICK p \in Nat : p = row - 1
  OBVIOUS
<1>3. PICK q \in Nat : q = Row(n) - 1
  BY RowAndCol
<1>4. PICK r \in 0 .. k - 1 : r = Col(n)
  BY <1>1, RowAndCol DEF Slots
<1>5. n = k * p + col /\ n = k * q + r /\ col \in 0 .. k - 1
  BY <1>1, <1>2, <1>3, <1>4, RowAndCol DEF Slots
<1>6. k * p \in Nat /\ k * q \in Nat /\ k * (p + 1) = k * p + k /\ k * (q + 1) = k * q + k
  OBVIOUS
<1>7. ~(p + 1 <= q)
  <2> SUFFICES ASSUME p + 1 <= q PROVE FALSE
    OBVIOUS
  <2>1. k * (p + 1) <= k * q
    BY MulMonotone
  <2> QED BY <1>5, <1>6, <2>1
<1>8. ~(q + 1 <= p)
  <2> SUFFICES ASSUME q + 1 <= p PROVE FALSE
    OBVIOUS
  <2>1. k * (q + 1) <= k * p
    BY MulMonotone
  <2> QED BY <1>5, <1>6, <2>1
<1>9. p = q
  BY <1>7, <1>8
<1>10. k * p = k * q
  BY <1>9
<1>11. col = r
  BY <1>5, <1>6, <1>10
<1>12. Row(n) = q + 1 /\ row = p + 1
  BY <1>2, <1>3, RowAndCol
<1> QED BY <1>4, <1>9, <1>11, <1>12

(* The pair after the n-th, and one of a later row.                        *)
LEMMA NextPosition ==
  ASSUME TableAssumption, NEW n \in Nat
  PROVE  /\ Col(n) + 1 = NPairsPerChunk => Row(n + 1) = Row(n) + 1 /\ Col(n + 1) = 0
         /\ Col(n) + 1 # NPairsPerChunk => Row(n + 1) = Row(n) /\ Col(n + 1) = Col(n) + 1
<1>1. PICK k \in Nat \ {0} : k = NPairsPerChunk
  BY DEF TableAssumption
<1>2. PICK row \in Nat \ {0} : row = Row(n)
  BY RowAndCol
<1>3. PICK col \in 0 .. k - 1 : col = Col(n)
  BY <1>1, RowAndCol DEF Slots
<1>4. n = k * (row - 1) + col /\ n + 1 \in Nat /\ Slots = 0 .. k - 1
  BY <1>1, <1>2, <1>3, RowAndCol DEF Slots
<1>5. CASE col + 1 = k
  <2>1. k * ((row + 1) - 1) = k * (row - 1) + k
    OBVIOUS
  <2>2. n + 1 = k * ((row + 1) - 1) + 0 /\ 0 \in Slots /\ row + 1 \in Nat \ {0}
    BY <1>4, <1>5, <2>1
  <2>3. Row(n + 1) = row + 1 /\ Col(n + 1) = 0
    BY <1>1, <1>4, <2>2, IsInRow
  <2> QED BY <1>1, <1>2, <1>3, <1>5, <2>3
<1>6. CASE col + 1 # k
  <2>1. n + 1 = k * (row - 1) + (col + 1) /\ col + 1 \in Slots
    BY <1>4, <1>6
  <2>2. Row(n + 1) = row /\ Col(n + 1) = col + 1
    BY <1>1, <1>4, <2>1, IsInRow
  <2> QED BY <1>1, <1>2, <1>3, <1>6, <2>2
<1> QED BY <1>5, <1>6

(* The first pair is in the first slot of the first chunk.                 *)
LEMMA FirstPosition == TableAssumption => Row(0) = 1 /\ Col(0) = 0
<1> SUFFICES ASSUME TableAssumption PROVE Row(0) = 1 /\ Col(0) = 0
  OBVIOUS
<1>1. PICK k \in Nat \ {0} : k = NPairsPerChunk
  BY DEF TableAssumption
<1>2. 0 = k * (1 - 1) + 0 /\ 0 \in Slots
  BY <1>1 DEF Slots
<1> QED BY <1>1, <1>2, IsInRow

(* Later pairs are in the same chunk, further behind, or in a later one.   *)
LEMMA RowsAscend ==
  ASSUME TableAssumption, NEW m \in Nat, NEW n \in Nat, m <= n
  PROVE  /\ Row(m) <= Row(n)
         /\ m # n /\ Row(m) = Row(n) => Col(m) < Col(n)
<1>1. PICK k \in Nat \ {0} : k = NPairsPerChunk
  BY DEF TableAssumption
<1>2. PICK p, q \in Nat : p = Row(m) - 1 /\ q = Row(n) - 1
  BY RowAndCol
<1>3. PICK c, d \in 0 .. k - 1 : c = Col(m) /\ d = Col(n)
  BY <1>1, RowAndCol DEF Slots
<1>4. m = k * p + c /\ n = k * q + d
  BY <1>1, <1>2, <1>3, RowAndCol
<1>5. ~(q + 1 <= p)
  <2> SUFFICES ASSUME q + 1 <= p PROVE FALSE
    OBVIOUS
  <2>1. k * (q + 1) <= k * p
    BY MulMonotone
  <2>2. k * (q + 1) = k * q + k /\ k * p \in Nat /\ k * q \in Nat
    OBVIOUS
  <2> QED BY <1>4, <2>1, <2>2
<1>6. p = q /\ m # n => c < d
  <2>1. k * p \in Nat
    OBVIOUS
  <2> QED BY <1>4, <2>1
<1>7. Row(m) = p + 1 /\ Row(n) = q + 1
  BY <1>2, RowAndCol
<1> QED BY <1>3, <1>5, <1>6, <1>7

(* The pair a chunk size before is in the same slot of the row before.     *)
LEMMA RowBefore ==
  ASSUME TableAssumption, NEW n \in Nat
  PROVE  /\ n < NPairsPerChunk <=> Row(n) = 1
         /\ n >= NPairsPerChunk => /\ n - NPairsPerChunk \in Nat
                                   /\ Row(n - NPairsPerChunk) = Row(n) - 1
<1>1. PICK k \in Nat \ {0} : k = NPairsPerChunk
  BY DEF TableAssumption
<1>2. PICK q \in Nat : q = Row(n) - 1 /\ Row(n) = q + 1
  BY RowAndCol
<1>3. PICK d \in 0 .. k - 1 : d = Col(n) /\ d \in Slots
  BY <1>1, RowAndCol DEF Slots
<1>4. n = k * q + d
  BY <1>1, <1>2, <1>3, RowAndCol
<1>5. CASE q = 0
  <2>1. k * q = 0
    BY <1>5
  <2>2. n < k /\ ~(n >= k)
    BY <1>4, <2>1
  <2>3. Row(n) = 1
    BY <1>2, <1>5
  <2> QED BY <1>1, <2>2, <2>3
<1>6. CASE q # 0
  <2>1. k * q = k * (q - 1) + k /\ k * (q - 1) \in Nat /\ q - 1 \in Nat
    BY <1>6
  <2>2. n - k \in Nat /\ n - k = k * (q - 1) + d /\ ~(n < k)
    BY <1>4, <2>1
  <2>3. Row(n - k) = q
    BY <1>1, <1>3, <1>6, <2>2, IsInRow
  <2> QED BY <1>1, <1>2, <1>6, <2>2, <2>3
<1> QED BY <1>5, <1>6

-----------------------------------------------------------------------------
(* s is the chain that begins with first.                                  *)
IsChain(s, first, links) ==
  /\ s \in Seq(Chunks) /\ IsInjective(s)
  /\ first = IF s = << >> THEN NULL ELSE s[1]
  /\ \A i \in 1 .. Len(s) : links[s[i]] = IF i < Len(s) THEN s[i + 1] ELSE NULL

(* What a chain is, in the form in which the proofs use it.                *)
LEMMA ChainFacts ==
  ASSUME TableAssumption, NEW s, NEW first, NEW links, IsChain(s, first, links)
  PROVE  /\ Len(s) \in Nat /\ DOMAIN s = 1 .. Len(s)
         /\ \A i \in 1 .. Len(s) : s[i] \in Chunks /\ s[i] # NULL /\ s[i] \in Range(s)
         /\ \A i, j \in 1 .. Len(s) : s[i] = s[j] => i = j
         /\ s = << >> <=> Len(s) = 0
         /\ s # << >> => 1 \in 1 .. Len(s) /\ Len(s) \in 1 .. Len(s)
         /\ first = NULL <=> s = << >>
         /\ Range(s) \subseteq Chunks
         /\ \A x \in Range(s) : \E i \in 1 .. Len(s) : x = s[i]
<1>1. Len(s) \in Nat /\ DOMAIN s = 1 .. Len(s) /\ (s = << >> <=> Len(s) = 0)
  BY LenProperties, EmptySeq DEF IsChain
<1>2. \A i \in 1 .. Len(s) : s[i] \in Chunks
  BY ElementOfSeq DEF IsChain
<1>3. NULL \notin Chunks
  BY DEF TableAssumption
<1>4. \A i, j \in 1 .. Len(s) : s[i] = s[j] => i = j
  BY <1>1 DEF IsChain, IsInjective
<1>5. s # << >> => 1 \in 1 .. Len(s) /\ Len(s) \in 1 .. Len(s)
  BY <1>1
<1>6. first = NULL <=> s = << >>
  BY <1>1, <1>2, <1>3, <1>5 DEF IsChain
<1>7. /\ \A i \in 1 .. Len(s) : s[i] \in Range(s)
      /\ Range(s) \subseteq Chunks /\ \A x \in Range(s) : \E i \in 1 .. Len(s) : x = s[i]
  BY <1>1, <1>2 DEF Range
<1>8. \A i \in 1 .. Len(s) : s[i] # NULL
  BY <1>2, <1>3
<1> QED BY ONLY <1>1, <1>2, <1>4, <1>5, <1>6, <1>7, <1>8

(* The walk from first yields it.                                          *)
LEMMA ChainIs ==
  ASSUME TableAssumption, NEW s, NEW first, NEW links, IsChain(s, first, links)
  PROVE  ChainFrom(first, links) = s
<1> DEFINE Whole(g) == [n \in Nat |->
                          IF n = 0 THEN first
                          ELSE IF g[n - 1] \in Chunks THEN links[g[n - 1]] ELSE NULL]
           chunk == CHOOSE g : g = Whole(g)
           f == [n \in Nat |-> IF n < Len(s) THEN s[n + 1] ELSE NULL]
<1>1. /\ s \in Seq(Chunks) /\ Len(s) \in Nat /\ DOMAIN s = 1 .. Len(s) /\ IsInjective(s)
      /\ \A i \in 1 .. Len(s) : s[i] \in Chunks
      /\ NULL \notin Chunks /\ IsFiniteSet(Chunks)
      /\ first = IF Len(s) = 0 THEN NULL ELSE s[1]
  BY ChainFacts DEF IsChain, TableAssumption
<1>2. ASSUME NEW n \in Nat
      PROVE  f[n] = IF n = 0 THEN first
                    ELSE IF f[n - 1] \in Chunks THEN links[f[n - 1]] ELSE NULL
  <2>1. CASE n = 0
    <3>1. Len(s) = 0 => f[0] = NULL
      OBVIOUS
    <3>2. Len(s) # 0 => f[0] = s[1]
      BY <1>1
    <3> QED BY <1>1, <2>1, <3>1, <3>2
  <2>2. CASE n # 0
    <3>1. n - 1 \in Nat /\ (n - 1) + 1 = n
      BY <2>2
    <3>2. CASE n - 1 < Len(s)
      <4>1. f[n - 1] = s[n] /\ n \in 1 .. Len(s)
        BY <1>1, <3>1, <3>2
      <4>2. f[n - 1] \in Chunks /\ links[s[n]] = IF n < Len(s) THEN s[n + 1] ELSE NULL
        BY <1>1, <4>1 DEF IsChain
      <4> QED BY <2>2, <4>1, <4>2
    <3>3. CASE ~(n - 1 < Len(s))
      <4>1. f[n - 1] = NULL /\ ~(n < Len(s))
        BY <1>1, <3>1, <3>3
      <4> QED BY <1>1, <2>2, <4>1
    <3> QED BY <3>2, <3>3
  <2> QED BY <2>1, <2>2
<1>3. f = Whole(f)
  BY <1>2
<1>4. chunk = Whole(chunk)
  <2> HIDE DEF Whole, f
  <2> QED BY <1>3
<1>5. ChainFrom(first, links)
        = LET length == Cardinality({n \in 0 .. Cardinality(Chunks) : chunk[n] \in Chunks})
          IN  [n \in 1 .. length |-> chunk[n - 1]]
  BY DEF ChainFrom
<1> HIDE DEF chunk
<1>6. \A n \in Nat : chunk[n] = IF n = 0 THEN first
                                ELSE IF chunk[n - 1] \in Chunks THEN links[chunk[n - 1]] ELSE NULL
  BY <1>4
<1> HIDE DEF f
<1>7. \A n \in Nat : chunk[n] = f[n]
  <2> DEFINE Wrong == {n \in Nat : chunk[n] # f[n]}
  <2> SUFFICES ASSUME Wrong # {} PROVE FALSE
    OBVIOUS
  <2>1. PICK n \in Wrong : \A m \in Wrong : n <= m
    <3>1. Wrong \subseteq Nat
      OBVIOUS
    <3> HIDE DEF Wrong
    <3> QED BY <3>1, LeastNumber
  <2>2. n \in Nat /\ chunk[n] # f[n]
    BY <2>1
  <2>3. CASE n = 0
    BY <1>2, <1>6, <2>2, <2>3
  <2>4. CASE n # 0
    <3>1. n - 1 \in Nat /\ ~(n <= n - 1)
      BY <2>2, <2>4
    <3>2. chunk[n - 1] = f[n - 1]
      BY <2>1, <3>1
    <3> QED BY <1>2, <1>6, <2>2, <2>4, <3>2
  <2> QED BY <2>3, <2>4
<1>8. Len(s) <= Cardinality(Chunks) /\ Cardinality(Chunks) \in Nat
  <2>1. s \in Injection(1 .. Len(s), Chunks)
    BY <1>1 DEF Injection, IsInjective
  <2>2. Cardinality(1 .. Len(s)) = Len(s)
    <3>1. CASE Len(s) = 0
      <4>1. 1 .. Len(s) = {}
        BY <3>1
      <4> QED BY <3>1, <4>1, FS_EmptySet
    <3>2. CASE Len(s) # 0
      <4>1. Len(s) \in Int /\ ~(1 > Len(s)) /\ Len(s) - 1 + 1 = Len(s)
        BY <1>1, <3>2
      <4> QED BY <4>1, FS_Interval
    <3> QED BY <3>1, <3>2
  <2> QED BY <1>1, <2>1, <2>2, FS_Injection, FS_CardinalityType
<1>9. {n \in 0 .. Cardinality(Chunks) : chunk[n] \in Chunks} = 0 .. Len(s) - 1
  <2>1. ASSUME NEW n \in Nat PROVE chunk[n] \in Chunks <=> n < Len(s)
    <3>1. CASE n < Len(s)
      <4>1. n + 1 \in 1 .. Len(s) /\ chunk[n] = s[n + 1]
        BY <1>1, <1>7, <3>1 DEF f
      <4> QED BY <1>1, <3>1, <4>1
    <3>2. CASE ~(n < Len(s))
      BY <1>1, <1>7, <3>2 DEF f
    <3> QED BY <3>1, <3>2
  <2> QED BY <1>1, <1>8, <2>1
<1>10. Cardinality(0 .. Len(s) - 1) = Len(s)
  <2>1. CASE Len(s) = 0
    <3>1. 0 .. Len(s) - 1 = {}
      BY <2>1
    <3> QED BY <2>1, <3>1, FS_EmptySet
  <2>2. CASE Len(s) # 0
    <3>1. Len(s) - 1 \in Int /\ ~(0 > Len(s) - 1) /\ Len(s) - 1 - 0 + 1 = Len(s)
      BY <1>1, <2>2
    <3> QED BY <3>1, FS_Interval
  <2> QED BY <2>1, <2>2
<1>11. ChainFrom(first, links) = [n \in 1 .. Len(s) |-> chunk[n - 1]]
  BY <1>5, <1>9, <1>10
<1>12. ASSUME NEW n \in 1 .. Len(s) PROVE chunk[n - 1] = s[n]
  <2>1. n - 1 \in Nat /\ n - 1 < Len(s) /\ (n - 1) + 1 = n
    BY <1>1
  <2> QED BY <1>7, <2>1 DEF f
<1>13. s = [n \in 1 .. Len(s) |-> s[n]]
  BY <1>1
<1> QED BY <1>11, <1>12, <1>13

(* Links of other chunks do not matter.                                    *)
LEMMA ChainStays ==
  ASSUME TableAssumption, NEW s, NEW first, NEW links, NEW others, IsChain(s, first, links),
         \A c \in Range(s) : others[c] = links[c]
  PROVE  IsChain(s, first, others)
<1>1. \A i \in 1 .. Len(s) : s[i] \in Range(s)
  BY ChainFacts
<1> QED BY <1>1 DEF IsChain

(* The chain after a chunk of it.                                          *)
LEMMA ChainRest ==
  ASSUME TableAssumption, NEW s, NEW first, NEW links, IsChain(s, first, links),
         NEW n \in 1 .. Len(s)
  PROVE  /\ IsChain(SubSeq(s, n, Len(s)), s[n], links)
         /\ Len(SubSeq(s, n, Len(s))) = Len(s) - n + 1
         /\ \A i \in 1 .. Len(s) - n + 1 : SubSeq(s, n, Len(s))[i] = s[n + i - 1]
<1> DEFINE r == SubSeq(s, n, Len(s))
<1>1. /\ Len(s) \in Nat /\ n \in Nat /\ 1 <= n /\ n <= Len(s)
      /\ \A i \in n .. Len(s) : s[i] \in Chunks
      /\ \A i, j \in 1 .. Len(s) : s[i] = s[j] => i = j
  BY ChainFacts
<1>2. /\ r \in Seq(Chunks) /\ Len(r) = Len(s) - n + 1
      /\ \A i \in 1 .. Len(s) - n + 1 : r[i] = s[n + i - 1]
  BY <1>1, SubSeqProperties
<1>3. DOMAIN r = 1 .. Len(s) - n + 1 /\ r # << >>
  <2>1. Len(s) - n + 1 # 0
    BY <1>1
  <2> QED BY <1>2, <2>1, LenProperties, EmptySeq
<1> HIDE DEF r
<1>4. ASSUME NEW i \in 1 .. Len(s) - n + 1, NEW j \in 1 .. Len(s) - n + 1, r[i] = r[j] PROVE i = j
  <2>1. n + i - 1 \in 1 .. Len(s) /\ n + j - 1 \in 1 .. Len(s) /\ s[n + i - 1] = s[n + j - 1]
    BY <1>1, <1>2, <1>4
  <2>2. n + i - 1 = n + j - 1
    BY <1>1, <2>1
  <2> QED BY <1>1, <2>2
<1>5. IsInjective(r)
  BY <1>3, <1>4 DEF IsInjective
<1>6. r[1] = s[n]
  <2>1. 1 \in 1 .. Len(s) - n + 1 /\ n + 1 - 1 = n
    BY <1>1
  <2> QED BY <1>2, <2>1
<1>7. ASSUME NEW i \in 1 .. Len(r) PROVE links[r[i]] = IF i < Len(r) THEN r[i + 1] ELSE NULL
  <2>1. n + i - 1 \in 1 .. Len(s) /\ r[i] = s[n + i - 1] /\ (n + i - 1) + 1 = n + (i + 1) - 1
    BY <1>1, <1>2
  <2>2. links[s[n + i - 1]] = IF n + i - 1 < Len(s) THEN s[(n + i - 1) + 1] ELSE NULL
    BY <2>1 DEF IsChain
  <2>3. CASE i < Len(r)
    <3>1. n + i - 1 < Len(s) /\ i + 1 \in 1 .. Len(s) - n + 1
      BY <1>1, <1>2, <2>3
    <3>2. r[i + 1] = s[n + (i + 1) - 1]
      BY <1>2, <3>1
    <3> QED BY <2>1, <2>2, <2>3, <3>1, <3>2
  <2>4. CASE ~(i < Len(r))
    <3>1. ~(n + i - 1 < Len(s))
      BY <1>1, <1>2, <2>4
    <3> QED BY <2>1, <2>2, <2>4, <3>1
  <2> QED BY <2>3, <2>4
<1>8. IsChain(r, s[n], links)
  BY <1>2, <1>3, <1>5, <1>6, <1>7 DEF IsChain
<1> QED BY <1>2, <1>8 DEF r

(* A chunk at the end.                                                     *)
Appends(s, first, links, c, others) ==
  /\ IsChain(s, first, links) /\ c \in Chunks /\ c \notin Range(s) /\ others[c] = NULL
  /\ s # << >> => others[s[Len(s)]] = c
  /\ \A d \in Range(s) : d # s[Len(s)] => others[d] = links[d]

(* A new chunk hung behind the last one of a chain (get_new_chunk, line    *)
(* 271).                                                                   *)
LEMMA ChainAppend ==
  ASSUME TableAssumption, NEW s, NEW first, NEW links, NEW others, NEW c,
         Appends(s, first, links, c, others), NEW f, f = IF s = << >> THEN c ELSE first
  PROVE  /\ IsChain(Append(s, c), f, others)
         /\ Range(Append(s, c)) = Range(s) \cup {c}
         /\ Len(Append(s, c)) = Len(s) + 1
         /\ \A i \in 1 .. Len(s) : Append(s, c)[i] = s[i]
         /\ Append(s, c)[Len(s) + 1] = c
<1>0. /\ IsChain(s, first, links) /\ c \in Chunks /\ c \notin Range(s) /\ others[c] = NULL
      /\ s # << >> => others[s[Len(s)]] = c
      /\ \A d \in Range(s) : d # s[Len(s)] => others[d] = links[d]
  BY DEF Appends
<1> DEFINE r == Append(s, c)
<1>1. /\ s \in Seq(Chunks) /\ IsInjective(s) /\ Len(s) \in Nat
      /\ s = << >> <=> Len(s) = 0
      /\ \A i \in 1 .. Len(s) : s[i] \in Range(s)
      /\ s # << >> => 1 \in 1 .. Len(s) /\ Len(s) \in 1 .. Len(s)
      /\ \A i, j \in 1 .. Len(s) : s[i] = s[j] => i = j
  BY <1>0, ChainFacts DEF IsChain
<1>2. /\ r \in Seq(Chunks) /\ Len(r) = Len(s) + 1
      /\ \A i \in 1 .. Len(s) : r[i] = s[i]
      /\ r[Len(s) + 1] = c
  BY <1>0, <1>1, AppendProperties
<1>3. Range(r) = Range(s) \cup {c} /\ IsInjective(r)
  BY <1>0, <1>1, AppendTo
<1>4. r # << >>
  BY <1>0, <1>1, AppendNotEmpty
<1> HIDE DEF r
<1>5. f = r[1]
  <2>1. CASE s = << >>
    BY <1>1, <1>2, <2>1
  <2>2. CASE s # << >>
    BY <1>0, <1>1, <1>2, <2>2 DEF IsChain
  <2> QED BY <2>1, <2>2
<1>6. ASSUME NEW i \in 1 .. Len(r) PROVE others[r[i]] = IF i < Len(r) THEN r[i + 1] ELSE NULL
  <2>1. CASE i = Len(s) + 1
    BY <1>0, <1>2, <2>1
  <2>2. CASE i = Len(s)
    <3>1. s # << >> /\ i \in 1 .. Len(s) /\ i < Len(r)
      BY <1>1, <1>2, <2>2
    <3> QED BY <1>0, <1>2, <2>2, <3>1
  <2>3. CASE i # Len(s) + 1 /\ i # Len(s)
    <3>1. i \in 1 .. Len(s) /\ i < Len(s) /\ i + 1 \in 1 .. Len(s) /\ i < Len(r)
      BY <1>1, <1>2, <2>3
    <3>2. s # << >> /\ s[i] # s[Len(s)] /\ s[i] \in Range(s)
      BY <1>1, <2>3, <3>1
    <3>3. links[s[i]] = s[i + 1] /\ others[s[i]] = links[s[i]]
      BY <1>0, <3>1, <3>2 DEF IsChain
    <3> QED BY <1>2, <3>1, <3>3
  <2> QED BY <2>1, <2>2, <2>3
<1>7. IsChain(r, f, others)
  BY <1>2, <1>3, <1>4, <1>5, <1>6 DEF IsChain
<1> QED BY <1>2, <1>3, <1>7 DEF r

(* The first chunk taken off.                                              *)
LEMMA ChainTail ==
  ASSUME TableAssumption, NEW s, NEW first, NEW links, NEW others, IsChain(s, first, links),
         first # NULL, \A d \in Range(s) : d # first => others[d] = links[d]
  PROVE  /\ IsChain(Tail(s), links[first], others)
         /\ Range(Tail(s)) = Range(s) \ {first}
         /\ first \in Range(s)
<1> DEFINE r == Tail(s)
<1>1. /\ s \in Seq(Chunks) /\ IsInjective(s) /\ Len(s) \in Nat /\ s # << >> /\ first = s[1]
      /\ \A i \in 1 .. Len(s) : s[i] \in Range(s)
      /\ 1 \in 1 .. Len(s) /\ Len(s) \in 1 .. Len(s)
      /\ \A i, j \in 1 .. Len(s) : s[i] = s[j] => i = j
  BY ChainFacts DEF IsChain
<1>2. /\ r \in Seq(Chunks) /\ Len(r) = Len(s) - 1 /\ Head(s) = s[1]
      /\ \A i \in 1 .. Len(r) : r[i] = s[i + 1]
  BY <1>1, HeadTailProperties
<1>3. Range(r) = Range(s) \ {first} /\ IsInjective(r)
  BY <1>1, <1>2, WithoutHead
<1>4. r = << >> <=> Len(r) = 0
  BY <1>2, EmptySeq
<1> HIDE DEF r
<1>5. links[first] = IF r = << >> THEN NULL ELSE r[1]
  <2>1. links[s[1]] = IF 1 < Len(s) THEN s[1 + 1] ELSE NULL
    BY <1>1 DEF IsChain
  <2>2. CASE Len(s) = 1
    BY <1>1, <1>2, <1>4, <2>1, <2>2
  <2>3. CASE Len(s) # 1
    <3>1. 1 < Len(s) /\ 1 \in 1 .. Len(r) /\ Len(r) # 0
      BY <1>1, <1>2, <2>3
    <3> QED BY <1>1, <1>2, <1>4, <2>1, <3>1
  <2> QED BY <2>2, <2>3
<1>6. ASSUME NEW i \in 1 .. Len(r) PROVE others[r[i]] = IF i < Len(r) THEN r[i + 1] ELSE NULL
  <2>1. i + 1 \in 1 .. Len(s) /\ i + 1 # 1 /\ r[i] = s[i + 1]
    BY <1>1, <1>2
  <2>2. s[i + 1] # first /\ s[i + 1] \in Range(s)
    BY <1>1, <2>1
  <2>3. others[r[i]] = IF i + 1 < Len(s) THEN s[(i + 1) + 1] ELSE NULL
    BY <2>1, <2>2 DEF IsChain
  <2>4. CASE i < Len(r)
    <3>1. i + 1 < Len(s) /\ i + 1 \in 1 .. Len(r)
      BY <1>1, <1>2, <2>4
    <3> QED BY <1>2, <2>3, <2>4, <3>1
  <2>5. CASE ~(i < Len(r))
    <3>1. ~(i + 1 < Len(s))
      BY <1>1, <1>2, <2>5
    <3> QED BY <2>3, <2>5, <3>1
  <2> QED BY <2>4, <2>5
<1>7. IsChain(r, links[first], others)
  BY <1>2, <1>3, <1>5, <1>6 DEF IsChain
<1> QED BY <1>1, <1>3, <1>7 DEF r

(* A chunk put before the first.                                           *)
Pushes(s, first, links, c, others) ==
  /\ IsChain(s, first, links) /\ c \in Chunks /\ c \notin Range(s) /\ others[c] = first
  /\ \A d \in Range(s) : others[d] = links[d]

(* A chunk put in front of a chain: the free list takes one back.          *)
LEMMA ChainPush ==
  ASSUME TableAssumption, NEW s, NEW first, NEW links, NEW others, NEW c,
         Pushes(s, first, links, c, others)
  PROVE  IsChain(<<c>> \o s, c, others) /\ Range(<<c>> \o s) = Range(s) \cup {c}
<1>0. /\ IsChain(s, first, links) /\ c \in Chunks /\ c \notin Range(s) /\ others[c] = first
      /\ \A d \in Range(s) : others[d] = links[d]
  BY DEF Pushes
<1> DEFINE r == <<c>> \o s
<1>1. /\ s \in Seq(Chunks) /\ IsInjective(s) /\ Len(s) \in Nat
      /\ s = << >> <=> Len(s) = 0
      /\ \A i \in 1 .. Len(s) : s[i] \in Range(s)
      /\ first = IF s = << >> THEN NULL ELSE s[1]
  BY <1>0, ChainFacts DEF IsChain
<1>2. <<c>> \in Seq(Chunks) /\ Len(<<c>>) = 1 /\ <<c>>[1] = c
  BY <1>0
<1>3. /\ r \in Seq(Chunks) /\ Len(r) = 1 + Len(s)
      /\ \A i \in 1 .. 1 + Len(s) : r[i] = IF i <= 1 THEN c ELSE s[i - 1]
  BY <1>1, <1>2, ConcatProperties
<1>4. Range(r) = Range(s) \cup {c} /\ IsInjective(r)
  BY <1>0, <1>1, Prepend
<1> HIDE DEF r
<1>5. r[1] = c /\ r # << >>
  <2>1. 1 \in 1 .. 1 + Len(s) /\ Len(r) # 0
    BY <1>1, <1>3
  <2>2. r[1] = c
    BY <1>3, <2>1
  <2> QED BY <1>3, <2>1, <2>2, EmptySeq
<1>6. ASSUME NEW i \in 1 .. Len(r) PROVE others[r[i]] = IF i < Len(r) THEN r[i + 1] ELSE NULL
  <2>1. CASE i = 1
    <3>1. others[r[i]] = first
      BY <1>0, <1>5, <2>1
    <3>2. CASE Len(s) = 0
      BY <1>1, <1>3, <2>1, <3>1, <3>2
    <3>3. CASE Len(s) # 0
      <4>1. 1 < Len(r) /\ 2 \in 1 .. 1 + Len(s) /\ ~(2 <= 1) /\ 2 - 1 = 1
        BY <1>1, <1>3, <3>3
      <4>2. r[2] = s[1]
        BY <1>3, <4>1
      <4> QED BY <1>1, <2>1, <3>1, <3>3, <4>1, <4>2
    <3> QED BY <3>2, <3>3
  <2>2. CASE i # 1
    <3>1. i - 1 \in 1 .. Len(s) /\ i \in 1 .. 1 + Len(s) /\ ~(i <= 1) /\ (i - 1) + 1 = i
      BY <1>1, <1>3, <2>2
    <3>2. r[i] = s[i - 1] /\ s[i - 1] \in Range(s)
      BY <1>1, <1>3, <3>1
    <3>3. others[r[i]] = IF i - 1 < Len(s) THEN s[i] ELSE NULL
      BY <1>0, <3>1, <3>2 DEF IsChain
    <3>4. CASE i < Len(r)
      <4>1. i - 1 < Len(s) /\ i + 1 \in 1 .. 1 + Len(s) /\ ~(i + 1 <= 1) /\ (i + 1) - 1 = i
        BY <1>1, <1>3, <3>4
      <4>2. r[i + 1] = s[i]
        BY <1>3, <4>1
      <4> QED BY <3>3, <3>4, <4>1, <4>2
    <3>5. CASE ~(i < Len(r))
      <4>1. ~(i - 1 < Len(s))
        BY <1>1, <1>3, <3>5
      <4> QED BY <3>3, <3>5, <4>1
    <3> QED BY <3>4, <3>5
  <2> QED BY <2>1, <2>2
<1>7. IsChain(r, c, others)
  BY <1>3, <1>4, <1>5, <1>6 DEF IsChain
<1> QED BY <1>4, <1>7 DEF r

(* The last chunk taken off, one that is not the only one.                 *)
CutsLast(s, first, links, others) ==
  /\ IsChain(s, first, links) /\ Len(s) > 1 /\ others[s[Len(s) - 1]] = NULL
  /\ \A d \in Range(s) : d # s[Len(s) - 1] /\ d # s[Len(s)] => others[d] = links[d]

(* A chain whose last chunk is cut off.                                    *)
LEMMA ChainFront ==
  ASSUME TableAssumption, NEW s, NEW first, NEW links, NEW others, CutsLast(s, first, links, others)
  PROVE  /\ IsChain(SubSeq(s, 1, Len(s) - 1), first, others)
         /\ Range(SubSeq(s, 1, Len(s) - 1)) = Range(s) \ {s[Len(s)]}
         /\ Len(SubSeq(s, 1, Len(s) - 1)) = Len(s) - 1
         /\ \A i \in 1 .. Len(s) - 1 : SubSeq(s, 1, Len(s) - 1)[i] = s[i]
<1>0. /\ IsChain(s, first, links) /\ Len(s) > 1 /\ others[s[Len(s) - 1]] = NULL
      /\ \A d \in Range(s) : d # s[Len(s) - 1] /\ d # s[Len(s)] => others[d] = links[d]
  BY DEF CutsLast
<1> DEFINE r == SubSeq(s, 1, Len(s) - 1)
<1>1. /\ s \in Seq(Chunks) /\ IsInjective(s) /\ Len(s) \in Nat /\ s # << >>
      /\ \A i \in 1 .. Len(s) : s[i] \in Range(s)
      /\ \A i, j \in 1 .. Len(s) : s[i] = s[j] => i = j
      /\ first = s[1]
  BY <1>0, ChainFacts DEF IsChain
<1>2. /\ r \in Seq(Chunks) /\ IsInjective(r) /\ Len(r) = Len(s) - 1
      /\ \A i \in 1 .. Len(s) - 1 : r[i] = s[i]
      /\ Range(r) = Range(s) \ {s[Len(s)]}
  BY <1>0, <1>1, WithoutLast
<1> HIDE DEF r
<1>3. 1 \in 1 .. Len(s) - 1 /\ r # << >>
  <2>1. 1 \in 1 .. Len(s) - 1 /\ Len(r) # 0
    BY <1>0, <1>1, <1>2
  <2> QED BY <1>2, <2>1, EmptySeq
<1>4. ASSUME NEW i \in 1 .. Len(r) PROVE others[r[i]] = IF i < Len(r) THEN r[i + 1] ELSE NULL
  <2>1. i \in 1 .. Len(s) - 1 /\ i \in 1 .. Len(s) /\ i # Len(s) /\ Len(s) \in 1 .. Len(s) /\ r[i] = s[i]
    BY <1>0, <1>1, <1>2
  <2>2. CASE i = Len(s) - 1
    BY <1>0, <1>1, <1>2, <2>1, <2>2
  <2>3. CASE i # Len(s) - 1
    <3>1. i < Len(r) /\ i < Len(s) /\ i + 1 \in 1 .. Len(s) - 1 /\ Len(s) - 1 \in 1 .. Len(s)
      BY <1>0, <1>1, <1>2, <2>1, <2>3
    <3>2. s[i] # s[Len(s) - 1] /\ s[i] # s[Len(s)] /\ s[i] \in Range(s)
      BY <1>1, <2>1, <2>3, <3>1
    <3>3. others[s[i]] = s[i + 1]
      BY <1>0, <2>1, <3>1, <3>2 DEF IsChain
    <3> QED BY <1>2, <2>1, <3>1, <3>3
  <2> QED BY <2>2, <2>3
<1>5. IsChain(r, first, others)
  BY <1>1, <1>2, <1>3, <1>4 DEF IsChain
<1> QED BY <1>2, <1>5 DEF r

-----------------------------------------------------------------------------
(***************************************************************************)
(* The inductive invariant.  Its parts about one bucket or one thread are  *)
(* operators of the values they relate: s is the bucket's chain and n its  *)
(* size, w the thread's locals, place the thread's pc.                     *)
(***************************************************************************)
ChainOf(b) == Chain(head[b])
FreeChain == Chain(free_list)

(* The n-th entry of a chain: of its keys, or of its values.               *)
At(s, f, n) == f[s[Row(n)]][Col(n)]

(* The pairs of bucket b: each key once.                                   *)
PairsIn(s, ks, vs, n, b) ==
  /\ \A m \in 0 .. n - 1 : At(s, ks, m) \in Keys /\ BucketIdx[At(s, ks, m)] = b /\ At(s, vs, m) \in Values
  /\ \A l, m \in 0 .. n - 1 : At(s, ks, l) = At(s, ks, m) => l = m

(* As many chunks as the pairs take, and one for the pair being filled in. *)
Fits(s, n, filling) ==
  IF filling THEN Len(s) = Row(n)
  ELSE IF n = 0 THEN Len(s) <= 1 ELSE Len(s) = Row(n - 1)

(* The address of the pointer to a chunk.                                  *)
Link(s, row) == IF row = 1 THEN NULL ELSE s[row - 1]
(* The address of the n-th pair; the position behind the last pair seen.   *)
PointsTo(w, s, n) == w.link = Link(s, Row(n)) /\ w.j = Col(n)
Behind(w, s) == IF w.i = 0 THEN w.link = NULL /\ w.j = 0
                ELSE w.link = Link(s, Row(w.i - 1)) /\ w.j = Col(w.i - 1) + 1
(* The pairs before the i-th do not have the key.                          *)
Missed(w, key, s, ks) == \A m \in 0 .. w.i - 1 : At(s, ks, m) # key
NoneAccepted(accepts, n, s, ks) == \A m \in 0 .. n - 1 : At(s, ks, m) \notin accepts

(* Where a thread holds the lock as a reader, as a writer, and the insert  *)
(* lock.                                                                   *)
ReadPlaces == {"load", "scan", "try_lock", "spin_load", "spin_scan", "locked_load", "locked_scan",
               "found_unlock", "fetch", "new_chunk", "write", "publish", "inserted_unlock",
               "fetch_own", "r_unlock"}
WritePlaces == {"remove", "visit", "w_unlock"}
LockedPlaces == {"locked_load", "locked_scan", "found_unlock", "new_chunk", "write", "publish",
                 "inserted_unlock"}
(* The places of get; of a search; of a pair that was found.               *)
GetPlaces == {"r_lock", "load", "scan", "fetch", "r_unlock"}
Searching == {"load", "scan", "try_lock", "spin_load", "spin_scan", "locked_load", "locked_scan",
              "new_chunk"}
Found == {"found_unlock", "fetch", "inserted_unlock", "fetch_own"}
NothingYet == Result(NULL, FALSE)

(* What a thread executes, and what its call has returned so far.          *)
OnKey(place, c, b, r) ==
  /\ c \in [op : Calls \ {"remove_if"}, key : Keys] /\ b = BucketIdx[c.key]
  /\ place \notin {"idle", "visit"}
  /\ place \in {"w_lock", "remove", "w_unlock"} <=> c.op = "remove"
  /\ c.op = "get" => place \in GetPlaces
  /\ place \notin {"r_unlock", "w_unlock"} => r = NothingYet
OnAll(place, c, r) ==
  /\ c \in [op : Calls \cap {"remove_if"}, accepts : SUBSET Keys]
  /\ place \in {"w_lock", "visit", "w_unlock"} /\ r = NothingYet
CallAt(place, c, b, r) ==
  IF place = "idle" THEN c = NoCall ELSE OnKey(place, c, b, r) \/ OnAll(place, c, r)

(* How far its search has come.                                            *)
SearchAt(place, w, key, n, s, ks) ==
  /\ place \in {"r_lock", "w_lock"} => w.i = 0 /\ w.j = 0 /\ w.link = NULL /\ w.current = 0
  /\ place \in Searching => w.i <= w.current /\ w.current <= n /\ Behind(w, s) /\ Missed(w, key, s, ks)
  /\ place = "locked_scan" => w.current = n
  /\ place = "new_chunk" => w.i = n /\ w.current = n /\ (n = 0 \/ w.j = NPairsPerChunk)
  /\ place \in {"write", "publish"} => /\ w.i = n /\ w.current = n /\ PointsTo(w, s, n)
                                       /\ Missed(w, key, s, ks)
  /\ place \in Found => w.i < n /\ PointsTo(w, s, w.i) /\ At(s, ks, w.i) = key

(* The pair it has written and not yet published.                          *)
WrittenAt(place, key, n, s, ks, vs) ==
  place = "publish" => At(s, ks, n) = key /\ At(s, vs, n) \in Values

(* How far remove_if has come in a bucket that fits in one chunk.          *)
VisitAt(place, w, c, n, s, ks) ==
  /\ place = "visit" =>
       \/ /\ s # << >> /\ w.link = s[1] /\ w.i = w.j /\ w.i <= w.current /\ w.current = n
          /\ NoneAccepted(c.accepts, w.i, s, ks)
       \/ w.link = NULL /\ NoneAccepted(c.accepts, n, s, ks)
  /\ place = "w_unlock" /\ c.op = "remove_if" => NoneAccepted(c.accepts, n, s, ks)

Reads(t, b) == pc[t] \in ReadPlaces /\ self[t].b = b
Writes(t, b) == pc[t] \in WritePlaces /\ self[t].b = b
Locks(t, b) == pc[t] \in LockedPlaces /\ self[t].b = b
Fills(t, b) == pc[t] \in {"write", "publish"} /\ self[t].b = b

(* The locks and their holders.                                            *)
LocksOK ==
  /\ \A b \in Buckets, t \in Threads : /\ mode[b][t] = "read" <=> Reads(t, b)
                                       /\ mode[b][t] = "write" <=> Writes(t, b)
  /\ \A b \in Buckets : \A t, u \in Threads :
       t # u /\ Writes(t, b) => ~Reads(u, b) /\ ~Writes(u, b)
  /\ \A b \in Buckets : insert_lock[b] <=> \E t \in Threads : Locks(t, b)
  /\ \A b \in Buckets : \A t, u \in Threads : t # u /\ Locks(t, b) => ~Locks(u, b)

(* Every chunk that was allocated is in one chain.                         *)
ChainsOK ==
  /\ \A b \in Buckets : IsChain(ChainOf(b), head[b], next)
  /\ IsChain(FreeChain, free_list, next)
  /\ \A b \in Buckets : Range(ChainOf(b)) \cap Range(FreeChain) = {}
  /\ \A b, d \in Buckets : b # d => Range(ChainOf(b)) \cap Range(ChainOf(d)) = {}
  /\ \A c \in Chunks :
       c \in allocated <=> c \in Range(FreeChain) \/ \E b \in Buckets : c \in Range(ChainOf(b))

(* Every bucket holds pairs, in as many chunks as they need.               *)
BucketOK(b) ==
  /\ PairsIn(ChainOf(b), keys, values, size[b], b)
  /\ Fits(ChainOf(b), size[b], \E t \in Threads : Fills(t, b))

(* What a thread knows at its place.                                       *)
ThreadAt(place, c, w, r, n, s, ks, vs) ==
  /\ CallAt(place, c, w.b, r) /\ SearchAt(place, w, c.key, n, s, ks)
  /\ WrittenAt(place, c.key, n, s, ks, vs) /\ VisitAt(place, w, c, n, s, ks)
ThreadOK(t) ==
  ThreadAt(pc[t], call[t], self[t], result[t], size[self[t].b], ChainOf(self[t].b), keys, values)

(* The types of what a thread keeps.                                       *)
AnyCall == {NoCall} \cup [op : Calls, key : Keys] \cup [op : Calls, accepts : SUBSET Keys]
Locals == [b : Buckets, i : CountRange, j : 0 .. NPairsPerChunk,
           link : Chunks \cup {NULL}, current : CountRange]
Results == [value : Values \cup {NULL}, flag : BOOLEAN]

(* The invariant.                                                          *)
TableIInv ==
  /\ TypeOK /\ call \in [Threads -> AnyCall] /\ LocksOK /\ ChainsOK
  /\ \A b \in Buckets : BucketOK(b)
  /\ \A t \in Threads : ThreadOK(t)

(* With remove_if, the theorems are about buckets whose keys fit in one    *)
(* chunk: in a longer chain it leaves an empty chunk behind, see the run   *)
(* fasthashtab_empty_chunk.                                                *)
OneChunkIfRemoveIf ==
  "remove_if" \in Calls =>
    \A b \in Buckets : Cardinality({k \in Keys : BucketIdx[k] = b}) <= NPairsPerChunk

-----------------------------------------------------------------------------
(* Every pair has its row.                                                 *)
LEMMA FitsRows ==
  ASSUME TableAssumption, NEW s, NEW first, NEW links, IsChain(s, first, links),
         NEW n \in Nat, NEW filling \in BOOLEAN, Fits(s, n, filling)
  PROVE  /\ \A m \in 0 .. n - 1 : Row(m) \in 1 .. Len(s)
         /\ filling => Row(n) \in 1 .. Len(s)
         /\ \A m \in Nat : Row(m) \in Nat \ {0} /\ Col(m) \in Slots
<1>1. Len(s) \in Nat
  BY ChainFacts
<1>2. \A m \in Nat : Row(m) \in Nat \ {0} /\ Col(m) \in Slots
  BY RowAndCol
<1>3. ASSUME filling
      PROVE  /\ \A m \in 0 .. n - 1 : Row(m) \in 1 .. Len(s)
             /\ Row(n) \in 1 .. Len(s)
  <2>1. Len(s) = Row(n)
    BY <1>3 DEF Fits
  <2>2. ASSUME NEW m \in 0 .. n - 1 PROVE Row(m) \in 1 .. Len(s)
    <3>1. m \in Nat /\ m <= n
      OBVIOUS
    <3>2. Row(m) <= Row(n)
      BY <3>1, RowsAscend
    <3> QED BY <1>1, <1>2, <2>1, <3>1, <3>2
  <2>3. Row(n) \in 1 .. Len(s)
    <3>1. PICK row \in Nat \ {0} : row = Row(n)
      BY RowAndCol
    <3>2. Row(n) = Len(s)
      BY <2>1
    <3>3. row \in 1 .. row
      OBVIOUS
    <3> QED BY <3>1, <3>2, <3>3
  <2> QED BY <2>2, <2>3, Zenon
<1>4. ASSUME ~filling
      PROVE  \A m \in 0 .. n - 1 : Row(m) \in 1 .. Len(s)
  <2>1. ASSUME NEW m \in 0 .. n - 1 PROVE Row(m) \in 1 .. Len(s)
    <3>1. m \in Nat /\ n - 1 \in Nat /\ m <= n - 1 /\ n # 0
      OBVIOUS
    <3>2. Row(m) <= Row(n - 1)
      BY <3>1, RowsAscend
    <3>3. Len(s) = Row(n - 1)
      BY <1>4, <3>1 DEF Fits
    <3> QED BY <1>1, <1>2, <3>1, <3>2, <3>3
  <2> QED BY <2>1
<1>5. \A m \in 0 .. n - 1 : Row(m) \in 1 .. Len(s)
  BY <1>3, <1>4, Zenon
<1>6. filling => Row(n) \in 1 .. Len(s)
  BY <1>3, Zenon
<1> QED BY <1>2, <1>5, <1>6, Zenon

(* The pointer to a chunk points to it.                                    *)
LEMMA LinkTarget ==
  ASSUME TableAssumption, NEW s, NEW first, NEW links, IsChain(s, first, links),
         NEW row \in 1 .. Len(s), NEW link, link = Link(s, row)
  PROVE  /\ (IF link = NULL THEN first ELSE links[link]) = s[row]
         /\ link \in Chunks \cup {NULL}
<1>1. Len(s) \in Nat /\ s # << >> /\ \A i \in 1 .. Len(s) : s[i] \in Chunks /\ s[i] # NULL
  BY ChainFacts
<1>2. CASE row = 1
  BY <1>1, <1>2 DEF Link, IsChain
<1>3. CASE row # 1
  <2>1. row - 1 \in 1 .. Len(s) /\ row - 1 < Len(s) /\ (row - 1) + 1 = row
    BY <1>1, <1>3
  <2>2. link = s[row - 1] /\ link # NULL
    BY <1>1, <1>3, <2>1 DEF Link
  <2>3. links[s[row - 1]] = s[row]
    BY <2>1 DEF IsChain
  <2> QED BY <1>1, <2>1, <2>2, <2>3
<1> QED BY <1>2, <1>3

(* One round of a search looks at the pair that follows those seen.        *)
LEMMA Advance ==
  ASSUME TableAssumption, NEW s, NEW first, NEW links, IsChain(s, first, links),
         NEW w, w.i \in Nat, Behind(w, s), Row(w.i) \in 1 .. Len(s),
         NEW deref, deref = IF w.link = NULL THEN first ELSE links[w.link],
         NEW link, link = IF w.j = NPairsPerChunk THEN deref ELSE w.link,
         NEW j, j = IF w.j = NPairsPerChunk THEN 0 ELSE w.j,
         NEW chunk, chunk = IF w.j = NPairsPerChunk THEN links[link] ELSE deref
  PROVE  link = Link(s, Row(w.i)) /\ j = Col(w.i) /\ chunk = s[Row(w.i)]
<1>1. PICK k \in Nat \ {0} : k = NPairsPerChunk
  BY DEF TableAssumption
<1>2. Len(s) \in Nat /\ \A i \in 1 .. Len(s) : s[i] \in Chunks /\ s[i] # NULL
  BY ChainFacts
<1>3. CASE w.i = 0
  <2>1. w.link = NULL /\ w.j = 0 /\ w.j # NPairsPerChunk
    BY <1>1, <1>3 DEF Behind
  <2>2. Row(w.i) = 1 /\ Col(w.i) = 0
    BY <1>3, FirstPosition
  <2>3. first = s[1]
    <3>1. s # << >>
      BY <1>2, <2>2, ChainFacts
    <3> QED BY <3>1 DEF IsChain
  <2> QED BY <2>1, <2>2, <2>3 DEF Link
<1>4. CASE w.i # 0
  <2>1. PICK m \in Nat : m = w.i - 1 /\ w.i = m + 1
    BY <1>4
  <2>2. PICK row \in Nat \ {0} : row = Row(m)
    BY RowAndCol
  <2>3. w.link = Link(s, row) /\ w.j = Col(m) + 1
    BY <1>4, <2>1, <2>2 DEF Behind
  <2>4. Row(m) <= Row(w.i) /\ Row(w.i) \in Nat
    <3>1. w.i \in Nat /\ m <= w.i
      BY <2>1
    <3> QED BY <3>1, RowsAscend, RowAndCol
  <2>5. row \in 1 .. Len(s)
    BY <1>2, <2>2, <2>4
  <2>6. deref = s[row]
    BY <2>3, <2>5, LinkTarget
  <2>7. CASE w.j = NPairsPerChunk
    <3>1. Row(w.i) = row + 1 /\ Col(w.i) = 0
      BY <2>1, <2>2, <2>3, <2>7, NextPosition
    <3>2. link = s[row] /\ j = 0 /\ Link(s, row + 1) = s[row]
      BY <2>6, <2>7 DEF Link
    <3>3. row < Len(s) /\ links[s[row]] = s[row + 1]
      BY <1>2, <2>5, <3>1 DEF IsChain
    <3> QED BY <2>7, <3>1, <3>2, <3>3
  <2>8. CASE w.j # NPairsPerChunk
    <3>1. Row(w.i) = row /\ Col(w.i) = w.j
      BY <2>1, <2>2, <2>3, <2>8, NextPosition
    <3> QED BY <2>3, <2>6, <2>8, <3>1
  <2> QED BY <2>7, <2>8
<1> QED BY <1>3, <1>4

-----------------------------------------------------------------------------
(* What another thread's step may do to a bucket: add chunks and pairs     *)
(* after those that are there, or nothing to the entries in use.           *)
Extends(s, n, ks, vs, r, m, kr, vr) ==
  /\ n <= m /\ Len(s) <= Len(r)
  /\ \A i \in 1 .. Len(s) : r[i] = s[i]
  /\ \A l \in 0 .. n - 1 : At(r, kr, l) = At(s, ks, l) /\ At(r, vr, l) = At(s, vs, l)
(* The entries in use are the same.                                        *)
Alike(s, ks, vs, kr, vr) ==
  \A l \in Nat : Row(l) \in 1 .. Len(s) => At(s, kr, l) = At(s, ks, l) /\ At(s, vr, l) = At(s, vs, l)

(* A chain whose entries are alike extends itself.                         *)
LEMMA AlikeExtends ==
  ASSUME TableAssumption, NEW s, NEW first, NEW links, IsChain(s, first, links),
         NEW n \in Nat, NEW filling \in BOOLEAN, Fits(s, n, filling),
         NEW ks, NEW vs, NEW kr, NEW vr, Alike(s, ks, vs, kr, vr)
  PROVE  Extends(s, n, ks, vs, s, n, kr, vr)
<1>1. Len(s) \in Nat
  BY ChainFacts
<1>2. \A l \in 0 .. n - 1 : Row(l) \in 1 .. Len(s)
  BY FitsRows
<1>3. \A l \in 0 .. n - 1 : l \in Nat
  OBVIOUS
<1> QED BY <1>1, <1>2, <1>3 DEF Extends, Alike

(* A search goes on where it is when the bucket grows ...                  *)
LEMMA SearchGrows ==
  ASSUME TableAssumption, NEW s, NEW first, NEW links, IsChain(s, first, links),
         NEW n \in Nat, NEW filling \in BOOLEAN, Fits(s, n, filling),
         NEW r, NEW m \in Nat, NEW ks, NEW vs, NEW kr, NEW vr,
         Extends(s, n, ks, vs, r, m, kr, vr),
         NEW w, w.i \in Nat, w.current \in Nat, NEW key,
         NEW place, place \notin LockedPlaces, SearchAt(place, w, key, n, s, ks)
  PROVE  SearchAt(place, w, key, m, r, kr)
<1>1. Len(s) \in Nat /\ n <= m
  BY ChainFacts DEF Extends
<1>2. \A l \in 0 .. n - 1 : Row(l) \in 1 .. Len(s)
  BY FitsRows
<1>3. \A row \in 1 .. Len(s) : Link(r, row) = Link(s, row)
  <2> SUFFICES ASSUME NEW row \in 1 .. Len(s) PROVE Link(r, row) = Link(s, row)
    OBVIOUS
  <2>1. row # 1 => row - 1 \in 1 .. Len(s)
    BY <1>1
  <2> QED BY <2>1 DEF Link, Extends
<1>4. ASSUME w.i <= n, Missed(w, key, s, ks) PROVE Missed(w, key, r, kr)
  <2>1. \A l \in 0 .. w.i - 1 : l \in 0 .. n - 1
    BY <1>4
  <2> QED BY <1>4, <2>1 DEF Missed, Extends
<1>5. ASSUME w.i <= n, Behind(w, s) PROVE Behind(w, r)
  <2>1. CASE w.i = 0
    BY <1>5, <2>1 DEF Behind
  <2>2. CASE w.i # 0
    <3>1. w.i - 1 \in 0 .. n - 1
      BY <1>5, <2>2
    <3> QED BY <1>2, <1>3, <1>5, <2>2, <3>1 DEF Behind
  <2> QED BY <2>1, <2>2
<1>6. ASSUME place \in Searching
      PROVE  w.i <= w.current /\ w.current <= m /\ Behind(w, r) /\ Missed(w, key, r, kr)
  <2>1. w.i <= w.current /\ w.current <= n /\ Behind(w, s) /\ Missed(w, key, s, ks)
    BY <1>6 DEF SearchAt
  <2>2. w.i <= n /\ w.current <= m
    BY <1>1, <2>1
  <2> QED BY <1>4, <1>5, <2>1, <2>2
<1>7. ASSUME place \in Found
      PROVE  w.i < m /\ PointsTo(w, r, w.i) /\ At(r, kr, w.i) = key
  <2>1. w.i < n /\ PointsTo(w, s, w.i) /\ At(s, ks, w.i) = key
    BY <1>7 DEF SearchAt
  <2>2. w.i \in 0 .. n - 1 /\ w.i < m
    BY <1>1, <2>1
  <2> QED BY <1>2, <1>3, <2>1, <2>2 DEF PointsTo, Extends
<1>8. place \notin {"locked_scan", "new_chunk", "write", "publish"}
  BY DEF LockedPlaces
<1> QED BY <1>6, <1>7, <1>8 DEF SearchAt

(* ... and everything stays when the entries do.                           *)
LEMMA SearchAlike ==
  ASSUME TableAssumption, NEW s, NEW first, NEW links, IsChain(s, first, links),
         NEW n \in Nat, NEW filling \in BOOLEAN, Fits(s, n, filling),
         NEW ks, NEW vs, NEW kr, NEW vr, Alike(s, ks, vs, kr, vr),
         NEW w, w.i \in Nat, w.current \in Nat, NEW key,
         NEW place, SearchAt(place, w, key, n, s, ks)
  PROVE  SearchAt(place, w, key, n, s, kr)
<1>1. Extends(s, n, ks, vs, s, n, kr, vr)
  BY AlikeExtends
<1>2. CASE place \notin LockedPlaces
  BY <1>1, <1>2, SearchGrows
<1>3. CASE place \in LockedPlaces
  <2>1. ASSUME w.i <= n, Missed(w, key, s, ks) PROVE Missed(w, key, s, kr)
    <3>1. \A l \in 0 .. w.i - 1 : l \in 0 .. n - 1
      BY <2>1
    <3> QED BY <1>1, <2>1, <3>1 DEF Missed, Extends
  <2>2. ASSUME w.i < n, At(s, ks, w.i) = key PROVE At(s, kr, w.i) = key
    <3>1. w.i \in 0 .. n - 1
      BY <2>2
    <3> QED BY <1>1, <2>2, <3>1 DEF Extends
  <2>3. w.i <= w.current /\ w.current <= n => w.i <= n
    OBVIOUS
  <2>4. w.i = n => w.i <= n
    OBVIOUS
  <2> QED BY <2>1, <2>2, <2>3, <2>4 DEF SearchAt
<1> QED BY <1>2, <1>3

(* The pair a thread has written is still there when all entries are alike.*)
LEMMA WrittenAlike ==
  ASSUME NEW s, NEW n \in Nat, NEW ks, NEW vs, NEW kr, NEW vr, Alike(s, ks, vs, kr, vr),
         NEW key, NEW place, place = "publish" => Row(n) \in 1 .. Len(s),
         WrittenAt(place, key, n, s, ks, vs)
  PROVE  WrittenAt(place, key, n, s, kr, vr)
BY DEF WrittenAt, Alike

(* How far remove_if has come stays true when all entries are alike.       *)
LEMMA VisitAlike ==
  ASSUME TableAssumption, NEW s, NEW first, NEW links, IsChain(s, first, links),
         NEW n \in Nat, NEW filling \in BOOLEAN, Fits(s, n, filling),
         NEW ks, NEW vs, NEW kr, NEW vr, Alike(s, ks, vs, kr, vr),
         NEW w, w.i \in Nat, w.current \in Nat, NEW c,
         NEW place, VisitAt(place, w, c, n, s, ks)
  PROVE  VisitAt(place, w, c, n, s, kr)
<1>1. Extends(s, n, ks, vs, s, n, kr, vr)
  BY AlikeExtends
<1>2. ASSUME NEW m \in Nat, m <= n, NoneAccepted(c.accepts, m, s, ks)
      PROVE  NoneAccepted(c.accepts, m, s, kr)
  <2>1. \A l \in 0 .. m - 1 : l \in 0 .. n - 1
    BY <1>2
  <2> QED BY <1>1, <1>2, <2>1 DEF NoneAccepted, Extends
<1>3. NoneAccepted(c.accepts, n, s, ks) => NoneAccepted(c.accepts, n, s, kr)
  BY <1>2
<1>4. w.i <= w.current /\ w.current = n /\ NoneAccepted(c.accepts, w.i, s, ks)
        => NoneAccepted(c.accepts, w.i, s, kr)
  BY <1>2
<1> QED BY <1>3, <1>4 DEF VisitAt

(* The pairs there were are pairs of the chain that extends it.            *)
LEMMA PairsAlike ==
  ASSUME TableAssumption, NEW s, NEW first, NEW links, IsChain(s, first, links),
         NEW n \in Nat, NEW filling \in BOOLEAN, Fits(s, n, filling),
         NEW ks, NEW vs, NEW kr, NEW vr, NEW r, NEW m \in Nat, Extends(s, n, ks, vs, r, m, kr, vr),
         NEW b, PairsIn(s, ks, vs, n, b)
  PROVE  PairsIn(r, kr, vr, n, b)
BY DEF PairsIn, Extends

-----------------------------------------------------------------------------
(* A bucket has no more pairs than there are keys for it.                  *)
LEMMA PairsCounted ==
  ASSUME TableAssumption, NEW s, NEW ks, NEW vs, NEW n \in Nat, NEW b, PairsIn(s, ks, vs, n, b)
  PROVE  /\ Cardinality(Keys) \in Nat /\ n <= Cardinality(Keys)
         /\ n <= Cardinality({k \in Keys : BucketIdx[k] = b})
<1> DEFINE Own == {k \in Keys : BucketIdx[k] = b}
           f == [m \in 0 .. n - 1 |-> At(s, ks, m)]
<1>1. IsFiniteSet(Keys) /\ Own \subseteq Keys
  BY DEF TableAssumption
<1>2. IsFiniteSet(Own) /\ Cardinality(Own) <= Cardinality(Keys) /\ Cardinality(Keys) \in Nat /\ Cardinality(Own) \in Nat
  <2> HIDE DEF Own
  <2> QED BY <1>1, FS_Subset, FS_CardinalityType
<1>3. \A m \in 0 .. n - 1 : At(s, ks, m) \in Own
  BY DEF PairsIn
<1>4. \A l, m \in 0 .. n - 1 : At(s, ks, l) = At(s, ks, m) => l = m
  BY DEF PairsIn
<1>5. f \in Injection(0 .. n - 1, Own)
  <2> HIDE DEF Own
  <2> QED BY <1>3, <1>4 DEF Injection, IsInjective
<1>6. Cardinality(0 .. n - 1) = n
  <2>1. CASE n = 0
    <3>1. 0 .. n - 1 = {}
      BY <2>1
    <3> QED BY <2>1, <3>1, FS_EmptySet
  <2>2. CASE n # 0
    <3>1. n - 1 \in Int /\ ~(0 > n - 1) /\ n - 1 - 0 + 1 = n
      BY <2>2
    <3> QED BY <3>1, FS_Interval
  <2> QED BY <2>1, <2>2
<1>7. n <= Cardinality(Own)
  <2> HIDE DEF Own, f
  <2> QED BY <1>2, <1>5, <1>6, FS_Injection
<1> QED BY <1>2, <1>7

(* The pair a new size makes visible.                                      *)
LEMMA PairsPublished ==
  ASSUME NEW s, NEW ks, NEW vs, NEW n \in Nat, NEW b, PairsIn(s, ks, vs, n, b),
         At(s, ks, n) \in Keys, BucketIdx[At(s, ks, n)] = b, At(s, vs, n) \in Values,
         \A m \in 0 .. n - 1 : At(s, ks, m) # At(s, ks, n)
  PROVE  PairsIn(s, ks, vs, n + 1, b)
<1>1. \A m \in 0 .. (n + 1) - 1 : m = n \/ m \in 0 .. n - 1
  OBVIOUS
<1>2. \A m \in 0 .. (n + 1) - 1 :
         At(s, ks, m) \in Keys /\ BucketIdx[At(s, ks, m)] = b /\ At(s, vs, m) \in Values
  BY <1>1 DEF PairsIn
<1>3. \A l, m \in 0 .. (n + 1) - 1 : At(s, ks, l) = At(s, ks, m) => l = m
  BY <1>1 DEF PairsIn
<1> QED BY <1>2, <1>3 DEF PairsIn

(* The last pair takes the place of the removed one.                       *)
Replaces(s, f, r, g, n, hole) ==
  \A m \in 0 .. n - 2 : At(r, g, m) = IF m = hole THEN At(s, f, n - 1) ELSE At(s, f, m)

(* Moving the last pair to the hole removes one pair and no other.         *)
LEMMA PairsRemoved ==
  ASSUME NEW s, NEW ks, NEW vs, NEW n \in Nat, NEW b, PairsIn(s, ks, vs, n, b),
         NEW hole \in 0 .. n - 1, NEW r, NEW kr, NEW vr,
         Replaces(s, ks, r, kr, n, hole), Replaces(s, vs, r, vr, n, hole)
  PROVE  /\ n - 1 \in Nat /\ PairsIn(r, kr, vr, n - 1, b)
         /\ \A m \in 0 .. n - 2 : At(r, kr, m) # At(s, ks, hole)
<1>1. PICK e \in Nat : e = n - 1 /\ n = e + 1 /\ n - 2 = e - 1 /\ e \in 0 .. n - 1
  OBVIOUS
<1> DEFINE From(m) == IF m = hole THEN e ELSE m
<1>2. \A m \in 0 .. e - 1 : /\ From(m) \in 0 .. n - 1 /\ From(m) # hole
                            /\ At(r, kr, m) = At(s, ks, From(m)) /\ At(r, vr, m) = At(s, vs, From(m))
  BY <1>1 DEF Replaces
<1>3. \A l, m \in 0 .. e - 1 : From(l) = From(m) => l = m
  BY <1>1
<1> HIDE DEF From
<1>4. PairsIn(r, kr, vr, e, b)
  BY <1>2, <1>3 DEF PairsIn
<1>5. \A m \in 0 .. e - 1 : At(r, kr, m) # At(s, ks, hole)
  BY <1>2 DEF PairsIn
<1> QED BY <1>1, <1>4, <1>5

(* Once full, a chunk is followed by the next.                             *)
LEMMA FitsWhenFilling ==
  ASSUME TableAssumption, NEW s, NEW n \in Nat, Len(s) \in Nat, Fits(s, n, FALSE),
         n # 0 => Col(n - 1) + 1 # NPairsPerChunk, n = 0 => Len(s) # 0
  PROVE  Fits(s, n, TRUE)
<1>1. CASE n = 0
  BY <1>1, FirstPosition DEF Fits
<1>2. CASE n # 0
  <2>1. PICK e \in Nat : e = n - 1 /\ n = e + 1
    BY <1>2
  <2>2. Row(n) = Row(e)
    BY <1>2, <2>1, NextPosition
  <2> QED BY <1>2, <2>1, <2>2 DEF Fits
<1> QED BY <1>1, <1>2

(* The chain without its last chunk, when that becomes empty.              *)
LEMMA FitsWhenRemoved ==
  ASSUME TableAssumption, NEW s, NEW n \in Nat \ {0}, Len(s) \in Nat, Fits(s, n, FALSE),
         NEW r, Len(r) = IF Col(n - 1) = 0 /\ Len(s) # 1 THEN Len(s) - 1 ELSE Len(s)
  PROVE  /\ Fits(r, n - 1, FALSE)
         /\ \A m \in 0 .. n - 2 : Row(m) <= Len(r)
<1>1. PICK e \in Nat : e = n - 1 /\ n = e + 1 /\ n - 2 = e - 1
  OBVIOUS
<1>2. Len(s) = Row(e)
  BY <1>1 DEF Fits
<1>3. CASE e = 0
  BY <1>1, <1>2, <1>3, FirstPosition DEF Fits
<1>4. CASE e # 0
  <2>1. PICK d \in Nat : d = e - 1 /\ e = d + 1
    BY <1>4
  <2>2. Row(d) \in Nat \ {0} /\ Col(d) \in Nat
    <3>1. Row(d) \in Nat \ {0} /\ Col(d) \in Slots
      BY RowAndCol
    <3>2. Slots \subseteq Nat
      BY DEF Slots, TableAssumption
    <3> QED BY <3>1, <3>2
  <2>3. Len(r) = Row(d)
    <3>1. CASE Col(d) + 1 = NPairsPerChunk
      BY <1>1, <1>2, <2>1, <2>2, <3>1, NextPosition
    <3>2. CASE Col(d) + 1 # NPairsPerChunk
      <4>1. Row(e) = Row(d) /\ Col(e) # 0
        BY <2>1, <2>2, <3>2, NextPosition
      <4> QED BY <1>1, <1>2, <4>1
    <3> QED BY <3>1, <3>2
  <2>4. Fits(r, e, FALSE)
    BY <1>4, <2>1, <2>3 DEF Fits
  <2>5. ASSUME NEW m \in 0 .. e - 1 PROVE Row(m) <= Len(r)
    <3>1. m \in Nat /\ m <= d
      BY <2>1
    <3> QED BY <2>1, <2>3, <3>1, RowsAscend
  <2> QED BY <1>1, <2>4, <2>5
<1> QED BY <1>3, <1>4

-----------------------------------------------------------------------------
(* What a step of thread t does to its own variables ...                   *)
Moves(t, place, c, w, r) ==
  /\ pc' = [pc EXCEPT ![t] = place] /\ call' = [call EXCEPT ![t] = c]
  /\ self' = [self EXCEPT ![t] = w] /\ result' = [result EXCEPT ![t] = r]
(* ... when it does not touch the table.                                   *)
DataSame == UNCHANGED <<size, head, keys, values, next, allocated, free_list>>

(* A step of one thread changes that thread's own variables only.          *)
LEMMA MovesMeans ==
  ASSUME TypeOK, call \in [Threads -> AnyCall], NEW t \in Threads, NEW place, NEW c, NEW w, NEW r,
         Moves(t, place, c, w, r)
  PROVE  /\ pc'[t] = place /\ call'[t] = c /\ self'[t] = w /\ result'[t] = r
         /\ \A u \in Threads \ {t} : /\ pc'[u] = pc[u] /\ call'[u] = call[u]
                                     /\ self'[u] = self[u] /\ result'[u] = result[u]
BY DEF TypeOK, Moves

(* What a thread keeps, it is said to move to.                             *)
LEMMA MovesKeeping ==
  ASSUME TypeOK, call \in [Threads -> AnyCall], NEW t \in Threads
  PROVE  /\ call' = call => call' = [call EXCEPT ![t] = call[t]]
         /\ self' = self => self' = [self EXCEPT ![t] = self[t]]
         /\ result' = result => result' = [result EXCEPT ![t] = result[t]]
         /\ pc' = pc => pc' = [pc EXCEPT ![t] = pc[t]]
BY DEF TypeOK

(* It keeps their types.                                                   *)
LEMMA MovesTyped ==
  ASSUME TypeOK, call \in [Threads -> AnyCall], NEW t \in Threads,
         NEW place \in Location, NEW c \in AnyCall, NEW w \in Locals, NEW r \in Results,
         Moves(t, place, c, w, r)
  PROVE  /\ pc' \in [Threads -> Location] /\ call' \in [Threads -> AnyCall]
         /\ self' \in [Threads -> Locals] /\ result' \in [Threads -> Results]
BY DEF TypeOK, Moves, Locals, Results

(* A count below one that is in range is in range.                         *)
LEMMA CountsBelow == TableAssumption => \A n \in CountRange : \A i \in Nat : i <= n => i \in CountRange
<1> SUFFICES ASSUME TableAssumption PROVE \A n \in CountRange : \A i \in Nat : i <= n => i \in CountRange
  OBVIOUS
<1>1. Cardinality(Keys) \in Nat
  BY FS_CardinalityType DEF TableAssumption
<1> QED BY <1>1 DEF CountRange

(* The facts that most steps start from.                                   *)
LEMMA ThreadFacts ==
  ASSUME TableAssumption, TableIInv, NEW t \in Threads
  PROVE  /\ TypeOK /\ call \in [Threads -> AnyCall] /\ call[t] \in AnyCall
         /\ pc[t] \in Location /\ self[t] \in Locals /\ result[t] \in Results
         /\ ThreadAt(pc[t], call[t], self[t], result[t],
                     size[self[t].b], ChainOf(self[t].b), keys, values)
<1>1. TypeOK /\ call \in [Threads -> AnyCall] /\ ThreadOK(t)
  BY DEF TableIInv
<1>2. pc[t] \in Location /\ self[t] \in Locals /\ result[t] \in Results
  BY <1>1 DEF TypeOK, Locals, Results
<1> QED BY <1>1, <1>2 DEF ThreadOK

(* What the invariant says of one bucket.                                  *)
LEMMA BucketFacts ==
  ASSUME TableAssumption, TableIInv, NEW b \in Buckets
  PROVE  /\ size[b] \in Nat /\ size[b] \in CountRange
         /\ IsChain(ChainOf(b), head[b], next)
         /\ PairsIn(ChainOf(b), keys, values, size[b], b)
         /\ (\E t \in Threads : Fills(t, b)) \in BOOLEAN
         /\ Fits(ChainOf(b), size[b], \E t \in Threads : Fills(t, b))
<1>1. size[b] \in CountRange
  BY DEF TableIInv, TypeOK
<1>2. size[b] \in Nat
  BY <1>1 DEF CountRange
<1>3. BucketOK(b) /\ IsChain(ChainOf(b), head[b], next)
  BY DEF TableIInv, ChainsOK
<1> QED BY <1>1, <1>2, <1>3 DEF BucketOK

(* A step that leaves the table alone.                                     *)
LEMMA ControlStep ==
  ASSUME TableAssumption, TableIInv, NEW t \in Threads,
         NEW place \in Location, NEW c \in AnyCall, NEW w \in Locals, NEW r \in Results,
         Moves(t, place, c, w, r), DataSame,
         mode' \in [Buckets -> [Threads -> {"out", "read", "write"}]],
         insert_lock' \in [Buckets -> BOOLEAN], LocksOK',
         pc[t] \notin {"write", "publish"}, place # "publish",
         place = "write" => Fits(ChainOf(w.b), size[w.b], TRUE),
         ThreadAt(place, c, w, r, size[w.b], ChainOf(w.b), keys, values)
  PROVE  TableIInv'
<1>1. TypeOK /\ call \in [Threads -> AnyCall]
  BY DEF TableIInv
<1>2. /\ pc'[t] = place /\ call'[t] = c /\ self'[t] = w /\ result'[t] = r
      /\ \A u \in Threads \ {t} : /\ pc'[u] = pc[u] /\ call'[u] = call[u]
                                  /\ self'[u] = self[u] /\ result'[u] = result[u]
  BY <1>1, MovesMeans
<1>3. /\ pc' \in [Threads -> Location] /\ call' \in [Threads -> AnyCall]
      /\ self' \in [Threads -> Locals] /\ result' \in [Threads -> Results]
  BY <1>1, MovesTyped
<1>4. TypeOK'
  BY <1>1, <1>3 DEF TypeOK, DataSame, Locals, Results
<1>5. /\ \A b : ChainOf(b)' = ChainOf(b)
      /\ FreeChain' = FreeChain
      /\ size' = size /\ keys' = keys /\ values' = values
  BY DEF ChainOf, FreeChain, Chain, DataSame
<1>6. ChainsOK'
  <2>1. ChainsOK
    BY DEF TableIInv
  <2> QED BY <1>5, <2>1 DEF ChainsOK, DataSame
<1>7. ASSUME NEW b \in Buckets PROVE BucketOK(b)'
  <2>1. PairsIn(ChainOf(b), keys, values, size[b], b)
    BY BucketFacts
  <2>2. Fits(ChainOf(b), size[b], \E u \in Threads : Fills(u, b))
    BY BucketFacts
  <2>3. CASE place = "write" /\ w.b = b
    <3>1. Fits(ChainOf(b), size[b], TRUE)
      BY <2>3
    <3>2. \E u \in Threads : Fills(u, b)'
      BY <1>2, <2>3 DEF Fills
    <3>3. Fits(ChainOf(b), size[b], (\E u \in Threads : Fills(u, b))')
      BY <3>1, <3>2 DEF Fits
    <3> QED BY <1>5, <2>1, <3>3 DEF BucketOK
  <2>4. CASE ~(place = "write" /\ w.b = b)
    <3>1. \A u \in Threads : Fills(u, b)' <=> Fills(u, b)
      BY <1>2, <2>4 DEF Fills
    <3>2. Fits(ChainOf(b), size[b], (\E u \in Threads : Fills(u, b))')
      BY <2>2, <3>1 DEF Fits
    <3> QED BY <1>5, <2>1, <3>2 DEF BucketOK
  <2> QED BY <2>3, <2>4
<1>8. ASSUME NEW u \in Threads PROVE ThreadOK(u)'
  <2>1. CASE u = t
    BY <1>2, <1>5, <2>1 DEF ThreadOK
  <2>2. CASE u # t
    <3>1. ThreadOK(u)
      BY DEF TableIInv
    <3>2. /\ pc'[u] = pc[u] /\ call'[u] = call[u]
          /\ self'[u] = self[u] /\ result'[u] = result[u]
      BY <1>2, <2>2
    <3> QED BY <1>5, <3>1, <3>2 DEF ThreadOK
  <2> QED BY <2>1, <2>2
<1> QED BY <1>3, <1>4, <1>6, <1>7, <1>8 DEF TableIInv

-----------------------------------------------------------------------------
(* The places where a thread holds a lock of bucket b.                     *)
AtRead(place, w, b) == place \in ReadPlaces /\ w.b = b
AtWrite(place, w, b) == place \in WritePlaces /\ w.b = b
AtLocked(place, w, b) == place \in LockedPlaces /\ w.b = b

(* A step of one thread keeps the locks and their holders in agreement if  *)
(* the lock words change as the place of the thread does, and no other     *)
(* thread is in the way.                                                   *)
LEMMA LocksStep ==
  ASSUME TypeOK, call \in [Threads -> AnyCall], LocksOK, NEW t \in Threads,
         NEW place, NEW c, NEW w, NEW r, Moves(t, place, c, w, r),
         \A b \in Buckets : \A u \in Threads \ {t} : mode'[b][u] = mode[b][u],
         \A b \in Buckets : /\ mode'[b][t] = "read" <=> AtRead(place, w, b)
                            /\ mode'[b][t] = "write" <=> AtWrite(place, w, b),
         \A b \in Buckets : AtRead(place, w, b) => \A u \in Threads \ {t} : ~Writes(u, b),
         \A b \in Buckets : AtWrite(place, w, b) => \A u \in Threads \ {t} : ~Reads(u, b) /\ ~Writes(u, b),
         \A b \in Buckets : AtLocked(place, w, b) => \A u \in Threads \ {t} : ~Locks(u, b),
         \A b \in Buckets :
           insert_lock'[b] <=> AtLocked(place, w, b) \/ \E u \in Threads \ {t} : Locks(u, b)
  PROVE  LocksOK'
<1>1. /\ pc'[t] = place /\ self'[t] = w
      /\ \A u \in Threads \ {t} : pc'[u] = pc[u] /\ self'[u] = self[u]
  BY MovesMeans
<1>2. ASSUME NEW b \in Buckets, NEW u \in Threads \ {t}
      PROVE  (Reads(u, b)' <=> Reads(u, b)) /\ (Writes(u, b)' <=> Writes(u, b)) /\ (Locks(u, b)' <=> Locks(u, b))
  BY <1>1 DEF Reads, Writes, Locks
<1>3. ASSUME NEW b \in Buckets
      PROVE  /\ Reads(t, b)' <=> AtRead(place, w, b)
             /\ Writes(t, b)' <=> AtWrite(place, w, b)
             /\ Locks(t, b)' <=> AtLocked(place, w, b)
  BY <1>1 DEF Reads, Writes, Locks, AtRead, AtWrite, AtLocked
<1>4. ASSUME NEW b \in Buckets, NEW u \in Threads
      PROVE  (mode[b][u] = "read" <=> Reads(u, b))' /\ (mode[b][u] = "write" <=> Writes(u, b))'
  <2>1. CASE u = t
    BY <1>3, <2>1
  <2>2. CASE u # t
    <3>1. (mode[b][u] = "read" <=> Reads(u, b)) /\ (mode[b][u] = "write" <=> Writes(u, b))
      BY DEF LocksOK
    <3> QED BY <1>2, <2>2, <3>1
  <2> QED BY <2>1, <2>2
<1>5. ASSUME NEW b \in Buckets, NEW v \in Threads, NEW u \in Threads, v # u, Writes(v, b)'
      PROVE  ~Reads(u, b)' /\ ~Writes(u, b)'
  <2>1. CASE v = t
    BY <1>2, <1>3, <1>5, <2>1
  <2>2. CASE u = t
    BY <1>2, <1>3, <1>5, <2>2
  <2>3. CASE v # t /\ u # t
    BY <1>2, <1>5, <2>3 DEF LocksOK
  <2> QED BY <2>1, <2>2, <2>3
<1>6. ASSUME NEW b \in Buckets
      PROVE  insert_lock'[b] <=> \E u \in Threads : Locks(u, b)'
  BY <1>2, <1>3
<1>7. ASSUME NEW b \in Buckets, NEW v \in Threads, NEW u \in Threads, v # u, Locks(v, b)'
      PROVE  ~Locks(u, b)'
  <2>1. CASE v = t
    BY <1>2, <1>3, <1>7, <2>1
  <2>2. CASE u = t
    BY <1>2, <1>3, <1>7, <2>2
  <2>3. CASE v # t /\ u # t
    BY <1>2, <1>7, <2>3 DEF LocksOK
  <2> QED BY <2>1, <2>2, <2>3
<1> QED BY <1>4, <1>5, <1>6, <1>7 DEF LocksOK

(* What the locks say of thread t and the others before a step of t.       *)
LEMMA LockFacts ==
  ASSUME LocksOK, NEW t \in Threads, NEW b \in Buckets
  PROVE  /\ mode[b][t] = "read" <=> AtRead(pc[t], self[t], b)
         /\ mode[b][t] = "write" <=> AtWrite(pc[t], self[t], b)
         /\ AtRead(pc[t], self[t], b) => \A u \in Threads \ {t} : ~Writes(u, b)
         /\ AtWrite(pc[t], self[t], b) => \A u \in Threads \ {t} : ~Reads(u, b) /\ ~Writes(u, b)
         /\ AtLocked(pc[t], self[t], b) => \A u \in Threads \ {t} : ~Locks(u, b)
         /\ insert_lock[b] <=> AtLocked(pc[t], self[t], b) \/ \E u \in Threads \ {t} : Locks(u, b)
<1>1. /\ Reads(t, b) <=> AtRead(pc[t], self[t], b)
      /\ Writes(t, b) <=> AtWrite(pc[t], self[t], b)
      /\ Locks(t, b) <=> AtLocked(pc[t], self[t], b)
  BY DEF Reads, Writes, Locks, AtRead, AtWrite, AtLocked
<1>2. (mode[b][t] = "read" <=> Reads(t, b)) /\ (mode[b][t] = "write" <=> Writes(t, b))
  BY DEF LocksOK
<1>3. \A u \in Threads \ {t} : Writes(t, b) => ~Reads(u, b) /\ ~Writes(u, b)
  BY DEF LocksOK
<1>4. \A u \in Threads \ {t} : Writes(u, b) => ~Reads(t, b)
  BY DEF LocksOK
<1>5. \A u \in Threads \ {t} : Locks(t, b) => ~Locks(u, b)
  BY DEF LocksOK
<1>6. insert_lock[b] <=> \E u \in Threads : Locks(u, b)
  BY DEF LocksOK
<1> QED BY <1>1, <1>2, <1>3, <1>4, <1>5, <1>6

(* A step between two places with the same locks.                          *)
SameLocks(from, to) ==
  /\ from \in ReadPlaces <=> to \in ReadPlaces
  /\ from \in WritePlaces <=> to \in WritePlaces
  /\ from \in LockedPlaces <=> to \in LockedPlaces

(* A step between two places with the same locks held.                     *)
LEMMA LocksInside ==
  ASSUME TypeOK, call \in [Threads -> AnyCall], LocksOK, NEW t \in Threads,
         NEW place, NEW c, NEW w, NEW r, Moves(t, place, c, w, r),
         SameLocks(pc[t], place),
         w.b = self[t].b \/ (place \notin ReadPlaces \cup WritePlaces \cup LockedPlaces),
         UNCHANGED <<mode, insert_lock>>
  PROVE  LocksOK'
<1>1. ASSUME NEW b
      PROVE  /\ AtRead(place, w, b) <=> AtRead(pc[t], self[t], b)
             /\ AtWrite(place, w, b) <=> AtWrite(pc[t], self[t], b)
             /\ AtLocked(place, w, b) <=> AtLocked(pc[t], self[t], b)
  BY DEF AtRead, AtWrite, AtLocked, SameLocks
<1>2. \A b \in Buckets : \A u \in Threads \ {t} : mode'[b][u] = mode[b][u]
  OBVIOUS
<1>3. \A b \in Buckets : /\ mode'[b][t] = "read" <=> AtRead(place, w, b)
                         /\ mode'[b][t] = "write" <=> AtWrite(place, w, b)
  BY <1>1, LockFacts
<1>4. \A b \in Buckets : AtRead(place, w, b) => \A u \in Threads \ {t} : ~Writes(u, b)
  BY <1>1, LockFacts
<1>5. \A b \in Buckets : AtWrite(place, w, b) => \A u \in Threads \ {t} : ~Reads(u, b) /\ ~Writes(u, b)
  BY <1>1, LockFacts
<1>6. \A b \in Buckets : AtLocked(place, w, b) => \A u \in Threads \ {t} : ~Locks(u, b)
  BY <1>1, LockFacts
<1>7. \A b \in Buckets :
        insert_lock'[b] <=> AtLocked(place, w, b) \/ \E u \in Threads \ {t} : Locks(u, b)
  BY <1>1, LockFacts
<1> QED BY <1>2, <1>3, <1>4, <1>5, <1>6, <1>7, LocksStep

(* A step to a place with another reader/writer lock.                      *)
LEMMA LocksMode ==
  ASSUME TypeOK, call \in [Threads -> AnyCall], LocksOK, NEW t \in Threads,
         NEW place, NEW c, NEW w, NEW r, Moves(t, place, c, w, r),
         NEW b \in Buckets, b = self[t].b, NEW m, mode' = [mode EXCEPT ![b][t] = m],
         UNCHANGED insert_lock,
         pc[t] \notin LockedPlaces, place \notin LockedPlaces,
         \/ m = "out" /\ place \notin ReadPlaces \cup WritePlaces
         \/ m = "read" /\ place \in ReadPlaces \ WritePlaces /\ w.b = b /\ \A u \in Threads : mode[b][u] # "write"
         \/ m = "write" /\ place \in WritePlaces \ ReadPlaces /\ w.b = b /\ \A u \in Threads : mode[b][u] = "out"
  PROVE  LocksOK'
<1>1. ASSUME NEW d \in Buckets
      PROVE  ~AtLocked(place, w, d) /\ ~AtLocked(pc[t], self[t], d)
  BY DEF AtLocked
<1>2. \A d \in Buckets : \A u \in Threads \ {t} : mode'[d][u] = mode[d][u]
  BY DEF TypeOK
<1>3. /\ \A d \in Buckets \ {b} : mode'[d][t] = mode[d][t]
      /\ mode'[b][t] = m
  BY DEF TypeOK
<1>4. \A d \in Buckets \ {b} : /\ ~AtRead(pc[t], self[t], d) /\ ~AtRead(place, w, d)
                               /\ ~AtWrite(pc[t], self[t], d) /\ ~AtWrite(place, w, d)
  BY DEF AtRead, AtWrite
<1>5. /\ m = "read" <=> AtRead(place, w, b)
      /\ m = "write" <=> AtWrite(place, w, b)
  BY DEF AtRead, AtWrite
<1>6. \A d \in Buckets : /\ mode'[d][t] = "read" <=> AtRead(place, w, d)
                         /\ mode'[d][t] = "write" <=> AtWrite(place, w, d)
  BY <1>3, <1>4, <1>5, LockFacts
<1>7. \A u \in Threads : /\ mode[b][u] = "read" <=> Reads(u, b)
                         /\ mode[b][u] = "write" <=> Writes(u, b)
  BY DEF LocksOK
<1>8. AtRead(place, w, b) => \A u \in Threads \ {t} : ~Writes(u, b)
  BY <1>5, <1>7
<1>9. AtWrite(place, w, b) => \A u \in Threads \ {t} : ~Reads(u, b) /\ ~Writes(u, b)
  BY <1>5, <1>7
<1>10. \A d \in Buckets : AtRead(place, w, d) => \A u \in Threads \ {t} : ~Writes(u, d)
  BY <1>4, <1>8
<1>11. \A d \in Buckets : AtWrite(place, w, d) => \A u \in Threads \ {t} : ~Reads(u, d) /\ ~Writes(u, d)
  BY <1>4, <1>9
<1>12. \A d \in Buckets : AtLocked(place, w, d) => \A u \in Threads \ {t} : ~Locks(u, d)
  BY <1>1
<1>13. \A d \in Buckets :
         insert_lock'[d] <=> AtLocked(place, w, d) \/ \E u \in Threads \ {t} : Locks(u, d)
  BY <1>1, LockFacts
<1> QED BY <1>2, <1>6, <1>10, <1>11, <1>12, <1>13, LocksStep

(* A step that takes or gives back the lock of the inserters.              *)
LEMMA LocksInsert ==
  ASSUME TypeOK, call \in [Threads -> AnyCall], LocksOK, NEW t \in Threads,
         NEW place, NEW c, NEW w, NEW r, Moves(t, place, c, w, r),
         NEW b \in Buckets, b = self[t].b, w.b = b,
         pc[t] \in ReadPlaces /\ place \in ReadPlaces,
         UNCHANGED mode,
         \/ /\ ~insert_lock[b] /\ insert_lock' = [insert_lock EXCEPT ![b] = TRUE]
            /\ place \in LockedPlaces
         \/ /\ pc[t] \in LockedPlaces /\ insert_lock' = [insert_lock EXCEPT ![b] = FALSE]
            /\ place \notin LockedPlaces
  PROVE  LocksOK'
<1>1. ASSUME NEW d
      PROVE  /\ AtRead(place, w, d) <=> AtRead(pc[t], self[t], d)
             /\ ~AtWrite(place, w, d) /\ ~AtWrite(pc[t], self[t], d)
  BY DEF AtRead, AtWrite, ReadPlaces, WritePlaces
<1>2. \A d \in Buckets : \A u \in Threads \ {t} : mode'[d][u] = mode[d][u]
  OBVIOUS
<1>3. \A d \in Buckets : /\ mode'[d][t] = "read" <=> AtRead(place, w, d)
                         /\ mode'[d][t] = "write" <=> AtWrite(place, w, d)
  BY <1>1, LockFacts
<1>4. \A d \in Buckets : AtRead(place, w, d) => \A u \in Threads \ {t} : ~Writes(u, d)
  BY <1>1, LockFacts
<1>5. \A d \in Buckets : AtWrite(place, w, d) => \A u \in Threads \ {t} : ~Reads(u, d) /\ ~Writes(u, d)
  BY <1>1
<1>6. \A d \in Buckets \ {b} : ~AtLocked(place, w, d) /\ ~AtLocked(pc[t], self[t], d) /\ insert_lock'[d] = insert_lock[d]
  BY DEF AtLocked, TypeOK
<1>7. \/ ~insert_lock[b] /\ insert_lock'[b] /\ AtLocked(place, w, b)
      \/ AtLocked(pc[t], self[t], b) /\ ~insert_lock'[b] /\ ~AtLocked(place, w, b)
  BY DEF AtLocked, TypeOK
<1>8. AtLocked(place, w, b) => \A u \in Threads \ {t} : ~Locks(u, b)
  BY <1>7, LockFacts
<1>9. insert_lock'[b] <=> AtLocked(place, w, b) \/ \E u \in Threads \ {t} : Locks(u, b)
  BY <1>7, <1>8, LockFacts
<1>10. \A d \in Buckets : AtLocked(place, w, d) => \A u \in Threads \ {t} : ~Locks(u, d)
  BY <1>6, <1>8
<1>11. \A d \in Buckets :
         insert_lock'[d] <=> AtLocked(place, w, d) \/ \E u \in Threads \ {t} : Locks(u, d)
  BY <1>6, <1>9, LockFacts
<1> QED BY <1>2, <1>3, <1>4, <1>5, <1>10, <1>11, LocksStep

-----------------------------------------------------------------------------
(* A step inside a call that takes no lock and leaves the table alone.     *)
LEMMA InsideStep ==
  ASSUME TableAssumption, TableIInv, NEW t \in Threads,
         NEW place \in Location, NEW w \in Locals, NEW r \in Results,
         pc' = [pc EXCEPT ![t] = place], self' = [self EXCEPT ![t] = w],
         result' = [result EXCEPT ![t] = r], UNCHANGED <<mode, insert_lock, call>>, DataSame,
         w.b = self[t].b, SameLocks(pc[t], place),
         pc[t] \notin {"write", "publish"}, place # "publish",
         place = "write" => Fits(ChainOf(w.b), size[w.b], TRUE),
         ThreadAt(place, call[t], w, r, size[w.b], ChainOf(w.b), keys, values)
  PROVE  TableIInv'
<1>1. PICK c \in AnyCall : c = call[t]
  BY ThreadFacts
<1>2. TypeOK /\ call \in [Threads -> AnyCall] /\ LocksOK
  BY DEF TableIInv
<1>3. call' = [call EXCEPT ![t] = c]
  BY <1>1, <1>2
<1>4. Moves(t, place, c, w, r)
  BY <1>3 DEF Moves
<1>5. LocksOK'
  BY <1>2, <1>4, LocksInside
<1>6. /\ mode' \in [Buckets -> [Threads -> {"out", "read", "write"}]]
      /\ insert_lock' \in [Buckets -> BOOLEAN]
  BY <1>2 DEF TypeOK
<1>7. ThreadAt(place, c, w, r, size[w.b], ChainOf(w.b), keys, values)
  BY <1>1
<1> QED BY <1>4, <1>5, <1>6, <1>7, ControlStep

(* The call of a thread that holds the lock as a reader.                   *)
LEMMA ReaderCall ==
  ASSUME NEW place \in ReadPlaces, NEW c, NEW b, NEW r, CallAt(place, c, b, r)
  PROVE  /\ place # "r_unlock" => r = NothingYet
         /\ c \in [op : Calls \ {"remove_if"}, key : Keys] /\ b = BucketIdx[c.key]
         /\ c.op # "remove" /\ (c.op = "get" => place \in GetPlaces)
BY DEF CallAt, OnKey, OnAll, ReadPlaces

(* What a call has returned does not depend on the place, between two      *)
(* places under the reader lock.                                           *)
LEMMA CallInside ==
  ASSUME NEW from \in ReadPlaces, NEW to \in ReadPlaces, NEW c, NEW b, NEW r, NEW q,
         from # "r_unlock", CallAt(from, c, b, r), c.op = "get" => to \in GetPlaces,
         q = r \/ to = "r_unlock"
  PROVE  CallAt(to, c, b, q)
BY DEF CallAt, OnKey, OnAll, ReadPlaces

(* Such a thread has a place in its search.     *)
LEMMA ReaderAt ==
  ASSUME NEW place \in ReadPlaces, NEW c, NEW w, NEW r, NEW n, NEW s, NEW ks, NEW vs,
         CallAt(place, c, w.b, r), SearchAt(place, w, c.key, n, s, ks), WrittenAt(place, c.key, n, s, ks, vs)
  PROVE  ThreadAt(place, c, w, r, n, s, ks, vs)
<1>1. place \notin WritePlaces
  BY DEF ReadPlaces, WritePlaces
<1> QED BY <1>1 DEF ThreadAt, VisitAt, WritePlaces

(* The locals after a round of a search, and after a read of the size.     *)
LEMMA LoadKeeps ==
  ASSUME TableAssumption, TableIInv, NEW t \in Threads, NEW from, NEW to \in ReadPlaces,
         LoadSize(t, from, to),
         from \in {"load", "scan", "spin_load", "locked_load"},
         to \in {"scan", "spin_scan", "locked_scan", "try_lock", "r_unlock"},
         from \in {"locked_load"} <=> to \in {"locked_scan"},
         call[t].op = "get" => to \in GetPlaces
  PROVE  TableIInv'
<1>1. PICK w \in Locals : w = self[t]
  BY ThreadFacts
<1>2. PICK c \in AnyCall : c = call[t]
  BY ThreadFacts
<1>3. PICK r \in Results : r = result[t]
  BY ThreadFacts
<1>4. PICK b \in Buckets : b = w.b
  BY DEF Locals
<1>5. PICK n \in CountRange : n = size[b] /\ n \in Nat
  BY BucketFacts
<1>6. PICK s : s = ChainOf(b)
  OBVIOUS
<1>7. ThreadAt(from, c, w, r, n, s, keys, values)
  BY <1>1, <1>2, <1>3, <1>4, <1>5, <1>6, ThreadFacts DEF LoadSize, Goto
<1>8. PICK x : x = [w EXCEPT !.current = n]
  OBVIOUS
<1>9. x \in Locals /\ x.b = b /\ x.i = w.i /\ x.j = w.j /\ x.link = w.link /\ x.current = n
  BY <1>4, <1>8 DEF Locals
<1>10. /\ pc[t] = from /\ pc' = [pc EXCEPT ![t] = to] /\ self' = [self EXCEPT ![t] = x]
       /\ UNCHANGED <<mode, insert_lock, call, result>> /\ DataSame
  BY <1>1, <1>4, <1>5, <1>8 DEF LoadSize, Goto, Set, bucketVars, chunkVars, DataSame
<1>11. result' = [result EXCEPT ![t] = r]
  BY <1>3, <1>10, ThreadFacts DEF TypeOK
<1>12. to \in Location /\ to \notin {"write", "publish"} /\ from \notin {"write", "publish"} /\ SameLocks(from, to)
       /\ from \in ReadPlaces /\ from # "r_unlock"
  BY DEF Location, SameLocks, ReadPlaces, WritePlaces, LockedPlaces
<1>13. CallAt(to, c, b, r)
  BY <1>2, <1>4, <1>7, <1>12, CallInside DEF ThreadAt
<1>14. SearchAt(to, x, c.key, n, s, keys)
  <2>1. w.i <= w.current /\ w.current <= n /\ Behind(w, s) /\ Missed(w, c.key, s, keys)
    BY <1>7 DEF ThreadAt, SearchAt, Searching
  <2>2. w.i \in Nat /\ w.current \in Nat
    BY DEF Locals, CountRange
  <2>3. x.i <= n /\ n <= n
    BY <1>5, <1>9, <2>1, <2>2
  <2>4. Behind(x, s) /\ Missed(x, c.key, s, keys)
    BY <1>9, <2>1 DEF Behind, Missed
  <2> QED BY <1>9, <2>3, <2>4 DEF SearchAt, Searching, Found
<1>15. ThreadAt(to, c, x, r, n, s, keys, values)
  BY <1>9, <1>12, <1>13, <1>14, ReaderAt DEF WrittenAt
<1>16. ThreadAt(to, call[t], x, r, size[x.b], ChainOf(x.b), keys, values)
  BY <1>2, <1>4, <1>5, <1>6, <1>9, <1>15
<1>17. x.b = self[t].b /\ SameLocks(pc[t], to) /\ pc[t] \notin {"write", "publish"}
  BY <1>1, <1>4, <1>9, <1>10, <1>12
<1> QED BY <1>9, <1>10, <1>11, <1>12, <1>16, <1>17, InsideStep

(* What is known of a thread and of the bucket it works on, by name.       *)
View(t, w, c, r, b, n, s) ==
  /\ w = self[t] /\ c = call[t] /\ r = result[t] /\ b = w.b /\ n = size[b] /\ s = ChainOf(b)
  /\ ThreadAt(pc[t], c, w, r, n, s, keys, values)
  /\ IsChain(s, head[b], next) /\ n \in Nat /\ w.i \in Nat /\ w.current \in Nat /\ w.j \in Nat

(* The state as one thread sees it: its locals, its call, and the bucket   *)
(* that it works on.                                                       *)
LEMMA ThreadView ==
  ASSUME TableAssumption, TableIInv, NEW t \in Threads
  PROVE  \E w \in Locals, c \in AnyCall, r \in Results, b \in Buckets, n \in CountRange :
           \E s : View(t, w, c, r, b, n, s)
<1>1. PICK w \in Locals : w = self[t]
  BY ThreadFacts
<1>2. PICK c \in AnyCall : c = call[t]
  BY ThreadFacts
<1>3. PICK r \in Results : r = result[t]
  BY ThreadFacts
<1>4. PICK b \in Buckets : b = w.b
  BY DEF Locals
<1>5. PICK n \in CountRange : n = size[b] /\ n \in Nat
  BY BucketFacts
<1>6. PICK s : s = ChainOf(b)
  OBVIOUS
<1>7. ThreadAt(pc[t], c, w, r, n, s, keys, values)
  BY <1>1, <1>2, <1>3, <1>4, <1>5, <1>6, ThreadFacts
<1>8. IsChain(s, head[b], next)
  BY <1>6, BucketFacts
<1>9. w.i \in Nat /\ w.current \in Nat /\ w.j \in Nat
  BY DEF Locals, CountRange
<1>10. View(t, w, c, r, b, n, s)
  BY <1>1, <1>2, <1>3, <1>4, <1>5, <1>6, <1>7, <1>8, <1>9 DEF View
<1> QED BY <1>10

(* A step that changes the thread alone keeps the invariant if what it     *)
(* then knows is true.                                                     *)
ToPlace(t, w, c, r, b, n, s, place, x, q) ==
  /\ View(t, w, c, r, b, n, s)
  /\ place \in Location /\ x \in Locals /\ q \in Results
  /\ pc' = [pc EXCEPT ![t] = place]
  /\ self' = [self EXCEPT ![t] = x] \/ (x = w /\ self' = self)
  /\ result' = [result EXCEPT ![t] = q] \/ (q = r /\ result' = result)
  /\ UNCHANGED <<mode, insert_lock, call>> /\ DataSame
  /\ x.b = b /\ SameLocks(pc[t], place)
  /\ pc[t] \notin {"write", "publish"} /\ place # "publish"
  /\ place = "write" => Fits(s, n, TRUE)
  /\ ThreadAt(place, c, x, q, n, s, keys, values)

LEMMA InsideView ==
  ASSUME TableAssumption, TableIInv, NEW t \in Threads,
         NEW w \in Locals, NEW c \in AnyCall, NEW r \in Results, NEW b \in Buckets, NEW n \in CountRange,
         NEW s, NEW place, NEW x, NEW q, ToPlace(t, w, c, r, b, n, s, place, x, q)
  PROVE  TableIInv'
<1> USE DEF ToPlace
<1>1. self' = [self EXCEPT ![t] = x]
  BY ThreadFacts, MovesKeeping DEF View
<1>2. result' = [result EXCEPT ![t] = q]
  BY ThreadFacts, MovesKeeping DEF View
<1>3. x.b = self[t].b /\ ThreadAt(place, call[t], x, q, size[x.b], ChainOf(x.b), keys, values)
  BY DEF View
<1>4. place = "write" => Fits(ChainOf(x.b), size[x.b], TRUE)
  BY DEF View
<1> QED BY <1>1, <1>2, <1>3, <1>4, InsideStep

(* Comparing one key in a search: both outcomes.                           *)
LEMMA CompareKeeps ==
  ASSUME TableAssumption, TableIInv, NEW t \in Threads, NEW from, NEW found,
         Compare(t, from, found),
         <<from, found>> \in {<<"scan", "fetch">>, <<"spin_scan", "fetch">>, <<"locked_scan", "found_unlock">>}
  PROVE  TableIInv'
<1>1. PICK w \in Locals, c \in AnyCall, r \in Results, b \in Buckets, n \in CountRange :
        \E s : View(t, w, c, r, b, n, s)
  BY ThreadView
<1>2. PICK s : View(t, w, c, r, b, n, s)
  BY <1>1
<1>3. PICK deref : deref = IF w.link = NULL THEN head[b] ELSE next[w.link]
  OBVIOUS
<1>4. PICK link : link = IF w.j = NPairsPerChunk THEN deref ELSE w.link
  OBVIOUS
<1>5. PICK j : j = IF w.j = NPairsPerChunk THEN 0 ELSE w.j
  OBVIOUS
<1>6. PICK chunk : chunk = IF w.j = NPairsPerChunk THEN next[link] ELSE deref
  OBVIOUS
<1>7. /\ pc[t] = from /\ w.i < w.current
      /\ \/ /\ keys[chunk][j] = c.key
            /\ pc' = [pc EXCEPT ![t] = found]
            /\ self' = [self EXCEPT ![t] = [w EXCEPT !.link = link, !.j = j]]
         \/ /\ keys[chunk][j] # c.key
            /\ pc' = [pc EXCEPT ![t] = from]
            /\ self' = [self EXCEPT ![t] = [w EXCEPT !.link = link, !.j = j + 1, !.i = w.i + 1]]
      /\ UNCHANGED <<bucketVars, chunkVars, call, result>>
  <2>1. w = self[t] /\ c = call[t] /\ b = w.b /\ deref = Deref(t)
    BY <1>2, <1>3 DEF View, Deref
  <2> QED BY <1>4, <1>5, <1>6, <2>1 DEF Compare, Goto, Set
<1>8. from \in Searching /\ w.i <= w.current /\ w.current <= n /\ Behind(w, s) /\ Missed(w, c.key, s, keys)
  <2>1. from \in Searching
    BY DEF Searching
  <2> QED BY <1>2, <1>7, <2>1 DEF View, ThreadAt, SearchAt
<1>9. w.i < n /\ w.i \in 0 .. n - 1 /\ n \in Nat /\ w.i \in Nat /\ w.current \in Nat
  BY <1>2, <1>7, <1>8 DEF View
<1>10. IsChain(s, head[b], next) /\ Row(w.i) \in 1 .. Len(s) /\ Col(w.i) \in Slots
  BY <1>2, <1>9, BucketFacts, FitsRows DEF View
<1>11. link = Link(s, Row(w.i)) /\ j = Col(w.i) /\ chunk = s[Row(w.i)]
  BY <1>3, <1>4, <1>5, <1>6, <1>8, <1>9, <1>10, Advance
<1>12. keys[chunk][j] = At(s, keys, w.i)
  BY <1>11 DEF At
<1>13. link \in Chunks \cup {NULL}
  BY <1>10, <1>11, LinkTarget
<1>14. j \in 0 .. NPairsPerChunk /\ j + 1 \in 0 .. NPairsPerChunk
  BY <1>10, <1>11 DEF Slots, TableAssumption
<1>15. w.i + 1 \in CountRange
  <2>1. w.i + 1 \in Nat /\ w.i + 1 <= n
    BY <1>9
  <2> QED BY <2>1, CountsBelow
<1>16. UNCHANGED <<mode, insert_lock, call>> /\ DataSame /\ result' = result
  BY <1>7 DEF bucketVars, chunkVars, DataSame
<1>17. from \in ReadPlaces /\ found \in ReadPlaces /\ from \in Location /\ found \in Location
       /\ SameLocks(from, from) /\ SameLocks(from, found) /\ from # "r_unlock"
       /\ from \notin {"write", "publish"} /\ found \notin {"write", "publish"}
       /\ found \in Found \ Searching /\ from \notin Found
  BY DEF ReadPlaces, WritePlaces, LockedPlaces, Location, SameLocks, Found, Searching
<1>18. CallAt(from, c, b, r) /\ CallAt(found, c, b, r)
  <2>1. CallAt(from, c, b, r)
    BY <1>2, <1>7 DEF View, ThreadAt
  <2>2. c.op = "get" => from \in GetPlaces
    BY <1>17, <2>1, ReaderCall
  <2>3. c.op = "get" => found \in GetPlaces
    BY <2>2 DEF GetPlaces
  <2> QED BY <1>17, <2>1, <2>3, CallInside
<1>19. CASE keys[chunk][j] = c.key
  <2>1. PICK x : x = [w EXCEPT !.link = link, !.j = j]
    OBVIOUS
  <2>2. x \in Locals /\ x.b = b /\ x.i = w.i /\ x.link = link /\ x.j = j
    BY <1>2, <1>13, <1>14, <2>1 DEF Locals, View
  <2>3. pc' = [pc EXCEPT ![t] = found] /\ self' = [self EXCEPT ![t] = x]
    BY <1>7, <1>19, <2>1
  <2>4. SearchAt(found, x, c.key, n, s, keys)
    BY <1>9, <1>11, <1>12, <1>17, <1>19, <2>2 DEF SearchAt, PointsTo, Found, Searching
  <2>5. ThreadAt(found, c, x, r, n, s, keys, values)
    BY <1>17, <1>18, <2>2, <2>4, ReaderAt DEF WrittenAt
  <2>6. ToPlace(t, w, c, r, b, n, s, found, x, r)
    BY <1>2, <1>7, <1>16, <1>17, <2>2, <2>3, <2>5 DEF ToPlace
  <2> QED BY <2>6, InsideView
<1>20. CASE keys[chunk][j] # c.key
  <2>1. PICK x : x = [w EXCEPT !.link = link, !.j = j + 1, !.i = w.i + 1]
    OBVIOUS
  <2>2. x \in Locals /\ x.b = b /\ x.i = w.i + 1 /\ x.link = link /\ x.j = j + 1 /\ x.current = w.current
    BY <1>2, <1>13, <1>14, <1>15, <2>1 DEF Locals, View
  <2>3. pc' = [pc EXCEPT ![t] = from] /\ self' = [self EXCEPT ![t] = x]
    BY <1>7, <1>20, <2>1
  <2>4. x.i <= x.current /\ x.current <= n
    BY <1>7, <1>8, <1>9, <2>2
  <2>5. Behind(x, s)
    <3>1. x.i # 0 /\ x.i - 1 = w.i
      BY <1>9, <2>2
    <3> QED BY <1>11, <2>2, <3>1 DEF Behind
  <2>6. Missed(x, c.key, s, keys)
    <3>1. \A m \in 0 .. x.i - 1 : m \in 0 .. w.i - 1 \/ m = w.i
      BY <1>9, <2>2
    <3> QED BY <1>8, <1>12, <1>20, <3>1 DEF Missed
  <2>7. from = "locked_scan" => x.current = n
    BY <1>2, <1>7, <2>2 DEF View, ThreadAt, SearchAt
  <2>8. SearchAt(from, x, c.key, n, s, keys)
    BY <1>17, <2>4, <2>5, <2>6, <2>7 DEF SearchAt
  <2>9. ThreadAt(from, c, x, r, n, s, keys, values)
    BY <1>17, <1>18, <2>2, <2>8, ReaderAt DEF WrittenAt
  <2>10. ToPlace(t, w, c, r, b, n, s, from, x, r)
    BY <1>2, <1>7, <1>16, <1>17, <2>2, <2>3, <2>9 DEF ToPlace
  <2> QED BY <2>10, InsideView
<1> QED BY <1>19, <1>20

(* The pair that a search found, or that was just inserted.                *)
LEMMA FoundPair ==
  ASSUME TableAssumption, TableIInv, NEW t \in Threads,
         NEW w \in Locals, NEW c \in AnyCall, NEW r \in Results, NEW b \in Buckets, NEW n \in CountRange,
         NEW s, View(t, w, c, r, b, n, s), pc[t] \in Found
  PROVE  /\ w.i \in 0 .. n - 1 /\ At(s, keys, w.i) = c.key
         /\ values[Deref(t)][self[t].j] = At(s, values, w.i)
         /\ At(s, values, w.i) \in Values
<1>1. w.i < n /\ PointsTo(w, s, w.i) /\ At(s, keys, w.i) = c.key
  BY DEF View, ThreadAt, SearchAt
<1>2. w.i \in 0 .. n - 1
  BY <1>1 DEF View
<1>3. Row(w.i) \in 1 .. Len(s)
  BY <1>2, BucketFacts, FitsRows DEF View
<1>4. Deref(t) = s[Row(w.i)] /\ self[t].j = Col(w.i)
  <2>1. PICK link : link = w.link
    OBVIOUS
  <2>2. link = Link(s, Row(w.i)) /\ w.j = Col(w.i) /\ IsChain(s, head[b], next)
    BY <1>1, <2>1 DEF PointsTo, View
  <2>3. (IF link = NULL THEN head[b] ELSE next[link]) = s[Row(w.i)]
    BY <1>3, <2>2, LinkTarget
  <2> QED BY <2>1, <2>2, <2>3 DEF Deref, View
<1>5. At(s, values, w.i) \in Values
  BY <1>2, BucketFacts DEF PairsIn, View
<1> QED BY <1>1, <1>2, <1>4, <1>5 DEF At

(* Reading the value of the pair that was found, or of the own one.        *)
LEMMA FetchKeeps ==
  ASSUME TableAssumption, TableIInv, NEW t \in Threads, Fetch(t) \/ FetchOwn(t)
  PROVE  TableIInv'
<1>1. PICK w \in Locals, c \in AnyCall, r \in Results, b \in Buckets, n \in CountRange :
        \E s : View(t, w, c, r, b, n, s)
  BY ThreadView
<1>2. PICK s : View(t, w, c, r, b, n, s)
  BY <1>1
<1>3. /\ pc[t] \in {"fetch", "fetch_own"} /\ pc' = [pc EXCEPT ![t] = "r_unlock"]
      /\ \E flag \in BOOLEAN :
           result' = [result EXCEPT ![t] = Result(values[Deref(t)][self[t].j], flag)]
      /\ UNCHANGED <<mode, insert_lock, call, self>> /\ DataSame
  BY DEF Fetch, FetchOwn, Goto, Return, bucketVars, chunkVars, DataSame
<1>4. PICK flag \in BOOLEAN : result' = [result EXCEPT ![t] = Result(values[Deref(t)][self[t].j], flag)]
  BY <1>3
<1>5. PICK q : q = Result(At(s, values, w.i), flag)
  OBVIOUS
<1>6. values[Deref(t)][self[t].j] = At(s, values, w.i) /\ At(s, values, w.i) \in Values
  BY <1>2, <1>3, FoundPair DEF Found
<1>7. q \in Results /\ result' = [result EXCEPT ![t] = q]
  BY <1>4, <1>5, <1>6 DEF Results, Result
<1>8. pc[t] \in ReadPlaces /\ pc[t] # "r_unlock" /\ "r_unlock" \in ReadPlaces \cap Location \cap GetPlaces
      /\ SameLocks(pc[t], "r_unlock")
  BY <1>3 DEF ReadPlaces, WritePlaces, LockedPlaces, Location, SameLocks, GetPlaces
<1>9. CallAt("r_unlock", c, w.b, q)
  <2>1. CallAt(pc[t], c, w.b, r)
    BY <1>2 DEF View, ThreadAt
  <2> QED BY <1>8, <2>1, CallInside
<1>10. ThreadAt("r_unlock", c, w, q, n, s, keys, values)
  BY <1>8, <1>9, ReaderAt DEF SearchAt, WrittenAt, Searching, Found
<1>11. w.b = b /\ self' = self
  BY <1>2, <1>3 DEF View
<1>12. /\ pc[t] \notin {"write", "publish"} /\ "r_unlock" \in Location
       /\ UNCHANGED <<mode, insert_lock, call>> /\ DataSame /\ pc' = [pc EXCEPT ![t] = "r_unlock"]
  BY <1>3, <1>8
<1>13. ToPlace(t, w, c, r, b, n, s, "r_unlock", w, q)
  BY <1>2, <1>7, <1>8, <1>10, <1>11, <1>12 DEF ToPlace
<1> QED BY <1>13, InsideView

(* Reading the size of the bucket: unlocked, spinning or locked.           *)
LEMMA LoadsKeep ==
  ASSUME TableAssumption, TableIInv, NEW t \in Threads,
         Load(t) \/ Reload(t) \/ SpinLoad(t) \/ LockedLoad(t)
  PROVE  TableIInv'
<1>1. PICK w \in Locals, c \in AnyCall, r \in Results, b \in Buckets, n \in CountRange :
        \E s : View(t, w, c, r, b, n, s)
  BY ThreadView
<1>2. PICK s : View(t, w, c, r, b, n, s)
  BY <1>1
<1>3. CallAt(pc[t], call[t], b, r)
  BY <1>2 DEF View, ThreadAt
<1>4. CASE Load(t)
  <2>1. LoadSize(t, "load", "scan")
    BY <1>4 DEF Load
  <2> QED BY <2>1, LoadKeeps DEF ReadPlaces, GetPlaces
<1>5. CASE Reload(t)
  <2>1. PICK to : to = IF size[self[t].b] > self[t].current THEN "scan"
                       ELSE IF call[t].op = "get" THEN "r_unlock" ELSE "try_lock"
    OBVIOUS
  <2>2. LoadSize(t, "scan", to)
    BY <1>5, <2>1 DEF Reload
  <2>3. to \in {"scan", "r_unlock", "try_lock"} /\ (call[t].op = "get" => to \in {"scan", "r_unlock"})
    BY <2>1
  <2> QED BY <2>2, <2>3, LoadKeeps DEF ReadPlaces, GetPlaces
<1>6. CASE SpinLoad(t)
  <2>1. PICK to : to = IF size[self[t].b] > self[t].current THEN "spin_scan" ELSE "try_lock"
    OBVIOUS
  <2>2. LoadSize(t, "spin_load", to) /\ pc[t] = "spin_load"
    BY <1>6, <2>1 DEF SpinLoad, LoadSize, Goto
  <2>3. to \in {"spin_scan", "try_lock"}
    BY <2>1
  <2>4. call[t].op # "get"
    BY <1>3, <2>2, ReaderCall DEF ReadPlaces, GetPlaces
  <2> QED BY <2>2, <2>3, <2>4, LoadKeeps DEF ReadPlaces
<1>7. CASE LockedLoad(t)
  <2>1. LoadSize(t, "locked_load", "locked_scan") /\ pc[t] = "locked_load"
    BY <1>7 DEF LockedLoad, LoadSize, Goto
  <2>2. call[t].op # "get"
    BY <1>3, <2>1, ReaderCall DEF ReadPlaces, GetPlaces
  <2> QED BY <2>1, <2>2, LoadKeeps DEF ReadPlaces
<1> QED BY <1>4, <1>5, <1>6, <1>7

(* One round of a search: unlocked, spinning or locked.                    *)
LEMMA SearchesKeep ==
  ASSUME TableAssumption, TableIInv, NEW t \in Threads, Scan(t) \/ SpinScan(t) \/ LockedScan(t)
  PROVE  TableIInv'
<1>1. PICK from, found :
        /\ Compare(t, from, found)
        /\ <<from, found>> \in {<<"scan", "fetch">>, <<"spin_scan", "fetch">>, <<"locked_scan", "found_unlock">>}
  BY DEF Scan, SpinScan, LockedScan
<1> QED BY <1>1, CompareKeeps

(* Another attempt at the insert lock.                                     *)
LEMMA SpinAgainKeeps ==
  ASSUME TableAssumption, TableIInv, NEW t \in Threads, SpinAgain(t)
  PROVE  TableIInv'
<1>1. PICK w \in Locals, c \in AnyCall, r \in Results, b \in Buckets, n \in CountRange :
        \E s : View(t, w, c, r, b, n, s)
  BY ThreadView
<1>2. PICK s : View(t, w, c, r, b, n, s)
  BY <1>1
<1>3. /\ pc[t] = "spin_scan" /\ pc' = [pc EXCEPT ![t] = "try_lock"]
      /\ UNCHANGED <<mode, insert_lock, call, self, result>> /\ DataSame
  BY DEF SpinAgain, Goto, bucketVars, chunkVars, DataSame
<1>4. pc[t] \in ReadPlaces /\ pc[t] # "r_unlock" /\ "try_lock" \in ReadPlaces \cap Location
      /\ SameLocks(pc[t], "try_lock")
  BY <1>3 DEF ReadPlaces, WritePlaces, LockedPlaces, Location, SameLocks
<1>5. CallAt(pc[t], c, w.b, r) /\ SearchAt(pc[t], w, c.key, n, s, keys)
  BY <1>2 DEF View, ThreadAt
<1>6. c.op # "get"
  BY <1>3, <1>4, <1>5, ReaderCall DEF GetPlaces
<1>7. CallAt("try_lock", c, w.b, r)
  BY <1>4, <1>5, <1>6, CallInside
<1>8. SearchAt("try_lock", w, c.key, n, s, keys)
  BY <1>3, <1>5 DEF SearchAt, Searching, Found
<1>9. ThreadAt("try_lock", c, w, r, n, s, keys, values)
  BY <1>4, <1>7, <1>8, ReaderAt DEF WrittenAt
<1>10. w.b = b /\ self' = self /\ result' = result
  BY <1>2, <1>3 DEF View
<1>11. ToPlace(t, w, c, r, b, n, s, "try_lock", w, r)
  BY <1>2, <1>3, <1>4, <1>9, <1>10 DEF ToPlace
<1> QED BY <1>11, InsideView

(* Nothing fills the bucket of a thread that looks for a place to fill.    *)
LEMMA NobodyFills ==
  ASSUME LocksOK, NEW t \in Threads, pc[t] \in LockedPlaces, pc[t] \notin {"write", "publish"},
         NEW b \in Buckets, b = self[t].b
  PROVE  ~\E u \in Threads : Fills(u, b)
<1>1. Locks(t, b)
  BY DEF Locks
<1>2. ASSUME NEW u \in Threads, Fills(u, b) PROVE FALSE
  <2>1. Locks(u, b)
    BY <1>2 DEF Fills, Locks, LockedPlaces
  <2>2. u # t
    BY <1>2 DEF Fills
  <2> QED BY <1>1, <2>1, <2>2 DEF LocksOK
<1> QED BY <1>2

(* The locked search ends without the key: the pair will be inserted.      *)
LEMMA LockedScanEndKeeps ==
  ASSUME TableAssumption, TableIInv, NEW t \in Threads, LockedScanEnd(t)
  PROVE  TableIInv'
<1>1. PICK w \in Locals, c \in AnyCall, r \in Results, b \in Buckets, n \in CountRange :
        \E s : View(t, w, c, r, b, n, s)
  BY ThreadView
<1>2. PICK s : View(t, w, c, r, b, n, s)
  BY <1>1
<1>3. PICK to : to = IF w.current = 0 \/ w.j = NPairsPerChunk THEN "new_chunk" ELSE "write"
  OBVIOUS
<1>4. /\ pc[t] = "locked_scan" /\ pc' = [pc EXCEPT ![t] = to] /\ w.i = w.current
      /\ UNCHANGED <<mode, insert_lock, call, self, result>> /\ DataSame
  BY <1>2, <1>3 DEF LockedScanEnd, Goto, bucketVars, chunkVars, DataSame, View
<1>5. to \in {"new_chunk", "write"}
  BY <1>3
<1>6. pc[t] \in ReadPlaces /\ pc[t] # "r_unlock" /\ to \in ReadPlaces \cap Location
      /\ SameLocks(pc[t], to) /\ pc[t] \notin {"write", "publish"} /\ to # "publish" /\ pc[t] \in LockedPlaces
  BY <1>4, <1>5 DEF ReadPlaces, WritePlaces, LockedPlaces, Location, SameLocks
<1>7. CallAt(pc[t], c, w.b, r) /\ SearchAt(pc[t], w, c.key, n, s, keys)
  BY <1>2 DEF View, ThreadAt
<1>8. c.op # "get"
  BY <1>4, <1>6, <1>7, ReaderCall DEF GetPlaces
<1>9. CallAt(to, c, w.b, r)
  BY <1>6, <1>7, <1>8, CallInside
<1>10. w.current = n /\ w.i = n /\ Behind(w, s) /\ Missed(w, c.key, s, keys) /\ n \in Nat
  BY <1>2, <1>4, <1>7 DEF SearchAt, Searching, View
<1>11. Fits(s, n, FALSE)
  <2>1. ~\E u \in Threads : Fills(u, b)
    BY <1>2, <1>6, NobodyFills DEF TableIInv, View
  <2>2. Fits(s, n, \E u \in Threads : Fills(u, b))
    BY <1>2, BucketFacts DEF View
  <2> QED BY <2>1, <2>2 DEF Fits
<1>12. to = "write" => n # 0 /\ w.j # NPairsPerChunk
  BY <1>3, <1>10
<1>13. to = "write" => Fits(s, n, TRUE) /\ PointsTo(w, s, n)
  <2> SUFFICES ASSUME to = "write" PROVE Fits(s, n, TRUE) /\ PointsTo(w, s, n)
    OBVIOUS
  <2>1. PICK e \in Nat : e = n - 1 /\ n = e + 1
    BY <1>10, <1>12
  <2>2. w.link = Link(s, Row(e)) /\ w.j = Col(e) + 1
    BY <1>10, <1>12, <2>1 DEF Behind
  <2>3. Col(e) + 1 # NPairsPerChunk
    BY <1>12, <2>2
  <2>4. Row(n) = Row(e) /\ Col(n) = Col(e) + 1
    BY <2>1, <2>3, NextPosition
  <2>5. Len(s) \in Nat
    BY <1>2, ChainFacts DEF View
  <2>6. Fits(s, n, TRUE)
    BY <1>10, <1>11, <1>12, <2>1, <2>3, <2>5, FitsWhenFilling
  <2> QED BY <2>2, <2>4, <2>6 DEF PointsTo
<1>14. SearchAt(to, w, c.key, n, s, keys)
  <2>1. CASE to = "write"
    BY <1>10, <1>13, <2>1 DEF SearchAt, Searching, Found
  <2>2. CASE to = "new_chunk"
    <3>1. n = 0 \/ w.j = NPairsPerChunk
      BY <1>3, <1>10, <2>2
    <3>2. w.i <= w.current /\ w.current <= n
      BY <1>10
    <3> QED BY <1>10, <2>2, <3>1, <3>2 DEF SearchAt, Found
  <2> QED BY <1>5, <2>1, <2>2
<1>15. ThreadAt(to, c, w, r, n, s, keys, values)
  BY <1>6, <1>9, <1>14, ReaderAt DEF WrittenAt
<1>16. w.b = b /\ self' = self /\ result' = result
  BY <1>2, <1>4 DEF View
<1>17. ToPlace(t, w, c, r, b, n, s, to, w, r)
  BY <1>2, <1>4, <1>6, <1>13, <1>15, <1>16 DEF ToPlace
<1> QED BY <1>17, InsideView

-----------------------------------------------------------------------------
(* The steps that take or give back a lock.                                *)
LEMMA FreshLocals ==
  ASSUME TableAssumption, NEW b \in Buckets
  PROVE  LET x == [NoLocals EXCEPT !.b = b]
         IN  /\ x \in Locals /\ x.b = b /\ x.i = 0 /\ x.j = 0 /\ x.link = NULL /\ x.current = 0
             /\ NoLocals \in Locals /\ Result(NULL, FALSE) \in Results
<1>1. 0 \in CountRange
  BY FS_CardinalityType DEF TableAssumption, CountRange
<1>2. 1 \in Buckets /\ 0 \in 0 .. NPairsPerChunk
  BY DEF Buckets, TableAssumption
<1> QED BY <1>1, <1>2 DEF NoLocals, Locals, Result, Results

(* A call begins.                                                          *)
LEMMA InvokeKeeps ==
  ASSUME TableAssumption, TableIInv, NEW t \in Threads, InvokeOnKey(t) \/ InvokeRemoveIf(t)
  PROVE  TableIInv'
<1>1. TypeOK /\ call \in [Threads -> AnyCall] /\ LocksOK /\ pc[t] = "idle"
  BY DEF TableIInv, InvokeOnKey, InvokeRemoveIf, Goto
<1>2. PICK place \in {"w_lock", "r_lock"}, c \in AnyCall, b \in Buckets :
        /\ OnKey(place, c, b, NothingYet) \/ OnAll(place, c, NothingYet)
        /\ Moves(t, place, c, [NoLocals EXCEPT !.b = b], NothingYet)
  <2>1. CASE InvokeOnKey(t)
    <3>1. PICK op \in Calls \ {"remove_if"}, k \in Keys :
            /\ pc' = [pc EXCEPT ![t] = IF op = "remove" THEN "w_lock" ELSE "r_lock"]
            /\ call' = [call EXCEPT ![t] = [op |-> op, key |-> k]]
            /\ self' = [self EXCEPT ![t] = [NoLocals EXCEPT !.b = BucketIdx[k]]]
            /\ result' = [result EXCEPT ![t] = NothingYet]
      BY <2>1 DEF InvokeOnKey, Goto, Set, Return, NothingYet
    <3>2. PICK place : place = IF op = "remove" THEN "w_lock" ELSE "r_lock"
      OBVIOUS
    <3>3. PICK c : c = [op |-> op, key |-> k]
      OBVIOUS
    <3>4. c \in AnyCall /\ c \in [op : Calls \ {"remove_if"}, key : Keys] /\ c.op = op /\ c.key = k
      BY <3>3 DEF AnyCall
    <3>5. BucketIdx[k] \in Buckets
      BY DEF TableAssumption, Buckets
    <3>6. place \in {"w_lock", "r_lock"} /\ OnKey(place, c, BucketIdx[k], NothingYet)
      BY <3>2, <3>4 DEF OnKey, GetPlaces
    <3>7. Moves(t, place, c, [NoLocals EXCEPT !.b = BucketIdx[k]], NothingYet)
      BY <3>1, <3>2, <3>3 DEF Moves
    <3> QED BY <3>4, <3>5, <3>6, <3>7
  <2>2. CASE InvokeRemoveIf(t)
    <3>1. PICK op \in Calls \cap {"remove_if"}, S \in SUBSET Keys :
            /\ pc' = [pc EXCEPT ![t] = "w_lock"]
            /\ call' = [call EXCEPT ![t] = [op |-> op, accepts |-> S]]
            /\ self' = [self EXCEPT ![t] = NoLocals]
            /\ result' = [result EXCEPT ![t] = NothingYet]
      BY <2>2 DEF InvokeRemoveIf, Goto, Set, Return, NothingYet
    <3>2. PICK c : c = [op |-> op, accepts |-> S]
      OBVIOUS
    <3>3. c \in AnyCall /\ c \in [op : Calls \cap {"remove_if"}, accepts : SUBSET Keys]
      BY <3>2 DEF AnyCall
    <3>4. 1 \in Buckets /\ NoLocals = [NoLocals EXCEPT !.b = 1]
      BY DEF TableAssumption, Buckets, NoLocals
    <3>5. OnAll("w_lock", c, NothingYet)
      BY <3>3 DEF OnAll
    <3>6. Moves(t, "w_lock", c, [NoLocals EXCEPT !.b = 1], NothingYet)
      BY <3>1, <3>2, <3>4 DEF Moves
    <3> QED BY <3>3, <3>4, <3>5, <3>6
  <2> QED BY <2>1, <2>2
<1>3. PICK x : x = [NoLocals EXCEPT !.b = b]
  OBVIOUS
<1>4. /\ x \in Locals /\ x.b = b /\ x.i = 0 /\ x.j = 0 /\ x.link = NULL /\ x.current = 0
      /\ NothingYet \in Results
  BY <1>3, FreshLocals DEF NothingYet
<1>5. Moves(t, place, c, x, NothingYet)
  BY <1>2, <1>3
<1>6. UNCHANGED <<mode, insert_lock>> /\ DataSame
  BY DEF InvokeOnKey, InvokeRemoveIf, bucketVars, chunkVars, DataSame
<1>7. SameLocks(pc[t], place) /\ place \notin ReadPlaces \cup WritePlaces \cup LockedPlaces
      /\ place \in Location /\ place \notin {"write", "publish"} /\ pc[t] \notin {"write", "publish"}
  BY <1>1 DEF SameLocks, ReadPlaces, WritePlaces, LockedPlaces, Location
<1>8. LocksOK'
  BY <1>1, <1>5, <1>6, <1>7, LocksInside
<1>9. ThreadAt(place, c, x, NothingYet, size[x.b], ChainOf(x.b), keys, values)
  <2>1. CallAt(place, c, x.b, NothingYet)
    BY <1>2, <1>4 DEF CallAt
  <2> QED BY <1>4, <2>1 DEF ThreadAt, SearchAt, WrittenAt, VisitAt, Searching, Found
<1>10. /\ mode' \in [Buckets -> [Threads -> {"out", "read", "write"}]]
       /\ insert_lock' \in [Buckets -> BOOLEAN]
  BY <1>1, <1>6 DEF TypeOK
<1> QED BY <1>4, <1>5, <1>6, <1>7, <1>8, <1>9, <1>10, ControlStep

(* ControlStep for a step that changes the reader/writer lock.             *)
LEMMA ModeStep ==
  ASSUME TableAssumption, TableIInv, NEW t \in Threads,
         NEW place \in Location, NEW c \in AnyCall, NEW w \in Locals, NEW r \in Results,
         Moves(t, place, c, w, r), DataSame, UNCHANGED insert_lock,
         NEW b \in Buckets, b = self[t].b, NEW m \in {"out", "read", "write"},
         mode' = [mode EXCEPT ![b][t] = m],
         pc[t] \notin LockedPlaces, place \notin LockedPlaces,
         \/ m = "out" /\ place \notin ReadPlaces \cup WritePlaces
         \/ m = "read" /\ place \in ReadPlaces \ WritePlaces /\ w.b = b /\ \A u \in Threads : mode[b][u] # "write"
         \/ m = "write" /\ place \in WritePlaces \ ReadPlaces /\ w.b = b /\ \A u \in Threads : mode[b][u] = "out",
         ThreadAt(place, c, w, r, size[w.b], ChainOf(w.b), keys, values)
  PROVE  TableIInv'
<1>1. TypeOK /\ call \in [Threads -> AnyCall] /\ LocksOK
  BY DEF TableIInv
<1>2. LocksOK'
  BY <1>1, LocksMode
<1>3. mode' \in [Buckets -> [Threads -> {"out", "read", "write"}]]
  BY <1>1 DEF TypeOK
<1>4. insert_lock' \in [Buckets -> BOOLEAN]
  BY <1>1 DEF TypeOK
<1>5. pc[t] \notin {"write", "publish"} /\ place \notin {"write", "publish"}
  BY DEF LockedPlaces
<1> QED BY <1>2, <1>3, <1>4, <1>5, ControlStep

(* Entering as a reader.                                                   *)
LEMMA ReaderLockKeeps ==
  ASSUME TableAssumption, TableIInv, NEW t \in Threads, ReaderLock(t)
  PROVE  TableIInv'
<1>1. PICK w \in Locals, c \in AnyCall, r \in Results, b \in Buckets, n \in CountRange :
        \E s : View(t, w, c, r, b, n, s)
  BY ThreadView
<1>2. PICK s : View(t, w, c, r, b, n, s)
  BY <1>1
<1>3. /\ pc[t] = "r_lock" /\ pc' = [pc EXCEPT ![t] = "load"]
      /\ \A u \in Threads : mode[b][u] # "write"
      /\ mode' = [mode EXCEPT ![b][t] = "read"]
      /\ UNCHANGED <<insert_lock, call, self, result>> /\ DataSame
  BY <1>2 DEF ReaderLock, Goto, Lock, chunkVars, DataSame, View
<1>4. Moves(t, "load", c, w, r)
  BY <1>2, <1>3, ThreadFacts, MovesKeeping DEF Moves, View
<1>5. CallAt("r_lock", c, w.b, r) /\ SearchAt("r_lock", w, c.key, n, s, keys)
  BY <1>2, <1>3 DEF View, ThreadAt
<1>6. CallAt("load", c, w.b, r)
  BY <1>5 DEF CallAt, OnKey, OnAll, GetPlaces
<1>7. w.i = 0 /\ w.j = 0 /\ w.link = NULL /\ w.current = 0
  BY <1>5 DEF SearchAt
<1>8. SearchAt("load", w, c.key, n, s, keys)
  BY <1>2, <1>7 DEF SearchAt, Behind, Missed, Searching, Found, View
<1>9. "load" \in ReadPlaces \ (WritePlaces \cup LockedPlaces) /\ "load" \in Location /\ "r_lock" \notin LockedPlaces
  BY DEF ReadPlaces, WritePlaces, LockedPlaces, Location
<1>10. ThreadAt("load", c, w, r, n, s, keys, values)
  BY <1>6, <1>8, <1>9, ReaderAt DEF WrittenAt
<1>11. w.b = b /\ b = self[t].b /\ n = size[w.b] /\ s = ChainOf(w.b)
  BY <1>2 DEF View
<1> QED BY <1>3, <1>4, <1>9, <1>10, <1>11, ModeStep

(* Leaving the table; the call returns.                                    *)
LEMMA LeaveKeeps ==
  ASSUME TableAssumption, TableIInv, NEW t \in Threads, ReaderUnlock(t) \/ WriterUnlock(t)
  PROVE  TableIInv'
<1>1. PICK w \in Locals, c \in AnyCall, r \in Results, b \in Buckets, n \in CountRange :
        \E s : View(t, w, c, r, b, n, s)
  BY ThreadView
<1>2. PICK s : View(t, w, c, r, b, n, s)
  BY <1>1
<1>3. /\ pc[t] \in {"r_unlock", "w_unlock"} /\ pc' = [pc EXCEPT ![t] = "idle"]
      /\ self' = [self EXCEPT ![t] = NoLocals] /\ call' = [call EXCEPT ![t] = NoCall]
      /\ mode' = [mode EXCEPT ![b][t] = "out"]
      /\ UNCHANGED <<insert_lock, result>> /\ DataSame
  BY <1>2 DEF ReaderUnlock, WriterUnlock, Leave, Set, Goto, Lock, chunkVars, DataSame, View
<1>4. Moves(t, "idle", NoCall, NoLocals, r)
  BY <1>2, <1>3, ThreadFacts, MovesKeeping DEF Moves, View
<1>5. "idle" \notin ReadPlaces \cup WritePlaces \cup LockedPlaces /\ "idle" \in Location /\ pc[t] \notin LockedPlaces
  BY <1>3 DEF ReadPlaces, WritePlaces, LockedPlaces, Location
<1>6. ThreadAt("idle", NoCall, NoLocals, r, size[NoLocals.b], ChainOf(NoLocals.b), keys, values)
  BY DEF ThreadAt, CallAt, SearchAt, WrittenAt, VisitAt, Searching, Found
<1>7. NoLocals \in Locals /\ NoCall \in AnyCall /\ b = self[t].b
  BY <1>2, FreshLocals DEF AnyCall, View
<1> QED BY <1>3, <1>4, <1>5, <1>6, <1>7, ModeStep

(* Entering as a writer.                                                   *)
LEMMA WriterLockKeeps ==
  ASSUME TableAssumption, TableIInv, NEW t \in Threads, WriterLock(t)
  PROVE  TableIInv'
<1>1. PICK w \in Locals, c \in AnyCall, r \in Results, b \in Buckets, n \in CountRange :
        \E s : View(t, w, c, r, b, n, s)
  BY ThreadView
<1>2. PICK s : View(t, w, c, r, b, n, s)
  BY <1>1
<1>3. PICK place : place = IF c.op = "remove" THEN "remove" ELSE "visit"
  OBVIOUS
<1>4. PICK x : x = IF c.op = "remove" THEN w ELSE [w EXCEPT !.link = head[b], !.current = n]
  OBVIOUS
<1>5. /\ pc[t] = "w_lock" /\ pc' = [pc EXCEPT ![t] = place]
      /\ self' = [self EXCEPT ![t] = x]
      /\ \A u \in Threads : mode[b][u] = "out"
      /\ mode' = [mode EXCEPT ![b][t] = "write"]
      /\ UNCHANGED <<insert_lock, call, result>> /\ DataSame
  BY <1>2, <1>3, <1>4 DEF WriterLock, Set, Goto, Lock, chunkVars, DataSame, View
<1>6. Moves(t, place, c, x, r)
  BY <1>2, <1>5, ThreadFacts, MovesKeeping DEF Moves, View
<1>7. CallAt("w_lock", c, w.b, r) /\ SearchAt("w_lock", w, c.key, n, s, keys)
  BY <1>2, <1>5 DEF View, ThreadAt
<1>8. w.i = 0 /\ w.j = 0 /\ w.b = b
  BY <1>2, <1>7 DEF SearchAt, View
<1>9. head[b] \in Chunks \cup {NULL}
  BY ThreadFacts DEF TypeOK
<1>10. x \in Locals /\ x.b = b /\ x.i = 0 /\ x.j = 0
  BY <1>4, <1>8, <1>9 DEF Locals
<1>11. CallAt(place, c, x.b, r)
  BY <1>3, <1>7, <1>8, <1>10 DEF CallAt, OnKey, OnAll
<1>12. place = "visit" => VisitAt(place, x, c, n, s, keys)
  <2> SUFFICES ASSUME place = "visit" PROVE VisitAt(place, x, c, n, s, keys)
    OBVIOUS
  <2>1. x.link = head[b] /\ x.current = n
    BY <1>3, <1>4 DEF Locals
  <2>2. CASE s = << >>
    <3>1. head[b] = NULL /\ Len(s) = 0
      BY <1>2, <2>2, ChainFacts DEF View
    <3>2. \A m \in 0 .. n - 1 : Row(m) \in 1 .. Len(s)
      BY <1>2, BucketFacts, FitsRows DEF View
    <3>3. NoneAccepted(c.accepts, n, s, keys)
      BY <3>1, <3>2 DEF NoneAccepted
    <3> QED BY <2>1, <3>1, <3>3 DEF VisitAt
  <2>3. CASE s # << >>
    <3>1. head[b] = s[1]
      BY <1>2, <2>3 DEF IsChain, View
    <3>2. n \in Nat
      BY <1>2 DEF View
    <3>3. NoneAccepted(c.accepts, x.i, s, keys) /\ x.i <= x.current
      BY <1>10, <2>1, <3>2 DEF NoneAccepted
    <3> QED BY <1>10, <2>1, <2>3, <3>1, <3>3 DEF VisitAt
  <2> QED BY <2>2, <2>3
<1>13. ThreadAt(place, c, x, r, n, s, keys, values)
  BY <1>3, <1>11, <1>12 DEF ThreadAt, SearchAt, WrittenAt, VisitAt, Searching, Found
<1>14. place \in WritePlaces \ (ReadPlaces \cup LockedPlaces) /\ place \in Location /\ "w_lock" \notin LockedPlaces
  BY <1>3 DEF ReadPlaces, WritePlaces, LockedPlaces, Location
<1>15. b = self[t].b /\ n = size[x.b] /\ s = ChainOf(x.b)
  BY <1>2, <1>10 DEF View
<1> QED BY <1>5, <1>6, <1>10, <1>13, <1>14, <1>15, ModeStep

(* remove_if goes on to the next bucket.                                   *)
LEMMA NextBucketKeeps ==
  ASSUME TableAssumption, TableIInv, NEW t \in Threads, NextBucket(t)
  PROVE  TableIInv'
<1>1. PICK w \in Locals, c \in AnyCall, r \in Results, b \in Buckets, n \in CountRange :
        \E s : View(t, w, c, r, b, n, s)
  BY ThreadView
<1>2. PICK s : View(t, w, c, r, b, n, s)
  BY <1>1
<1>3. PICK x : x = [NoLocals EXCEPT !.b = b + 1]
  OBVIOUS
<1>4. /\ pc[t] = "w_unlock" /\ pc' = [pc EXCEPT ![t] = "w_lock"]
      /\ c.op = "remove_if" /\ b < HashTableSize
      /\ self' = [self EXCEPT ![t] = x]
      /\ mode' = [mode EXCEPT ![b][t] = "out"]
      /\ UNCHANGED <<insert_lock, call, result>> /\ DataSame
  BY <1>2, <1>3 DEF NextBucket, Set, Goto, Lock, chunkVars, DataSame, View
<1>5. Moves(t, "w_lock", c, x, r)
  BY <1>2, <1>4, ThreadFacts, MovesKeeping DEF Moves, View
<1>6. b + 1 \in Buckets
  BY <1>4 DEF Buckets, TableAssumption
<1>7. x \in Locals /\ x.b = b + 1 /\ x.i = 0 /\ x.j = 0 /\ x.link = NULL /\ x.current = 0
  BY <1>3, <1>6, FreshLocals
<1>8. CallAt("w_unlock", c, w.b, r)
  BY <1>2, <1>4 DEF View, ThreadAt
<1>9. CallAt("w_lock", c, x.b, r)
  BY <1>4, <1>8 DEF CallAt, OnKey, OnAll
<1>10. ThreadAt("w_lock", c, x, r, size[x.b], ChainOf(x.b), keys, values)
  BY <1>7, <1>9 DEF ThreadAt, SearchAt, WrittenAt, VisitAt, Searching, Found
<1>11. "w_lock" \notin ReadPlaces \cup WritePlaces \cup LockedPlaces /\ "w_lock" \in Location /\ pc[t] \notin LockedPlaces
  BY <1>4 DEF ReadPlaces, WritePlaces, LockedPlaces, Location
<1>12. b = self[t].b
  BY <1>2 DEF View
<1> QED BY <1>4, <1>5, <1>7, <1>10, <1>11, <1>12, ModeStep

(* The attempt at the insert lock, successful or not.                      *)
LEMMA TrylockKeeps ==
  ASSUME TableAssumption, TableIInv, NEW t \in Threads, Trylock(t)
  PROVE  TableIInv'
<1>1. PICK w \in Locals, c \in AnyCall, r \in Results, b \in Buckets, n \in CountRange :
        \E s : View(t, w, c, r, b, n, s)
  BY ThreadView
<1>2. PICK s : View(t, w, c, r, b, n, s)
  BY <1>1
<1>3. PICK place : place = IF insert_lock[b] THEN "spin_load" ELSE "locked_load"
  OBVIOUS
<1>4. /\ pc[t] = "try_lock" /\ pc' = [pc EXCEPT ![t] = place]
      /\ insert_lock' = [insert_lock EXCEPT ![b] = TRUE]
      /\ UNCHANGED <<mode, call, self, result>> /\ DataSame
  BY <1>2, <1>3 DEF Trylock, Goto, chunkVars, DataSame, View
<1>5. Moves(t, place, c, w, r)
  BY <1>2, <1>4, ThreadFacts, MovesKeeping DEF Moves, View
<1>6. place \in {"spin_load", "locked_load"} /\ pc[t] \in ReadPlaces /\ place \in ReadPlaces \cap Location
      /\ pc[t] \notin LockedPlaces /\ pc[t] # "r_unlock"
      /\ (place \in LockedPlaces <=> place = "locked_load")
  BY <1>3, <1>4 DEF ReadPlaces, LockedPlaces, Location
<1>7. TypeOK /\ call \in [Threads -> AnyCall] /\ LocksOK /\ b = self[t].b /\ w.b = b
  BY <1>2 DEF TableIInv, View
<1>8. LocksOK'
  <2>1. CASE insert_lock[b]
    <3>1. insert_lock' = insert_lock
      BY <1>4, <1>7, <2>1 DEF TypeOK
    <3>2. SameLocks(pc[t], place)
      BY <1>3, <1>4, <2>1 DEF SameLocks, ReadPlaces, WritePlaces, LockedPlaces
    <3> QED BY <1>4, <1>5, <1>7, <3>1, <3>2, LocksInside
  <2>2. CASE ~insert_lock[b]
    <3>1. place \in LockedPlaces
      BY <1>3, <1>6, <2>2
    <3> QED BY <1>4, <1>5, <1>6, <1>7, <2>2, <3>1, LocksInsert
  <2> QED BY <2>1, <2>2
<1>9. CallAt(pc[t], c, w.b, r) /\ SearchAt(pc[t], w, c.key, n, s, keys)
  BY <1>2 DEF View, ThreadAt
<1>10. CallAt(place, c, w.b, r)
  <2>1. c.op # "get"
    BY <1>4, <1>6, <1>9, ReaderCall DEF GetPlaces
  <2> QED BY <1>6, <1>9, <2>1, CallInside
<1>11. SearchAt(place, w, c.key, n, s, keys)
  BY <1>4, <1>6, <1>9 DEF SearchAt, Searching, Found
<1>12. ThreadAt(place, c, w, r, size[w.b], ChainOf(w.b), keys, values)
  <2>1. ThreadAt(place, c, w, r, n, s, keys, values)
    BY <1>6, <1>10, <1>11, ReaderAt DEF WrittenAt
  <2> QED BY <1>2, <2>1 DEF View
<1>13. /\ mode' \in [Buckets -> [Threads -> {"out", "read", "write"}]]
       /\ insert_lock' \in [Buckets -> BOOLEAN]
  BY <1>4, <1>7 DEF TypeOK
<1>14. pc[t] \notin {"write", "publish"} /\ place \notin {"write", "publish"}
  BY <1>4, <1>6
<1> QED BY <1>4, <1>5, <1>6, <1>8, <1>12, <1>13, <1>14, ControlStep

(* The insert lock is given back.                                          *)
LEMMA InsertUnlocksKeep ==
  ASSUME TableAssumption, TableIInv, NEW t \in Threads, FoundUnlock(t) \/ InsertedUnlock(t)
  PROVE  TableIInv'
<1>1. PICK w \in Locals, c \in AnyCall, r \in Results, b \in Buckets, n \in CountRange :
        \E s : View(t, w, c, r, b, n, s)
  BY ThreadView
<1>2. PICK s : View(t, w, c, r, b, n, s)
  BY <1>1
<1>3. PICK place \in {"fetch", "fetch_own"} : InsertUnlock(t, pc[t], place)
  BY DEF FoundUnlock, InsertedUnlock, InsertUnlock, Goto
<1>4. /\ pc[t] \in {"found_unlock", "inserted_unlock"} /\ pc' = [pc EXCEPT ![t] = place]
      /\ insert_lock' = [insert_lock EXCEPT ![b] = FALSE]
      /\ UNCHANGED <<mode, call, self, result>> /\ DataSame
  BY <1>2, <1>3 DEF FoundUnlock, InsertedUnlock, InsertUnlock, Goto, chunkVars, DataSame, View
<1>5. Moves(t, place, c, w, r)
  BY <1>2, <1>4, ThreadFacts, MovesKeeping DEF Moves, View
<1>6. pc[t] \in ReadPlaces \cap LockedPlaces /\ place \in ReadPlaces \cap Location
      /\ place \notin LockedPlaces /\ pc[t] # "r_unlock"
  BY <1>4 DEF ReadPlaces, LockedPlaces, Location
<1>7. TypeOK /\ call \in [Threads -> AnyCall] /\ LocksOK /\ b = self[t].b /\ w.b = b
  BY <1>2 DEF TableIInv, View
<1>8. LocksOK'
  BY <1>4, <1>5, <1>6, <1>7, LocksInsert
<1>9. CallAt(pc[t], c, w.b, r) /\ SearchAt(pc[t], w, c.key, n, s, keys)
  BY <1>2 DEF View, ThreadAt
<1>10. CallAt(place, c, w.b, r)
  <2>1. c.op # "get"
    BY <1>4, <1>6, <1>9, ReaderCall DEF GetPlaces
  <2> QED BY <1>6, <1>9, <2>1, CallInside
<1>11. SearchAt(place, w, c.key, n, s, keys)
  BY <1>4, <1>9 DEF SearchAt, Searching, Found
<1>12. ThreadAt(place, c, w, r, size[w.b], ChainOf(w.b), keys, values)
  <2>1. ThreadAt(place, c, w, r, n, s, keys, values)
    BY <1>6, <1>10, <1>11, ReaderAt DEF WrittenAt
  <2> QED BY <1>2, <2>1 DEF View
<1>13. /\ mode' \in [Buckets -> [Threads -> {"out", "read", "write"}]]
       /\ insert_lock' \in [Buckets -> BOOLEAN]
  BY <1>4, <1>7 DEF TypeOK
<1>14. pc[t] \notin {"write", "publish"} /\ place \notin {"write", "publish"}
  BY <1>4
<1> QED BY <1>4, <1>5, <1>6, <1>8, <1>12, <1>13, <1>14, ControlStep

-----------------------------------------------------------------------------
(* The steps of a remover that remove nothing.                             *)
LEMMA NobodyElseInside ==
  ASSUME LocksOK, NEW t \in Threads, pc[t] \in WritePlaces, NEW b \in Buckets, b = self[t].b
  PROVE  /\ \A u \in Threads \ {t} : ~Reads(u, b) /\ ~Writes(u, b)
         /\ ~\E u \in Threads : Fills(u, b) \/ Locks(u, b)
<1>1. Writes(t, b)
  BY DEF Writes
<1>2. \A u \in Threads \ {t} : ~Reads(u, b) /\ ~Writes(u, b)
  BY <1>1 DEF LocksOK
<1>3. \A u \in Threads : Fills(u, b) \/ Locks(u, b) => Reads(u, b) /\ u # t
  BY DEF Fills, Locks, Reads, LockedPlaces, ReadPlaces, WritePlaces
<1> QED BY <1>2, <1>3

(* What remove_if relies on: its bucket fits in one chunk.                 *)
VisitKnown(w, c, r, n, s) ==
  /\ c \in [op : {"remove_if"}, accepts : SUBSET Keys] /\ r = NothingYet
  /\ Fits(s, n, FALSE) /\ n <= NPairsPerChunk
  /\ w.link = NULL => NoneAccepted(c.accepts, n, s, keys)
  /\ w.link # NULL =>
       /\ Len(s) = 1 /\ w.link = s[1] /\ s[1] \in Chunks /\ next[w.link] = NULL
       /\ w.i = w.j /\ w.i <= n /\ w.current = n /\ NoneAccepted(c.accepts, w.i, s, keys)
  /\ \A m \in 0 .. n - 1 : Row(m) = 1 /\ Col(m) = m

(* What a thread in remove_if knows of the bucket that it walks through.   *)
LEMMA VisitFacts ==
  ASSUME TableAssumption, OneChunkIfRemoveIf, TableIInv, NEW t \in Threads, pc[t] = "visit",
         NEW w \in Locals, NEW c \in AnyCall, NEW r \in Results, NEW b \in Buckets, NEW n \in CountRange,
         NEW s, View(t, w, c, r, b, n, s)
  PROVE  VisitKnown(w, c, r, n, s)
<1>1. CallAt("visit", c, b, r) /\ VisitAt("visit", w, c, n, s, keys)
  BY DEF View, ThreadAt
<1>2. c \in [op : {"remove_if"}, accepts : SUBSET Keys] /\ r = NothingYet /\ "remove_if" \in Calls
  BY <1>1 DEF CallAt, OnKey, OnAll
<1>3. Fits(s, n, FALSE)
  <2>1. ~\E u \in Threads : Fills(u, b)
    BY NobodyElseInside DEF TableIInv, View, WritePlaces
  <2>2. Fits(s, n, \E u \in Threads : Fills(u, b))
    BY BucketFacts DEF View
  <2> QED BY <2>1, <2>2 DEF Fits
<1>4. n <= NPairsPerChunk
  <2>1. PairsIn(s, keys, values, n, b) /\ n \in Nat
    BY BucketFacts DEF View
  <2>2. n <= Cardinality({k \in Keys : BucketIdx[k] = b})
    BY <2>1, PairsCounted
  <2>3. Cardinality({k \in Keys : BucketIdx[k] = b}) <= NPairsPerChunk
    BY <1>2 DEF OneChunkIfRemoveIf
  <2>4. Cardinality({k \in Keys : BucketIdx[k] = b}) \in Nat
    <3>1. IsFiniteSet({k \in Keys : BucketIdx[k] = b})
      BY FS_Subset DEF TableAssumption
    <3> QED BY <3>1, FS_CardinalityType
  <2>5. NPairsPerChunk \in Nat
    BY DEF TableAssumption
  <2> QED BY <2>1, <2>2, <2>3, <2>4, <2>5
<1>5. n \in Nat /\ IsChain(s, head[b], next) /\ w.i \in Nat
  BY DEF View
<1>6. ASSUME NEW m \in 0 .. n - 1 PROVE Row(m) = 1 /\ Col(m) = m
  <2>1. PICK k \in Nat \ {0} : k = NPairsPerChunk
    BY DEF TableAssumption
  <2>2. m \in Nat /\ m \in Slots /\ m = k * (1 - 1) + m
    BY <1>4, <1>5, <2>1 DEF Slots
  <2> QED BY <2>1, <2>2, IsInRow
<1>7. ASSUME s # << >> PROVE Len(s) = 1
  <2>1. Len(s) \in Nat \ {0}
    BY <1>5, <1>7, ChainFacts
  <2>2. n # 0 => n - 1 \in 0 .. n - 1
    BY <1>5
  <2>3. n # 0 => Row(n - 1) = 1
    BY <1>6, <2>2
  <2>4. PICK length \in Nat \ {0} : length = Len(s)
    BY <2>1
  <2>5. length <= 1 \/ length = 1
    BY <1>3, <2>3, <2>4 DEF Fits
  <2>6. length = 1
    BY <2>5
  <2> QED BY <2>4, <2>6
<1>8. CASE w.link = NULL
  <2>1. NoneAccepted(c.accepts, n, s, keys)
    <3>1. s # << >> => s[1] # NULL
      BY <1>5, ChainFacts
    <3> QED BY <1>1, <1>8, <3>1 DEF VisitAt
  <2> QED BY <1>2, <1>3, <1>4, <1>6, <1>8, <2>1 DEF VisitKnown
<1>9. CASE w.link # NULL
  <2>1. /\ s # << >> /\ w.link = s[1] /\ w.i = w.j /\ w.i <= w.current /\ w.current = n
        /\ NoneAccepted(c.accepts, w.i, s, keys)
    BY <1>1, <1>9 DEF VisitAt
  <2>2. Len(s) = 1 /\ s[1] \in Chunks
    BY <1>5, <1>7, <2>1, ChainFacts
  <2>3. next[s[1]] = NULL
    BY <1>5, <2>2 DEF IsChain
  <2>4. /\ Len(s) = 1 /\ w.link = s[1] /\ s[1] \in Chunks /\ next[w.link] = NULL
        /\ w.i = w.j /\ w.i <= n /\ w.current = n /\ NoneAccepted(c.accepts, w.i, s, keys)
    BY <2>1, <2>2, <2>3
  <2> QED BY <1>2, <1>3, <1>4, <1>6, <1>9, <2>4 DEF VisitKnown
<1> QED BY <1>8, <1>9

(* The visitor's step with the same view, for any outcome.                 *)
LEMMA RemoverAt ==
  ASSUME NEW place \in WritePlaces, NEW c, NEW w, NEW r, NEW n, NEW s, NEW ks, NEW vs,
         CallAt(place, c, w.b, r), VisitAt(place, w, c, n, s, ks)
  PROVE  ThreadAt(place, c, w, r, n, s, ks, vs)
BY DEF ThreadAt, SearchAt, WrittenAt, WritePlaces, Searching, Found

(* remove_if keeps a pair, goes on to the next chunk or ends.              *)
LEMMA VisitsKeep ==
  ASSUME TableAssumption, OneChunkIfRemoveIf, TableIInv, NEW t \in Threads,
         VisitKeep(t) \/ VisitNextChunk(t) \/ VisitEnd(t)
  PROVE  TableIInv'
<1>1. PICK w \in Locals, c \in AnyCall, r \in Results, b \in Buckets, n \in CountRange :
        \E s : View(t, w, c, r, b, n, s)
  BY ThreadView
<1>2. PICK s : View(t, w, c, r, b, n, s)
  BY <1>1
<1>3. /\ pc[t] = "visit"
      /\ UNCHANGED <<mode, insert_lock, call, result>> /\ DataSame
  BY DEF VisitKeep, VisitNextChunk, VisitEnd, Visiting, Goto, bucketVars, chunkVars, DataSame
<1>4. VisitKnown(w, c, r, n, s)
  BY <1>2, <1>3, VisitFacts
<1>5. n \in Nat /\ w.i \in Nat /\ w.j \in Nat /\ w.current \in Nat /\ w.b = b /\ w = self[t] /\ c = call[t]
  BY <1>2 DEF View
<1>6. CallAt("visit", c, b, r) /\ pc[t] \in Location /\ {"visit", "w_unlock"} \subseteq WritePlaces \cap Location
      /\ SameLocks("visit", "visit") /\ SameLocks("visit", "w_unlock")
  BY <1>2, <1>3 DEF View, ThreadAt, WritePlaces, ReadPlaces, LockedPlaces, Location, SameLocks
<1>7. CallAt("w_unlock", c, b, r)
  BY <1>6 DEF CallAt, OnKey, OnAll
<1>11. /\ SameLocks(pc[t], "visit") /\ SameLocks(pc[t], "w_unlock")
       /\ pc[t] \notin {"write", "publish"} /\ "visit" \in Location /\ "w_unlock" \in Location
       /\ "visit" \notin {"write", "publish"} /\ "w_unlock" \notin {"write", "publish"}
  BY <1>3, <1>6
<1>8. CASE VisitKeep(t)
  <2>1. PICK x : x = [w EXCEPT !.i = w.i + 1, !.j = w.j + 1]
    OBVIOUS
  <2>2. /\ w.link # NULL /\ w.i < w.current /\ w.j < NPairsPerChunk
        /\ keys[w.link][w.j] \notin c.accepts
        /\ self' = [self EXCEPT ![t] = x] /\ pc' = pc
    BY <1>5, <1>8, <2>1 DEF VisitKeep, Visiting, Set
  <2>3. w.i + 1 \in Nat /\ w.i + 1 <= n /\ w.i + 1 \in CountRange
    BY <1>4, <1>5, <2>2, CountsBelow DEF VisitKnown
  <2>4. w.j + 1 \in 0 .. NPairsPerChunk
    BY <1>5, <2>2 DEF TableAssumption
  <2>5. x \in Locals /\ x.i = w.i + 1 /\ x.j = w.j + 1 /\ x.link = w.link /\ x.current = w.current /\ x.b = b
    BY <1>5, <2>1, <2>3, <2>4 DEF Locals
  <2>6. At(s, keys, w.i) = keys[w.link][w.j]
    <3>1. w.i \in 0 .. n - 1
      BY <1>4, <1>5, <2>2 DEF VisitKnown
    <3> QED BY <1>4, <2>2, <3>1 DEF At, VisitKnown
  <2>7. NoneAccepted(c.accepts, x.i, s, keys)
    <3>1. \A m \in 0 .. x.i - 1 : m \in 0 .. w.i - 1 \/ m = w.i
      BY <1>5, <2>5
    <3> QED BY <1>4, <2>2, <2>6, <3>1 DEF NoneAccepted, VisitKnown
  <2>8. s # << >> /\ x.i = x.j /\ x.i <= x.current /\ x.current = n /\ x.link = s[1]
    <3>1. s # << >>
      BY <1>2, <1>4, <2>2, ChainFacts DEF View, VisitKnown
    <3> QED BY <1>4, <2>2, <2>3, <2>5, <3>1 DEF VisitKnown
  <2>9. VisitAt("visit", x, c, n, s, keys)
    BY <2>7, <2>8 DEF VisitAt
  <2>10. ThreadAt("visit", c, x, r, n, s, keys, values)
    BY <1>6, <2>5, <2>9, RemoverAt
  <2>11. pc' = [pc EXCEPT ![t] = "visit"]
    BY <1>3, <2>2, ThreadFacts DEF TypeOK
  <2>12. /\ self' = [self EXCEPT ![t] = x] /\ result' = result /\ UNCHANGED <<mode, insert_lock, call>>
         /\ DataSame /\ x.b = b /\ x \in Locals
    BY <1>3, <2>2, <2>5
  <2>13. ToPlace(t, w, c, r, b, n, s, "visit", x, r)
    BY <1>2, <1>11, <2>10, <2>11, <2>12 DEF ToPlace
  <2> QED BY <2>13, InsideView
<1>9. CASE VisitNextChunk(t)
  <2>1. PICK x : x = [w EXCEPT !.link = next[w.link], !.j = 0]
    OBVIOUS
  <2>2. /\ w.link # NULL /\ ~(w.i < w.current /\ w.j < NPairsPerChunk)
        /\ self' = [self EXCEPT ![t] = x] /\ pc' = pc
    BY <1>5, <1>9, <2>1 DEF VisitNextChunk, Visiting, Set
  <2>3. 0 \in 0 .. NPairsPerChunk
    BY DEF TableAssumption
  <2>4. x \in Locals /\ x.link = NULL /\ x.b = b
    BY <1>4, <1>5, <2>1, <2>2, <2>3 DEF Locals, VisitKnown
  <2>5. w.i = n
    BY <1>4, <1>5, <2>2 DEF TableAssumption, VisitKnown
  <2>6. VisitAt("visit", x, c, n, s, keys)
    BY <1>4, <2>2, <2>4, <2>5 DEF VisitAt, VisitKnown
  <2>7. ThreadAt("visit", c, x, r, n, s, keys, values)
    BY <1>6, <2>4, <2>6, RemoverAt
  <2>8. pc' = [pc EXCEPT ![t] = "visit"]
    BY <1>3, <2>2, ThreadFacts DEF TypeOK
  <2>9. ToPlace(t, w, c, r, b, n, s, "visit", x, r)
    BY <1>2, <1>3, <1>11, <2>2, <2>4, <2>7, <2>8 DEF ToPlace
  <2> QED BY <2>9, InsideView
<1>10. CASE VisitEnd(t)
  <2>1. w.link = NULL /\ self' = self /\ pc' = [pc EXCEPT ![t] = "w_unlock"]
    BY <1>5, <1>10 DEF VisitEnd, Goto
  <2>2. VisitAt("w_unlock", w, c, n, s, keys)
    BY <1>4, <2>1 DEF VisitAt, VisitKnown
  <2>3. ThreadAt("w_unlock", c, w, r, n, s, keys, values)
    BY <1>5, <1>6, <1>7, <2>2, RemoverAt
  <2>4. ToPlace(t, w, c, r, b, n, s, "w_unlock", w, r)
    BY <1>2, <1>3, <1>5, <1>11, <2>1, <2>3 DEF ToPlace
  <2> QED BY <2>4, InsideView
<1> QED BY <1>8, <1>9, <1>10

(* remove does not find its key.                                           *)
LEMMA RemoveNothingKeeps ==
  ASSUME TableAssumption, TableIInv, NEW t \in Threads, RemoveNothing(t)
  PROVE  TableIInv'
<1>1. PICK w \in Locals, c \in AnyCall, r \in Results, b \in Buckets, n \in CountRange :
        \E s : View(t, w, c, r, b, n, s)
  BY ThreadView
<1>2. PICK s : View(t, w, c, r, b, n, s)
  BY <1>1
<1>3. /\ pc[t] = "remove" /\ pc' = [pc EXCEPT ![t] = "w_unlock"]
      /\ UNCHANGED <<mode, insert_lock, call, self, result>> /\ DataSame
  BY DEF RemoveNothing, Goto, bucketVars, chunkVars, DataSame
<1>4. CallAt("remove", c, b, r) /\ w.b = b
  BY <1>2, <1>3 DEF View, ThreadAt
<1>5. CallAt("w_unlock", c, b, r) /\ c.op = "remove"
  BY <1>4 DEF CallAt, OnKey, OnAll, GetPlaces
<1>6. "w_unlock" \in WritePlaces \cap Location /\ SameLocks("remove", "w_unlock")
      /\ "w_unlock" \notin {"write", "publish"} /\ "remove" \notin {"write", "publish"}
  BY DEF WritePlaces, ReadPlaces, LockedPlaces, Location, SameLocks
<1>7. ThreadAt("w_unlock", c, w, r, n, s, keys, values)
  BY <1>4, <1>5, <1>6, RemoverAt DEF VisitAt
<1>8. /\ SameLocks(pc[t], "w_unlock") /\ pc[t] \notin {"write", "publish"} /\ "w_unlock" \in Location
      /\ self' = self /\ result' = result
  BY <1>3, <1>6
<1>9. ToPlace(t, w, c, r, b, n, s, "w_unlock", w, r)
  BY <1>2, <1>3, <1>4, <1>6, <1>7, <1>8 DEF ToPlace
<1> QED BY <1>9, InsideView

(* An empty bucket has at most its own chunk, which has no successor.      *)
LEMMA ReuseBucketChunkKeeps ==
  ASSUME TableAssumption, TableIInv, NEW t \in Threads, ReuseBucketChunk(t)
  PROVE  TableIInv' /\ DataSame
<1>1. PICK w \in Locals, c \in AnyCall, r \in Results, b \in Buckets, n \in CountRange :
        \E s : View(t, w, c, r, b, n, s)
  BY ThreadView
<1>2. PICK s : View(t, w, c, r, b, n, s)
  BY <1>1
<1>3. PICK x : x = [w EXCEPT !.link = NULL]
  OBVIOUS
<1>4. /\ pc[t] = "new_chunk" /\ pc' = [pc EXCEPT ![t] = "write"]
      /\ w.current = 0 /\ head[b] # NULL
      /\ next' = [next EXCEPT ![head[b]] = NULL]
      /\ self' = [self EXCEPT ![t] = x]
      /\ UNCHANGED <<mode, insert_lock, call, result>>
      /\ UNCHANGED <<size, head, keys, values, allocated, free_list>>
  BY <1>2, <1>3 DEF ReuseBucketChunk, Goto, Set, bucketVars, View
<1>5. CallAt(pc[t], c, w.b, r) /\ SearchAt(pc[t], w, c.key, n, s, keys) /\ w.b = b /\ IsChain(s, head[b], next)
  BY <1>2 DEF View, ThreadAt
<1>6. n = 0 /\ w.i = 0 /\ w.link = NULL /\ w.j = 0 /\ Missed(w, c.key, s, keys)
  BY <1>4, <1>5 DEF SearchAt, Searching, Behind
<1>7. Fits(s, n, FALSE)
  <2>1. ~\E u \in Threads : Fills(u, b)
    BY <1>2, <1>4, NobodyFills DEF TableIInv, View, LockedPlaces
  <2>2. Fits(s, n, \E u \in Threads : Fills(u, b))
    BY <1>2, BucketFacts DEF View
  <2> QED BY <2>1, <2>2 DEF Fits
<1>8. s # << >> /\ Len(s) = 1
  <2>1. s # << >> /\ Len(s) \in Nat \ {0}
    BY <1>4, <1>5, ChainFacts
  <2>2. PICK length \in Nat \ {0} : length = Len(s)
    BY <2>1
  <2>3. length <= 1
    BY <1>6, <1>7, <2>2 DEF Fits
  <2>4. length = 1
    BY <2>3
  <2> QED BY <2>1, <2>2, <2>4
<1>9. next[head[b]] = NULL
  BY <1>5, <1>8 DEF IsChain
<1>10. next' = next
  BY <1>4, <1>9, ThreadFacts DEF TypeOK
<1>11. DataSame
  BY <1>4, <1>10 DEF DataSame
<1>12. x \in Locals /\ x.b = b /\ x.i = 0 /\ x.current = 0 /\ x.link = NULL /\ x.j = 0
  BY <1>3, <1>4, <1>5, <1>6 DEF Locals
<1>13. Fits(s, n, TRUE) /\ PointsTo(x, s, n)
  BY <1>6, <1>8, <1>12, FirstPosition DEF Fits, PointsTo, Link
<1>14. pc[t] \in ReadPlaces /\ pc[t] # "r_unlock" /\ "write" \in ReadPlaces \cap Location
       /\ SameLocks(pc[t], "write") /\ pc[t] \notin {"write", "publish"}
  BY <1>4 DEF ReadPlaces, WritePlaces, LockedPlaces, Location, SameLocks
<1>15. CallAt("write", c, b, r)
  <2>1. c.op # "get"
    BY <1>4, <1>5, <1>14, ReaderCall DEF GetPlaces
  <2> QED BY <1>5, <1>14, <2>1, CallInside
<1>16. SearchAt("write", x, c.key, n, s, keys)
  BY <1>6, <1>12, <1>13 DEF SearchAt, Searching, Found, Missed
<1>17. ThreadAt("write", c, x, r, n, s, keys, values)
  BY <1>12, <1>14, <1>15, <1>16, ReaderAt DEF WrittenAt
<1>18. "write" \in Location /\ UNCHANGED <<mode, insert_lock, call>> /\ result' = result
  BY <1>4, <1>14
<1>19. ToPlace(t, w, c, r, b, n, s, "write", x, r)
  BY <1>2, <1>4, <1>11, <1>12, <1>13, <1>14, <1>17, <1>18 DEF ToPlace
<1>20. TableIInv'
  BY <1>19, InsideView
<1> QED BY <1>11, <1>20

-----------------------------------------------------------------------------
(* What the steps that change the table leave alone.                       *)
Untouched(d) ==
  /\ size'[d] = size[d] /\ ChainOf(d)' = ChainOf(d)
  /\ Alike(ChainOf(d), keys, values, keys', values')
(* The bucket is extended.                                                 *)
Grows(b) ==
  Extends(ChainOf(b), size[b], keys, values, ChainOf(b)', size'[b], keys', values')
AllGrow == \A d \in Buckets : Grows(d)
(* The types of the table.                                                 *)
TableTyped ==
  /\ size \in [Buckets -> CountRange] /\ head \in [Buckets -> Chunks \cup {NULL}]
  /\ keys \in [Chunks -> [Slots -> Keys \cup {NULL}]]
  /\ values \in [Chunks -> [Slots -> Values \cup {NULL}]]
  /\ next \in [Chunks -> Chunks \cup {NULL}]
  /\ allocated \subseteq Chunks /\ free_list \in Chunks \cup {NULL}

(* A bucket that is left alone counts as extended.                         *)
LEMMA UntouchedGrows ==
  ASSUME TableAssumption, TableIInv, NEW d \in Buckets, Untouched(d)
  PROVE  Grows(d)
<1>1. PICK filling \in BOOLEAN : filling = \E t \in Threads : Fills(t, d)
  BY BucketFacts
<1>2. PICK s : s = ChainOf(d)
  OBVIOUS
<1>3. PICK n \in Nat : n = size[d]
  BY BucketFacts
<1>4. PICK kr : kr = keys'
  OBVIOUS
<1>5. PICK vr : vr = values'
  OBVIOUS
<1>6. Fits(s, n, filling) /\ IsChain(s, head[d], next) /\ Alike(s, keys, values, kr, vr)
  BY <1>1, <1>2, <1>3, <1>4, <1>5, BucketFacts DEF Untouched
<1>7. Extends(s, n, keys, values, s, n, kr, vr)
  BY <1>6, AlikeExtends
<1> QED BY <1>2, <1>3, <1>4, <1>5, <1>7 DEF Grows, Untouched

(* If one bucket is extended and the others are left alone, all are        *)
(* extended.                                                               *)
LEMMA AllGrowing ==
  ASSUME TableAssumption, TableIInv, NEW b \in Buckets, Grows(b),
         \A d \in Buckets \ {b} : Untouched(d)
  PROVE  AllGrow
BY UntouchedGrows DEF AllGrow

(* If the table does not change, all buckets are extended.                 *)
LEMMA SameGrows ==
  ASSUME TableAssumption, TableIInv, DataSame
  PROVE  AllGrow
<1> SUFFICES ASSUME NEW d \in Buckets PROVE Grows(d)
  BY DEF AllGrow
<1>1. UNCHANGED <<size, keys, values>> /\ ChainOf(d)' = ChainOf(d)
  BY DEF DataSame, ChainOf, Chain
<1> QED BY <1>1, UntouchedGrows DEF Untouched, Alike

(* Outside of its critical sections a thread knows nothing of the table.   *)
LEMMA OutsideAt ==
  ASSUME NEW place, place \notin ReadPlaces \cup WritePlaces, NEW c, NEW w, NEW r,
         NEW n, NEW s, NEW ks, NEW vs, ThreadAt(place, c, w, r, n, s, ks, vs),
         NEW m, NEW z, NEW kr, NEW vr
  PROVE  ThreadAt(place, c, w, r, m, z, kr, vr)
BY DEF ThreadAt, SearchAt, WrittenAt, VisitAt, ReadPlaces, WritePlaces, Searching, Found

(* What a thread knows stays true while its bucket's entries are alike.    *)
LEMMA UntouchedThread ==
  ASSUME TableAssumption, TableIInv, NEW u \in Threads,
         NEW w \in Locals, NEW c \in AnyCall, NEW r \in Results, NEW d \in Buckets, NEW n \in CountRange,
         NEW s, View(u, w, c, r, d, n, s),
         NEW kr, NEW vr, Alike(s, keys, values, kr, vr)
  PROVE  ThreadAt(pc[u], c, w, r, n, s, kr, vr)
<1>1. PICK filling \in BOOLEAN : filling = (\E t \in Threads : Fills(t, d)) /\ Fits(s, n, filling)
  BY BucketFacts DEF View
<1>2. /\ IsChain(s, head[d], next) /\ n \in Nat /\ w.i \in Nat /\ w.current \in Nat
      /\ CallAt(pc[u], c, w.b, r) /\ SearchAt(pc[u], w, c.key, n, s, keys)
      /\ WrittenAt(pc[u], c.key, n, s, keys, values) /\ VisitAt(pc[u], w, c, n, s, keys)
  BY DEF View, ThreadAt
<1>3. SearchAt(pc[u], w, c.key, n, s, kr)
  BY <1>1, <1>2, SearchAlike
<1>4. VisitAt(pc[u], w, c, n, s, kr)
  BY <1>1, <1>2, VisitAlike
<1>5. pc[u] = "publish" => Row(n) \in 1 .. Len(s)
  <2> SUFFICES ASSUME pc[u] = "publish" PROVE Row(n) \in 1 .. Len(s)
    OBVIOUS
  <2>1. \E t \in Threads : Fills(t, d)
    BY DEF Fills, View
  <2>2. Fits(s, n, TRUE)
    BY <2>1, BucketFacts DEF View, Fits
  <2> QED BY <1>2, <2>2, FitsRows
<1>6. WrittenAt(pc[u], c.key, n, s, kr, vr)
  BY <1>2, <1>5, WrittenAlike
<1> QED BY <1>2, <1>3, <1>4, <1>6 DEF ThreadAt

(* What a reader without the insert lock knows stays true while its bucket *)
(* is extended: the reason why a search needs no more than the reader lock.*)
LEMMA GrownThread ==
  ASSUME TableAssumption, TableIInv, NEW u \in Threads,
         NEW w \in Locals, NEW c \in AnyCall, NEW r \in Results, NEW d \in Buckets, NEW n \in CountRange,
         NEW s, View(u, w, c, r, d, n, s), pc[u] \notin LockedPlaces, pc[u] \in ReadPlaces,
         NEW m \in Nat, NEW z, NEW kr, NEW vr, Extends(s, n, keys, values, z, m, kr, vr)
  PROVE  ThreadAt(pc[u], c, w, r, m, z, kr, vr)
<1>1. PICK filling \in BOOLEAN : Fits(s, n, filling)
  BY BucketFacts DEF View
<1>2. /\ IsChain(s, head[d], next) /\ n \in Nat /\ w.i \in Nat /\ w.current \in Nat
      /\ CallAt(pc[u], c, w.b, r) /\ SearchAt(pc[u], w, c.key, n, s, keys)
  BY DEF View, ThreadAt
<1>3. SearchAt(pc[u], w, c.key, m, z, kr)
  BY <1>1, <1>2, SearchGrows
<1>4. pc[u] # "publish"
  BY DEF LockedPlaces
<1> QED BY <1>2, <1>3, <1>4, ReaderAt DEF WrittenAt

(* A step of one thread that changes one bucket keeps the invariant if the *)
(* bucket is right afterwards, and if it is either extended under the      *)
(* insert lock or changed under the writer lock.                           *)
LEMMA TableStep ==
  ASSUME TableAssumption, TableIInv, NEW t \in Threads,
         NEW place \in Location, NEW x \in Locals, NEW q \in Results, NEW b \in Buckets, b = self[t].b,
         pc' = [pc EXCEPT ![t] = place], self' = [self EXCEPT ![t] = x], result' = [result EXCEPT ![t] = q],
         UNCHANGED <<mode, insert_lock, call>>, x.b = b, SameLocks(pc[t], place),
         TableTyped', ChainsOK', BucketOK(b)',
         \A d \in Buckets \ {b} : Untouched(d),
         (pc[t] \in LockedPlaces /\ Grows(b)) \/ pc[t] \in WritePlaces,
         ThreadAt(place, call[t], x, q, size'[b], ChainOf(b)', keys', values')
  PROVE  TableIInv'
<1>1. PICK c \in AnyCall : c = call[t]
  BY ThreadFacts
<1>2. TypeOK /\ call \in [Threads -> AnyCall] /\ LocksOK
  BY DEF TableIInv
<1>3. Moves(t, place, c, x, q)
  BY <1>1, <1>2 DEF Moves
<1>4. LocksOK'
  BY <1>2, <1>3, LocksInside
<1>5. /\ pc'[t] = place /\ call'[t] = c /\ self'[t] = x /\ result'[t] = q
      /\ \A u \in Threads \ {t} : /\ pc'[u] = pc[u] /\ call'[u] = call[u]
                                  /\ self'[u] = self[u] /\ result'[u] = result[u]
  BY <1>2, <1>3, MovesMeans
<1>6. /\ pc' \in [Threads -> Location] /\ call' \in [Threads -> AnyCall]
      /\ self' \in [Threads -> Locals] /\ result' \in [Threads -> Results]
  BY <1>2, <1>3, MovesTyped
<1>7. TypeOK'
  BY <1>2, <1>6 DEF TypeOK, TableTyped, Locals, Results
<1>8. ASSUME NEW d \in Buckets \ {b} PROVE BucketOK(d)'
  <2>1. \A u \in Threads : Fills(u, d)' <=> Fills(u, d)
    BY <1>5, <1>8 DEF Fills
  <2>2. Fits(ChainOf(d), size[d], (\E u \in Threads : Fills(u, d))')
    BY <2>1, BucketFacts DEF Fits
  <2>3. PairsIn(ChainOf(d), keys', values', size[d], d)
    <3>1. PICK filling \in BOOLEAN : Fits(ChainOf(d), size[d], filling)
      BY BucketFacts
    <3>2. Alike(ChainOf(d), keys, values, keys', values')
      BY DEF Untouched
    <3>3. IsChain(ChainOf(d), head[d], next) /\ size[d] \in Nat
      BY BucketFacts
    <3>4. Extends(ChainOf(d), size[d], keys, values, ChainOf(d), size[d], keys', values')
      BY <3>1, <3>2, <3>3, AlikeExtends
    <3>5. PairsIn(ChainOf(d), keys, values, size[d], d)
      BY BucketFacts
    <3> QED BY <3>4, <3>5 DEF PairsIn, Extends
  <2> QED BY <2>2, <2>3 DEF BucketOK, Untouched
<1>9. ASSUME NEW u \in Threads \ {t} PROVE ThreadOK(u)'
  <2>1. PICK w \in Locals, k \in AnyCall, r \in Results, d \in Buckets, n \in CountRange :
          \E s : View(u, w, k, r, d, n, s)
    BY ThreadView
  <2>2. PICK s : View(u, w, k, r, d, n, s)
    BY <2>1
  <2>3. /\ pc'[u] = pc[u] /\ call'[u] = k /\ self'[u] = w /\ result'[u] = r
        /\ d = w.b /\ n = size[d] /\ s = ChainOf(d)
    BY <1>5, <2>2 DEF View
  <2>4. ThreadAt(pc[u], k, w, r, size'[d], ChainOf(d)', keys', values')
    <3>1. CASE d # b
      <4>1. Alike(s, keys, values, keys', values') /\ size'[d] = n /\ ChainOf(d)' = s
        BY <2>3, <3>1 DEF Untouched
      <4>2. ThreadAt(pc[u], k, w, r, n, s, keys', values')
        BY <2>2, <4>1, UntouchedThread
      <4> QED BY <4>1, <4>2
    <3>2. CASE pc[u] \notin ReadPlaces \cup WritePlaces
      <4>1. ThreadAt(pc[u], k, w, r, n, s, keys, values)
        BY <2>2 DEF View
      <4> QED BY <3>2, <4>1, OutsideAt
    <3>3. CASE d = b /\ pc[u] \in ReadPlaces \cup WritePlaces
      <4>1. Reads(u, b) \/ Writes(u, b)
        BY <2>2, <3>3 DEF Reads, Writes, View
      <4>2. pc[t] \notin WritePlaces
        BY <1>2, <4>1, NobodyElseInside
      <4>3. pc[t] \in LockedPlaces /\ Grows(b)
        BY <4>2
      <4>4. Reads(t, b) /\ Locks(t, b)
        BY <4>3 DEF Reads, Locks, LockedPlaces, ReadPlaces
      <4>5. ~Writes(u, b) /\ ~Locks(u, b)
        BY <1>2, <4>4 DEF LocksOK
      <4>6. pc[u] \notin LockedPlaces /\ pc[u] \in ReadPlaces
        BY <2>2, <3>3, <4>1, <4>5 DEF Reads, Locks, Writes, View
      <4>7. Extends(s, n, keys, values, ChainOf(b)', size'[b], keys', values')
        BY <2>3, <3>3, <4>3 DEF Grows
      <4>8. size'[b] \in Nat
        <5>1. size'[b] \in CountRange
          BY DEF TableTyped
        <5> QED BY <5>1 DEF CountRange
      <4>9. ThreadAt(pc[u], k, w, r, size'[b], ChainOf(b)', keys', values')
        BY <2>2, <4>6, <4>7, <4>8, GrownThread
      <4> QED BY <3>3, <4>9
    <3> QED BY <3>1, <3>2, <3>3
  <2> QED BY <2>3, <2>4 DEF ThreadOK
<1>10. ThreadOK(t)'
  BY <1>1, <1>5 DEF ThreadOK
<1> QED BY <1>4, <1>6, <1>7, <1>8, <1>9, <1>10 DEF TableIInv

-----------------------------------------------------------------------------
(* The chains after a step, when it is known what they are.                *)
LEMMA ChainsBecome ==
  ASSUME TableAssumption, NEW ch, NEW fc,
         \A d \in Buckets : IsChain(ch[d], head'[d], next'),
         IsChain(fc, free_list', next'),
         \A d \in Buckets : Range(ch[d]) \cap Range(fc) = {},
         \A d, e \in Buckets : d # e => Range(ch[d]) \cap Range(ch[e]) = {},
         \A c \in Chunks : c \in allocated' <=> c \in Range(fc) \/ \E d \in Buckets : c \in Range(ch[d])
  PROVE  /\ ChainsOK' /\ FreeChain' = fc
         /\ \A d \in Buckets : ChainOf(d)' = ch[d]
<1>1. \A d \in Buckets : ChainFrom(head'[d], next') = ch[d]
  BY ChainIs
<1>2. \A d \in Buckets : ChainOf(d)' = ch[d]
  BY <1>1 DEF ChainOf, Chain
<1>3. ChainFrom(free_list', next') = fc
  BY ChainIs
<1>4. FreeChain' = fc
  BY <1>3 DEF FreeChain, Chain
<1> QED BY <1>2, <1>4 DEF ChainsOK

(* The chunk that an inserter takes, and the one it follows.               *)
TakesChunk(b, s, last, chunk) ==
  /\ chunk \in Chunks /\ (chunk \notin Range(FreeChain) \/ chunk = free_list)
  /\ \A d \in Buckets : chunk \notin Range(ChainOf(d))
  /\ last = IF s = << >> THEN NULL ELSE s[Len(s)]
  /\ head' = IF s = << >> THEN [head EXCEPT ![b] = chunk] ELSE head
  /\ next'[chunk] = NULL /\ (s # << >> => next'[last] = chunk)
  /\ \A c \in Chunks : c # chunk /\ c # last => next'[c] = next[c]
  /\ free_list' = FreeListPopped /\ allocated' = allocated \cup {chunk}
  /\ free_list # NULL => chunk = free_list
  /\ next' \in [Chunks -> Chunks \cup {NULL}]

(* get_new_chunk takes the head of the free list, or allocates.            *)
LEMMA NewChunkTakes ==
  ASSUME TableAssumption, TableIInv, NEW t \in Threads, NewChunk(t),
         NEW w \in Locals, NEW c \in AnyCall, NEW r \in Results, NEW b \in Buckets, NEW n \in CountRange,
         NEW s, View(t, w, c, r, b, n, s)
  PROVE  \E chunk \in Chunks, last \in Chunks \cup {NULL} :
           /\ TakesChunk(b, s, last, chunk)
           /\ self' = [self EXCEPT ![t] = [w EXCEPT !.link = last, !.j = 0]]
           /\ Fits(s, n, FALSE) /\ (n = 0 <=> s = << >>)
           /\ n # 0 => Col(n - 1) + 1 = NPairsPerChunk
<1>1. PICK last : last = IF w.current = 0 THEN NULL ELSE Deref(t)
  OBVIOUS
<1>2. PICK chunk : chunk = IF free_list # NULL THEN free_list ELSE CHOOSE e \in Chunks \ allocated : TRUE
  OBVIOUS
<1>3. /\ pc[t] = "new_chunk"
      /\ w.current = 0 => head[b] = NULL
      /\ free_list # NULL \/ allocated # Chunks
      /\ free_list' = FreeListPopped
      /\ allocated' = allocated \cup {chunk}
      /\ IF last = NULL
           THEN head' = [head EXCEPT ![b] = chunk] /\ next' = [next EXCEPT ![chunk] = NULL]
           ELSE head' = head /\ next' = [next EXCEPT ![last] = chunk, ![chunk] = NULL]
      /\ self' = [self EXCEPT ![t] = [w EXCEPT !.link = last, !.j = 0]]
  <2>1. w = self[t] /\ b = w.b
    BY DEF View
  <2> QED BY <1>1, <1>2, <2>1 DEF NewChunk, Goto, Set
<1>4. SearchAt("new_chunk", w, c.key, n, s, keys) /\ IsChain(s, head[b], next) /\ n \in Nat /\ s = ChainOf(b)
  BY <1>3 DEF View, ThreadAt
<1>5. w.i = n /\ w.current = n /\ (n = 0 \/ w.j = NPairsPerChunk) /\ Behind(w, s)
  BY <1>4 DEF SearchAt, Searching
<1>6. Fits(s, n, FALSE)
  <2>1. ~\E u \in Threads : Fills(u, b)
    BY <1>3, NobodyFills DEF TableIInv, View, LockedPlaces
  <2>2. Fits(s, n, \E u \in Threads : Fills(u, b))
    BY BucketFacts DEF View
  <2> QED BY <2>1, <2>2 DEF Fits
<1>7. TypeOK /\ ChainsOK
  BY DEF TableIInv
<1>8. chunk \in Chunks /\ chunk # NULL
  <2>1. free_list = NULL => Chunks \ allocated # {}
    BY <1>3, <1>7 DEF TypeOK
  <2>2. free_list \in Chunks \cup {NULL} /\ NULL \notin Chunks
    BY <1>7 DEF TypeOK, TableAssumption
  <2> QED BY <1>2, <2>1, <2>2
<1>9. \A d \in Buckets : chunk \notin Range(ChainOf(d))
  <2>1. CASE free_list # NULL
    <3>1. chunk \in Range(FreeChain)
      <4>1. IsChain(FreeChain, free_list, next)
        BY <1>7 DEF ChainsOK
      <4>2. FreeChain # << >> /\ free_list = FreeChain[1] /\ 1 \in 1 .. Len(FreeChain)
        BY <2>1, <4>1, ChainFacts DEF IsChain
      <4>3. FreeChain[1] \in Range(FreeChain)
        BY <4>1, <4>2, ChainFacts
      <4> QED BY <1>2, <2>1, <4>2, <4>3
    <3> QED BY <1>7, <3>1 DEF ChainsOK
  <2>2. CASE free_list = NULL
    <3>1. Chunks \ allocated # {}
      BY <1>3, <1>7, <2>2 DEF TypeOK
    <3>2. chunk \notin allocated
      BY <1>2, <2>2, <3>1
    <3> QED BY <1>7, <1>8, <3>2 DEF ChainsOK
  <2> QED BY <2>1, <2>2
<1>10. chunk \notin Range(FreeChain) \/ chunk = free_list
  <2>1. CASE free_list # NULL
    BY <1>2, <2>1
  <2>2. CASE free_list = NULL
    <3>1. Chunks \ allocated # {}
      BY <1>3, <1>7, <2>2 DEF TypeOK
    <3>2. chunk \notin allocated
      BY <1>2, <2>2, <3>1
    <3> QED BY <1>7, <1>8, <3>2 DEF ChainsOK
  <2> QED BY <2>1, <2>2
<1>11. CASE n = 0
  <2>1. head[b] = NULL /\ last = NULL
    BY <1>1, <1>3, <1>5, <1>11
  <2>2. s = << >>
    BY <1>4, <2>1, ChainFacts
  <2>3. TakesChunk(b, s, last, chunk)
    <3>1. head' = [head EXCEPT ![b] = chunk] /\ next' = [next EXCEPT ![chunk] = NULL]
      BY <1>3, <2>1
    <3>2. /\ next'[chunk] = NULL /\ next' \in [Chunks -> Chunks \cup {NULL}]
          /\ \A e \in Chunks : e # chunk /\ e # last => next'[e] = next[e]
      BY <1>7, <1>8, <3>1 DEF TypeOK
    <3> QED BY <1>2, <1>3, <1>8, <1>9, <1>10, <2>1, <2>2, <3>1, <3>2 DEF TakesChunk
  <2> QED BY <1>3, <1>6, <1>8, <1>11, <2>1, <2>2, <2>3
<1>12. CASE n # 0
  <2>1. PICK e \in Nat : e = n - 1 /\ n = e + 1
    BY <1>4, <1>12
  <2>2. w.link = Link(s, Row(e)) /\ w.j = Col(e) + 1 /\ Len(s) = Row(e)
    BY <1>5, <1>6, <1>12, <2>1 DEF Behind, Fits
  <2>3. Row(e) \in 1 .. Len(s) /\ s # << >> /\ Len(s) \in 1 .. Len(s)
    <3>1. PICK row \in Nat \ {0} : row = Row(e)
      BY RowAndCol
    <3>2. row \in 1 .. row
      OBVIOUS
    <3>3. s # << >>
      BY <1>4, <2>2, <3>1, ChainFacts
    <3> QED BY <2>2, <3>1, <3>2, <3>3
  <2>4. last = s[Len(s)]
    <3>1. PICK link : link = w.link
      OBVIOUS
    <3>2. link = Link(s, Row(e))
      BY <2>2, <3>1
    <3>3. (IF link = NULL THEN head[b] ELSE next[link]) = s[Row(e)]
      BY <1>4, <2>3, <3>2, LinkTarget
    <3>4. Deref(t) = s[Row(e)]
      BY <3>1, <3>3 DEF Deref, View
    <3> QED BY <1>1, <1>5, <1>12, <2>2, <3>4
  <2>5. last \in Range(s) /\ last \in Chunks /\ last # NULL
    BY <1>4, <2>3, <2>4, ChainFacts
  <2>6. last # chunk
    BY <1>4, <1>9, <2>5
  <2>7. TakesChunk(b, s, last, chunk)
    <3>1. head' = head /\ next' = [next EXCEPT ![last] = chunk, ![chunk] = NULL]
      BY <1>3, <2>5
    <3>2. /\ next'[chunk] = NULL /\ next'[last] = chunk /\ next' \in [Chunks -> Chunks \cup {NULL}]
          /\ \A d \in Chunks : d # chunk /\ d # last => next'[d] = next[d]
      BY <1>7, <1>8, <2>5, <2>6, <3>1 DEF TypeOK
    <3> QED BY <1>2, <1>3, <1>8, <1>9, <1>10, <2>3, <2>4, <3>1, <3>2 DEF TakesChunk
  <2>8. Col(n - 1) + 1 = NPairsPerChunk
    BY <1>5, <1>12, <2>1, <2>2
  <2> QED BY <1>3, <1>6, <1>8, <1>12, <2>3, <2>5, <2>7, <2>8
<1> QED BY <1>11, <1>12

(* The chains after it.                                                    *)
LEMMA TakenChunkChains ==
  ASSUME TableAssumption, TableIInv, NEW b \in Buckets, NEW s, s = ChainOf(b),
         NEW chunk \in Chunks, NEW last \in Chunks \cup {NULL}, TakesChunk(b, s, last, chunk)
  PROVE  /\ ChainsOK' /\ ChainOf(b)' = Append(s, chunk)
         /\ \A d \in Buckets \ {b} : ChainOf(d)' = ChainOf(d)
<1>1. TypeOK /\ ChainsOK
  BY DEF TableIInv
<1>2. IsChain(s, head[b], next) /\ IsChain(FreeChain, free_list, next)
  BY <1>1 DEF ChainsOK
<1>3. last # NULL => last \in Range(s)
  BY <1>2, ChainFacts DEF TakesChunk
<1>4. /\ IsChain(Append(s, chunk), IF s = << >> THEN chunk ELSE head[b], next')
      /\ Range(Append(s, chunk)) = Range(s) \cup {chunk}
  <2>1. chunk \notin Range(s) /\ next'[chunk] = NULL /\ (s # << >> => next'[s[Len(s)]] = chunk)
    BY DEF TakesChunk
  <2>2. \A d \in Range(s) : d # s[Len(s)] => next'[d] = next[d]
    <3>1. Range(s) \subseteq Chunks /\ NULL \notin Chunks
      BY <1>2, ChainFacts DEF TableAssumption
    <3>2. \A d \in Range(s) : s # << >>
      <4>1. s = << >> => Range(s) = {}
        BY EmptyList
      <4> QED BY <4>1
    <3> QED BY <2>1, <3>1, <3>2 DEF TakesChunk
  <2>3. PICK f : f = IF s = << >> THEN chunk ELSE head[b]
    OBVIOUS
  <2>4. Appends(s, head[b], next, chunk, next')
    BY <1>2, <2>1, <2>2 DEF Appends
  <2>5. IsChain(Append(s, chunk), f, next') /\ Range(Append(s, chunk)) = Range(s) \cup {chunk}
    BY <2>3, <2>4, ChainAppend
  <2> QED BY <2>3, <2>5
<1>5. head'[b] = IF s = << >> THEN chunk ELSE head[b]
  BY <1>1 DEF TakesChunk, TypeOK
<1>6. ASSUME NEW d \in Buckets \ {b} PROVE IsChain(ChainOf(d), head'[d], next')
  <2>1. head'[d] = head[d] /\ IsChain(ChainOf(d), head[d], next)
    BY <1>1 DEF TakesChunk, TypeOK, ChainsOK
  <2>2. \A e \in Range(ChainOf(d)) : e \in Chunks /\ e # chunk /\ e # last
    <3>1. Range(ChainOf(d)) \subseteq Chunks /\ NULL \notin Chunks
      BY <2>1, ChainFacts DEF TableAssumption
    <3>2. Range(ChainOf(d)) \cap Range(s) = {}
      BY <1>1 DEF ChainsOK
    <3>3. chunk \notin Range(ChainOf(d))
      BY DEF TakesChunk
    <3> QED BY <1>3, <3>1, <3>2, <3>3
  <2>3. \A e \in Range(ChainOf(d)) : next'[e] = next[e]
    BY <2>2 DEF TakesChunk
  <2> QED BY <2>1, <2>3, ChainStays
<1>7. Range(s) \cap Range(FreeChain) = {} /\ Range(FreeChain) \subseteq Chunks
  BY <1>1, <1>2, ChainFacts DEF ChainsOK
<1>8. PICK fc : /\ IsChain(fc, free_list', next') /\ Range(fc) = Range(FreeChain) \ {chunk}
                /\ chunk \in allocated \/ chunk \notin Range(FreeChain)
  <2>1. CASE free_list # NULL
    <3>1. chunk = free_list /\ free_list' = next[free_list]
      BY <2>1 DEF TakesChunk, FreeListPopped
    <3>2. \A d \in Range(FreeChain) : d # free_list => next'[d] = next[d]
      <4>1. \A d \in Range(FreeChain) : d # last
        BY <1>3, <1>7 DEF TableAssumption
      <4> QED BY <1>7, <3>1, <4>1 DEF TakesChunk
    <3>3. IsChain(Tail(FreeChain), next[free_list], next') /\ Range(Tail(FreeChain)) = Range(FreeChain) \ {free_list}
          /\ free_list \in Range(FreeChain)
      BY <1>2, <2>1, <3>2, ChainTail
    <3>4. chunk \in allocated
      BY <1>1, <1>7, <3>1, <3>3 DEF ChainsOK
    <3> QED BY <3>1, <3>3, <3>4
  <2>2. CASE free_list = NULL
    <3>1. FreeChain = << >> /\ free_list' = NULL
      BY <1>2, <2>2, ChainFacts DEF TakesChunk, FreeListPopped
    <3>2. IsChain(<< >>, NULL, next') /\ Range(<< >>) = {}
      <4>1. << >> \in Seq(Chunks) /\ IsInjective(<< >>) /\ Range(<< >>) = {} /\ Len(<< >>) = 0
        BY EmptyList
      <4> QED BY <4>1 DEF IsChain
    <3> QED BY <3>1, <3>2
  <2> QED BY <2>1, <2>2
<1>9. PICK ch : ch = [d \in Buckets |-> IF d = b THEN Append(s, chunk) ELSE ChainOf(d)]
  OBVIOUS
<1>10. ch[b] = Append(s, chunk) /\ \A d \in Buckets \ {b} : ch[d] = ChainOf(d)
  BY <1>9
<1>11. Range(ch[b]) = Range(s) \cup {chunk} /\ \A d \in Buckets \ {b} : Range(ch[d]) = Range(ChainOf(d))
  BY <1>4, <1>10
<1>12. \A d \in Buckets : IsChain(ch[d], head'[d], next')
  BY <1>4, <1>5, <1>6, <1>10
<1>13. \A d \in Buckets : chunk \notin Range(ChainOf(d))
  BY DEF TakesChunk
<1>14. /\ \A d \in Buckets : Range(ChainOf(d)) \cap Range(FreeChain) = {}
       /\ \A d, e \in Buckets : d # e => Range(ChainOf(d)) \cap Range(ChainOf(e)) = {}
       /\ \A c \in Chunks :
            c \in allocated <=> c \in Range(FreeChain) \/ \E d \in Buckets : c \in Range(ChainOf(d))
  BY <1>1 DEF ChainsOK
<1>15. \A d \in Buckets : Range(ch[d]) \cap Range(fc) = {}
  BY <1>8, <1>11, <1>14
<1>16. \A d, e \in Buckets : d # e => Range(ch[d]) \cap Range(ch[e]) = {}
  BY <1>11, <1>13, <1>14
<1>17. \A c \in Chunks :
         c \in allocated' <=> c \in Range(fc) \/ \E d \in Buckets : c \in Range(ch[d])
  <2> SUFFICES ASSUME NEW c \in Chunks
               PROVE  c \in allocated' <=> c \in Range(fc) \/ \E d \in Buckets : c \in Range(ch[d])
    OBVIOUS
  <2>1. c \in allocated' <=> c \in allocated \/ c = chunk
    BY DEF TakesChunk
  <2>2. (\E d \in Buckets : c \in Range(ch[d])) <=> c = chunk \/ \E d \in Buckets : c \in Range(ChainOf(d))
    BY <1>11
  <2>3. c # chunk => (c \in Range(fc) <=> c \in Range(FreeChain))
    BY <1>8
  <2> QED BY <1>14, <2>1, <2>2, <2>3
<1> QED BY <1>8, <1>10, <1>12, <1>15, <1>16, <1>17, ChainsBecome

(* get_new_chunk and hanging the chunk into the chain.                     *)
LEMMA NewChunkKeeps ==
  ASSUME TableAssumption, TableIInv, NEW t \in Threads, NewChunk(t)
  PROVE  TableIInv' /\ AllGrow
<1>1. PICK w \in Locals, c \in AnyCall, r \in Results, b \in Buckets, n \in CountRange :
        \E s : View(t, w, c, r, b, n, s)
  BY ThreadView
<1>2. PICK s : View(t, w, c, r, b, n, s)
  BY <1>1
<1>3. PICK chunk \in Chunks, last \in Chunks \cup {NULL} :
        /\ TakesChunk(b, s, last, chunk)
        /\ self' = [self EXCEPT ![t] = [w EXCEPT !.link = last, !.j = 0]]
        /\ Fits(s, n, FALSE) /\ (n = 0 <=> s = << >>)
        /\ n # 0 => Col(n - 1) + 1 = NPairsPerChunk
  BY <1>2, NewChunkTakes
<1>4. /\ pc[t] = "new_chunk" /\ pc' = [pc EXCEPT ![t] = "write"]
      /\ UNCHANGED <<size, insert_lock, mode, keys, values, call, result>>
  BY DEF NewChunk, Goto
<1>5. /\ IsChain(s, head[b], next) /\ s = ChainOf(b) /\ w.b = b /\ n \in Nat /\ n = size[b]
      /\ w = self[t] /\ c = call[t] /\ r = result[t] /\ w.i \in Nat
      /\ CallAt("new_chunk", c, w.b, r) /\ SearchAt("new_chunk", w, c.key, n, s, keys)
  BY <1>2, <1>4 DEF View, ThreadAt
<1>6. PICK x : x = [w EXCEPT !.link = last, !.j = 0]
  OBVIOUS
<1>7. /\ x \in Locals /\ x.b = b /\ x.i = w.i /\ x.current = w.current /\ x.link = last /\ x.j = 0
      /\ self' = [self EXCEPT ![t] = x]
  <2>1. 0 \in 0 .. NPairsPerChunk
    BY DEF TableAssumption
  <2> QED BY <1>3, <1>5, <1>6, <2>1 DEF Locals
<1>8. PICK z : z = Append(s, chunk)
  OBVIOUS
<1>9. ChainsOK' /\ ChainOf(b)' = z /\ \A d \in Buckets \ {b} : ChainOf(d)' = ChainOf(d)
  BY <1>3, <1>5, <1>8, TakenChunkChains
<1>10. PICK l \in Nat : l = Len(s)
  BY <1>5, ChainFacts
<1>11. Len(z) = l + 1 /\ \A i \in 1 .. l : z[i] = s[i]
  <2>1. s \in Seq(Chunks)
    BY <1>5 DEF IsChain
  <2> QED BY <1>8, <1>10, <2>1, AppendProperties
<1>12. Row(n) = l + 1 /\ Col(n) = 0 /\ last = Link(z, Row(n))
  <2>1. CASE n = 0
    <3>1. l = 0 /\ last = NULL
      BY <1>3, <1>5, <1>10, <2>1, ChainFacts DEF TakesChunk
    <3> QED BY <2>1, <3>1, FirstPosition DEF Link
  <2>2. CASE n # 0
    <3>1. PICK e \in Nat : e = n - 1 /\ n = e + 1
      BY <1>5, <2>2
    <3>2. Row(e) = l /\ Col(e) + 1 = NPairsPerChunk
      BY <1>3, <1>10, <2>2, <3>1 DEF Fits
    <3>3. Row(n) = l + 1 /\ Col(n) = 0
      BY <3>1, <3>2, NextPosition
    <3>4. last = s[l] /\ l \in 1 .. l /\ l + 1 # 1 /\ (l + 1) - 1 = l
      <4>1. s # << >> /\ l # 0
        BY <1>3, <1>5, <1>10, <2>2, ChainFacts
      <4> QED BY <1>3, <1>10, <4>1 DEF TakesChunk
    <3> QED BY <1>11, <3>3, <3>4 DEF Link
  <2> QED BY <2>1, <2>2
<1>13. Fits(z, n, TRUE)
  BY <1>11, <1>12 DEF Fits
<1>14. Extends(s, n, keys, values, z, n, keys, values)
  <2>1. \A m \in 0 .. n - 1 : Row(m) \in 1 .. l
    BY <1>3, <1>5, <1>10, FitsRows
  <2>2. n <= n /\ l <= l + 1
    BY <1>5
  <2> QED BY <1>10, <1>11, <2>1, <2>2 DEF Extends, At
<1>15. BucketOK(b)'
  <2>1. PairsIn(z, keys, values, n, b)
    <3>1. PairsIn(s, keys, values, n, b)
      BY <1>5, BucketFacts
    <3> QED BY <1>14, <3>1 DEF PairsIn, Extends
  <2>2. \E u \in Threads : Fills(u, b)'
    BY <1>4, <1>7, ThreadFacts DEF Fills, TypeOK
  <2>3. Fits(z, n, (\E u \in Threads : Fills(u, b))')
    BY <1>13, <2>2 DEF Fits
  <2> QED BY <1>4, <1>5, <1>9, <2>1, <2>3 DEF BucketOK
<1>16. ASSUME NEW d \in Buckets \ {b} PROVE Untouched(d)
  BY <1>4, <1>9 DEF Untouched, Alike
<1>17. Grows(b)
  BY <1>4, <1>5, <1>9, <1>14 DEF Grows
<1>18. TableTyped'
  <2>1. TypeOK
    BY DEF TableIInv
  <2>2. head' \in [Buckets -> Chunks \cup {NULL}]
    BY <1>3, <2>1 DEF TakesChunk, TypeOK
  <2>3. next' \in [Chunks -> Chunks \cup {NULL}] /\ allocated' \subseteq Chunks
    BY <1>3, <2>1 DEF TakesChunk, TypeOK
  <2>4. free_list' \in Chunks \cup {NULL}
    BY <1>3, <2>1 DEF TakesChunk, TypeOK, FreeListPopped
  <2> QED BY <1>4, <2>1, <2>2, <2>3, <2>4 DEF TableTyped, TypeOK
<1>19. pc[t] \in ReadPlaces \cap LockedPlaces /\ pc[t] # "r_unlock" /\ "write" \in ReadPlaces \cap Location
       /\ SameLocks(pc[t], "write")
  BY <1>4 DEF ReadPlaces, WritePlaces, LockedPlaces, Location, SameLocks
<1>20. CallAt("write", c, x.b, r)
  <2>1. CallAt(pc[t], c, b, r) /\ x.b = b
    BY <1>4, <1>5, <1>7
  <2>2. c.op # "get"
    BY <1>4, <1>19, <2>1, ReaderCall DEF GetPlaces
  <2> QED BY <1>19, <2>1, <2>2, CallInside
<1>21. SearchAt("write", x, c.key, n, z, keys)
  <2>1. w.i = n /\ w.current = n /\ Missed(w, c.key, s, keys)
    BY <1>5 DEF SearchAt, Searching
  <2>2. Missed(x, c.key, z, keys)
    BY <1>7, <1>14, <2>1 DEF Missed, Extends
  <2>3. PointsTo(x, z, n)
    BY <1>7, <1>12 DEF PointsTo
  <2> QED BY <1>7, <2>1, <2>2, <2>3 DEF SearchAt, Searching, Found
<1>22. ThreadAt("write", c, x, r, n, z, keys, values)
  BY <1>19, <1>20, <1>21, ReaderAt DEF WrittenAt
<1>23. ThreadAt("write", call[t], x, r, size'[b], ChainOf(b)', keys', values')
  BY <1>4, <1>5, <1>9, <1>22
<1>24. result' = [result EXCEPT ![t] = r]
  BY <1>4, <1>5, ThreadFacts, MovesKeeping
<1>25. b = self[t].b /\ "write" \in Location /\ UNCHANGED <<mode, insert_lock, call>>
       /\ SameLocks(pc[t], "write") /\ pc[t] \in LockedPlaces
  BY <1>4, <1>5, <1>19
<1>26. TableIInv'
  BY <1>4, <1>7, <1>9, <1>15, <1>16, <1>17, <1>18, <1>23, <1>24, <1>25, TableStep
<1> QED BY <1>16, <1>17, <1>26, AllGrowing

-----------------------------------------------------------------------------
(* Writing the p-th entry of a chain changes no other.                     *)
WritesOne(s, f, g, S, p, v) ==
  /\ f \in [Chunks -> [Slots -> S]] /\ v \in S /\ p \in Nat /\ Row(p) \in 1 .. Len(s)
  /\ g = [f EXCEPT ![s[Row(p)]][Col(p)] = v]
(* Only the p-th entry changed, and it is v.                               *)
OneWritten(s, f, g, p, v) ==
  /\ At(s, g, p) = v
  /\ \A m \in Nat : Row(m) \in 1 .. Len(s) /\ m # p => At(s, g, m) = At(s, f, m)
  /\ \A d \in Chunks \ Range(s) : g[d] = f[d]

(* Writing one entry writes that one and no other.                         *)
LEMMA EntryWritten ==
  ASSUME TableAssumption, NEW s, NEW first, NEW links, IsChain(s, first, links),
         NEW f, NEW g, NEW S, NEW p, NEW v, WritesOne(s, f, g, S, p, v)
  PROVE  g \in [Chunks -> [Slots -> S]] /\ OneWritten(s, f, g, p, v)
<1>1. /\ \A i \in 1 .. Len(s) : s[i] \in Chunks /\ s[i] \in Range(s)
      /\ \A i, j \in 1 .. Len(s) : s[i] = s[j] => i = j
  BY ChainFacts
<1>0. /\ f \in [Chunks -> [Slots -> S]] /\ v \in S /\ p \in Nat /\ Row(p) \in 1 .. Len(s)
      /\ g = [f EXCEPT ![s[Row(p)]][Col(p)] = v]
  BY DEF WritesOne
<1>2. Col(p) \in Slots /\ s[Row(p)] \in Chunks /\ s[Row(p)] \in Range(s)
  BY <1>0, <1>1, RowAndCol
<1>3. PICK chunk \in Chunks, col \in Slots : chunk = s[Row(p)] /\ col = Col(p)
  BY <1>2
<1>4. g = [f EXCEPT ![chunk][col] = v]
  BY <1>0, <1>3
<1>5. /\ g \in [Chunks -> [Slots -> S]] /\ g[chunk][col] = v
      /\ \A d \in Chunks : d # chunk => g[d] = f[d]
      /\ \A k \in Slots : k # col => g[chunk][k] = f[chunk][k]
  <2>1. PICK row : row = [f[chunk] EXCEPT ![col] = v]
    OBVIOUS
  <2>2. row \in [Slots -> S] /\ row[col] = v /\ \A k \in Slots : k # col => row[k] = f[chunk][k]
    BY <1>0, <2>1
  <2>3. g = [f EXCEPT ![chunk] = row]
    BY <1>4, <2>1
  <2>4. g \in [Chunks -> [Slots -> S]] /\ g[chunk] = row /\ \A d \in Chunks : d # chunk => g[d] = f[d]
    <3>1. PICK T : T = [Slots -> S]
      OBVIOUS
    <3>2. f \in [Chunks -> T] /\ row \in T
      BY <1>0, <2>2, <3>1
    <3>3. g \in [Chunks -> T] /\ g[chunk] = row /\ \A d \in Chunks : d # chunk => g[d] = f[d]
      BY <2>3, <3>2
    <3> QED BY <3>1, <3>3
  <2> QED BY <2>2, <2>4
<1>6. At(s, g, p) = v
  BY <1>3, <1>5 DEF At
<1>7. ASSUME NEW m \in Nat, Row(m) \in 1 .. Len(s), m # p PROVE At(s, g, m) = At(s, f, m)
  <2>1. Col(m) \in Slots /\ s[Row(m)] \in Chunks
    BY <1>1, <1>7, RowAndCol
  <2>2. CASE Row(m) = Row(p)
    <3>1. PICK i \in Nat, j \in Nat : i = Col(m) /\ j = Col(p)
      <4>1. Slots \subseteq Nat
        BY DEF Slots, TableAssumption
      <4> QED BY <1>2, <2>1, <4>1
    <3>2. m <= p \/ p <= m
      BY <1>0, <1>7
    <3>3. i < j \/ j < i
      BY <1>0, <1>7, <2>2, <3>1, <3>2, RowsAscend
    <3>4. Col(m) # Col(p)
      BY <3>1, <3>3
    <3> QED BY <1>3, <1>5, <2>1, <2>2, <3>4 DEF At
  <2>3. CASE Row(m) # Row(p)
    <3>1. s[Row(m)] # chunk
      BY <1>0, <1>1, <1>3, <1>7, <2>3
    <3> QED BY <1>5, <2>1, <3>1 DEF At
  <2> QED BY <2>2, <2>3
<1>8. \A d \in Chunks \ Range(s) : g[d] = f[d]
  BY <1>2, <1>3, <1>5
<1> QED BY <1>5, <1>6, <1>7, <1>8 DEF OneWritten

(* What is written into one chain does not show in a disjoint one.         *)
LEMMA OtherChainAlike ==
  ASSUME TableAssumption, NEW z, NEW first, NEW links, IsChain(z, first, links),
         NEW A, Range(z) \cap A = {}, NEW ks, NEW vs, NEW kr, NEW vr,
         \A d \in Chunks \ A : kr[d] = ks[d] /\ vr[d] = vs[d]
  PROVE  Alike(z, ks, vs, kr, vr)
<1>1. \A i \in 1 .. Len(z) : z[i] \in Chunks \ A
  BY ChainFacts
<1> QED BY <1>1 DEF Alike, At

(* Writing the new pair, not yet counted, behind those that are.           *)
LEMMA WriteKeeps ==
  ASSUME TableAssumption, TableIInv, NEW t \in Threads, Write(t)
  PROVE  TableIInv' /\ AllGrow
<1>1. PICK w \in Locals, c \in AnyCall, r \in Results, b \in Buckets, n \in CountRange :
        \E s : View(t, w, c, r, b, n, s)
  BY ThreadView
<1>2. PICK s : View(t, w, c, r, b, n, s)
  BY <1>1
<1>3. pc[t] = "write"
  BY DEF Write, Goto
<1>4. /\ IsChain(s, head[b], next) /\ s = ChainOf(b) /\ w.b = b /\ n \in Nat /\ n = size[b]
      /\ w = self[t] /\ c = call[t] /\ r = result[t]
      /\ CallAt("write", c, w.b, r) /\ SearchAt("write", w, c.key, n, s, keys)
  BY <1>2, <1>3 DEF View, ThreadAt
<1>5. w.i = n /\ w.current = n /\ PointsTo(w, s, n) /\ Missed(w, c.key, s, keys)
  BY <1>4 DEF SearchAt
<1>6. \E u \in Threads : Fills(u, b)
  BY <1>3, <1>4 DEF Fills
<1>7. Fits(s, n, TRUE)
  BY <1>4, <1>6, BucketFacts DEF Fits
<1>8. Row(n) \in 1 .. Len(s) /\ \A m \in 0 .. n - 1 : Row(m) \in 1 .. Len(s)
  BY <1>4, <1>7, FitsRows
<1>9. Deref(t) = s[Row(n)] /\ w.j = Col(n)
  <2>1. PICK link : link = w.link
    OBVIOUS
  <2>2. link = Link(s, Row(n)) /\ w.j = Col(n)
    BY <1>5, <2>1 DEF PointsTo
  <2>3. (IF link = NULL THEN head[b] ELSE next[link]) = s[Row(n)]
    BY <1>4, <1>8, <2>2, LinkTarget
  <2> QED BY <1>4, <2>1, <2>2, <2>3 DEF Deref
<1>10. PICK v \in Values : values' = [values EXCEPT ![s[Row(n)]][Col(n)] = v]
  BY <1>4, <1>9 DEF Write
<1>11. /\ pc' = [pc EXCEPT ![t] = "publish"]
       /\ keys' = [keys EXCEPT ![s[Row(n)]][Col(n)] = c.key]
       /\ UNCHANGED <<mode, insert_lock, call, self, result>>
       /\ UNCHANGED <<size, head, next, allocated, free_list>>
  BY <1>4, <1>9 DEF Write, Goto, bucketVars
<1>12. c \in [op : Calls \ {"remove_if"}, key : Keys] /\ w.b = BucketIdx[c.key] /\ c.op # "get"
  <2>1. "write" \in ReadPlaces /\ "write" \notin GetPlaces
    BY DEF ReadPlaces, GetPlaces
  <2> QED BY <1>4, <2>1, ReaderCall
<1>13. TypeOK /\ ChainsOK
  BY DEF TableIInv
<1>14. PICK kr : kr = keys'
  OBVIOUS
<1>15. PICK vr : vr = values'
  OBVIOUS
<1>16. kr \in [Chunks -> [Slots -> Keys \cup {NULL}]] /\ OneWritten(s, keys, kr, n, c.key)
  <2>1. PICK S : S = Keys \cup {NULL}
    OBVIOUS
  <2>2. keys \in [Chunks -> [Slots -> S]] /\ c.key \in S
    BY <1>12, <1>13, <2>1 DEF TypeOK
  <2>3. kr = [keys EXCEPT ![s[Row(n)]][Col(n)] = c.key]
    BY <1>11, <1>14
  <2>4. WritesOne(s, keys, kr, S, n, c.key)
    BY <1>4, <1>8, <2>2, <2>3 DEF WritesOne
  <2>5. kr \in [Chunks -> [Slots -> S]] /\ OneWritten(s, keys, kr, n, c.key)
    BY <1>4, <2>4, EntryWritten
  <2> QED BY <2>1, <2>5
<1>17. vr \in [Chunks -> [Slots -> Values \cup {NULL}]] /\ OneWritten(s, values, vr, n, v)
  <2>1. PICK S : S = Values \cup {NULL}
    OBVIOUS
  <2>2. values \in [Chunks -> [Slots -> S]] /\ v \in S
    BY <1>13, <2>1 DEF TypeOK
  <2>3. vr = [values EXCEPT ![s[Row(n)]][Col(n)] = v]
    BY <1>10, <1>15
  <2>4. WritesOne(s, values, vr, S, n, v)
    BY <1>4, <1>8, <2>2, <2>3 DEF WritesOne
  <2>5. vr \in [Chunks -> [Slots -> S]] /\ OneWritten(s, values, vr, n, v)
    BY <1>4, <2>4, EntryWritten
  <2> QED BY <2>1, <2>5
<1>18. Extends(s, n, keys, values, s, n, kr, vr)
  <2>1. \A m \in 0 .. n - 1 : m \in Nat /\ m # n
    BY <1>4
  <2>2. n <= n /\ Len(s) <= Len(s)
    BY <1>4, ChainFacts
  <2> QED BY <1>8, <1>16, <1>17, <2>1, <2>2 DEF Extends, OneWritten
<1>19. \A d \in Buckets : ChainOf(d)' = ChainOf(d)
  BY <1>11 DEF ChainOf, Chain
<1>20. ChainsOK'
  <2>1. FreeChain' = FreeChain
    BY <1>11 DEF FreeChain, Chain
  <2> QED BY <1>11, <1>13, <1>19, <2>1 DEF ChainsOK
<1>21. BucketOK(b)'
  <2>1. PairsIn(s, kr, vr, n, b)
    <3>1. PairsIn(s, keys, values, n, b)
      BY <1>4, BucketFacts
    <3> QED BY <1>18, <3>1 DEF PairsIn, Extends
  <2>2. \E u \in Threads : Fills(u, b)'
    <3>1. pc'[t] = "publish" /\ self'[t].b = b
      BY <1>4, <1>11, <1>13 DEF TypeOK
    <3> QED BY <3>1 DEF Fills
  <2>3. Fits(s, n, (\E u \in Threads : Fills(u, b))')
    BY <1>7, <2>2 DEF Fits
  <2> QED BY <1>4, <1>11, <1>14, <1>15, <1>19, <2>1, <2>3 DEF BucketOK
<1>22. ASSUME NEW d \in Buckets \ {b} PROVE Untouched(d)
  <2>1. Range(ChainOf(d)) \cap Range(s) = {} /\ IsChain(ChainOf(d), head[d], next)
    BY <1>4, <1>13 DEF ChainsOK
  <2>2. Alike(ChainOf(d), keys, values, kr, vr)
    BY <1>16, <1>17, <2>1, OtherChainAlike DEF OneWritten
  <2> QED BY <1>11, <1>14, <1>15, <1>19, <2>2 DEF Untouched
<1>23. Grows(b)
  BY <1>4, <1>11, <1>14, <1>15, <1>18, <1>19 DEF Grows
<1>24. TableTyped'
  BY <1>11, <1>13, <1>14, <1>15, <1>16, <1>17 DEF TableTyped, TypeOK
<1>25. pc[t] \in ReadPlaces \cap LockedPlaces /\ pc[t] # "r_unlock" /\ "publish" \in ReadPlaces \cap Location
       /\ SameLocks(pc[t], "publish")
  BY <1>3 DEF ReadPlaces, WritePlaces, LockedPlaces, Location, SameLocks
<1>26. CallAt("publish", c, w.b, r)
  <2>1. CallAt(pc[t], c, w.b, r)
    BY <1>3, <1>4
  <2> QED BY <1>12, <1>25, <2>1, CallInside
<1>27. SearchAt("publish", w, c.key, n, s, kr)
  <2>1. Missed(w, c.key, s, kr)
    BY <1>5, <1>18 DEF Missed, Extends
  <2> QED BY <1>5, <2>1 DEF SearchAt, Searching, Found
<1>28. ThreadAt("publish", c, w, r, n, s, kr, vr)
  BY <1>16, <1>17, <1>25, <1>26, <1>27, ReaderAt DEF WrittenAt, OneWritten
<1>29. ThreadAt("publish", call[t], w, r, size'[b], ChainOf(b)', keys', values')
  BY <1>4, <1>11, <1>14, <1>15, <1>19, <1>28
<1>30. result' = [result EXCEPT ![t] = r] /\ self' = [self EXCEPT ![t] = w]
  BY <1>4, <1>11, ThreadFacts, MovesKeeping
<1>31. b = self[t].b /\ "publish" \in Location /\ UNCHANGED <<mode, insert_lock, call>> /\ w.b = b
       /\ SameLocks(pc[t], "publish") /\ pc[t] \in LockedPlaces
  BY <1>4, <1>11, <1>25
<1>32. TableIInv'
  BY <1>11, <1>20, <1>21, <1>22, <1>23, <1>24, <1>29, <1>30, <1>31, TableStep
<1> QED BY <1>22, <1>23, <1>32, AllGrowing

(* Counting the new pair: the atomic store of the size.                    *)
LEMMA PublishKeeps ==
  ASSUME TableAssumption, TableIInv, NEW t \in Threads, Publish(t)
  PROVE  TableIInv' /\ AllGrow
<1>1. PICK w \in Locals, c \in AnyCall, r \in Results, b \in Buckets, n \in CountRange :
        \E s : View(t, w, c, r, b, n, s)
  BY ThreadView
<1>2. PICK s : View(t, w, c, r, b, n, s)
  BY <1>1
<1>3. pc[t] = "publish"
  BY DEF Publish, Goto
<1>4. /\ IsChain(s, head[b], next) /\ s = ChainOf(b) /\ w.b = b /\ n \in Nat /\ n = size[b]
      /\ w = self[t] /\ c = call[t] /\ r = result[t]
      /\ CallAt("publish", c, w.b, r) /\ SearchAt("publish", w, c.key, n, s, keys)
      /\ WrittenAt("publish", c.key, n, s, keys, values)
  BY <1>2, <1>3 DEF View, ThreadAt
<1>5. w.i = n /\ w.current = n /\ PointsTo(w, s, n) /\ Missed(w, c.key, s, keys)
      /\ At(s, keys, n) = c.key /\ At(s, values, n) \in Values
  BY <1>4 DEF SearchAt, WrittenAt
<1>6. \E u \in Threads : Fills(u, b)
  BY <1>3, <1>4 DEF Fills
<1>7. Fits(s, n, TRUE)
  BY <1>4, <1>6, BucketFacts DEF Fits
<1>8. /\ pc' = [pc EXCEPT ![t] = "inserted_unlock"]
      /\ size' = [size EXCEPT ![b] = n + 1]
      /\ UNCHANGED <<mode, insert_lock, call, self, result>>
      /\ UNCHANGED <<keys, values, head, next, allocated, free_list>>
  BY <1>4, <1>5 DEF Publish, Goto, chunkVars
<1>9. c \in [op : Calls \ {"remove_if"}, key : Keys] /\ w.b = BucketIdx[c.key] /\ c.op # "get"
  <2>1. "publish" \in ReadPlaces /\ "publish" \notin GetPlaces
    BY DEF ReadPlaces, GetPlaces
  <2> QED BY <1>4, <2>1, ReaderCall
<1>10. TypeOK /\ ChainsOK /\ LocksOK
  BY DEF TableIInv
<1>11. PairsIn(s, keys, values, n, b)
  BY <1>4, BucketFacts
<1>12. PairsIn(s, keys, values, n + 1, b)
  <2>1. At(s, keys, n) \in Keys /\ BucketIdx[At(s, keys, n)] = b
    BY <1>4, <1>5, <1>9
  <2>2. \A m \in 0 .. n - 1 : At(s, keys, m) # At(s, keys, n)
    BY <1>5 DEF Missed
  <2> QED BY <1>4, <1>5, <1>11, <2>1, <2>2, PairsPublished
<1>13. n + 1 \in CountRange
  <2>1. n + 1 \in Nat
    BY <1>4
  <2>2. n + 1 <= Cardinality(Keys) /\ Cardinality(Keys) \in Nat
    BY <1>12, <2>1, PairsCounted
  <2> QED BY <2>1, <2>2 DEF CountRange
<1>14. size' \in [Buckets -> CountRange] /\ size'[b] = n + 1 /\ \A d \in Buckets \ {b} : size'[d] = size[d]
  BY <1>8, <1>10, <1>13 DEF TypeOK
<1>15. Fits(s, n + 1, FALSE)
  <2>1. n + 1 # 0 /\ (n + 1) - 1 = n
    BY <1>4
  <2> QED BY <1>7, <2>1 DEF Fits
<1>16. \A d \in Buckets : ChainOf(d)' = ChainOf(d)
  BY <1>8 DEF ChainOf, Chain
<1>17. ChainsOK'
  <2>1. FreeChain' = FreeChain
    BY <1>8 DEF FreeChain, Chain
  <2> QED BY <1>8, <1>10, <1>16, <2>1 DEF ChainsOK
<1>18. ~\E u \in Threads : Fills(u, b)'
  <2>1. pc'[t] = "inserted_unlock" /\ \A u \in Threads \ {t} : pc'[u] = pc[u]
    BY <1>8, <1>10 DEF TypeOK
  <2>2. \A u \in Threads \ {t} : ~Fills(u, b)
    <3>1. Locks(t, b)
      BY <1>3, <1>4 DEF Locks, LockedPlaces
    <3>2. \A u \in Threads : Fills(u, b) => Locks(u, b)
      BY DEF Fills, Locks, LockedPlaces
    <3> QED BY <1>10, <3>1, <3>2 DEF LocksOK
  <2> QED BY <1>8, <2>1, <2>2 DEF Fills
<1>19. BucketOK(b)'
  <2>1. Fits(s, n + 1, (\E u \in Threads : Fills(u, b))')
    BY <1>15, <1>18 DEF Fits
  <2> QED BY <1>4, <1>8, <1>12, <1>14, <1>16, <2>1 DEF BucketOK
<1>20. ASSUME NEW d \in Buckets \ {b} PROVE Untouched(d)
  BY <1>8, <1>14, <1>16 DEF Untouched, Alike
<1>21. Grows(b)
  <2>1. n <= n + 1 /\ Len(s) <= Len(s)
    BY <1>4, ChainFacts
  <2>2. Extends(s, n, keys, values, s, n + 1, keys, values)
    BY <2>1 DEF Extends
  <2> QED BY <1>4, <1>8, <1>14, <1>16, <2>2 DEF Grows
<1>22. TableTyped'
  BY <1>8, <1>10, <1>14 DEF TableTyped, TypeOK
<1>23. pc[t] \in ReadPlaces \cap LockedPlaces /\ pc[t] # "r_unlock" /\ "inserted_unlock" \in ReadPlaces \cap Location
       /\ SameLocks(pc[t], "inserted_unlock")
  BY <1>3 DEF ReadPlaces, WritePlaces, LockedPlaces, Location, SameLocks
<1>24. CallAt("inserted_unlock", c, w.b, r)
  <2>1. CallAt(pc[t], c, w.b, r)
    BY <1>3, <1>4
  <2> QED BY <1>9, <1>23, <2>1, CallInside
<1>25. SearchAt("inserted_unlock", w, c.key, n + 1, s, keys)
  <2>1. w.i < n + 1
    BY <1>4, <1>5
  <2>2. PointsTo(w, s, w.i) /\ At(s, keys, w.i) = c.key
    BY <1>5
  <2> QED BY <2>1, <2>2 DEF SearchAt, Searching, Found
<1>26. ThreadAt("inserted_unlock", c, w, r, n + 1, s, keys, values)
  BY <1>23, <1>24, <1>25, ReaderAt DEF WrittenAt
<1>27. ThreadAt("inserted_unlock", call[t], w, r, size'[b], ChainOf(b)', keys', values')
  BY <1>4, <1>8, <1>14, <1>16, <1>26
<1>28. result' = [result EXCEPT ![t] = r] /\ self' = [self EXCEPT ![t] = w]
  BY <1>4, <1>8, ThreadFacts, MovesKeeping
<1>29. b = self[t].b /\ "inserted_unlock" \in Location /\ UNCHANGED <<mode, insert_lock, call>> /\ w.b = b
       /\ SameLocks(pc[t], "inserted_unlock") /\ pc[t] \in LockedPlaces
  BY <1>4, <1>8, <1>23
<1>30. TableIInv'
  BY <1>8, <1>17, <1>19, <1>20, <1>21, <1>22, <1>27, <1>28, <1>29, TableStep
<1> QED BY <1>20, <1>21, <1>30, AllGrowing

-----------------------------------------------------------------------------
(* SCOREP_HASH_TABLE_MOVE_LAST_TO_REMOVED, in terms of the chain.          *)
LEMMA MulDistributes == \A k, m, n \in Nat : k * (m + n) = k * m + k * n
OBVIOUS

(* The remainder of a number that is smaller than the divisor.             *)
LEMMA SmallMod == \A k, j \in Nat : j < k => j % k = j
<1> SUFFICES ASSUME NEW k \in Nat, NEW j \in Nat, j < k PROVE j % k = j
  OBVIOUS
<1>1. PICK q \in Nat, r \in 0 .. k - 1 : q = j \div k /\ r = j % k /\ j = k * q + r
  <2>1. k \in Nat \ {0}
    OBVIOUS
  <2> QED BY <2>1, DivMod
<1>2. CASE q = 0
  BY <1>1, <1>2
<1>3. CASE q # 0
  <2>1. k * 1 <= k * q
    BY <1>3, MulMonotone
  <2> QED BY <1>1, <2>1
<1> QED BY <1>2, <1>3

(* Where _remove looks for the last pair is where it is.                   *)
LEMMA LastSlotIs ==
  ASSUME TableAssumption, NEW n \in Nat, NEW hole \in Nat,
         Row(hole) <= Row(n), NEW chunk, Len(Chain(chunk)) = Row(n) - Row(hole) + 1
  PROVE  LastSlot(chunk, hole, Col(hole), n + 1) = Col(n)
<1>1. PICK k \in Nat \ {0} : k = NPairsPerChunk
  BY DEF TableAssumption
<1>2. PICK row \in Nat \ {0}, l \in Nat : row = Row(hole) /\ l = Row(n)
  BY RowAndCol
<1>3. PICK a \in Nat, d \in Nat : a = row - 1 /\ d = l - row
  <2>1. row <= l
    BY <1>2
  <2>2. row - 1 \in Nat /\ l - row \in Nat
    BY <2>1
  <2> QED BY <2>2
<1>4. PICK i \in Nat, j \in Nat : i = Col(hole) /\ j = Col(n) /\ j < k
  <2>1. Col(hole) \in Slots /\ Col(n) \in Slots
    BY RowAndCol
  <2> QED BY <1>1, <2>1 DEF Slots
<1>5. hole = k * a + i /\ n = k * (a + d) + j
  <2>1. hole = NPairsPerChunk * (Row(hole) - 1) + Col(hole) /\ n = NPairsPerChunk * (Row(n) - 1) + Col(n)
    BY RowAndCol
  <2>2. l - 1 = a + d
    BY <1>3
  <2> QED BY <1>1, <1>3, <1>4, <1>2, <2>1, <2>2
<1>6. k * (a + d) = k * a + k * d /\ k * a \in Nat /\ k * d \in Nat
  BY MulDistributes
<1>7. (n + 1) - (hole - i + k * d) - 1 = j
  BY <1>5, <1>6
<1>8. j % UINT32 = j
  <2>1. UINT32 \in Nat /\ UINT32 > Cardinality(Keys) + k /\ Cardinality(Keys) \in Nat
    BY <1>1, FS_CardinalityType DEF TableAssumption
  <2>2. PICK u \in Nat, m \in Nat : u = UINT32 /\ m = Cardinality(Keys) /\ u > m + k
    BY <2>1
  <2>3. j < u
    BY ONLY <1>1, <1>4, <2>2, j \in Nat
  <2> QED BY <1>4, <2>2, <2>3, SmallMod
<1>9. Len(Chain(chunk)) - 1 = d
  BY <1>3, <1>2
<1> QED BY <1>1, <1>4, <1>7, <1>8, <1>9 DEF LastSlot

(* What it does: the last pair goes to the hole, an empty last chunk to    *)
(* the free list.                                                          *)
MovesLast(b, s, n, hole) ==
  /\ keys' = [keys EXCEPT ![s[Row(hole)]][Col(hole)] = At(s, keys, n - 1)]
  /\ values' = [values EXCEPT ![s[Row(hole)]][Col(hole)] = At(s, values, n - 1)]
  /\ IF Col(n - 1) = 0 /\ Len(s) # 1 THEN FreeLast(s[Len(s) - 1], s[Len(s)]) ELSE UNCHANGED <<next, free_list>>
  /\ size' = [size EXCEPT ![b] = n - 1]

(* The rest of the chain from the chunk of the hole on.                    *)
IsRest(rest, s, row) ==
  /\ Len(rest) = Len(s) - row + 1 /\ rest[Len(rest)] = s[Len(s)]
  /\ (IF Len(rest) = 1 THEN Link(s, row) ELSE rest[Len(rest) - 1]) = Link(s, Len(s))

(* The walk of _remove from the chunk of the hole ends at the last chunk of*)
(* the chain, with the pointer to it.                                      *)
LEMMA LastOfRest ==
  ASSUME TableAssumption, NEW s, NEW first, IsChain(s, first, next), NEW row \in 1 .. Len(s),
         NEW chunk, chunk = s[row], NEW rest, rest = Chain(chunk)
  PROVE  IsRest(rest, s, row)
<1>1. PICK l \in Nat : l = Len(s)
  BY ChainFacts
<1>2. PICK r : r = SubSeq(s, row, Len(s))
  OBVIOUS
<1>3. /\ IsChain(r, chunk, next) /\ Len(r) = l - row + 1
      /\ \A i \in 1 .. l - row + 1 : r[i] = s[row + i - 1]
  BY <1>1, <1>2, ChainRest
<1>4. rest = r
  BY <1>3, ChainIs DEF Chain
<1>5. PICK m \in Nat : m = l - row + 1 /\ m # 0 /\ row = l + 1 - m /\ row \in 1 .. l
  BY <1>1
<1>6. r[m] = s[l]
  <2>1. m \in 1 .. l - row + 1 /\ row + m - 1 = l
    BY <1>5
  <2> QED BY <1>3, <2>1
<1>7. CASE m = 1
  <2>1. row = l
    BY <1>5, <1>7
  <2>2. Len(rest) = 1 /\ Len(rest) = Len(s) - row + 1 /\ rest[Len(rest)] = s[Len(s)]
    BY <1>1, <1>3, <1>4, <1>5, <1>6, <1>7
  <2>3. Link(s, row) = Link(s, Len(s))
    BY <1>1, <2>1
  <2> QED BY <2>2, <2>3 DEF IsRest
<1>8. CASE m # 1
  <2>1. m - 1 \in 1 .. l - row + 1 /\ row + (m - 1) - 1 = l - 1 /\ l # 1
    BY <1>5, <1>8
  <2>2. r[m - 1] = s[l - 1]
    BY <1>3, <2>1
  <2>3. Len(rest) = m /\ Len(rest) = Len(s) - row + 1
    BY <1>1, <1>3, <1>4, <1>5
  <2>4. rest[m] = s[l] /\ rest[m - 1] = s[l - 1]
    BY <1>4, <1>6, <2>2
  <2>5. Link(s, l) = s[l - 1]
    BY <2>1 DEF Link
  <2>6. (IF Len(rest) = 1 THEN Link(s, row) ELSE rest[Len(rest) - 1]) = Link(s, l)
    BY <1>8, <2>3, <2>4, <2>5
  <2> QED BY <1>1, <2>3, <2>4, <2>6 DEF IsRest
<1> QED BY <1>7, <1>8

(* What _remove does, in terms of the chain: the last pair moves to the    *)
(* hole, and a chunk that is empty after that goes to the free list.       *)
LEMMA MoveMeans ==
  ASSUME TableAssumption, NEW s, NEW first, IsChain(s, first, next),
         NEW n \in Nat \ {0}, Fits(s, n, FALSE), NEW hole \in 0 .. n - 1,
         NEW b, MoveLastToRemoved(b, s[Row(hole)], Link(s, Row(hole)), hole, Col(hole), n)
  PROVE  MovesLast(b, s, n, hole)
<1>1. PICK e \in Nat : e = n - 1 /\ n = e + 1
  OBVIOUS
<1>2. PICK row \in 1 .. Len(s) : row = Row(hole)
  BY FitsRows
<1>3. PICK chunk : chunk = s[row]
  OBVIOUS
<1>4. PICK rest : rest = Chain(chunk)
  OBVIOUS
<1>5. /\ Len(rest) = Len(s) - row + 1 /\ rest[Len(rest)] = s[Len(s)]
      /\ (IF Len(rest) = 1 THEN Link(s, row) ELSE rest[Len(rest) - 1]) = Link(s, Len(s))
  <2>1. IsRest(rest, s, row)
    BY <1>3, <1>4, LastOfRest
  <2> QED BY <2>1 DEF IsRest
<1>6. Len(s) = Row(e) /\ Len(s) \in Nat /\ Len(s) \in 1 .. Len(s)
  <2>1. Len(s) \in Nat
    BY ChainFacts
  <2> QED BY <1>1, <1>2, <2>1 DEF Fits
<1>7. LastSlot(chunk, hole, Col(hole), n) = Col(e)
  <2>1. hole \in Nat /\ row \in Nat /\ row <= Len(s)
    BY <1>2, <1>6
  <2>2. Len(Chain(chunk)) = Len(s) - row + 1
    BY <1>4, <1>5
  <2>3. Row(hole) <= Row(e) /\ Len(Chain(chunk)) = Row(e) - Row(hole) + 1
    BY <1>2, <1>6, <2>1, <2>2
  <2>4. LastSlot(chunk, hole, Col(hole), e + 1) = Col(e)
    BY ONLY TableAssumption, e \in Nat, <2>1, <2>3, LastSlotIs
  <2> QED BY <1>1, <2>4
<1>8. Link(s, Len(s)) # NULL <=> Len(s) # 1
  <2>1. CASE Len(s) = 1
    BY <2>1 DEF Link
  <2>2. CASE Len(s) # 1
    <3>1. Len(s) - 1 \in 1 .. Len(s)
      BY <1>6, <2>2
    <3>2. s[Len(s) - 1] # NULL
      BY <3>1, ChainFacts
    <3> QED BY <2>2, <3>2 DEF Link
  <2> QED BY <2>1, <2>2
<1>9. Len(s) # 1 => Link(s, Len(s)) = s[Len(s) - 1]
  BY DEF Link
<1>10. PICK last : last = s[Len(s)]
  OBVIOUS
<1>11. PICK before : before = Link(s, Len(s))
  OBVIOUS
<1>12. PICK slot : slot = Col(e)
  OBVIOUS
<1>13. /\ keys' = [keys EXCEPT ![chunk][Col(hole)] = keys[last][slot]]
       /\ values' = [values EXCEPT ![chunk][Col(hole)] = values[last][slot]]
       /\ IF slot = 0 /\ before # NULL THEN FreeLast(before, last) ELSE UNCHANGED <<next, free_list>>
       /\ size' = [size EXCEPT ![b] = n - 1]
  <2>1. MoveLastToRemoved(b, chunk, Link(s, row), hole, Col(hole), n)
    BY <1>2, <1>3
  <2>2. PICK previous : previous = Link(s, row)
    OBVIOUS
  <2>3. PICK col : col = Col(hole)
    OBVIOUS
  <2>4. MoveLastToRemoved(b, chunk, previous, hole, col, n)
    BY <2>1, <2>2, <2>3
  <2>5. /\ rest = Chain(chunk) /\ last = rest[Len(rest)]
        /\ before = IF Len(rest) = 1 THEN previous ELSE rest[Len(rest) - 1]
        /\ slot = LastSlot(chunk, hole, col, n)
    BY <1>4, <1>5, <1>7, <1>10, <1>11, <1>12, <2>2, <2>3
  <2>6. /\ keys' = [keys EXCEPT ![chunk][col] = keys[last][slot]]
        /\ values' = [values EXCEPT ![chunk][col] = values[last][slot]]
        /\ IF slot = 0 /\ before # NULL THEN FreeLast(before, last) ELSE UNCHANGED <<next, free_list>>
        /\ size' = [size EXCEPT ![b] = n - 1]
    BY <2>4, <2>5, Zenon DEF MoveLastToRemoved, MovedValues
  <2> QED BY <2>3, <2>6
<1>14. keys[last][slot] = At(s, keys, e) /\ values[last][slot] = At(s, values, e)
  BY <1>6, <1>10, <1>12 DEF At
<1>15. /\ keys' = [keys EXCEPT ![s[Row(hole)]][Col(hole)] = At(s, keys, n - 1)]
       /\ values' = [values EXCEPT ![s[Row(hole)]][Col(hole)] = At(s, values, n - 1)]
  BY <1>1, <1>2, <1>3, <1>13, <1>14
<1>16. IF Col(n - 1) = 0 /\ Len(s) # 1 THEN FreeLast(s[Len(s) - 1], s[Len(s)]) ELSE UNCHANGED <<next, free_list>>
  <2>1. CASE Col(n - 1) = 0 /\ Len(s) # 1
    <3>1. FreeLast(before, last)
      BY <1>1, <1>8, <1>11, <1>12, <1>13, <2>1
    <3> QED BY <1>9, <1>10, <1>11, <2>1, <3>1
  <2>2. CASE ~(Col(n - 1) = 0 /\ Len(s) # 1)
    BY <1>1, <1>8, <1>11, <1>12, <1>13, <2>2
  <2> QED BY <2>1, <2>2
<1> QED BY <1>13, <1>15, <1>16 DEF MovesLast

(* The chains after the last chunk became empty.                           *)
LEMMA FreedLastChains ==
  ASSUME TableAssumption, TableIInv, NEW b \in Buckets, NEW s, s = ChainOf(b), Len(s) > 1,
         FreeLast(s[Len(s) - 1], s[Len(s)]), UNCHANGED <<head, allocated>>
  PROVE  /\ ChainsOK' /\ ChainOf(b)' = SubSeq(s, 1, Len(s) - 1)
         /\ next' \in [Chunks -> Chunks \cup {NULL}] /\ free_list' \in Chunks \cup {NULL}
         /\ \A d \in Buckets \ {b} : ChainOf(d)' = ChainOf(d)
<1>1. TypeOK /\ ChainsOK
  BY DEF TableIInv
<1>2. IsChain(s, head[b], next) /\ IsChain(FreeChain, free_list, next)
  BY <1>1 DEF ChainsOK
<1>3. PICK l \in Nat : l = Len(s) /\ l > 1
  BY <1>2, ChainFacts
<1>4. l \in 1 .. Len(s) /\ l - 1 \in 1 .. Len(s) /\ l - 1 # l
  BY <1>3
<1>5. PICK last \in Chunks : last = s[Len(s)] /\ last \in Range(s)
  BY <1>2, <1>3, <1>4, ChainFacts
<1>6. PICK before \in Chunks : before = s[Len(s) - 1] /\ before \in Range(s)
  BY <1>2, <1>3, <1>4, ChainFacts
<1>7. before # last
  BY <1>2, <1>3, <1>4, <1>5, <1>6, ChainFacts
<1>8. next' = [next EXCEPT ![before] = NULL, ![last] = free_list] /\ free_list' = last
  BY <1>5, <1>6 DEF FreeLast
<1>9. /\ next' \in [Chunks -> Chunks \cup {NULL}] /\ next'[before] = NULL /\ next'[last] = free_list
      /\ \A d \in Chunks : d # before /\ d # last => next'[d] = next[d]
  BY <1>1, <1>7, <1>8 DEF TypeOK
<1>10. Range(s) \subseteq Chunks /\ Range(FreeChain) \subseteq Chunks /\ Range(s) \cap Range(FreeChain) = {}
  BY <1>1, <1>2, ChainFacts DEF ChainsOK
<1>11. PICK front : front = SubSeq(s, 1, Len(s) - 1)
  OBVIOUS
<1>12. IsChain(front, head[b], next') /\ Range(front) = Range(s) \ {last}
  <2>1. CutsLast(s, head[b], next, next')
    BY <1>2, <1>3, <1>5, <1>6, <1>9, <1>10 DEF CutsLast
  <2> QED BY <1>5, <1>11, <2>1, ChainFront
<1>13. PICK fc : fc = <<last>> \o FreeChain
  OBVIOUS
<1>14. IsChain(fc, last, next') /\ Range(fc) = Range(FreeChain) \cup {last}
  <2>1. last \notin Range(FreeChain) /\ \A d \in Range(FreeChain) : d # before /\ d # last /\ d \in Chunks
    BY <1>5, <1>6, <1>10
  <2>2. Pushes(FreeChain, free_list, next, last, next')
    BY <1>2, <1>9, <2>1 DEF Pushes
  <2> QED BY <1>13, <2>2, ChainPush
<1>15. ASSUME NEW d \in Buckets \ {b} PROVE IsChain(ChainOf(d), head[d], next')
  <2>1. IsChain(ChainOf(d), head[d], next) /\ Range(ChainOf(d)) \cap Range(s) = {}
    BY <1>1 DEF ChainsOK
  <2>2. \A e \in Range(ChainOf(d)) : next'[e] = next[e]
    <3>1. Range(ChainOf(d)) \subseteq Chunks
      BY <2>1, ChainFacts
    <3> QED BY <1>5, <1>6, <1>9, <2>1, <3>1
  <2> QED BY <2>1, <2>2, ChainStays
<1>16. PICK ch : ch = [d \in Buckets |-> IF d = b THEN front ELSE ChainOf(d)]
  OBVIOUS
<1>17. ch[b] = front /\ \A d \in Buckets \ {b} : ch[d] = ChainOf(d)
  BY <1>16
<1>18. Range(ch[b]) = Range(s) \ {last} /\ \A d \in Buckets \ {b} : Range(ch[d]) = Range(ChainOf(d))
  BY <1>12, <1>17
<1>19. \A d \in Buckets : IsChain(ch[d], head'[d], next')
  BY <1>12, <1>15, <1>17
<1>20. /\ \A d \in Buckets : Range(ChainOf(d)) \cap Range(FreeChain) = {}
       /\ \A d, e \in Buckets : d # e => Range(ChainOf(d)) \cap Range(ChainOf(e)) = {}
       /\ \A c \in Chunks :
            c \in allocated <=> c \in Range(FreeChain) \/ \E d \in Buckets : c \in Range(ChainOf(d))
  BY <1>1 DEF ChainsOK
<1>21. \A d \in Buckets \ {b} : last \notin Range(ChainOf(d))
  BY <1>5, <1>20
<1>22. \A d \in Buckets : Range(ch[d]) \cap Range(fc) = {}
  BY <1>14, <1>18, <1>20, <1>21
<1>23. \A d, e \in Buckets : d # e => Range(ch[d]) \cap Range(ch[e]) = {}
  BY <1>18, <1>20
<1>24. \A c \in Chunks :
         c \in allocated' <=> c \in Range(fc) \/ \E d \in Buckets : c \in Range(ch[d])
  <2> SUFFICES ASSUME NEW c \in Chunks
               PROVE  c \in allocated' <=> c \in Range(fc) \/ \E d \in Buckets : c \in Range(ch[d])
    OBVIOUS
  <2>1. CASE c = last
    <3>1. c \in allocated /\ c \in Range(fc)
      BY <1>5, <1>14, <1>20, <2>1
    <3> QED BY <3>1
  <2>2. CASE c # last
    <3>1. c \in Range(fc) <=> c \in Range(FreeChain)
      BY <1>14, <2>2
    <3>2. \A d \in Buckets : c \in Range(ch[d]) <=> c \in Range(ChainOf(d))
      BY <1>18, <2>2
    <3> QED BY <1>20, <3>1, <3>2
  <2> QED BY <2>1, <2>2
<1>25. IsChain(fc, free_list', next')
  BY <1>8, <1>14
<1>26. ChainsOK' /\ \A d \in Buckets : ChainOf(d)' = ch[d]
  BY <1>19, <1>22, <1>23, <1>24, <1>25, ChainsBecome
<1> QED BY <1>8, <1>9, <1>11, <1>17, <1>26

(* The bucket and the chains after a removal.                              *)
Removed(b, s, n, hole) ==
  /\ ChainsOK' /\ TableTyped' /\ \A d \in Buckets \ {b} : Untouched(d)
  /\ size'[b] = n - 1 /\ n - 1 \in CountRange
  /\ PairsIn(ChainOf(b)', keys', values', n - 1, b) /\ Fits(ChainOf(b)', n - 1, FALSE)
  /\ Replaces(s, keys, ChainOf(b)', keys', n, hole)
  /\ Replaces(s, values, ChainOf(b)', values', n, hole)
  /\ Len(s) = 1 => ChainOf(b)' = s

(* The chains after it: every chunk is still in one of them.               *)
LEMMA RemovalChains ==
  ASSUME TableAssumption, TableIInv, NEW b \in Buckets, NEW s, s = ChainOf(b),
         NEW n \in Nat \ {0}, NEW hole, MovesLast(b, s, n, hole), UNCHANGED <<head, allocated>>,
         Len(s) \in Nat, Len(s) # 0
  PROVE  /\ ChainsOK' /\ next' \in [Chunks -> Chunks \cup {NULL}] /\ free_list' \in Chunks \cup {NULL}
         /\ \A d \in Buckets \ {b} : ChainOf(d)' = ChainOf(d)
         /\ Len(ChainOf(b)') = IF Col(n - 1) = 0 /\ Len(s) # 1 THEN Len(s) - 1 ELSE Len(s)
         /\ \A i \in 1 .. Len(ChainOf(b)') : ChainOf(b)'[i] = s[i]
         /\ Len(s) = 1 => ChainOf(b)' = s
<1>1. CASE Col(n - 1) = 0 /\ Len(s) # 1
  <2>1. FreeLast(s[Len(s) - 1], s[Len(s)])
    BY <1>1 DEF MovesLast
  <2>2. PICK l \in Nat : l = Len(s) /\ l > 1
    <3>1. PICK m : m = Len(s)
      OBVIOUS
    <3>2. m \in Nat /\ m # 0 /\ m # 1
      BY <1>1, <3>1
    <3>3. m > 1
      BY <3>2
    <3> QED BY <3>1, <3>2, <3>3
  <2>3. PICK z : z = SubSeq(s, 1, Len(s) - 1)
    OBVIOUS
  <2>4. /\ ChainsOK' /\ next' \in [Chunks -> Chunks \cup {NULL}] /\ free_list' \in Chunks \cup {NULL}
        /\ ChainOf(b)' = z /\ \A d \in Buckets \ {b} : ChainOf(d)' = ChainOf(d)
    BY <2>1, <2>2, <2>3, FreedLastChains
  <2>5. s \in Seq(Chunks)
    BY BucketFacts DEF IsChain
  <2>6. Len(z) = l - 1 /\ \A i \in 1 .. l - 1 : z[i] = s[i]
    BY <2>2, <2>3, <2>5, SubSeqProperties
  <2> QED BY <1>1, <2>2, <2>4, <2>6
<1>2. CASE ~(Col(n - 1) = 0 /\ Len(s) # 1)
  <2>1. UNCHANGED <<next, free_list>>
    BY <1>2 DEF MovesLast
  <2>2. TypeOK /\ ChainsOK
    BY DEF TableIInv
  <2>3. FreeChain' = FreeChain /\ \A d : ChainOf(d)' = ChainOf(d)
    BY <2>1 DEF FreeChain, ChainOf, Chain
  <2>4. ChainsOK'
    BY <2>1, <2>2, <2>3 DEF ChainsOK
  <2>5. next' \in [Chunks -> Chunks \cup {NULL}] /\ free_list' \in Chunks \cup {NULL}
    BY <2>1, <2>2 DEF TypeOK
  <2> QED BY <1>2, <2>3, <2>4, <2>5
<1> QED BY <1>1, <1>2

(* The bucket after it: one pair fewer, and the others as before.          *)
LEMMA RemovalMeans ==
  ASSUME TableAssumption, TableIInv, NEW t \in Threads,
         NEW w \in Locals, NEW c \in AnyCall, NEW r \in Results, NEW b \in Buckets, NEW n \in CountRange,
         NEW s, View(t, w, c, r, b, n, s), pc[t] \in WritePlaces, NEW hole \in 0 .. n - 1,
         MoveLastToRemoved(b, s[Row(hole)], Link(s, Row(hole)), hole, Col(hole), n),
         UNCHANGED <<head, allocated>>
  PROVE  Removed(b, s, n, hole)
<1>1. /\ IsChain(s, head[b], next) /\ s = ChainOf(b) /\ n \in Nat /\ n = size[b] /\ w = self[t] /\ b = w.b
      /\ n \in Nat \ {0}
  BY DEF View
<1>2. TypeOK /\ ChainsOK /\ LocksOK
  BY DEF TableIInv
<1>3. Fits(s, n, FALSE)
  <2>1. ~\E u \in Threads : Fills(u, b)
    BY <1>1, <1>2, NobodyElseInside
  <2>2. Fits(s, n, \E u \in Threads : Fills(u, b))
    BY <1>1, BucketFacts
  <2> QED BY <2>1, <2>2 DEF Fits
<1>4. PICK e \in Nat : e = n - 1 /\ n = e + 1 /\ e \in 0 .. n - 1
  <2>1. n - 1 \in Nat /\ n = (n - 1) + 1 /\ n - 1 \in 0 .. n - 1
    BY <1>1
  <2> QED BY <2>1
<1>5. PICK l \in Nat : l = Len(s) /\ \A m \in 0 .. n - 1 : Row(m) \in 1 .. l
  BY <1>1, <1>3, ChainFacts, FitsRows
<1>6. MovesLast(b, s, n, hole)
  BY <1>1, <1>3, MoveMeans
<1>7. PairsIn(s, keys, values, n, b)
  BY <1>1, BucketFacts
<1>8. PICK key \in Keys, v \in Values : key = At(s, keys, e) /\ v = At(s, values, e)
  BY <1>4, <1>7 DEF PairsIn
<1>9. PICK kr : kr = keys'
  OBVIOUS
<1>10. PICK vr : vr = values'
  OBVIOUS
<1>11. hole \in Nat /\ Row(hole) \in 1 .. Len(s)
  BY <1>5
<1>12. kr \in [Chunks -> [Slots -> Keys \cup {NULL}]] /\ OneWritten(s, keys, kr, hole, key)
  <2>1. PICK S : S = Keys \cup {NULL}
    OBVIOUS
  <2>2. keys \in [Chunks -> [Slots -> S]] /\ key \in S
    BY <1>2, <2>1 DEF TypeOK
  <2>3. kr = [keys EXCEPT ![s[Row(hole)]][Col(hole)] = key]
    BY <1>4, <1>6, <1>8, <1>9 DEF MovesLast
  <2>4. WritesOne(s, keys, kr, S, hole, key)
    BY <1>11, <2>2, <2>3 DEF WritesOne
  <2>5. kr \in [Chunks -> [Slots -> S]] /\ OneWritten(s, keys, kr, hole, key)
    BY <1>1, <2>4, EntryWritten
  <2> QED BY <2>1, <2>5
<1>13. vr \in [Chunks -> [Slots -> Values \cup {NULL}]] /\ OneWritten(s, values, vr, hole, v)
  <2>1. PICK S : S = Values \cup {NULL}
    OBVIOUS
  <2>2. values \in [Chunks -> [Slots -> S]] /\ v \in S
    BY <1>2, <2>1 DEF TypeOK
  <2>3. vr = [values EXCEPT ![s[Row(hole)]][Col(hole)] = v]
    BY <1>4, <1>6, <1>8, <1>10 DEF MovesLast
  <2>4. WritesOne(s, values, vr, S, hole, v)
    BY <1>11, <2>2, <2>3 DEF WritesOne
  <2>5. vr \in [Chunks -> [Slots -> S]] /\ OneWritten(s, values, vr, hole, v)
    BY <1>1, <2>4, EntryWritten
  <2> QED BY <2>1, <2>5
<1>14. PICK z : z = ChainOf(b)'
  OBVIOUS
<1>15. /\ ChainsOK' /\ next' \in [Chunks -> Chunks \cup {NULL}] /\ free_list' \in Chunks \cup {NULL}
       /\ \A d \in Buckets \ {b} : ChainOf(d)' = ChainOf(d)
       /\ Len(z) = IF Col(n - 1) = 0 /\ Len(s) # 1 THEN Len(s) - 1 ELSE Len(s)
       /\ \A i \in 1 .. Len(z) : z[i] = s[i]
       /\ Len(s) = 1 => z = s
  <2>1. 0 \in 0 .. n - 1
    BY <1>1
  <2>2. Row(0) \in 1 .. l
    BY <1>5, <2>1
  <2>3. Len(s) \in Nat /\ Len(s) # 0
    BY <1>5, <2>2
  <2>4. s = ChainOf(b) /\ n \in Nat \ {0}
    BY <1>1
  <2> QED BY <1>6, <1>14, <2>3, <2>4, RemovalChains
<1>16. Fits(z, e, FALSE) /\ \A m \in 0 .. n - 2 : Row(m) <= Len(z)
  BY <1>1, <1>3, <1>4, <1>5, <1>15, FitsWhenRemoved
<1>17. \A m \in 0 .. n - 2 : m \in Nat /\ Row(m) \in 1 .. Len(s) /\ z[Row(m)] = s[Row(m)]
  <2> SUFFICES ASSUME NEW m \in 0 .. n - 2
               PROVE  m \in Nat /\ Row(m) \in 1 .. Len(s) /\ z[Row(m)] = s[Row(m)]
    OBVIOUS
  <2>1. m \in 0 .. n - 1 /\ m \in Nat
    BY <1>1
  <2>2. PICK row \in 1 .. l : row = Row(m)
    BY <1>5, <2>1
  <2>3. PICK k \in Int : k = Len(z)
    <3>1. l - 1 \in Int /\ l \in Int
      OBVIOUS
    <3> QED BY <1>5, <1>15, <3>1
  <2>4. row <= k
    BY <1>16, <2>2, <2>3
  <2>5. row \in 1 .. k
    BY <2>4
  <2> QED BY <1>5, <1>15, <2>1, <2>2, <2>3, <2>5
<1>18. Replaces(s, keys, z, kr, n, hole)
  BY <1>4, <1>8, <1>12, <1>17 DEF Replaces, OneWritten, At
<1>19. Replaces(s, values, z, vr, n, hole)
  BY <1>4, <1>8, <1>13, <1>17 DEF Replaces, OneWritten, At
<1>20. PairsIn(z, kr, vr, n - 1, b)
  BY <1>1, <1>7, <1>18, <1>19, PairsRemoved
<1>21. e \in CountRange /\ size' = [size EXCEPT ![b] = e]
  <2>1. e <= n
    BY <1>4
  <2> QED BY <1>4, <1>6, <2>1, CountsBelow DEF MovesLast
<1>22. size' \in [Buckets -> CountRange] /\ size'[b] = e /\ \A d \in Buckets \ {b} : size'[d] = size[d]
  BY <1>2, <1>21 DEF TypeOK
<1>23. ASSUME NEW d \in Buckets \ {b} PROVE Untouched(d)
  <2>1. Range(ChainOf(d)) \cap Range(s) = {} /\ IsChain(ChainOf(d), head[d], next)
    BY <1>1, <1>2 DEF ChainsOK
  <2>2. Alike(ChainOf(d), keys, values, kr, vr)
    BY <1>12, <1>13, <2>1, OtherChainAlike DEF OneWritten
  <2> QED BY <1>9, <1>10, <1>15, <1>22, <2>2 DEF Untouched
<1>24. TableTyped'
  BY <1>2, <1>9, <1>10, <1>12, <1>13, <1>15, <1>22 DEF TableTyped, TypeOK
<1>25. size'[b] = n - 1 /\ n - 1 \in CountRange /\ Fits(z, n - 1, FALSE)
  BY <1>4, <1>16, <1>21, <1>22
<1> QED BY <1>9, <1>10, <1>14, <1>15, <1>18, <1>19, <1>20, <1>23, <1>24, <1>25 DEF Removed

(* A step that removes a pair under the writer lock keeps the invariant.   *)
LEMMA RemovalStep ==
  ASSUME TableAssumption, TableIInv, NEW t \in Threads,
         NEW w \in Locals, NEW c \in AnyCall, NEW r \in Results, NEW b \in Buckets, NEW n \in CountRange,
         NEW s, View(t, w, c, r, b, n, s), pc[t] \in WritePlaces, NEW hole, Removed(b, s, n, hole),
         NEW place \in {"visit", "w_unlock"}, NEW x \in Locals, NEW q \in Results,
         pc' = [pc EXCEPT ![t] = place], self' = [self EXCEPT ![t] = x],
         result' = [result EXCEPT ![t] = q] \/ (q = r /\ result' = result),
         UNCHANGED <<mode, insert_lock, call>>, x.b = b,
         ThreadAt(place, c, x, q, n - 1, ChainOf(b)', keys', values')
  PROVE  TableIInv'
<1>1. TypeOK /\ LocksOK
  BY DEF TableIInv
<1>2. w = self[t] /\ b = self[t].b /\ c = call[t] /\ r = result[t]
  BY DEF View
<1>3. ~\E u \in Threads : Fills(u, b)'
  <2>1. ~\E u \in Threads : Fills(u, b)
    BY <1>1, <1>2, NobodyElseInside
  <2>2. pc'[t] \notin {"write", "publish"}
        /\ \A u \in Threads \ {t} : pc'[u] = pc[u] /\ self'[u] = self[u]
    BY <1>1 DEF TypeOK
  <2> QED BY <2>1, <2>2 DEF Fills
<1>4. BucketOK(b)'
  <2>1. Fits(ChainOf(b)', n - 1, (\E u \in Threads : Fills(u, b))')
    BY <1>3 DEF Removed, Fits
  <2> QED BY <2>1 DEF Removed, BucketOK
<1>5. result' = [result EXCEPT ![t] = q]
  BY <1>2, ThreadFacts, MovesKeeping
<1>6. place \in Location /\ SameLocks(pc[t], place)
  BY DEF Location, SameLocks, ReadPlaces, WritePlaces, LockedPlaces
<1>7. ThreadAt(place, call[t], x, q, size'[b], ChainOf(b)', keys', values')
  BY <1>2 DEF Removed
<1>8. TableTyped' /\ ChainsOK' /\ \A d \in Buckets \ {b} : Untouched(d)
  BY DEF Removed
<1> QED BY <1>2, <1>4, <1>5, <1>6, <1>7, <1>8, TableStep

(* The model's pairs are the entries of the chain.                         *)
LEMMA PairAt ==
  ASSUME NEW b, NEW n
  PROVE  /\ ChunkOf(b, n) = ChainOf(b)[Row(n)] /\ SlotOf(n) = Col(n)
         /\ KeyAt(b, n) = At(ChainOf(b), keys, n) /\ ValueAt(b, n) = At(ChainOf(b), values, n)
BY DEF ChunkOf, SlotOf, KeyAt, ValueAt, At, Row, Col, ChainOf

(* The pair that Remove removes.                                           *)
Removes(t, b, s, n, hole, key, r) ==
  /\ At(s, keys, hole) = key
  /\ result' = [result EXCEPT ![t] = Result(At(s, values, hole), TRUE)]
  /\ MoveLastToRemoved(b, s[Row(hole)], Link(s, Row(hole)), hole, Col(hole), n)

(* remove finds its key and removes that pair.                             *)
LEMMA RemoveMeans ==
  ASSUME TableAssumption, TableIInv, NEW t \in Threads, Remove(t),
         NEW w \in Locals, NEW c \in AnyCall, NEW r \in Results, NEW b \in Buckets, NEW n \in CountRange,
         NEW s, View(t, w, c, r, b, n, s)
  PROVE  \E hole \in 0 .. n - 1 : Removes(t, b, s, n, hole, c.key, r)
<1>1. w = self[t] /\ b = self[t].b /\ c = call[t] /\ n = size[b] /\ s = ChainOf(b) /\ n \in Nat
  BY DEF View
<1>2. PICK hole \in 0 .. n - 1 :
        /\ KeyAt(b, hole) = c.key
        /\ result' = [result EXCEPT ![t] = Result(ValueAt(b, hole), TRUE)]
        /\ MoveLastToRemoved(b, ChunkOf(b, hole),
             IF hole < NPairsPerChunk THEN NULL ELSE ChunkOf(b, hole - NPairsPerChunk),
             hole, SlotOf(hole), n)
  BY <1>1 DEF Remove, Return
<1>3. hole \in Nat
  BY <1>1
<1>4. ChunkOf(b, hole) = s[Row(hole)] /\ SlotOf(hole) = Col(hole)
  BY <1>1, PairAt
<1>5. (IF hole < NPairsPerChunk THEN NULL ELSE ChunkOf(b, hole - NPairsPerChunk)) = Link(s, Row(hole))
  <2>1. CASE hole < NPairsPerChunk
    <3>1. Row(hole) = 1
      BY <1>3, <2>1, RowBefore
    <3> QED BY <2>1, <3>1 DEF Link
  <2>2. CASE ~(hole < NPairsPerChunk)
    <3>1. hole >= NPairsPerChunk
      BY <1>3, <2>2 DEF TableAssumption
    <3>2. Row(hole) # 1 /\ Row(hole - NPairsPerChunk) = Row(hole) - 1
      BY <1>3, <2>2, <3>1, RowBefore
    <3>3. ChunkOf(b, hole - NPairsPerChunk) = s[Row(hole - NPairsPerChunk)]
      BY <1>1, PairAt
    <3> QED BY <2>2, <3>2, <3>3 DEF Link
  <2> QED BY <2>1, <2>2
<1>6. PICK previous : previous = IF hole < NPairsPerChunk THEN NULL ELSE ChunkOf(b, hole - NPairsPerChunk)
  OBVIOUS
<1>7. MoveLastToRemoved(b, s[Row(hole)], previous, hole, Col(hole), n)
  BY <1>2, <1>4, <1>6
<1>8. previous = Link(s, Row(hole))
  BY <1>5, <1>6
<1>9. MoveLastToRemoved(b, s[Row(hole)], Link(s, Row(hole)), hole, Col(hole), n)
  BY <1>7, <1>8
<1>10. KeyAt(b, hole) = At(s, keys, hole) /\ ValueAt(b, hole) = At(s, values, hole)
  BY <1>1, PairAt
<1>11. Removes(t, b, s, n, hole, c.key, r)
  BY <1>2, <1>9, <1>10 DEF Removes
<1> QED BY <1>11

(* remove.                                                                 *)
LEMMA RemoveKeeps ==
  ASSUME TableAssumption, TableIInv, NEW t \in Threads, Remove(t)
  PROVE  TableIInv'
<1>1. PICK w \in Locals, c \in AnyCall, r \in Results, b \in Buckets, n \in CountRange :
        \E s : View(t, w, c, r, b, n, s)
  BY ThreadView
<1>2. PICK s : View(t, w, c, r, b, n, s)
  BY <1>1
<1>3. PICK hole \in 0 .. n - 1 : Removes(t, b, s, n, hole, c.key, r)
  BY <1>2, RemoveMeans
<1>4. /\ pc[t] = "remove" /\ pc' = [pc EXCEPT ![t] = "w_unlock"]
      /\ UNCHANGED <<head, insert_lock, mode, allocated, call, self>>
  BY DEF Remove, Goto
<1>5. pc[t] \in WritePlaces /\ "w_unlock" \in WritePlaces
  BY <1>4 DEF WritePlaces
<1>6. Removed(b, s, n, hole)
  BY <1>2, <1>3, <1>4, <1>5, RemovalMeans DEF Removes
<1>7. PICK q : q = Result(At(s, values, hole), TRUE)
  OBVIOUS
<1>8. q \in Results
  <2>1. At(s, values, hole) \in Values
    BY <1>2, BucketFacts DEF View, PairsIn
  <2> QED BY <1>7, <2>1 DEF Result, Results
<1>9. CallAt("remove", c, w.b, r) /\ w.b = b
  BY <1>2, <1>4 DEF View, ThreadAt
<1>10. CallAt("w_unlock", c, w.b, q) /\ c.op = "remove"
  BY <1>9 DEF CallAt, OnKey, OnAll, GetPlaces
<1>11. ThreadAt("w_unlock", c, w, q, n - 1, ChainOf(b)', keys', values')
  <2>1. PICK z, kr, vr : z = ChainOf(b)' /\ kr = keys' /\ vr = values'
    OBVIOUS
  <2>2. VisitAt("w_unlock", w, c, n - 1, z, kr)
    BY <1>10 DEF VisitAt
  <2>3. ThreadAt("w_unlock", c, w, q, n - 1, z, kr, vr)
    BY <1>5, <1>10, <2>2, RemoverAt
  <2> QED BY <2>1, <2>3
<1>12. self' = [self EXCEPT ![t] = w] /\ result' = [result EXCEPT ![t] = q]
  <2>1. w = self[t]
    BY <1>2 DEF View
  <2> QED BY <1>3, <1>4, <1>7, <2>1, ThreadFacts, MovesKeeping DEF Removes
<1>13. UNCHANGED <<mode, insert_lock, call>> /\ w.b = b
  BY <1>4, <1>9
<1>14. "w_unlock" \in {"visit", "w_unlock"} /\ w \in Locals
  OBVIOUS
<1>15. /\ pc' = [pc EXCEPT ![t] = "w_unlock"] /\ self' = [self EXCEPT ![t] = w]
       /\ result' = [result EXCEPT ![t] = q] \/ (q = r /\ result' = result)
  BY <1>4, <1>12
<1> QED BY ONLY TableAssumption, TableIInv, <1>2, <1>5, <1>6, <1>8, <1>11, <1>13, <1>14, <1>15, RemovalStep

(* remove_if removes a pair that its predicate accepts.                    *)
LEMMA VisitRemoveKeeps ==
  ASSUME TableAssumption, OneChunkIfRemoveIf, TableIInv, NEW t \in Threads, VisitRemove(t)
  PROVE  TableIInv'
<1>1. PICK w \in Locals, c \in AnyCall, r \in Results, b \in Buckets, n \in CountRange :
        \E s : View(t, w, c, r, b, n, s)
  BY ThreadView
<1>2. PICK s : View(t, w, c, r, b, n, s)
  BY <1>1
<1>3. /\ w = self[t] /\ w.b = b /\ c = call[t] /\ r = result[t] /\ n = size[b] /\ s = ChainOf(b)
      /\ n \in Nat /\ w.i \in Nat /\ w.j \in Nat /\ IsChain(s, head[b], next)
  BY <1>2 DEF View
<1>4. PICK x : x = [w EXCEPT !.current = w.current - 1]
  OBVIOUS
<1>5. /\ pc[t] = "visit" /\ w.link # NULL /\ w.i < w.current
      /\ MoveLastToRemoved(b, w.link, NULL, w.i, w.j, w.current)
      /\ self' = [self EXCEPT ![t] = x]
      /\ UNCHANGED <<head, insert_lock, mode, allocated, pc, call, result>>
  BY <1>3, <1>4 DEF VisitRemove, Visiting, Set
<1>6. VisitKnown(w, c, r, n, s)
  BY <1>2, <1>5, VisitFacts
<1>7. /\ Len(s) = 1 /\ w.link = s[1] /\ w.i = w.j /\ w.current = n /\ NoneAccepted(c.accepts, w.i, s, keys)
      /\ c \in [op : {"remove_if"}, accepts : SUBSET Keys]
  BY <1>5, <1>6 DEF VisitKnown
<1>8. PICK hole \in 0 .. n - 1 : hole = w.i
  BY <1>3, <1>5, <1>7
<1>9. Row(hole) = 1 /\ Col(hole) = hole
  BY <1>6 DEF VisitKnown
<1>10. MoveLastToRemoved(b, s[Row(hole)], Link(s, Row(hole)), hole, Col(hole), n)
  <2>1. Link(s, Row(hole)) = NULL /\ s[Row(hole)] = w.link /\ Col(hole) = w.j
    BY <1>7, <1>8, <1>9 DEF Link
  <2>2. MoveLastToRemoved(b, w.link, NULL, hole, w.j, n)
    BY <1>5, <1>7, <1>8
  <2> QED BY <2>1, <2>2
<1>11. pc[t] \in WritePlaces /\ "visit" \in WritePlaces
  BY <1>5 DEF WritePlaces
<1>12. Removed(b, s, n, hole)
  BY <1>2, <1>5, <1>10, <1>11, RemovalMeans
<1>13. n - 1 \in CountRange /\ ChainOf(b)' = s /\ Replaces(s, keys, ChainOf(b)', keys', n, hole)
  BY <1>7, <1>12 DEF Removed
<1>14. x \in Locals /\ x.b = b /\ x.i = w.i /\ x.j = w.j /\ x.link = w.link /\ x.current = n - 1
  BY <1>3, <1>4, <1>7, <1>13 DEF Locals
<1>15. PICK kr : kr = keys'
  OBVIOUS
<1>16. PICK vr : vr = values'
  OBVIOUS
<1>17. Replaces(s, keys, s, kr, n, hole)
  BY <1>13, <1>15
<1>18. NoneAccepted(c.accepts, w.i, s, kr)
  <2>1. \A m \in 0 .. w.i - 1 : m \in 0 .. n - 2 /\ m # hole
    BY <1>3, <1>8
  <2> QED BY <1>7, <1>17, <2>1 DEF NoneAccepted, Replaces
<1>19. VisitAt("visit", x, c, n - 1, s, kr)
  <2>1. s # << >>
    BY <1>3, <1>7, ChainFacts
  <2>2. w.i <= n - 1
    BY <1>3, <1>8
  <2> QED BY <1>7, <1>14, <1>18, <2>1, <2>2 DEF VisitAt
<1>20. CallAt("visit", c, x.b, r)
  <2>1. CallAt("visit", c, w.b, r)
    BY <1>2, <1>5 DEF View, ThreadAt
  <2> QED BY <1>3, <1>14, <2>1
<1>21. ThreadAt("visit", c, x, r, n - 1, s, kr, vr)
  BY <1>11, <1>19, <1>20, RemoverAt
<1>22. ThreadAt("visit", c, x, r, n - 1, ChainOf(b)', keys', values')
  BY <1>13, <1>15, <1>16, <1>21
<1>23. pc' = [pc EXCEPT ![t] = "visit"] /\ result' = result
  BY <1>5, ThreadFacts, MovesKeeping
<1>24. UNCHANGED <<mode, insert_lock, call>> /\ x.b = b
  BY <1>5, <1>14
<1>25. /\ pc[t] \in WritePlaces /\ View(t, w, c, r, b, n, s) /\ Removed(b, s, n, hole)
       /\ self' = [self EXCEPT ![t] = x] /\ x \in Locals /\ "visit" \in {"visit", "w_unlock"}
  BY <1>2, <1>5, <1>11, <1>12, <1>14
<1> QED BY ONLY TableAssumption, TableIInv, <1>22, <1>23, <1>24, <1>25, RemovalStep

-----------------------------------------------------------------------------
(* The empty chain. *)
LEMMA EmptyChain ==
  ASSUME TableAssumption, NEW links
  PROVE  /\ IsChain(<< >>, NULL, links) /\ ChainFrom(NULL, links) = << >>
         /\ Range(<< >>) = {} /\ Len(<< >>) = 0
<1>1. << >> \in Seq(Chunks) /\ Len(<< >>) = 0 /\ DOMAIN << >> = {}
  OBVIOUS
<1>2. 1 .. 0 = {}
  OBVIOUS
<1>3. IsChain(<< >>, NULL, links)
  <2>1. IsInjective(<< >>)
    BY <1>1 DEF IsInjective
  <2>2. \A i \in 1 .. Len(<< >>) : FALSE
    BY <1>1
  <2> QED BY <1>1, <2>1, <2>2 DEF IsChain
<1>4. Range(<< >>) = {}
  BY <1>1 DEF Range
<1> QED BY <1>1, <1>3, <1>4, ChainIs

(* A table without chunks or calls, before a step or after one.            *)
LEMMA EmptyBucket ==
  ASSUME TableAssumption, NEW b, NEW ks, NEW vs
  PROVE  PairsIn(<< >>, ks, vs, 0, b) /\ Fits(<< >>, 0, FALSE)
<1>1. \A m \in 0 .. 0 - 1 : FALSE
  OBVIOUS
<1>2. Len(<< >>) <= 1
  OBVIOUS
<1> QED BY <1>1, <1>2 DEF PairsIn, Fits

(* A thread outside of the table knows nothing.                            *)
LEMMA IdleAt ==
  ASSUME NEW w, NEW r, NEW n, NEW s, NEW ks, NEW vs
  PROVE  ThreadAt("idle", NoCall, w, r, n, s, ks, vs)
<1>1. "idle" \notin {"r_lock", "w_lock"} \cup Searching \cup {"locked_scan", "new_chunk", "write", "publish"}
      /\ "idle" \notin Found \cup {"visit", "w_unlock"}
  BY DEF Searching, Found
<1> QED BY <1>1 DEF ThreadAt, CallAt, SearchAt, WrittenAt, VisitAt

(* Freeing the table leaves it empty, with no chunk allocated.             *)
LEMMA FreeChunksKeeps ==
  ASSUME TableAssumption, TableIInv, FreeChunks
  PROVE  TableIInv'
<1>1. /\ \A t \in Threads : pc[t] = "idle"
      /\ size' = [b \in Buckets |-> 0] /\ head' = [b \in Buckets |-> NULL] /\ free_list' = NULL
      /\ keys' = [c \in Chunks |-> [j \in Slots |-> NULL]]
      /\ values' = [c \in Chunks |-> [j \in Slots |-> NULL]]
      /\ next' = [c \in Chunks |-> NULL]
      /\ allocated' = allocated \ (InChains \cup InFreeList)
      /\ UNCHANGED <<insert_lock, mode, pc, call, self, result>>
  BY DEF FreeChunks
<1>2. TypeOK /\ call \in [Threads -> AnyCall] /\ LocksOK /\ ChainsOK
  BY DEF TableIInv
<1>3. allocated' = {}
  <2>1. \A c \in allocated : c \in InFreeList \/ c \in InChains
    <3> SUFFICES ASSUME NEW c \in allocated, c \notin InFreeList PROVE c \in InChains
      OBVIOUS
    <3>1. c \in Chunks
      BY <1>2 DEF TypeOK
    <3>2. PICK b \in Buckets : c \in Range(ChainOf(b))
      BY <1>2, <3>1 DEF ChainsOK, InFreeList, FreeChain
    <3> QED BY <3>2 DEF InChains, ChainOf
  <2> QED BY <1>1, <2>1
<1>4. PICK ch : ch = [b \in Buckets |-> << >>]
  OBVIOUS
<1>5. \A b \in Buckets : ch[b] = << >> /\ head'[b] = NULL /\ size'[b] = 0
  BY <1>1, <1>4
<1>6. ChainsOK' /\ FreeChain' = << >> /\ \A b \in Buckets : ChainOf(b)' = ch[b]
  <2>1. \A b \in Buckets : IsChain(ch[b], head'[b], next')
    BY <1>5, EmptyChain
  <2>2. IsChain(<< >>, free_list', next')
    BY <1>1, EmptyChain
  <2>3. Range(<< >>) = {} /\ \A b \in Buckets : Range(ch[b]) = {}
    BY <1>5, EmptyChain
  <2>4. \A b \in Buckets : Range(ch[b]) \cap Range(<< >>) = {}
    BY <2>3
  <2>5. \A b, d \in Buckets : b # d => Range(ch[b]) \cap Range(ch[d]) = {}
    BY <2>3
  <2>6. \A c \in Chunks : c \in allocated' <=> c \in Range(<< >>) \/ \E b \in Buckets : c \in Range(ch[b])
    BY <1>3, <2>3
  <2> QED BY <2>1, <2>2, <2>4, <2>5, <2>6, ChainsBecome
<1>7. TypeOK'
  <2>1. 0 \in CountRange
    <3>1. Cardinality(Keys) \in Nat
      BY FS_CardinalityType DEF TableAssumption
    <3> QED BY <3>1 DEF CountRange
  <2> QED BY <1>1, <1>2, <1>3, <2>1 DEF TypeOK
<1>8. LocksOK'
  BY <1>1, <1>2 DEF LocksOK, Reads, Writes, Locks
<1>9. ASSUME NEW b \in Buckets PROVE BucketOK(b)'
  <2>1. ~\E t \in Threads : Fills(t, b)'
    BY <1>1 DEF Fills
  <2>2. ChainOf(b)' = << >> /\ size'[b] = 0
    BY <1>5, <1>6
  <2>3. Fits(<< >>, 0, (\E t \in Threads : Fills(t, b))')
    BY <2>1, EmptyBucket DEF Fits
  <2>4. PairsIn(<< >>, keys', values', 0, b)
    BY EmptyBucket
  <2>5. PairsIn(ChainOf(b)', keys', values', size'[b], b)
    BY <2>2, <2>4
  <2>6. Fits(ChainOf(b)', size'[b], (\E t \in Threads : Fills(t, b))')
    BY <2>2, <2>3
  <2> QED BY <2>5, <2>6 DEF BucketOK
<1>10. ASSUME NEW t \in Threads PROVE ThreadOK(t)'
  <2>1. call[t] = NoCall
    BY <1>1, ThreadFacts DEF ThreadAt, CallAt
  <2> QED BY <1>1, <2>1, IdleAt DEF ThreadOK
<1> QED BY <1>1, <1>2, <1>6, <1>7, <1>8, <1>9, <1>10 DEF TableIInv

-----------------------------------------------------------------------------
(* The invariant holds, and what it says of the table. *)
LEMMA InitKeeps ==
  ASSUME TableAssumption, Init
  PROVE  TableIInv
<1>1. /\ size = [b \in Buckets |-> 0] /\ head = [b \in Buckets |-> NULL] /\ free_list = NULL
      /\ allocated = {}
      /\ insert_lock = [b \in Buckets |-> FALSE] /\ mode = [b \in Buckets |-> [t \in Threads |-> "out"]]
      /\ pc = [t \in Threads |-> "idle"] /\ call = [t \in Threads |-> NoCall]
      /\ self = [t \in Threads |-> NoLocals] /\ result = [t \in Threads |-> Result(NULL, FALSE)]
  BY DEF Init
<1>2. 1 \in Buckets
  BY DEF Buckets, TableAssumption
<1>3. NoLocals \in Locals /\ Result(NULL, FALSE) \in Results
  BY <1>2, FreshLocals
<1>4. TypeOK
  <2>1. 0 \in CountRange
    <3>1. Cardinality(Keys) \in Nat
      BY FS_CardinalityType DEF TableAssumption
    <3> QED BY <3>1 DEF CountRange
  <2>2. pc \in [Threads -> Location]
    BY <1>1 DEF Location
  <2>3. self \in [Threads -> Locals] /\ result \in [Threads -> Results]
    BY <1>1, <1>3
  <2> QED BY <2>1, <2>2, <2>3 DEF TypeOK, Init, Locals, Results
<1>5. call \in [Threads -> AnyCall]
  BY <1>1 DEF AnyCall
<1>6. \A t \in Threads : pc[t] \notin ReadPlaces \cup WritePlaces \cup LockedPlaces \cup {"write", "publish"}
  BY <1>1 DEF ReadPlaces, WritePlaces, LockedPlaces
<1>7. LocksOK
  BY <1>1, <1>6 DEF LocksOK, Reads, Writes, Locks
<1>8. FreeChain = << >> /\ \A b \in Buckets : ChainOf(b) = << >>
  BY <1>1, EmptyChain DEF FreeChain, ChainOf, Chain
<1>9. ChainsOK
  <2>1. Range(<< >>) = {} /\ IsChain(<< >>, NULL, next)
    BY EmptyChain
  <2>2. \A b \in Buckets : head[b] = NULL
    BY <1>1
  <2> QED BY <1>1, <1>8, <2>1, <2>2 DEF ChainsOK
<1>10. ASSUME NEW b \in Buckets PROVE BucketOK(b)
  <2>1. ~\E t \in Threads : Fills(t, b)
    BY <1>6 DEF Fills
  <2>2. ChainOf(b) = << >> /\ size[b] = 0
    BY <1>1, <1>8
  <2>3. PairsIn(<< >>, keys, values, 0, b) /\ Fits(<< >>, 0, \E t \in Threads : Fills(t, b))
    BY <2>1, EmptyBucket DEF Fits
  <2> QED BY <2>2, <2>3 DEF BucketOK
<1>11. ASSUME NEW t \in Threads PROVE ThreadOK(t)
  <2>1. pc[t] = "idle" /\ call[t] = NoCall
    BY <1>1
  <2> QED BY <2>1, IdleAt DEF ThreadOK
<1> QED BY <1>4, <1>5, <1>7, <1>9, <1>10, <1>11 DEF TableIInv

(* One step of a thread. *)
LEMMA ThreadKeeps ==
  ASSUME TableAssumption, OneChunkIfRemoveIf, TableIInv, NEW t \in Threads,
         \/ InvokeOnKey(t) \/ InvokeRemoveIf(t) \/ ReaderLock(t) \/ WriterLock(t)
         \/ Reading(t) \/ Inserting(t) \/ Removing(t)
  PROVE  TableIInv'
<1>1. ASSUME InvokeOnKey(t) \/ InvokeRemoveIf(t) PROVE TableIInv'
  BY <1>1, InvokeKeeps
<1>2. ASSUME ReaderLock(t) PROVE TableIInv'
  BY <1>2, ReaderLockKeeps
<1>3. ASSUME WriterLock(t) PROVE TableIInv'
  BY <1>3, WriterLockKeeps
<1>4. ASSUME Load(t) \/ Reload(t) \/ SpinLoad(t) \/ LockedLoad(t) PROVE TableIInv'
  BY <1>4, LoadsKeep
<1>5. ASSUME Scan(t) \/ SpinScan(t) \/ LockedScan(t) PROVE TableIInv'
  BY <1>5, SearchesKeep
<1>6. ASSUME Fetch(t) \/ FetchOwn(t) PROVE TableIInv'
  BY <1>6, FetchKeeps
<1>7. ASSUME ReaderUnlock(t) \/ WriterUnlock(t) PROVE TableIInv'
  BY <1>7, LeaveKeeps
<1>8. ASSUME Trylock(t) PROVE TableIInv'
  BY <1>8, TrylockKeeps
<1>9. ASSUME SpinAgain(t) PROVE TableIInv'
  BY <1>9, SpinAgainKeeps
<1>10. ASSUME LockedScanEnd(t) PROVE TableIInv'
  BY <1>10, LockedScanEndKeeps
<1>11. ASSUME FoundUnlock(t) \/ InsertedUnlock(t) PROVE TableIInv'
  BY <1>11, InsertUnlocksKeep
<1>12. ASSUME ReuseBucketChunk(t) PROVE TableIInv'
  BY <1>12, ReuseBucketChunkKeeps
<1>13. ASSUME NewChunk(t) PROVE TableIInv'
  BY <1>13, NewChunkKeeps
<1>14. ASSUME Write(t) PROVE TableIInv'
  BY <1>14, WriteKeeps
<1>15. ASSUME Publish(t) PROVE TableIInv'
  BY <1>15, PublishKeeps
<1>16. ASSUME Remove(t) PROVE TableIInv'
  BY <1>16, RemoveKeeps
<1>17. ASSUME RemoveNothing(t) PROVE TableIInv'
  BY <1>17, RemoveNothingKeeps
<1>18. ASSUME VisitRemove(t) PROVE TableIInv'
  BY <1>18, VisitRemoveKeeps
<1>19. ASSUME VisitKeep(t) \/ VisitNextChunk(t) \/ VisitEnd(t) PROVE TableIInv'
  BY <1>19, VisitsKeep
<1>20. ASSUME NextBucket(t) PROVE TableIInv'
  BY <1>20, NextBucketKeeps
<1> QED BY ONLY <1>1, <1>2, <1>3, <1>4, <1>5, <1>6, <1>7, <1>8, <1>9, <1>10, <1>11, <1>12, <1>13,
       <1>14, <1>15, <1>16, <1>17, <1>18, <1>19, <1>20,
       \/ InvokeOnKey(t) \/ InvokeRemoveIf(t) \/ ReaderLock(t) \/ WriterLock(t)
       \/ Reading(t) \/ Inserting(t) \/ Removing(t) DEF Reading, Inserting, Removing

(* Nothing happens. *)
LEMMA StutterKeeps == TableIInv /\ UNCHANGED vars => TableIInv'
<1> SUFFICES ASSUME TableIInv, UNCHANGED vars PROVE TableIInv'
  OBVIOUS
<1>1. /\ UNCHANGED <<size, head, insert_lock, mode>> /\ UNCHANGED <<keys, values, next, allocated, free_list>>
      /\ UNCHANGED <<pc, call, self, result>>
  BY DEF vars, bucketVars, chunkVars
<1>2. TypeOK' /\ (call \in [Threads -> AnyCall])'
  BY <1>1 DEF TableIInv, TypeOK
<1>3. LocksOK'
  BY <1>1 DEF TableIInv, LocksOK, Reads, Writes, Locks
<1>4. FreeChain' = FreeChain /\ \A b : ChainOf(b)' = ChainOf(b)
  BY <1>1 DEF FreeChain, ChainOf, Chain
<1>5. ChainsOK'
  BY <1>1, <1>4 DEF TableIInv, ChainsOK
<1>6. ASSUME NEW b \in Buckets PROVE BucketOK(b)'
  BY <1>1, <1>4 DEF TableIInv, BucketOK, Fills
<1>7. ASSUME NEW t \in Threads PROVE ThreadOK(t)'
  BY <1>1, <1>4 DEF TableIInv, ThreadOK
<1> QED BY <1>2, <1>3, <1>5, <1>6, <1>7 DEF TableIInv

(* Every step keeps the invariant.                                         *)
LEMMA StepKeeps ==
  ASSUME TableAssumption, OneChunkIfRemoveIf, TableIInv, [Next]_vars
  PROVE  TableIInv'
<1>1. ASSUME FreeChunks PROVE TableIInv'
  BY <1>1, FreeChunksKeeps
<1>2. ASSUME NEW t \in Threads,
             \/ InvokeOnKey(t) \/ InvokeRemoveIf(t) \/ ReaderLock(t) \/ WriterLock(t)
             \/ Reading(t) \/ Inserting(t) \/ Removing(t)
      PROVE  TableIInv'
  BY <1>2, ThreadKeeps
<1>3. ASSUME UNCHANGED vars PROVE TableIInv'
  BY <1>3, StutterKeeps
<1> QED BY <1>1, <1>2, <1>3 DEF Next

(* TableIInv is an invariant.                                              *)
LEMMA InvariantAlways == TableAssumption /\ OneChunkIfRemoveIf /\ Spec => []TableIInv
<1> SUFFICES ASSUME TableAssumption, OneChunkIfRemoveIf PROVE Spec => []TableIInv
  OBVIOUS
<1>1. Init => TableIInv
  BY InitKeeps
<1>2. TableIInv /\ [Next]_vars => TableIInv'
  BY StepKeeps
<1> QED BY <1>1, <1>2, PTL DEF Spec

-----------------------------------------------------------------------------
(* A chunk is in a chain of the table exactly if it is allocated.          *)
LEMMA NoChunkIsLost == TableAssumption /\ TableIInv => Conserved
<1> SUFFICES ASSUME TableAssumption, TableIInv PROVE Conserved
  OBVIOUS
<1>1. TypeOK /\ ChainsOK
  BY DEF TableIInv
<1>2. \A b \in Buckets : Range(ChainOf(b)) \subseteq Chunks
  BY <1>1, ChainFacts DEF ChainsOK
<1>3. Range(FreeChain) \subseteq Chunks
  BY <1>1, ChainFacts DEF ChainsOK
<1>4. InFreeList = Range(FreeChain) /\ InChains = UNION {Range(ChainOf(b)) : b \in Buckets}
  BY DEF InFreeList, InChains, FreeChain, ChainOf
<1>5. allocated \subseteq Chunks
  BY <1>1 DEF TypeOK
<1>6. InChains \cup InFreeList = allocated
  BY <1>1, <1>2, <1>3, <1>4, <1>5 DEF ChainsOK
<1>7. InChains \cap InFreeList = {}
  BY <1>1, <1>4 DEF ChainsOK
<1>8. \A b, d \in Buckets : b # d => Range(Chain(head[b])) \cap Range(Chain(head[d])) = {}
  BY <1>1 DEF ChainsOK, ChainOf
<1> QED BY <1>1, <1>6, <1>7, <1>8 DEF Conserved, ChunksConserved

(* The chunks that n pairs take, as EmptyChunksAreFreed counts them.       *)
LEMMA RowsOf ==
  ASSUME TableAssumption, NEW n \in Nat
  PROVE  (n + 1 + NPairsPerChunk - 1) \div NPairsPerChunk = Row(n)
<1>1. PICK k \in Nat \ {0} : k = NPairsPerChunk
  BY DEF TableAssumption
<1>2. n + 1 + k - 1 = n + k /\ n + k \in Nat /\ n + k >= k /\ (n + k) - k = n
  BY <1>1
<1>3. Row(n) = Row(n + k) - 1
  BY <1>1, <1>2, RowBefore
<1>4. PICK q \in Nat : q = (n + k) \div k
  BY <1>2, DivMod
<1>5. Row(n + k) = q + 1
  BY <1>1, <1>4 DEF Row
<1> QED BY <1>1, <1>2, <1>3, <1>4, <1>5

(* Without an open insertion, a bucket has the chunks that its pairs fill. *)
LEMMA NoEmptyChunk == TableAssumption /\ TableIInv => EmptyChunksAreFreed
<1> SUFFICES ASSUME TableAssumption, TableIInv, NEW b \in Buckets
             PROVE  LET filling == \E t \in Threads : self[t].b = b /\ pc[t] \in {"write", "publish"}
                    IN  Len(Chain(head[b])) <=
                          (IF size[b] <= NPairsPerChunk /\ ~(filling /\ size[b] = NPairsPerChunk)
                             THEN 1
                             ELSE (size[b] + (IF filling THEN 1 ELSE 0) + NPairsPerChunk - 1) \div NPairsPerChunk)
  BY DEF EmptyChunksAreFreed
<1>1. PICK s : s = Chain(head[b])
  OBVIOUS
<1>2. PICK k \in Nat \ {0} : k = NPairsPerChunk
  BY DEF TableAssumption
<1>3. PICK n \in Nat : n = size[b]
  BY BucketFacts
<1>4. IsChain(s, head[b], next) /\ Len(s) \in Nat
  BY <1>1, BucketFacts, ChainFacts DEF ChainOf
<1>5. CASE \E t \in Threads : self[t].b = b /\ pc[t] \in {"write", "publish"}
  <2>1. \E t \in Threads : Fills(t, b)
    BY <1>5 DEF Fills
  <2>2. Len(s) = Row(n)
    BY <1>1, <1>3, <2>1, BucketFacts DEF Fits, ChainOf
  <2>3. CASE n < k
    <3>1. Len(s) <= 1
      BY <1>2, <1>3, <2>2, <2>3, RowBefore
    <3> QED BY <1>1, <1>2, <1>3, <1>5, <2>3, <3>1
  <2>4. CASE ~(n < k)
    <3>1. ~(n <= k /\ ~(n = k))
      BY <1>2, <1>3, <2>4
    <3>2. (n + 1 + k - 1) \div k = Row(n)
      <4>1. (n + 1 + NPairsPerChunk - 1) \div NPairsPerChunk = Row(n)
        BY RowsOf
      <4> QED BY ONLY <1>2, <4>1, Zenon
    <3>3. PICK q : q = (n + 1 + k - 1) \div k
      OBVIOUS
    <3>4. Len(s) = q /\ Len(s) <= q
      BY <1>4, <2>2, <3>2, <3>3
    <3> QED BY <1>1, <1>2, <1>3, <1>5, <3>1, <3>3, <3>4
  <2> QED BY <2>3, <2>4
<1>6. CASE ~\E t \in Threads : self[t].b = b /\ pc[t] \in {"write", "publish"}
  <2>1. ~\E t \in Threads : Fills(t, b)
    BY <1>6 DEF Fills
  <2>2. IF n = 0 THEN Len(s) <= 1 ELSE Len(s) = Row(n - 1)
    BY <1>1, <1>3, <2>1, BucketFacts DEF Fits, ChainOf
  <2>3. CASE n <= k
    <3>1. Len(s) <= 1
      <4>1. CASE n = 0
        BY <2>2, <4>1
      <4>2. CASE n # 0
        <5>1. n - 1 \in Nat /\ n - 1 < k
          BY <1>2, <1>3, <2>3, <4>2
        <5> QED BY <1>2, <2>2, <4>2, <5>1, RowBefore
      <4> QED BY <4>1, <4>2
    <3> QED BY <1>1, <1>2, <1>3, <1>6, <2>3, <3>1
  <2>4. CASE ~(n <= k)
    <3>1. PICK m \in Nat : m = n - 1
      BY <1>2, <1>3, <2>4
    <3>2. n # 0 /\ n = m + 1
      BY <1>2, <1>3, <2>4, <3>1
    <3>3. Len(s) <= (m + 1 + k - 1) \div k
      BY <1>2, <1>4, <2>2, <3>1, <3>2, RowsOf
    <3>4. m + 1 + k - 1 = n + 0 + k - 1
      BY <1>2, <3>2
    <3> QED BY <1>1, <1>2, <1>3, <1>6, <2>4, <3>3, <3>4
  <2> QED BY <2>3, <2>4
<1> QED BY <1>5, <1>6

(* While a remover is inside, nobody fills in a pair.                      *)
LEMMA NoneFillsUnderWriter ==
  ASSUME TableIInv, NEW b \in Buckets, NEW t \in Threads, mode[b][t] = "write", NEW u \in Threads
  PROVE  ~Fills(u, b)
<1>1. Writes(t, b) /\ (u # t => ~Reads(u, b))
  BY DEF TableIInv, LocksOK
<1>2. pc[t] \notin {"write", "publish"}
  BY <1>1 DEF Writes, WritePlaces
<1>3. Fills(u, b) => Reads(u, b)
  BY DEF Fills, Reads, ReadPlaces
<1>4. Fills(u, b) => pc[u] \in {"write", "publish"}
  BY DEF Fills
<1> QED BY <1>1, <1>2, <1>3, <1>4

(* A removal finds the last pair of its bucket.                            *)
LEMMA RemovalFindsLast == TableAssumption /\ TableIInv => LastPairFound
<1> SUFFICES ASSUME TableAssumption, TableIInv, NEW b \in Buckets, NEW t \in Threads,
                    mode[b][t] = "write", NEW hole \in 0 .. size[b] - 1
             PROVE  LET rest == Chain(ChunkOf(b, hole))
                    IN  /\ rest[Len(rest)] = ChunkOf(b, size[b] - 1)
                        /\ LastSlot(ChunkOf(b, hole), hole, SlotOf(hole), size[b]) = SlotOf(size[b] - 1)
  BY DEF LastPairFound
<1>1. PICK n \in Nat : n = size[b]
  BY BucketFacts
<1>2. PICK s : s = ChainOf(b)
  OBVIOUS
<1>3. IsChain(s, head[b], next)
  BY <1>2, BucketFacts
<1>4. Fits(s, n, FALSE)
  <2>1. ~\E u \in Threads : Fills(u, b)
    BY NoneFillsUnderWriter
  <2> QED BY <1>1, <1>2, <2>1, BucketFacts
<1>5. hole \in Nat /\ hole \in 0 .. n - 1
  BY <1>1
<1>6. PICK m \in Nat : m = n - 1 /\ n = m + 1 /\ hole <= m
  BY <1>5
<1>7. Len(s) = Row(m) /\ Row(hole) \in 1 .. Len(s)
  <2>1. Row(hole) \in 1 .. Len(s)
    BY <1>3, <1>4, <1>5, FitsRows
  <2> QED BY <1>4, <1>6, <2>1 DEF Fits
<1>8. PICK row \in 1 .. Len(s) : row = Row(hole)
  BY <1>7
<1>9. PICK chunk, rest : chunk = s[row] /\ rest = Chain(chunk)
  OBVIOUS
<1>10. chunk = ChunkOf(b, hole) /\ Col(hole) = SlotOf(hole) /\ s[Row(m)] = ChunkOf(b, m) /\ Col(m) = SlotOf(m)
  BY <1>2, <1>8, <1>9, PairAt
<1>11. IsRest(rest, s, row)
  BY <1>3, <1>9, LastOfRest
<1>12. rest[Len(rest)] = ChunkOf(b, m)
  BY <1>7, <1>10, <1>11 DEF IsRest
<1>13. Row(hole) <= Row(m)
  BY <1>5, <1>6, RowsAscend
<1>14. Len(Chain(chunk)) = Row(m) - Row(hole) + 1
  BY <1>7, <1>8, <1>9, <1>11 DEF IsRest
<1>15. LastSlot(chunk, hole, Col(hole), m + 1) = Col(m)
  BY <1>5, <1>13, <1>14, LastSlotIs
<1> QED BY <1>1, <1>6, <1>9, <1>10, <1>12, <1>15

(* When remove_if leaves a bucket, no pair that it accepts is left in it.  *)
LEMMA NoneLeft == TableAssumption /\ TableIInv => RemoveIfRemovesAll
<1> SUFFICES ASSUME TableAssumption, TableIInv, NEW t \in Threads,
                    pc[t] = "w_unlock", call[t].op = "remove_if",
                    NEW n \in 0 .. size[self[t].b] - 1
             PROVE  KeyAt(self[t].b, n) \notin call[t].accepts
  BY DEF RemoveIfRemovesAll
<1>1. VisitAt(pc[t], self[t], call[t], size[self[t].b], ChainOf(self[t].b), keys)
  BY ThreadFacts DEF ThreadAt
<1>2. NoneAccepted(call[t].accepts, size[self[t].b], ChainOf(self[t].b), keys)
  BY <1>1 DEF VisitAt
<1> QED BY <1>2, PairAt DEF NoneAccepted

(* No chunk of the table is lost, freed twice or shared by two buckets.    *)
THEOREM ChunksAreConserved ==
  TableAssumption /\ OneChunkIfRemoveIf /\ Spec => []Conserved
<1> SUFFICES ASSUME TableAssumption, OneChunkIfRemoveIf PROVE Spec => []Conserved
  OBVIOUS
<1>1. Spec => []TableIInv
  BY InvariantAlways
<1>2. TableIInv => Conserved
  BY NoChunkIsLost
<1> QED BY <1>1, <1>2, PTL

(* A chain has no empty chunk but the bucket's own and the one that an     *)
(* insert is about to fill.                                                *)
THEOREM EmptyChunksAreFreedAlways ==
  TableAssumption /\ OneChunkIfRemoveIf /\ Spec => []EmptyChunksAreFreed
<1> SUFFICES ASSUME TableAssumption, OneChunkIfRemoveIf PROVE Spec => []EmptyChunksAreFreed
  OBVIOUS
<1>1. Spec => []TableIInv
  BY InvariantAlways
<1>2. TableIInv => EmptyChunksAreFreed
  BY NoEmptyChunk
<1> QED BY <1>1, <1>2, PTL

(* From whichever pair of a chain of any length a removal starts, it finds *)
(* the last pair of the bucket, so that the unsigned index does not wrap   *)
(* around at a chunk boundary.                                             *)
THEOREM LastPairIsFound ==
  TableAssumption /\ OneChunkIfRemoveIf /\ Spec => []LastPairFound
<1> SUFFICES ASSUME TableAssumption, OneChunkIfRemoveIf PROVE Spec => []LastPairFound
  OBVIOUS
<1>1. Spec => []TableIInv
  BY InvariantAlways
<1>2. TableIInv => LastPairFound
  BY RemovalFindsLast
<1> QED BY <1>1, <1>2, PTL

(* remove_if leaves no pair behind that its condition accepts.             *)
THEOREM RemoveIfRemovesAllAlways ==
  TableAssumption /\ OneChunkIfRemoveIf /\ Spec => []RemoveIfRemovesAll
<1> SUFFICES ASSUME TableAssumption, OneChunkIfRemoveIf PROVE Spec => []RemoveIfRemovesAll
  OBVIOUS
<1>1. Spec => []TableIInv
  BY InvariantAlways
<1>2. TableIInv => RemoveIfRemovesAll
  BY NoneLeft
<1> QED BY <1>1, <1>2, PTL

-----------------------------------------------------------------------------
(***************************************************************************)
(* What a step of a thread does to the buckets and to the other threads.   *)
(***************************************************************************)
ThreadStep(t) ==
  \/ InvokeOnKey(t) \/ InvokeRemoveIf(t) \/ ReaderLock(t) \/ WriterLock(t)
  \/ Reading(t) \/ Inserting(t) \/ Removing(t)
(* The other threads do nothing.                                           *)
OthersWait(t) ==
  \A u \in Threads \ {t} :
    pc'[u] = pc[u] /\ self'[u] = self[u] /\ call'[u] = call[u] /\ result'[u] = result[u]
(* What is read is extended, never changed.                                *)
ReadBucketsGrow == \A b \in Buckets : (\E u \in Threads : Reads(u, b)) => Grows(b)

(* The steps that read the table, or change its locks only.                *)
OnlyLooks(t) ==
  \/ InvokeOnKey(t) \/ InvokeRemoveIf(t) \/ ReaderLock(t) \/ WriterLock(t) \/ Reading(t)
  \/ Trylock(t) \/ SpinLoad(t) \/ SpinScan(t) \/ SpinAgain(t)
  \/ LockedLoad(t) \/ LockedScan(t) \/ LockedScanEnd(t) \/ FoundUnlock(t)
  \/ InsertedUnlock(t) \/ FetchOwn(t)
  \/ RemoveNothing(t) \/ VisitKeep(t) \/ VisitNextChunk(t) \/ VisitEnd(t)
  \/ WriterUnlock(t) \/ NextBucket(t)

(* Those steps leave the table as it is.                                   *)
LEMMA LooksSame == ASSUME NEW t, OnlyLooks(t) PROVE DataSame
<1>1. ASSUME \/ InvokeOnKey(t) \/ InvokeRemoveIf(t) \/ ReaderLock(t) \/ WriterLock(t) PROVE DataSame
  BY <1>1 DEF InvokeOnKey, InvokeRemoveIf, ReaderLock, WriterLock, DataSame, bucketVars, chunkVars
<1>2. ASSUME NEW from, NEW to, LoadSize(t, from, to) PROVE DataSame
  BY <1>2 DEF LoadSize, DataSame, bucketVars, chunkVars
<1>3. ASSUME NEW from, NEW to, Compare(t, from, to) PROVE DataSame
  BY <1>3 DEF Compare, DataSame, bucketVars, chunkVars
<1>4. ASSUME NEW from, NEW to, InsertUnlock(t, from, to) PROVE DataSame
  BY <1>4 DEF InsertUnlock, DataSame, chunkVars
<1>5. ASSUME Reading(t) PROVE DataSame
  <2>1. ASSUME Load(t) \/ Reload(t) PROVE DataSame
    BY <2>1, <1>2 DEF Load, Reload
  <2>2. ASSUME Scan(t) PROVE DataSame
    BY <2>2, <1>3 DEF Scan
  <2>3. ASSUME Fetch(t) \/ ReaderUnlock(t) PROVE DataSame
    BY <2>3 DEF Fetch, ReaderUnlock, DataSame, bucketVars, chunkVars
  <2> QED BY <1>5, <2>1, <2>2, <2>3 DEF Reading
<1>6. ASSUME Trylock(t) \/ SpinAgain(t) \/ LockedScanEnd(t) \/ FetchOwn(t) PROVE DataSame
  BY <1>6 DEF Trylock, SpinAgain, LockedScanEnd, FetchOwn, DataSame, bucketVars, chunkVars
<1>7. ASSUME SpinLoad(t) \/ LockedLoad(t) PROVE DataSame
  BY <1>7, <1>2 DEF SpinLoad, LockedLoad
<1>8. ASSUME SpinScan(t) \/ LockedScan(t) PROVE DataSame
  BY <1>8, <1>3 DEF SpinScan, LockedScan
<1>9. ASSUME FoundUnlock(t) \/ InsertedUnlock(t) PROVE DataSame
  BY <1>9, <1>4 DEF FoundUnlock, InsertedUnlock
<1>10. ASSUME RemoveNothing(t) \/ VisitKeep(t) \/ VisitNextChunk(t) \/ VisitEnd(t) PROVE DataSame
  BY <1>10 DEF RemoveNothing, VisitKeep, VisitNextChunk, VisitEnd, DataSame, bucketVars, chunkVars
<1>11. ASSUME WriterUnlock(t) \/ NextBucket(t) PROVE DataSame
  BY <1>11 DEF WriterUnlock, NextBucket, DataSame, chunkVars
<1> QED BY ONLY <1>1, <1>5, <1>6, <1>7, <1>8, <1>9, <1>10, <1>11, OnlyLooks(t) DEF OnlyLooks

(* The other steps.                                                        *)
LEMMA StepCases ==
  ASSUME NEW t, ThreadStep(t)
  PROVE  \/ OnlyLooks(t) \/ ReuseBucketChunk(t) \/ NewChunk(t) \/ Write(t) \/ Publish(t)
         \/ Remove(t) \/ VisitRemove(t)
BY DEF ThreadStep, OnlyLooks, Inserting, Removing

(* A step of one thread changes no other thread.                           *)
LEMMA OthersStay ==
  ASSUME TypeOK, call \in [Threads -> AnyCall], NEW t \in Threads, ThreadStep(t)
  PROVE  OthersWait(t)
<1> SUFFICES ASSUME NEW u \in Threads \ {t}
             PROVE  pc'[u] = pc[u] /\ self'[u] = self[u] /\ call'[u] = call[u] /\ result'[u] = result[u]
  BY DEF OthersWait
<1> DEFINE Same == pc'[u] = pc[u] /\ self'[u] = self[u] /\ call'[u] = call[u] /\ result'[u] = result[u]
<1>a. /\ \A p : pc' = [pc EXCEPT ![t] = p] => pc'[u] = pc[u]
      /\ \A p : self' = [self EXCEPT ![t] = p] => self'[u] = self[u]
      /\ \A p : call' = [call EXCEPT ![t] = p] => call'[u] = call[u]
      /\ \A p : result' = [result EXCEPT ![t] = p] => result'[u] = result[u]
  BY DEF TypeOK
<1>1. ASSUME \/ InvokeOnKey(t) \/ InvokeRemoveIf(t) \/ ReaderLock(t) \/ WriterLock(t) PROVE Same
  BY <1>a, <1>1 DEF InvokeOnKey, InvokeRemoveIf, ReaderLock, WriterLock, Goto, Set, Return
<1>2. ASSUME NEW from, NEW to, LoadSize(t, from, to) PROVE Same
  BY <1>a, <1>2 DEF LoadSize, Goto, Set
<1>3. ASSUME NEW from, NEW to, Compare(t, from, to) PROVE Same
  BY <1>a, <1>3 DEF Compare, Goto, Set
<1>4. ASSUME NEW from, NEW to, InsertUnlock(t, from, to) PROVE Same
  BY <1>a, <1>4 DEF InsertUnlock, Goto
<1>5. ASSUME Load(t) \/ Reload(t) \/ SpinLoad(t) \/ LockedLoad(t) PROVE Same
  BY <1>5, <1>2 DEF Load, Reload, SpinLoad, LockedLoad
<1>6. ASSUME Scan(t) \/ SpinScan(t) \/ LockedScan(t) PROVE Same
  BY <1>6, <1>3 DEF Scan, SpinScan, LockedScan
<1>7. ASSUME Fetch(t) \/ FetchOwn(t) \/ Trylock(t) \/ SpinAgain(t) \/ LockedScanEnd(t) PROVE Same
  BY <1>a, <1>7 DEF Fetch, FetchOwn, Trylock, SpinAgain, LockedScanEnd, Goto, Return
<1>8. ASSUME ReaderUnlock(t) \/ WriterUnlock(t) \/ NextBucket(t) PROVE Same
  BY <1>a, <1>8 DEF ReaderUnlock, WriterUnlock, NextBucket, Leave, Goto, Set
<1>9. ASSUME FoundUnlock(t) \/ InsertedUnlock(t) PROVE Same
  BY <1>9, <1>4 DEF FoundUnlock, InsertedUnlock
<1>10. ASSUME ReuseBucketChunk(t) \/ NewChunk(t) \/ Write(t) \/ Publish(t) PROVE Same
  BY <1>a, <1>10 DEF ReuseBucketChunk, NewChunk, Write, Publish, Goto, Set
<1>11. ASSUME Remove(t) \/ RemoveNothing(t) PROVE Same
  BY <1>a, <1>11 DEF Remove, RemoveNothing, Goto, Return
<1>12. ASSUME VisitRemove(t) \/ VisitKeep(t) \/ VisitNextChunk(t) \/ VisitEnd(t) PROVE Same
  BY <1>a, <1>12 DEF VisitRemove, VisitKeep, VisitNextChunk, VisitEnd, Goto, Set
<1> QED BY ONLY <1>1, <1>5, <1>6, <1>7, <1>8, <1>9, <1>10, <1>11, <1>12, ThreadStep(t)
       DEF ThreadStep, Reading, Inserting, Removing

(* A removal, and the bucket it changes. *)
LEMMA RemovalIs ==
  ASSUME TableAssumption, OneChunkIfRemoveIf, TableIInv, NEW t \in Threads, Remove(t) \/ VisitRemove(t),
         NEW w \in Locals, NEW c \in AnyCall, NEW r \in Results, NEW b \in Buckets, NEW n \in CountRange,
         NEW s, View(t, w, c, r, b, n, s)
  PROVE  /\ pc[t] \in WritePlaces
         /\ \E hole \in 0 .. n - 1 :
              /\ Removed(b, s, n, hole)
              /\ Remove(t) => Removes(t, b, s, n, hole, c.key, r)
              /\ VisitRemove(t) => At(s, keys, hole) \in c.accepts
<1>1. CASE Remove(t)
  <2>1. PICK hole \in 0 .. n - 1 : Removes(t, b, s, n, hole, c.key, r)
    BY <1>1, RemoveMeans
  <2>2. pc[t] = "remove" /\ UNCHANGED <<head, allocated>>
    BY <1>1 DEF Remove, Goto
  <2>3. pc[t] \in WritePlaces /\ ~VisitRemove(t)
    BY <2>2 DEF WritePlaces, VisitRemove, Visiting
  <2>4. Removed(b, s, n, hole)
    BY <2>1, <2>2, <2>3, RemovalMeans DEF Removes
  <2> QED BY <2>1, <2>3, <2>4
<1>2. CASE VisitRemove(t)
  <2>1. /\ w = self[t] /\ w.b = b /\ c = call[t] /\ n = size[b] /\ s = ChainOf(b)
        /\ n \in Nat /\ w.i \in Nat /\ w.j \in Nat /\ IsChain(s, head[b], next)
    BY DEF View
  <2>2. /\ pc[t] = "visit" /\ w.link # NULL /\ w.i < w.current /\ keys[w.link][w.j] \in c.accepts
        /\ MoveLastToRemoved(b, w.link, NULL, w.i, w.j, w.current)
        /\ UNCHANGED <<head, allocated>>
    BY <1>2, <2>1 DEF VisitRemove, Visiting
  <2>3. VisitKnown(w, c, r, n, s)
    BY <2>2, VisitFacts
  <2>4. Len(s) = 1 /\ w.link = s[1] /\ w.i = w.j /\ w.current = n
    BY <2>2, <2>3 DEF VisitKnown
  <2>5. PICK hole \in 0 .. n - 1 : hole = w.i
    BY <2>1, <2>2, <2>4
  <2>6. Row(hole) = 1 /\ Col(hole) = hole
    BY <2>3 DEF VisitKnown
  <2>7. MoveLastToRemoved(b, s[Row(hole)], Link(s, Row(hole)), hole, Col(hole), n)
    <3>1. Link(s, Row(hole)) = NULL /\ s[Row(hole)] = w.link /\ Col(hole) = w.j
      BY <2>4, <2>5, <2>6 DEF Link
    <3>2. MoveLastToRemoved(b, w.link, NULL, hole, w.j, n)
      BY <2>2, <2>4, <2>5
    <3> QED BY <3>1, <3>2
  <2>8. pc[t] \in WritePlaces /\ ~Remove(t)
    BY <2>2 DEF WritePlaces, Remove, Goto
  <2>9. Removed(b, s, n, hole)
    BY <2>2, <2>7, <2>8, RemovalMeans
  <2>10. At(s, keys, hole) \in c.accepts
    BY <2>2, <2>4, <2>5, <2>6 DEF At
  <2> QED BY <2>8, <2>9, <2>10
<1> QED BY <1>1, <1>2

(* Where a reader is inside, a step adds to the pairs or leaves them.      *)
LEMMA ReadersSafe ==
  ASSUME TableAssumption, OneChunkIfRemoveIf, TableIInv, NEW t \in Threads, ThreadStep(t)
  PROVE  ReadBucketsGrow
<1>1. CASE OnlyLooks(t)
  BY <1>1, LooksSame, SameGrows DEF AllGrow, ReadBucketsGrow
<1>2. CASE ReuseBucketChunk(t)
  BY <1>2, ReuseBucketChunkKeeps, SameGrows DEF AllGrow, ReadBucketsGrow
<1>3. CASE NewChunk(t)
  BY <1>3, NewChunkKeeps DEF AllGrow, ReadBucketsGrow
<1>4. CASE Write(t)
  BY <1>4, WriteKeeps DEF AllGrow, ReadBucketsGrow
<1>5. CASE Publish(t)
  BY <1>5, PublishKeeps DEF AllGrow, ReadBucketsGrow
<1>6. CASE Remove(t) \/ VisitRemove(t)
  <2>1. PICK w \in Locals, c \in AnyCall, r \in Results, b \in Buckets, n \in CountRange :
          \E s : View(t, w, c, r, b, n, s)
    BY ThreadView
  <2>2. PICK s : View(t, w, c, r, b, n, s)
    BY <2>1
  <2>3. pc[t] \in WritePlaces /\ \A d \in Buckets \ {b} : Untouched(d)
    BY <1>6, <2>2, RemovalIs DEF Removed
  <2>4. \A u \in Threads \ {t} : ~Reads(u, b)
    BY <2>2, <2>3, NobodyElseInside DEF View, TableIInv
  <2>5. ~Reads(t, b)
    BY <2>3 DEF Reads, ReadPlaces, WritePlaces
  <2>6. \A d \in Buckets \ {b} : Grows(d)
    BY <2>3, UntouchedGrows
  <2> QED BY <2>4, <2>5, <2>6 DEF ReadBucketsGrow
<1> QED BY <1>1, <1>2, <1>3, <1>4, <1>5, <1>6, StepCases

(* The published pairs of a bucket stay while a reader is inside.          *)
LEMMA StableStep ==
  ASSUME TableAssumption, OneChunkIfRemoveIf, TableIInv, [Next]_vars
  PROVE  [\A b \in Buckets : (\E t \in Threads : mode[b][t] = "read") =>
            /\ size'[b] >= size[b]
            /\ \A n \in 0 .. size[b] - 1 : Pairs(b)'[n] = Pairs(b)[n]]_vars
<1>1. ASSUME UNCHANGED vars PROVE UNCHANGED vars
  BY <1>1
<1>2. ASSUME Next PROVE ReadBucketsGrow
  <2>1. ASSUME FreeChunks PROVE ReadBucketsGrow
    BY <2>1 DEF FreeChunks, ReadBucketsGrow, Reads, ReadPlaces
  <2>2. ASSUME NEW t \in Threads, ThreadStep(t) PROVE ReadBucketsGrow
    BY <2>2, ReadersSafe
  <2> QED BY <1>2, <2>1, <2>2 DEF Next, ThreadStep
<1>3. ASSUME Next, NEW b \in Buckets, NEW t \in Threads, mode[b][t] = "read"
      PROVE  /\ size'[b] >= size[b]
             /\ \A n \in 0 .. size[b] - 1 : Pairs(b)'[n] = Pairs(b)[n]
  <2>1. Reads(t, b)
    BY <1>3 DEF TableIInv, LocksOK
  <2>2. Grows(b)
    BY <1>2, <1>3, <2>1 DEF ReadBucketsGrow
  <2>3. PICK n \in Nat : n = size[b]
    BY BucketFacts
  <2>4. TableIInv'
    BY <1>3, StepKeeps
  <2>5. size'[b] \in Nat
    <3>1. size'[b] \in CountRange
      BY <2>4 DEF TableIInv, TypeOK
    <3> QED BY <3>1 DEF CountRange
  <2>6. PICK m \in Nat : m = size'[b]
    BY <2>5
  <2>7. n <= m /\ \A l \in 0 .. n - 1 : /\ At(ChainOf(b)', keys', l) = At(ChainOf(b), keys, l)
                                       /\ At(ChainOf(b)', values', l) = At(ChainOf(b), values, l)
    BY <2>2, <2>3, <2>6 DEF Grows, Extends
  <2>8. \A l \in 0 .. n - 1 : Pairs(b)[l] = <<At(ChainOf(b), keys, l), At(ChainOf(b), values, l)>>
    BY <2>3, PairAt DEF Pairs
  <2>9. \A l \in 0 .. m - 1 : Pairs(b)'[l] = <<At(ChainOf(b)', keys', l), At(ChainOf(b)', values', l)>>
    <3>1. \A l \in 0 .. m - 1 : Pairs(b)'[l] = <<KeyAt(b, l)', ValueAt(b, l)'>>
      BY <2>6 DEF Pairs
    <3>2. \A l : /\ KeyAt(b, l)' = At(ChainOf(b)', keys', l)
                 /\ ValueAt(b, l)' = At(ChainOf(b)', values', l)
      BY DEF KeyAt, ValueAt, ChunkOf, SlotOf, At, Row, Col, ChainOf
    <3> QED BY <3>1, <3>2
  <2>10. \A l \in 0 .. n - 1 : l \in 0 .. m - 1
    BY <2>7
  <2>11. \A l \in 0 .. n - 1 : Pairs(b)'[l] = Pairs(b)[l]
    BY <2>7, <2>8, <2>9, <2>10
  <2>12. size'[b] >= size[b]
    BY <2>3, <2>6, <2>7
  <2> QED BY <2>3, <2>11, <2>12
<1> QED BY <1>1, <1>3

(* Readers search without the insert lock: while one is inside a bucket,   *)
(* published pairs stay where and what they are, and their number grows.   *)
THEOREM PairsAreStableWhileRead ==
  TableAssumption /\ OneChunkIfRemoveIf /\ Spec => PairsStableWhileRead
<1> SUFFICES ASSUME TableAssumption, OneChunkIfRemoveIf PROVE Spec => PairsStableWhileRead
  OBVIOUS
<1>1. Spec => []TableIInv
  BY InvariantAlways
<1>2. TableIInv /\ [Next]_vars =>
        [\A b \in Buckets : (\E t \in Threads : mode[b][t] = "read") =>
           /\ size'[b] >= size[b]
           /\ \A n \in 0 .. size[b] - 1 : Pairs(b)'[n] = Pairs(b)[n]]_vars
  BY StableStep
<1> QED BY <1>1, <1>2, PTL DEF Spec, PairsStableWhileRead

-----------------------------------------------------------------------------
(***************************************************************************)
(* The contents of the table, as AbstractMap sees it.  A key has the value *)
(* next to it in its bucket, or none.                                      *)
(***************************************************************************)
Has(s, ks, vs, n, k, v) ==
  \/ \E m \in 0 .. n - 1 : At(s, ks, m) = k /\ At(s, vs, m) = v
  \/ v = NULL /\ \A m \in 0 .. n - 1 : At(s, ks, m) # k
(* What the abstract map has for a key.                                    *)
MapAt(k) ==
  LET b == BucketIdx[k] IN Has(ChainOf(b), keys, values, size[b], k, map[k])

(* A key has one value.                                                    *)
LEMMA HasOne ==
  ASSUME NEW s, NEW ks, NEW vs, NEW n, NEW b, PairsIn(s, ks, vs, n, b), NEW k,
         NEW v, NEW u, Has(s, ks, vs, n, k, v), Has(s, ks, vs, n, k, u)
  PROVE  v = u
BY DEF Has, PairsIn

(* The map of the refinement holds what the buckets do.                    *)
LEMMA MapKnown == TableAssumption /\ TableIInv => \A k \in Keys : MapAt(k)
<1> SUFFICES ASSUME TableAssumption, TableIInv, NEW k \in Keys PROVE MapAt(k)
  OBVIOUS
<1>1. PICK b : b = BucketIdx[k]
  OBVIOUS
<1>2. PICK places : places = {n \in 0 .. size[b] - 1 : KeyAt(b, n) = k}
  OBVIOUS
<1>3. map[k] = IF places = {} THEN NULL ELSE ValueAt(b, CHOOSE n \in places : TRUE)
  BY <1>1, <1>2 DEF map
<1>4. CASE places = {}
  <2>1. \A m \in 0 .. size[b] - 1 : At(ChainOf(b), keys, m) # k
    BY <1>2, <1>4, PairAt
  <2> QED BY <1>1, <1>3, <1>4, <2>1 DEF MapAt, Has
<1>5. CASE places # {}
  <2>1. PICK m : m = CHOOSE n \in places : TRUE
    OBVIOUS
  <2>2. m \in places
    BY <1>5, <2>1
  <2>3. m \in 0 .. size[b] - 1 /\ At(ChainOf(b), keys, m) = k
    BY <1>2, <2>2, PairAt
  <2>4. map[k] = At(ChainOf(b), values, m)
    BY <1>3, <1>5, <2>1, PairAt
  <2> QED BY <1>1, <2>3, <2>4 DEF MapAt, Has
<1> QED BY <1>4, <1>5

(* The same in the next state.                                             *)
LEMMA MapKnownNext == TableAssumption => (TableIInv' => (\A k \in Keys : MapAt(k))')
<1> SUFFICES ASSUME TableAssumption PROVE TableIInv' => (\A k \in Keys : MapAt(k))'
  OBVIOUS
<1>1. TableIInv => \A k \in Keys : MapAt(k)
  BY MapKnown
<1> QED BY <1>1, PTL

(* The value of a key after a step, in terms of its bucket.                *)
LEMMA MapBecomes ==
  ASSUME TableAssumption, TableIInv', NEW k \in Keys, NEW b, b = BucketIdx[k],
         NEW v, Has(ChainOf(b)', keys', values', size'[b], k, v)
  PROVE  map'[k] = v
<1>1. b \in Buckets
  BY DEF TableAssumption, Buckets
<1>2. PairsIn(ChainOf(b)', keys', values', size'[b], b)
  BY <1>1 DEF TableIInv, BucketOK
<1>3. MapAt(k)'
  BY MapKnownNext
<1>4. Has(ChainOf(b)', keys', values', size'[b], k, map'[k])
  BY <1>3 DEF MapAt
<1> QED BY <1>2, <1>4, HasOne

(* The value of a key before it. *)
LEMMA MapIs ==
  ASSUME TableAssumption, TableIInv, NEW k \in Keys, NEW b, b = BucketIdx[k],
         NEW n, n = size[b], NEW s, s = ChainOf(b)
  PROVE  /\ Has(s, keys, values, n, k, map[k])
         /\ \A m \in 0 .. n - 1 : At(s, keys, m) = k => map[k] = At(s, values, m) /\ map[k] # NULL
         /\ (\A m \in 0 .. n - 1 : At(s, keys, m) # k) => map[k] = NULL
<1>1. b \in Buckets
  BY DEF TableAssumption, Buckets
<1>2. PairsIn(s, keys, values, n, b)
  BY <1>1, BucketFacts
<1>3. Has(s, keys, values, n, k, map[k])
  BY MapKnown DEF MapAt
<1>4. NULL \notin Values
  BY DEF TableAssumption
<1>5. ASSUME NEW m \in 0 .. n - 1, At(s, keys, m) = k PROVE map[k] = At(s, values, m) /\ map[k] # NULL
  <2>1. Has(s, keys, values, n, k, At(s, values, m))
    BY <1>5 DEF Has
  <2>2. At(s, values, m) \in Values
    BY <1>2 DEF PairsIn
  <2> QED BY <1>2, <1>3, <1>4, <2>1, <2>2, HasOne
<1>6. (\A m \in 0 .. n - 1 : At(s, keys, m) # k) => map[k] = NULL
  BY <1>3 DEF Has
<1> QED BY <1>3, <1>5, <1>6

(* A bucket that keeps its pairs, in their places, keeps its keys' values. *)
LEMMA KeyStays ==
  ASSUME TableAssumption, TableIInv, TableIInv', NEW k \in Keys, NEW b, b = BucketIdx[k],
         Grows(b), size'[b] = size[b]
  PROVE  map'[k] = map[k]
<1>1. PICK v : v = map[k]
  OBVIOUS
<1>2. PICK n : n = size[b]
  OBVIOUS
<1>3. Has(ChainOf(b), keys, values, n, k, v)
  BY <1>1, <1>2, MapIs
<1>4. \A l \in 0 .. n - 1 : /\ At(ChainOf(b)', keys', l) = At(ChainOf(b), keys, l)
                            /\ At(ChainOf(b)', values', l) = At(ChainOf(b), values, l)
  BY <1>2 DEF Grows, Extends
<1>5. Has(ChainOf(b)', keys', values', n, k, v)
  BY <1>3, <1>4 DEF Has
<1>6. size'[b] = n
  BY <1>2
<1> QED BY <1>1, <1>5, <1>6, MapBecomes

(* The map does not change while no pair is published or removed.          *)
LEMMA MapSame ==
  ASSUME TableAssumption, TableIInv, TableIInv', AllGrow, size' = size
  PROVE  map' = map
<1>1. \A k \in Keys : BucketIdx[k] \in Buckets
  BY DEF TableAssumption, Buckets
<1>2. \A k \in Keys : map'[k] = map[k]
  BY <1>1, KeyStays DEF AllGrow
<1>3. map = [k \in Keys |-> map[k]] /\ map' = [k \in Keys |-> map'[k]]
  BY DEF map
<1> QED BY <1>2, <1>3

(* One key gets another value. *)
LEMMA MapExcept ==
  ASSUME NEW key \in Keys, NEW v, map'[key] = v, \A k \in Keys \ {key} : map'[k] = map[k]
  PROVE  map' = [map EXCEPT ![key] = v]
<1>1. PICK f : f = map
  OBVIOUS
<1>2. PICK g : g = map'
  OBVIOUS
<1>3. f = [k \in Keys |-> f[k]]
  BY <1>1 DEF map
<1>4. g = [k \in Keys |-> g[k]]
  BY <1>2 DEF map
<1>5. g[key] = v /\ \A k \in Keys \ {key} : g[k] = f[k]
  BY <1>1, <1>2
<1>6. g = [f EXCEPT ![key] = v]
  BY <1>3, <1>4, <1>5
<1> QED BY <1>1, <1>2, <1>6

-----------------------------------------------------------------------------
(* What a call has answered. *)
Published == {"inserted_unlock", "fetch_own"}
(* The answer between publishing and reading the value.                    *)
AnswerAt(u) ==
  pc[u] \in Published =>
    /\ self[u].b \in Buckets /\ self[u].i \in 0 .. size[self[u].b] - 1
    /\ answer[u] = Result(At(ChainOf(self[u].b), values, self[u].i), TRUE)

(* A call that has published its pair answers with the value in it.        *)
LEMMA AnswerKnown == TableAssumption /\ TableIInv => \A u \in Threads : AnswerAt(u)
<1> SUFFICES ASSUME TableAssumption, TableIInv, NEW u \in Threads, pc[u] \in Published
             PROVE  /\ self[u].b \in Buckets /\ self[u].i \in 0 .. size[self[u].b] - 1
                    /\ answer[u] = Result(At(ChainOf(self[u].b), values, self[u].i), TRUE)
  BY DEF AnswerAt
<1>1. PICK w \in Locals, c \in AnyCall, r \in Results, b \in Buckets, n \in CountRange :
        \E s : View(u, w, c, r, b, n, s)
  BY ThreadView
<1>2. PICK s : View(u, w, c, r, b, n, s)
  BY <1>1
<1>3. pc[u] \in Found
  BY DEF Found, Published
<1>4. w.i \in 0 .. n - 1 /\ values[Deref(u)][self[u].j] = At(s, values, w.i)
  BY <1>2, <1>3, FoundPair
<1>5. answer[u] = Result(values[Deref(u)][self[u].j], TRUE)
  BY DEF answer, Published
<1>6. w = self[u] /\ w.b = b /\ n = size[b] /\ s = ChainOf(b)
  BY <1>2 DEF View
<1> QED BY <1>4, <1>5, <1>6

(* The same in the next state.                                             *)
LEMMA AnswerKnownNext == TableAssumption => (TableIInv' => (\A u \in Threads : AnswerAt(u))')
<1> SUFFICES ASSUME TableAssumption PROVE TableIInv' => (\A u \in Threads : AnswerAt(u))'
  OBVIOUS
<1>1. TableIInv => \A u \in Threads : AnswerAt(u)
  BY AnswerKnown
<1> QED BY <1>1, PTL

(* A pair that was published keeps its value for the one who inserted it.  *)
LEMMA AnswerStays ==
  ASSUME TableAssumption, TableIInv, TableIInv', NEW u \in Threads, ReadBucketsGrow,
         pc[u] \in Published, pc'[u] \in Published, self'[u] = self[u]
  PROVE  answer'[u] = answer[u]
<1>1. PICK b : b = self[u].b
  OBVIOUS
<1>2. PICK i : i = self[u].i
  OBVIOUS
<1>3. b \in Buckets /\ i \in 0 .. size[b] - 1 /\ answer[u] = Result(At(ChainOf(b), values, i), TRUE)
  BY <1>1, <1>2, AnswerKnown DEF AnswerAt
<1>4. AnswerAt(u)'
  BY AnswerKnownNext
<1>6. answer'[u] = Result(At(ChainOf(b)', values', i), TRUE)
  <2>1. ChainOf(self[u].b)' = ChainOf(b)' /\ self[u].i' = i
    BY <1>1, <1>2 DEF ChainOf
  <2> QED BY <1>4, <2>1 DEF AnswerAt
<1>7. Grows(b)
  BY <1>1, <1>3 DEF ReadBucketsGrow, Reads, ReadPlaces, Published
<1>8. At(ChainOf(b)', values', i) = At(ChainOf(b), values, i)
  BY <1>3, <1>7 DEF Grows, Extends
<1> QED BY <1>3, <1>6, <1>8

-----------------------------------------------------------------------------
(***************************************************************************)
(* The steps of a thread and the steps of AbstractMap.                     *)
(***************************************************************************)
DonePlace(place, op) ==
  place \in {"inserted_unlock", "fetch_own", "r_unlock"} \/ (place = "w_unlock" /\ op = "remove")

(* The answer of a call is its result, but for the time between publishing *)
(* a pair and reading its value.                                           *)
LEMMA OwnAnswer ==
  ASSUME NEW t \in Threads
  PROVE  /\ done[t] <=> DonePlace(pc[t], call[t].op)
         /\ done'[t] <=> DonePlace(pc'[t], call'[t].op)
         /\ pc[t] \notin Published => answer[t] = result[t]
         /\ pc'[t] \notin Published => answer'[t] = result'[t]
         /\ pc[t] \in Published => answer[t] = Result(values[Deref(t)][self[t].j], TRUE)
BY DEF done, answer, DonePlace, Published

(* The answers of the others stay. *)
LEMMA OthersAnswer ==
  ASSUME TableAssumption, TableIInv, TableIInv', NEW t \in Threads, OthersWait(t), ReadBucketsGrow,
         NEW u \in Threads \ {t}
  PROVE  answer'[u] = answer[u] /\ (done'[u] <=> done[u])
<1>1. pc'[u] = pc[u] /\ self'[u] = self[u] /\ call'[u] = call[u] /\ result'[u] = result[u]
  BY DEF OthersWait
<1>2. CASE pc[u] \in Published
  BY <1>1, <1>2, AnswerStays, OwnAnswer
<1>3. CASE pc[u] \notin Published
  BY <1>1, <1>3, OwnAnswer
<1> QED BY <1>2, <1>3

(* A step of one thread changes no other call's answer.                    *)
LEMMA AnswersExcept ==
  ASSUME TableAssumption, TableIInv, TableIInv', NEW t \in Threads, OthersWait(t), ReadBucketsGrow,
         NEW a, answer'[t] = a, NEW d \in BOOLEAN, done'[t] <=> d
  PROVE  answer' = [answer EXCEPT ![t] = a] /\ done' = [done EXCEPT ![t] = d]
<1>1. PICK f : f = answer
  OBVIOUS
<1>2. PICK g : g = answer'
  OBVIOUS
<1>3. f = [u \in Threads |-> f[u]] /\ g = [u \in Threads |-> g[u]]
  BY <1>1, <1>2 DEF answer
<1>4. \A u \in Threads \ {t} : g[u] = f[u]
  BY <1>1, <1>2, OthersAnswer
<1>5. g = [f EXCEPT ![t] = a]
  BY <1>2, <1>3, <1>4
<1>6. PICK p : p = done
  OBVIOUS
<1>7. PICK q : q = done'
  OBVIOUS
<1>8. p \in [Threads -> BOOLEAN] /\ q \in [Threads -> BOOLEAN]
  BY <1>6, <1>7 DEF done
<1>9. \A u \in Threads \ {t} : q[u] <=> p[u]
  BY <1>6, <1>7, OthersAnswer
<1>10. q[t] <=> d
  BY <1>7
<1>11. q = [p EXCEPT ![t] = d]
  <2>1. \A u \in Threads : q[u] \in BOOLEAN /\ p[u] \in BOOLEAN
    BY <1>8
  <2>2. q[t] = d /\ \A u \in Threads \ {t} : q[u] = p[u]
    BY <1>9, <1>10, <2>1, Zenon
  <2> QED BY <1>8, <2>2
<1> QED BY <1>1, <1>2, <1>5, <1>6, <1>7, <1>11

(* If all buckets are extended, so are those that are read.                *)
LEMMA GrowingReads == AllGrow => ReadBucketsGrow
BY DEF AllGrow, ReadBucketsGrow

(* A step that changes no size and not its own answer is a stuttering step *)
(* of the abstract map.                                                    *)
LEMMA Stutters ==
  ASSUME TableAssumption, TableIInv, TableIInv', NEW t \in Threads, OthersWait(t),
         AllGrow, size' = size, call' = call, answer'[t] = answer[t], done'[t] <=> done[t]
  PROVE  UNCHANGED Abstract!vars
<1>1. map' = map
  BY MapSame
<1>2. PICK a : a = answer[t]
  OBVIOUS
<1>3. PICK d \in BOOLEAN : d = done[t]
  BY DEF done
<1>4. answer' = [answer EXCEPT ![t] = a] /\ done' = [done EXCEPT ![t] = d]
  BY <1>2, <1>3, AnswersExcept, GrowingReads
<1>5. answer = [u \in Threads |-> answer[u]] /\ done = [u \in Threads |-> done[u]]
  BY DEF answer, done
<1>6. answer' = answer /\ done' = done
  BY <1>2, <1>3, <1>4, <1>5
<1> QED BY <1>1, <1>6 DEF Abstract!vars

(* Steps between places where the call has not taken effect. *)
LEMMA QuietStep ==
  ASSUME TableAssumption, TableIInv, TableIInv', NEW t \in Threads, OthersWait(t),
         AllGrow, size' = size, call' = call, result' = result, NEW place, pc' = [pc EXCEPT ![t] = place],
         ~DonePlace(pc[t], call[t].op), ~DonePlace(place, call[t].op)
  PROVE  UNCHANGED Abstract!vars
<1>1. pc'[t] = place
  BY ThreadFacts DEF TypeOK
<1>2. pc[t] \notin Published /\ pc'[t] \notin Published
  BY <1>1 DEF DonePlace, Published
<1>3. answer'[t] = answer[t]
  BY <1>2, OwnAnswer
<1>4. done'[t] <=> done[t]
  BY <1>1, OwnAnswer
<1> QED BY <1>3, <1>4, Stutters

(* Which call a thread is in, from its place.                              *)
LEMMA CallKinds ==
  ASSUME TableAssumption, TableIInv, NEW t \in Threads
  PROVE  /\ pc[t] = "visit" => call[t].op = "remove_if"
         /\ pc[t] = "idle" => call[t] = NoCall
         /\ pc[t] = "remove" => call[t].op = "remove" /\ call[t].key \in Keys /\ self[t].b = BucketIdx[call[t].key]
                                /\ result[t] = NothingYet
         /\ pc[t] \in {"w_unlock"} => call[t].op = "remove_if" \/ call[t].op = "remove"
         /\ pc[t] \in ReadPlaces => /\ call[t].op \in {"get", "insert"} /\ call[t].key \in Keys
                                    /\ call[t].op = "get" => pc[t] \in GetPlaces
                                    /\ self[t].b = BucketIdx[call[t].key]
                                    /\ pc[t] # "r_unlock" => result[t] = NothingYet
<1>1. PICK c : c = call[t]
  OBVIOUS
<1>2. PICK place : place = pc[t]
  OBVIOUS
<1>3. CallAt(place, c, self[t].b, result[t])
  BY <1>1, <1>2, ThreadFacts DEF ThreadAt
<1>4. place = "visit" => c.op = "remove_if"
  BY <1>3 DEF CallAt, OnKey, OnAll
<1>5. place = "idle" => c = NoCall
  BY <1>3 DEF CallAt
<1>6. place = "remove" => c.op = "remove" /\ c.key \in Keys /\ self[t].b = BucketIdx[c.key] /\ result[t] = NothingYet
  BY <1>3 DEF CallAt, OnKey, OnAll
<1>7. place = "w_unlock" => c.op = "remove_if" \/ c.op = "remove"
  BY <1>3 DEF CallAt, OnKey, OnAll
<1>8. place \in ReadPlaces => /\ c.op \in {"get", "insert"} /\ c.key \in Keys
                              /\ c.op = "get" => place \in GetPlaces
                              /\ self[t].b = BucketIdx[c.key]
                              /\ place # "r_unlock" => result[t] = NothingYet
  <2> SUFFICES ASSUME place \in ReadPlaces
               PROVE  /\ c.op \in {"get", "insert"} /\ c.key \in Keys
                      /\ c.op = "get" => place \in GetPlaces
                      /\ self[t].b = BucketIdx[c.key]
                      /\ place # "r_unlock" => result[t] = NothingYet
    OBVIOUS
  <2>1. /\ place # "r_unlock" => result[t] = NothingYet
        /\ c \in [op : Calls \ {"remove_if"}, key : Keys] /\ self[t].b = BucketIdx[c.key]
        /\ c.op # "remove" /\ (c.op = "get" => place \in GetPlaces)
    BY <1>3, ReaderCall
  <2>2. c.op \in {"get", "insert"} /\ c.key \in Keys
    BY <2>1 DEF TableAssumption
  <2> QED BY <2>1, <2>2
<1> QED BY <1>1, <1>2, <1>4, <1>5, <1>6, <1>7, <1>8

(* A step between places where the call has not taken effect.              *)
Quiet(t) ==
  /\ call' = call /\ result' = result
  /\ \E place : /\ pc' = [pc EXCEPT ![t] = place]
                /\ ~DonePlace(pc[t], call[t].op) /\ ~DonePlace(place, call[t].op)

(* Going from one such place to another.                                   *)
LEMMA GoesQuietly ==
  ASSUME NEW t, NEW from, NEW to, Goto(t, from, to), call' = call, result' = result,
         from \notin {"inserted_unlock", "fetch_own", "r_unlock", "w_unlock"},
         to \notin {"inserted_unlock", "fetch_own", "r_unlock", "w_unlock"}
  PROVE  Quiet(t)
BY DEF Goto, Quiet, DonePlace

(* The locals before a step. *)
LEMMA QuietSteps ==
  ASSUME TableAssumption, TableIInv, TableIInv', NEW t \in Threads, OthersWait(t),
         \/ ReaderLock(t) \/ WriterLock(t) \/ Load(t) \/ Scan(t) \/ Trylock(t) \/ SpinLoad(t) \/ SpinScan(t)
         \/ SpinAgain(t) \/ LockedLoad(t) \/ LockedScan(t) \/ LockedScanEnd(t) \/ FoundUnlock(t)
         \/ ReuseBucketChunk(t) \/ NewChunk(t) \/ Write(t)
         \/ VisitKeep(t) \/ VisitNextChunk(t) \/ VisitEnd(t) \/ NextBucket(t)
  PROVE  UNCHANGED Abstract!vars
<1>1. AllGrow /\ size' = size
  <2>1. CASE OnlyLooks(t)
    BY <2>1, LooksSame, SameGrows DEF DataSame
  <2>2. CASE ReuseBucketChunk(t)
    BY <2>2, ReuseBucketChunkKeeps, SameGrows DEF DataSame
  <2>3. CASE NewChunk(t)
    BY <2>3, NewChunkKeeps DEF NewChunk
  <2>4. CASE Write(t)
    BY <2>4, WriteKeeps DEF Write, bucketVars
  <2> QED BY <2>1, <2>2, <2>3, <2>4 DEF OnlyLooks, Reading
<1>2. ASSUME NEW from, NEW to, Compare(t, from, to),
             <<from, to>> \in {<<"scan", "fetch">>, <<"spin_scan", "fetch">>, <<"locked_scan", "found_unlock">>}
      PROVE  Quiet(t)
  BY <1>2, GoesQuietly DEF Compare
<1>3. ASSUME Scan(t) \/ SpinScan(t) \/ LockedScan(t) PROVE Quiet(t)
  BY <1>2, <1>3 DEF Scan, SpinScan, LockedScan
<1>4. ASSUME ReaderLock(t) \/ WriterLock(t) PROVE Quiet(t)
  BY <1>4, GoesQuietly DEF ReaderLock, WriterLock
<1>5. ASSUME Load(t) \/ SpinLoad(t) \/ LockedLoad(t) PROVE Quiet(t)
  BY <1>5, GoesQuietly DEF Load, SpinLoad, LockedLoad, LoadSize
<1>6. ASSUME Trylock(t) \/ SpinAgain(t) \/ LockedScanEnd(t) \/ FoundUnlock(t) PROVE Quiet(t)
  <2>1. CASE Trylock(t)
    BY <2>1, GoesQuietly DEF Trylock
  <2>2. CASE SpinAgain(t)
    BY <2>2, GoesQuietly DEF SpinAgain
  <2>3. CASE LockedScanEnd(t)
    BY <2>3, GoesQuietly DEF LockedScanEnd
  <2>4. CASE FoundUnlock(t)
    BY <2>4, GoesQuietly DEF FoundUnlock, InsertUnlock
  <2> QED BY <1>6, <2>1, <2>2, <2>3, <2>4
<1>7. ASSUME ReuseBucketChunk(t) \/ NewChunk(t) \/ Write(t) PROVE Quiet(t)
  <2>1. CASE ReuseBucketChunk(t)
    BY <2>1, GoesQuietly DEF ReuseBucketChunk
  <2>2. CASE NewChunk(t)
    BY <2>2, GoesQuietly DEF NewChunk
  <2>3. CASE Write(t)
    BY <2>3, GoesQuietly DEF Write
  <2> QED BY <1>7, <2>1, <2>2, <2>3
<1>8. ASSUME VisitKeep(t) \/ VisitNextChunk(t) PROVE Quiet(t)
  <2>1. pc[t] = "visit" /\ pc' = pc /\ call' = call /\ result' = result
    BY <1>8 DEF VisitKeep, VisitNextChunk, Visiting
  <2>2. pc' = [pc EXCEPT ![t] = "visit"]
    BY <2>1, ThreadFacts, MovesKeeping
  <2> QED BY <2>1, <2>2 DEF Quiet, DonePlace
<1>9. ASSUME VisitEnd(t) PROVE Quiet(t)
  <2>1. pc[t] = "visit" /\ pc' = [pc EXCEPT ![t] = "w_unlock"] /\ call' = call /\ result' = result
    BY <1>9 DEF VisitEnd, Goto
  <2>2. call[t].op = "remove_if"
    BY <2>1, CallKinds
  <2> QED BY <2>1, <2>2 DEF Quiet, DonePlace
<1>10. ASSUME NextBucket(t) PROVE Quiet(t)
  BY <1>10 DEF NextBucket, Goto, Quiet, DonePlace
<1>11. Quiet(t)
  BY ONLY <1>3, <1>4, <1>5, <1>6, <1>7, <1>8, <1>9, <1>10,
         \/ ReaderLock(t) \/ WriterLock(t) \/ Load(t) \/ Scan(t) \/ Trylock(t) \/ SpinLoad(t) \/ SpinScan(t)
         \/ SpinAgain(t) \/ LockedLoad(t) \/ LockedScan(t) \/ LockedScanEnd(t) \/ FoundUnlock(t)
         \/ ReuseBucketChunk(t) \/ NewChunk(t) \/ Write(t)
         \/ VisitKeep(t) \/ VisitNextChunk(t) \/ VisitEnd(t) \/ NextBucket(t)
<1> QED BY <1>1, <1>11, QuietStep DEF Quiet

(* Giving back the insert lock and reading the own value after publishing. *)
LEMMA PublishedSteps ==
  ASSUME TableAssumption, TableIInv, TableIInv', NEW t \in Threads, OthersWait(t),
         InsertedUnlock(t) \/ FetchOwn(t)
  PROVE  UNCHANGED Abstract!vars
<1>1. AllGrow /\ size' = size /\ call' = call
  <2>1. DataSame
    BY LooksSame DEF OnlyLooks
  <2> QED BY <2>1, SameGrows DEF DataSame, InsertedUnlock, InsertUnlock, FetchOwn
<1>2. TypeOK
  BY DEF TableIInv
<1>3. CASE InsertedUnlock(t)
  <2>1. pc[t] = "inserted_unlock" /\ pc'[t] = "fetch_own" /\ self' = self
    BY <1>2, <1>3 DEF InsertedUnlock, InsertUnlock, Goto, TypeOK
  <2>2. answer'[t] = answer[t]
    BY <1>1, <2>1, AnswerStays, GrowingReads DEF Published
  <2>3. done'[t] <=> done[t]
    BY <2>1, OwnAnswer DEF DonePlace
  <2> QED BY <1>1, <2>2, <2>3, Stutters
<1>4. CASE FetchOwn(t)
  <2>1. pc[t] = "fetch_own" /\ pc'[t] = "r_unlock" /\ result'[t] = Result(values[Deref(t)][self[t].j], TRUE)
    BY <1>2, <1>4 DEF FetchOwn, Goto, Return, TypeOK
  <2>2. answer'[t] = answer[t]
    BY <2>1, OwnAnswer DEF Published
  <2>3. done'[t] <=> done[t]
    BY <2>1, OwnAnswer DEF DonePlace
  <2> QED BY <1>1, <2>2, <2>3, Stutters
<1> QED BY <1>3, <1>4

-----------------------------------------------------------------------------
(* The steps at which a call takes effect. *)
LEMMA InvokeImplements ==
  ASSUME TableAssumption, TableIInv, TableIInv', NEW t \in Threads, OthersWait(t),
         InvokeOnKey(t) \/ InvokeRemoveIf(t)
  PROVE  Abstract!Invoke(t)
<1>1. TypeOK
  BY DEF TableIInv
<1>2. pc[t] = "idle" /\ pc'[t] \in {"r_lock", "w_lock"} /\ result'[t] = Result(NULL, FALSE)
  BY <1>1 DEF InvokeOnKey, InvokeRemoveIf, Goto, Return, TypeOK
<1>3. call[t] = NoCall
  BY <1>2, CallKinds
<1>4. \E c \in Abstract!KeyCalls \cup Abstract!RemoveIfCalls : call' = [call EXCEPT ![t] = c]
  <2>1. CASE InvokeOnKey(t)
    <3>1. PICK op \in Calls \ {"remove_if"}, k \in Keys : call' = [call EXCEPT ![t] = [op |-> op, key |-> k]]
      BY <2>1 DEF InvokeOnKey
    <3> QED BY <3>1 DEF Abstract!KeyCalls
  <2>2. CASE InvokeRemoveIf(t)
    <3>1. PICK op \in Calls \cap {"remove_if"}, S \in SUBSET Keys :
            call' = [call EXCEPT ![t] = [op |-> op, accepts |-> S]]
      BY <2>2 DEF InvokeRemoveIf
    <3> QED BY <3>1 DEF Abstract!RemoveIfCalls
  <2> QED BY <2>1, <2>2
<1>5. AllGrow /\ size' = size
  <2>1. DataSame
    BY LooksSame DEF OnlyLooks
  <2> QED BY <2>1, SameGrows DEF DataSame
<1>6. answer'[t] = Result(NULL, FALSE)
  BY <1>2, OwnAnswer DEF Published
<1>7. ~done[t] /\ ~done'[t]
  BY <1>2, OwnAnswer DEF DonePlace
<1>8. map' = map
  BY <1>5, MapSame
<1>9. answer' = [answer EXCEPT ![t] = Result(NULL, FALSE)] /\ done' = [done EXCEPT ![t] = FALSE]
  BY <1>5, <1>6, <1>7, AnswersExcept, GrowingReads
<1>10. done' = done
  <2>1. done \in [Threads -> BOOLEAN]
    BY DEF done
  <2>2. done[t] = FALSE
    BY <1>7, <2>1
  <2> QED BY <1>9, <2>1, <2>2
<1> QED BY <1>3, <1>4, <1>8, <1>9, <1>10 DEF Abstract!Invoke, Abstract!NoCall, NoCall, Abstract!Result, Result

(* Leaving the table is the return of the abstract call.                   *)
LEMMA ReturnImplements ==
  ASSUME TableAssumption, TableIInv, TableIInv', NEW t \in Threads, OthersWait(t),
         ReaderUnlock(t) \/ WriterUnlock(t)
  PROVE  Abstract!Return(t)
<1>1. TypeOK
  BY DEF TableIInv
<1>2. pc[t] \in {"r_unlock", "w_unlock"} /\ pc'[t] = "idle" /\ result' = result
      /\ call' = [call EXCEPT ![t] = NoCall]
  BY <1>1 DEF ReaderUnlock, WriterUnlock, Leave, Goto, TypeOK
<1>3. done[t] \/ call[t].op = "remove_if"
  BY <1>2, CallKinds, OwnAnswer DEF DonePlace
<1>4. AllGrow /\ size' = size
  <2>1. DataSame
    BY LooksSame DEF OnlyLooks, Reading
  <2> QED BY <2>1, SameGrows DEF DataSame
<1>5. PICK a : a = answer[t]
  OBVIOUS
<1>6. answer'[t] = a
  BY <1>2, <1>5, OwnAnswer DEF Published
<1>7. ~done'[t]
  BY <1>2, OwnAnswer DEF DonePlace
<1>8. answer' = [answer EXCEPT ![t] = a] /\ done' = [done EXCEPT ![t] = FALSE]
  BY <1>4, <1>6, <1>7, AnswersExcept, GrowingReads
<1>9. answer' = answer
  <2>1. answer = [u \in Threads |-> answer[u]]
    BY DEF answer
  <2> QED BY <1>5, <1>8, <2>1
<1>10. map' = map
  BY <1>4, MapSame
<1> QED BY <1>2, <1>3, <1>8, <1>9, <1>10 DEF Abstract!Return, Abstract!NoCall, NoCall

(* A search that found its key, at the moment it reads the value. *)
LEMMA FetchImplements ==
  ASSUME TableAssumption, TableIInv, TableIInv', NEW t \in Threads, OthersWait(t), Fetch(t)
  PROVE  Abstract!Get(t) \/ Abstract!GetInsteadOfInsert(t)
<1>1. TypeOK
  BY DEF TableIInv
<1>2. pc[t] = "fetch" /\ pc'[t] = "r_unlock" /\ call' = call
      /\ result'[t] = Result(values[Deref(t)][self[t].j], call[t].op = "get")
  BY <1>1 DEF Fetch, Goto, Return, TypeOK
<1>3. PICK w \in Locals, c \in AnyCall, r \in Results, b \in Buckets, n \in CountRange :
        \E s : View(t, w, c, r, b, n, s)
  BY ThreadView
<1>4. PICK s : View(t, w, c, r, b, n, s)
  BY <1>3
<1>5. w.i \in 0 .. n - 1 /\ At(s, keys, w.i) = c.key /\ values[Deref(t)][self[t].j] = At(s, values, w.i)
  BY <1>2, <1>4, FoundPair DEF Found
<1>6. call[t].op \in {"get", "insert"} /\ call[t].key \in Keys /\ self[t].b = BucketIdx[call[t].key]
  BY <1>2, CallKinds DEF ReadPlaces
<1>7. c = call[t] /\ b = self[t].b /\ n = size[b] /\ s = ChainOf(b)
  BY <1>4 DEF View
<1>8. PICK key \in Keys : key = call[t].key
  BY <1>6
<1>9. map[key] = At(s, values, w.i) /\ map[key] # NULL
  BY <1>5, <1>6, <1>7, <1>8, MapIs
<1>10. AllGrow /\ size' = size
  <2>1. DataSame
    BY LooksSame DEF OnlyLooks, Reading
  <2> QED BY <2>1, SameGrows DEF DataSame
<1>11. map' = map
  BY <1>10, MapSame
<1>12. answer'[t] = Result(map[key], call[t].op = "get")
  BY <1>2, <1>5, <1>9, OwnAnswer DEF Published
<1>13. ~done[t] /\ done'[t]
  BY <1>2, OwnAnswer DEF DonePlace
<1>14. answer' = [answer EXCEPT ![t] = Result(map[key], call[t].op = "get")] /\ done' = [done EXCEPT ![t] = TRUE]
  <2>1. PICK a : a = Result(map[key], call[t].op = "get")
    OBVIOUS
  <2>2. ReadBucketsGrow /\ TRUE \in BOOLEAN /\ (done'[t] <=> TRUE) /\ answer'[t] = a
    BY <1>10, <1>12, <1>13, <2>1, GrowingReads
  <2>3. answer' = [answer EXCEPT ![t] = a] /\ done' = [done EXCEPT ![t] = TRUE]
    BY <2>2, AnswersExcept
  <2> QED BY <2>1, <2>3
<1>15. CASE call[t].op = "get"
  <2>1. (call[t].op = "get") = TRUE /\ (map[key] # NULL) = TRUE
    BY <1>9, <1>15
  <2>2. answer' = [answer EXCEPT ![t] = Result(map[key], map[key] # NULL)]
    BY <1>14, <2>1
  <2> QED BY <1>2, <1>8, <1>11, <1>13, <1>14, <1>15, <2>2
          DEF Abstract!Get, Abstract!Pending, Abstract!Answer, Abstract!Result, Result
<1>16. CASE call[t].op = "insert"
  <2>1. (call[t].op = "get") = FALSE
    BY <1>16
  <2>2. answer' = [answer EXCEPT ![t] = Result(map[key], FALSE)]
    BY <1>14, <2>1
  <2> QED BY <1>2, <1>8, <1>9, <1>11, <1>13, <1>14, <1>16, <2>2
          DEF Abstract!GetInsteadOfInsert, Abstract!Pending, Abstract!Answer, Abstract!Result, Result
<1> QED BY <1>6, <1>15, <1>16

(* A search that did not, at the moment it finds that the size is the      *)
(* number of pairs it has seen.                                            *)
LEMMA ReloadImplements ==
  ASSUME TableAssumption, TableIInv, TableIInv', NEW t \in Threads, OthersWait(t), Reload(t)
  PROVE  Abstract!Get(t) \/ UNCHANGED Abstract!vars
<1>1. TypeOK
  BY DEF TableIInv
<1>2. PICK place : place = IF size[self[t].b] > self[t].current THEN "scan"
                           ELSE IF call[t].op = "get" THEN "r_unlock" ELSE "try_lock"
  OBVIOUS
<1>3. /\ pc[t] = "scan" /\ pc' = [pc EXCEPT ![t] = place] /\ self[t].i = self[t].current
      /\ call' = call /\ result' = result
  BY <1>2 DEF Reload, LoadSize, Goto
<1>4. AllGrow /\ size' = size
  <2>1. DataSame
    BY LooksSame DEF OnlyLooks, Reading
  <2> QED BY <2>1, SameGrows DEF DataSame
<1>5. CASE place \in {"scan", "try_lock"}
  <2>1. ~DonePlace(pc[t], call[t].op) /\ ~DonePlace(place, call[t].op)
    BY <1>3, <1>5 DEF DonePlace
  <2> QED BY <1>3, <1>4, <2>1, QuietStep
<1>6. CASE place = "r_unlock"
  <2>1. ~(size[self[t].b] > self[t].current) /\ call[t].op = "get"
    BY <1>2, <1>6
  <2>2. PICK w \in Locals, c \in AnyCall, r \in Results, b \in Buckets, n \in CountRange :
          \E s : View(t, w, c, r, b, n, s)
    BY ThreadView
  <2>3. PICK s : View(t, w, c, r, b, n, s)
    BY <2>2
  <2>4. /\ w = self[t] /\ c = call[t] /\ w.b = b /\ n = size[b] /\ s = ChainOf(b) /\ n \in Nat
        /\ w.i \in Nat /\ w.current \in Nat /\ SearchAt("scan", w, c.key, n, s, keys)
    BY <1>3, <2>3 DEF View, ThreadAt
  <2>5. w.i = n /\ Missed(w, c.key, s, keys)
    <3>1. w.current <= n /\ Missed(w, c.key, s, keys)
      BY <2>4 DEF SearchAt, Searching
    <3>2. w.current = n
      BY <2>1, <2>4, <3>1
    <3> QED BY <1>3, <2>4, <3>1, <3>2
  <2>6. call[t].key \in Keys /\ self[t].b = BucketIdx[call[t].key] /\ result[t] = NothingYet
    BY <1>3, CallKinds DEF ReadPlaces
  <2>7. PICK key \in Keys : key = call[t].key
    BY <2>6
  <2>8. map[key] = NULL
    BY <2>4, <2>5, <2>6, <2>7, MapIs DEF Missed
  <2>9. map' = map
    BY <1>4, MapSame
  <2>10. pc'[t] = "r_unlock"
    BY <1>1, <1>3, <1>6 DEF TypeOK
  <2>11. answer'[t] = Result(NULL, FALSE)
    BY <1>3, <2>6, <2>10, OwnAnswer DEF Published, NothingYet
  <2>12. ~done[t] /\ done'[t]
    BY <1>3, <2>10, OwnAnswer DEF DonePlace
  <2>13. answer' = [answer EXCEPT ![t] = Result(NULL, FALSE)] /\ done' = [done EXCEPT ![t] = TRUE]
    BY <1>4, <2>11, <2>12, AnswersExcept, GrowingReads
  <2>14. answer' = [answer EXCEPT ![t] = Result(map[key], map[key] # NULL)]
    <3>1. (map[key] # NULL) = FALSE
      BY <2>8
    <3> QED BY <2>8, <2>13, <3>1
  <2> QED BY <1>3, <2>1, <2>7, <2>9, <2>12, <2>13, <2>14
          DEF Abstract!Get, Abstract!Pending, Abstract!Answer, Abstract!Result, Result
<1> QED BY <1>2, <1>5, <1>6

(* An insert, at the moment it publishes the size. *)
LEMMA PublishImplements ==
  ASSUME TableAssumption, TableIInv, TableIInv', NEW t \in Threads, OthersWait(t), Publish(t)
  PROVE  Abstract!Insert(t)
<1>1. TypeOK
  BY DEF TableIInv
<1>2. PICK w \in Locals, c \in AnyCall, r \in Results, b \in Buckets, n \in CountRange :
        \E s : View(t, w, c, r, b, n, s)
  BY ThreadView
<1>3. PICK s : View(t, w, c, r, b, n, s)
  BY <1>2
<1>4. pc[t] = "publish" /\ pc'[t] = "inserted_unlock"
  BY <1>1 DEF Publish, Goto, TypeOK
<1>5. /\ w = self[t] /\ c = call[t] /\ w.b = b /\ n = size[b] /\ s = ChainOf(b) /\ n \in Nat
      /\ SearchAt("publish", w, c.key, n, s, keys) /\ WrittenAt("publish", c.key, n, s, keys, values)
  BY <1>3, <1>4 DEF View, ThreadAt
<1>6. w.i = n /\ w.current = n /\ Missed(w, c.key, s, keys) /\ At(s, keys, n) = c.key /\ At(s, values, n) \in Values
  BY <1>5 DEF SearchAt, WrittenAt
<1>7. /\ size' = [size EXCEPT ![b] = n + 1] /\ UNCHANGED <<keys, values, head, next, call, self>>
  BY <1>5, <1>6 DEF Publish, chunkVars
<1>8. size'[b] = n + 1 /\ \A d \in Buckets \ {b} : size'[d] = size[d]
  BY <1>1, <1>7 DEF TypeOK
<1>9. ChainOf(b)' = s /\ keys' = keys /\ values' = values
  BY <1>5, <1>7 DEF ChainOf, Chain
<1>10. call[t].op \in {"get", "insert"} /\ call[t].op # "get" /\ call[t].key \in Keys
       /\ self[t].b = BucketIdx[call[t].key]
  BY <1>4, CallKinds DEF ReadPlaces, GetPlaces
<1>11. AllGrow
  BY PublishKeeps
<1>12. PICK v \in Values : v = At(s, values, n)
  BY <1>6
<1>13. PICK key \in Keys : key = call[t].key
  BY <1>10
<1>14. b = BucketIdx[key] /\ At(s, keys, n) = key /\ \A m \in 0 .. n - 1 : At(s, keys, m) # key
  BY <1>5, <1>6, <1>10, <1>13 DEF Missed
<1>15. map[key] = NULL
  BY <1>5, <1>14, MapIs
<1>16. n \in 0 .. n /\ 0 .. (n + 1) - 1 = 0 .. n /\ (\A m \in 0 .. n : m = n \/ m \in 0 .. n - 1)
       /\ (\A m \in 0 .. n - 1 : m \in 0 .. n)
  BY <1>5
<1>17. map'[key] = v
  <2>1. Has(s, keys, values, n + 1, key, v)
    BY <1>12, <1>14, <1>16 DEF Has
  <2>2. Has(ChainOf(b)', keys', values', size'[b], key, v)
    BY <1>8, <1>9, <2>1
  <2>3. b = BucketIdx[key]
    BY <1>14
  <2> QED BY ONLY TableAssumption, TableIInv', <2>2, <2>3, MapBecomes
<1>18. ASSUME NEW k \in Keys \ {key} PROVE map'[k] = map[k]
  <2>1. CASE BucketIdx[k] = b
    <3>1. PICK u : u = map[k]
      OBVIOUS
    <3>2. Has(s, keys, values, n, k, u)
      BY <1>5, <2>1, <3>1, MapIs
    <3>3. Has(s, keys, values, n + 1, k, u)
      <4>1. CASE \E m \in 0 .. n - 1 : At(s, keys, m) = k /\ At(s, values, m) = u
        BY <1>16, <4>1 DEF Has
      <4>2. CASE u = NULL /\ \A m \in 0 .. n - 1 : At(s, keys, m) # k
        BY <1>14, <1>16, <4>2 DEF Has
      <4> QED BY <3>2, <4>1, <4>2 DEF Has
    <3>4. map'[k] = u
      BY <1>8, <1>9, <2>1, <3>3, MapBecomes
    <3> QED BY <3>1, <3>4
  <2>2. CASE BucketIdx[k] # b
    <3>1. BucketIdx[k] \in Buckets \ {b}
      BY <2>2 DEF TableAssumption, Buckets
    <3> QED BY <1>8, <1>11, <3>1, KeyStays DEF AllGrow
  <2> QED BY <2>1, <2>2
<1>19. map' = [map EXCEPT ![key] = v]
  BY <1>17, <1>18, MapExcept
<1>20. answer'[t] = Result(v, TRUE)
  <2>1. AnswerAt(t)'
    BY AnswerKnownNext
  <2>2. answer'[t] = Result(At(ChainOf(b)', values', n), TRUE)
    <3>1. self[t]' = w /\ ChainOf(self[t].b)' = ChainOf(b)'
      BY <1>5, <1>7 DEF ChainOf
    <3> QED BY <1>4, <1>6, <2>1, <3>1 DEF AnswerAt, Published
  <2> QED BY <1>9, <1>12, <2>2
<1>21. ~done[t] /\ done'[t]
  BY <1>4, OwnAnswer DEF DonePlace
<1>22. answer' = [answer EXCEPT ![t] = Result(v, TRUE)] /\ done' = [done EXCEPT ![t] = TRUE]
  BY <1>11, <1>20, <1>21, AnswersExcept, GrowingReads
<1>23. call[t].op = "insert" /\ call' = call
  BY <1>7, <1>10
<1> QED BY <1>13, <1>15, <1>19, <1>21, <1>22, <1>23
        DEF Abstract!Insert, Abstract!Pending, Abstract!Answer, Abstract!Result, Result

(* What a key's value is when a pair was removed.                          *)
LEMMA HasRemoved ==
  ASSUME NEW s, NEW ks, NEW vs, NEW n \in Nat, NEW b, PairsIn(s, ks, vs, n, b),
         NEW hole \in 0 .. n - 1, NEW z, NEW kr, NEW vr,
         Replaces(s, ks, z, kr, n, hole), Replaces(s, vs, z, vr, n, hole),
         NEW k, NEW v, Has(s, ks, vs, n, k, v)
  PROVE  Has(z, kr, vr, n - 1, k, IF k = At(s, ks, hole) THEN NULL ELSE v)
<1>1. PICK e \in Nat : e = n - 1
  OBVIOUS
<1>2. /\ n = e + 1 /\ hole \in 0 .. e /\ e \in 0 .. n - 1 /\ n - 2 = e - 1
      /\ \A m \in 0 .. n - 1 : m = e \/ m \in 0 .. e - 1
      /\ \A m \in 0 .. e - 1 : m \in 0 .. n - 1 /\ m # e
      /\ hole # e => hole \in 0 .. e - 1
  BY <1>1
<1>3. /\ \A m \in 0 .. e - 1 : At(z, kr, m) = IF m = hole THEN At(s, ks, e) ELSE At(s, ks, m)
      /\ \A m \in 0 .. e - 1 : At(z, vr, m) = IF m = hole THEN At(s, vs, e) ELSE At(s, vs, m)
  BY <1>1, <1>2 DEF Replaces
<1>4. \A l, m \in 0 .. n - 1 : At(s, ks, l) = At(s, ks, m) => l = m
  BY DEF PairsIn
<1>5. CASE k = At(s, ks, hole)
  <2>1. \A m \in 0 .. e - 1 : At(z, kr, m) # k
    BY <1>2, <1>3, <1>4, <1>5
  <2> QED BY <1>1, <1>5, <2>1 DEF Has
<1>6. CASE k # At(s, ks, hole)
  <2>1. CASE \E m \in 0 .. n - 1 : At(s, ks, m) = k /\ At(s, vs, m) = v
    <3>1. PICK m \in 0 .. n - 1 : At(s, ks, m) = k /\ At(s, vs, m) = v
      BY <2>1
    <3>2. m # hole
      BY <1>6, <3>1
    <3>3. \E l \in 0 .. e - 1 : At(z, kr, l) = k /\ At(z, vr, l) = v
      <4>1. CASE m = e
        <5>1. hole \in 0 .. e - 1
          BY <1>2, <3>2, <4>1
        <5>2. At(z, kr, hole) = k /\ At(z, vr, hole) = v
          BY <1>3, <3>1, <4>1, <5>1
        <5> QED BY <5>1, <5>2
      <4>2. CASE m # e
        <5>1. m \in 0 .. e - 1
          BY <1>2, <4>2
        <5>2. At(z, kr, m) = k /\ At(z, vr, m) = v
          BY <1>3, <3>1, <3>2, <5>1
        <5> QED BY <5>1, <5>2
      <4> QED BY <4>1, <4>2
    <3> QED BY <1>1, <1>6, <3>3 DEF Has
  <2>2. CASE v = NULL /\ \A m \in 0 .. n - 1 : At(s, ks, m) # k
    <3>1. \A m \in 0 .. e - 1 : At(z, kr, m) # k
      BY <1>2, <1>3, <2>2
    <3> QED BY <1>1, <1>6, <2>2, <3>1 DEF Has
  <2> QED BY <2>1, <2>2 DEF Has
<1> QED BY <1>5, <1>6

(* Removing a pair removes its key from the map.                           *)
LEMMA RemovedMap ==
  ASSUME TableAssumption, TableIInv, TableIInv', NEW t \in Threads,
         NEW w \in Locals, NEW c \in AnyCall, NEW r \in Results, NEW b \in Buckets, NEW n \in CountRange,
         NEW s, View(t, w, c, r, b, n, s), NEW hole \in 0 .. n - 1, Removed(b, s, n, hole)
  PROVE  \E key \in Keys :
           /\ key = At(s, keys, hole) /\ map[key] = At(s, values, hole) /\ map[key] # NULL
           /\ map' = [map EXCEPT ![key] = NULL]
<1>1. n = size[b] /\ s = ChainOf(b) /\ n \in Nat
  BY DEF View
<1>2. PairsIn(s, keys, values, n, b)
  BY <1>1, BucketFacts
<1>3. PICK key \in Keys : key = At(s, keys, hole)
  BY <1>2 DEF PairsIn
<1>4. BucketIdx[key] = b
  BY <1>2, <1>3 DEF PairsIn
<1>5. map[key] = At(s, values, hole) /\ map[key] # NULL
  BY <1>1, <1>3, <1>4, MapIs
<1>6. /\ size'[b] = n - 1 /\ \A d \in Buckets \ {b} : Untouched(d)
      /\ Replaces(s, keys, ChainOf(b)', keys', n, hole) /\ Replaces(s, values, ChainOf(b)', values', n, hole)
  BY DEF Removed
<1>7. PICK z : z = ChainOf(b)'
  OBVIOUS
<1>8. PICK kr : kr = keys'
  OBVIOUS
<1>9. PICK vr : vr = values'
  OBVIOUS
<1>10. Replaces(s, keys, z, kr, n, hole) /\ Replaces(s, values, z, vr, n, hole)
  BY <1>6, <1>7, <1>8, <1>9
<1>11. ASSUME NEW k \in Keys, BucketIdx[k] = b
       PROVE  map'[k] = IF k = key THEN NULL ELSE map[k]
  <2>1. PICK v : v = map[k]
    OBVIOUS
  <2>2. Has(s, keys, values, n, k, v)
    BY <1>1, <1>11, <2>1, MapIs
  <2>3. Has(z, kr, vr, n - 1, k, IF k = At(s, keys, hole) THEN NULL ELSE v)
    BY <1>1, <1>2, <1>10, <2>2, HasRemoved
  <2>4. PICK u : u = IF k = At(s, keys, hole) THEN NULL ELSE v
    OBVIOUS
  <2>5. Has(z, kr, vr, n - 1, k, u)
    BY <2>3, <2>4
  <2>6. Has(ChainOf(b)', keys', values', size'[b], k, u)
    BY <1>6, <1>7, <1>8, <1>9, <2>5
  <2>7. map'[k] = u
    BY <1>11, <2>6, MapBecomes
  <2> QED BY <1>3, <2>1, <2>4, <2>7
<1>12. map'[key] = NULL
  BY <1>4, <1>11
<1>13. ASSUME NEW k \in Keys \ {key} PROVE map'[k] = map[k]
  <2>1. CASE BucketIdx[k] = b
    BY <1>11, <2>1
  <2>2. CASE BucketIdx[k] # b
    <3>1. PICK d \in Buckets \ {b} : d = BucketIdx[k]
      BY <2>2 DEF TableAssumption, Buckets
    <3>2. Grows(d) /\ size'[d] = size[d]
      BY <1>6, <3>1, UntouchedGrows DEF Untouched
    <3> QED BY <3>1, <3>2, KeyStays
  <2> QED BY <2>1, <2>2
<1>14. map' = [map EXCEPT ![key] = NULL]
  BY <1>12, <1>13, MapExcept
<1> QED BY <1>3, <1>5, <1>14

(* remove takes effect when it removes the pair.                           *)
LEMMA RemoveImplements ==
  ASSUME TableAssumption, OneChunkIfRemoveIf, TableIInv, TableIInv', NEW t \in Threads, OthersWait(t),
         ReadBucketsGrow, Remove(t)
  PROVE  Abstract!Remove(t)
<1>1. TypeOK
  BY DEF TableIInv
<1>2. PICK w \in Locals, c \in AnyCall, r \in Results, b \in Buckets, n \in CountRange :
        \E s : View(t, w, c, r, b, n, s)
  BY ThreadView
<1>3. PICK s : View(t, w, c, r, b, n, s)
  BY <1>2
<1>4. PICK hole \in 0 .. n - 1 : Removed(b, s, n, hole) /\ Removes(t, b, s, n, hole, c.key, r)
  BY <1>3, RemovalIs
<1>5. pc[t] = "remove" /\ pc'[t] = "w_unlock" /\ call' = call
  BY <1>1 DEF Remove, Goto, TypeOK
<1>6. PICK key \in Keys : /\ key = At(s, keys, hole) /\ map[key] = At(s, values, hole) /\ map[key] # NULL
                          /\ map' = [map EXCEPT ![key] = NULL]
  BY <1>3, <1>4, RemovedMap
<1>7. key = call[t].key /\ call[t].op = "remove"
  BY <1>3, <1>4, <1>5, <1>6, CallKinds DEF View, Removes
<1>8. answer'[t] = Result(map[key], TRUE)
  <2>1. result'[t] = Result(At(s, values, hole), TRUE)
    BY <1>1, <1>4 DEF Removes, TypeOK
  <2> QED BY <1>5, <1>6, <2>1, OwnAnswer DEF Published
<1>9. ~done[t] /\ done'[t]
  BY <1>5, <1>7, OwnAnswer DEF DonePlace
<1>10. answer' = [answer EXCEPT ![t] = Result(map[key], TRUE)] /\ done' = [done EXCEPT ![t] = TRUE]
  BY <1>8, <1>9, AnswersExcept
<1>11. answer' = [answer EXCEPT ![t] = Result(map[key], map[key] # NULL)]
  <2>1. (map[key] # NULL) = TRUE
    BY <1>6
  <2> QED BY <1>10, <2>1
<1> QED BY <1>5, <1>6, <1>7, <1>9, <1>10, <1>11
        DEF Abstract!Remove, Abstract!Pending, Abstract!Answer, Abstract!Result, Result

(* remove of a key that is not there changes nothing and says so.          *)
LEMMA RemoveNothingImplements ==
  ASSUME TableAssumption, TableIInv, TableIInv', NEW t \in Threads, OthersWait(t), RemoveNothing(t)
  PROVE  Abstract!Remove(t)
<1>1. TypeOK
  BY DEF TableIInv
<1>2. pc[t] = "remove" /\ pc'[t] = "w_unlock" /\ call' = call /\ result' = result
  BY <1>1 DEF RemoveNothing, Goto, TypeOK
<1>3. call[t].op = "remove" /\ call[t].key \in Keys /\ self[t].b = BucketIdx[call[t].key] /\ result[t] = NothingYet
  BY <1>2, CallKinds
<1>4. PICK key \in Keys : key = call[t].key
  BY <1>3
<1>5. PICK b : b = BucketIdx[key]
  OBVIOUS
<1>6. \A m \in 0 .. size[b] - 1 : At(ChainOf(b), keys, m) # key
  BY <1>3, <1>4, <1>5, PairAt DEF RemoveNothing
<1>7. map[key] = NULL
  BY <1>5, <1>6, MapIs
<1>8. AllGrow /\ size' = size
  <2>1. DataSame
    BY LooksSame DEF OnlyLooks
  <2> QED BY <2>1, SameGrows DEF DataSame
<1>9. map' = [map EXCEPT ![key] = NULL]
  <2>1. map' = map
    BY <1>8, MapSame
  <2>2. map'[key] = NULL /\ \A k \in Keys \ {key} : map'[k] = map[k]
    BY <1>7, <2>1
  <2> QED BY <2>2, MapExcept
<1>10. answer'[t] = Result(NULL, FALSE)
  BY <1>2, <1>3, OwnAnswer DEF Published, NothingYet
<1>11. ~done[t] /\ done'[t]
  BY <1>2, <1>3, OwnAnswer DEF DonePlace
<1>12. answer' = [answer EXCEPT ![t] = Result(NULL, FALSE)] /\ done' = [done EXCEPT ![t] = TRUE]
  BY <1>8, <1>10, <1>11, AnswersExcept, GrowingReads
<1>13. answer' = [answer EXCEPT ![t] = Result(map[key], map[key] # NULL)]
  <2>1. (map[key] # NULL) = FALSE
    BY <1>7
  <2> QED BY <1>7, <1>12, <2>1
<1> QED BY <1>2, <1>3, <1>4, <1>9, <1>11, <1>12, <1>13
        DEF Abstract!Remove, Abstract!Pending, Abstract!Answer, Abstract!Result, Result

(* remove_if drops the pairs it accepts one by one.                        *)
LEMMA VisitRemoveImplements ==
  ASSUME TableAssumption, OneChunkIfRemoveIf, TableIInv, TableIInv', NEW t \in Threads, OthersWait(t),
         ReadBucketsGrow, VisitRemove(t)
  PROVE  Abstract!Drop(t)
<1>1. PICK w \in Locals, c \in AnyCall, r \in Results, b \in Buckets, n \in CountRange :
        \E s : View(t, w, c, r, b, n, s)
  BY ThreadView
<1>2. PICK s : View(t, w, c, r, b, n, s)
  BY <1>1
<1>3. PICK hole \in 0 .. n - 1 : Removed(b, s, n, hole) /\ At(s, keys, hole) \in c.accepts
  BY <1>2, RemovalIs
<1>4. pc[t] = "visit" /\ pc' = pc /\ call' = call /\ result' = result
  BY DEF VisitRemove, Visiting
<1>5. PICK key \in Keys : /\ key = At(s, keys, hole) /\ map[key] # NULL
                          /\ map' = [map EXCEPT ![key] = NULL]
  BY <1>2, <1>3, RemovedMap
<1>6. key \in call[t].accepts /\ call[t].op = "remove_if"
  BY <1>2, <1>3, <1>4, <1>5, CallKinds DEF View
<1>7. PICK a : a = answer[t]
  OBVIOUS
<1>8. answer'[t] = a
  BY <1>4, <1>7, OwnAnswer DEF Published
<1>9. ~done[t] /\ ~done'[t]
  BY <1>4, OwnAnswer DEF DonePlace
<1>10. answer' = [answer EXCEPT ![t] = a] /\ done' = [done EXCEPT ![t] = FALSE]
  BY <1>8, <1>9, AnswersExcept
<1>11. answer' = answer /\ done' = done
  <2>1. answer = [u \in Threads |-> answer[u]]
    BY DEF answer
  <2>2. done \in [Threads -> BOOLEAN]
    BY DEF done
  <2>3. done[t] = FALSE
    BY <1>9, <2>2
  <2>4. answer' = answer
    BY <1>7, <1>10, <2>1
  <2> QED BY <1>10, <2>2, <2>3, <2>4
<1> QED BY <1>4, <1>5, <1>6, <1>9, <1>11 DEF Abstract!Drop, Abstract!Pending

(* Freeing the table clears the map.                                       *)
LEMMA FreeChunksImplements ==
  ASSUME TableAssumption, TableIInv, TableIInv', FreeChunks
  PROVE  Abstract!Clear
<1>1. /\ \A t \in Threads : pc[t] = "idle"
      /\ size' = [b \in Buckets |-> 0]
      /\ UNCHANGED <<pc, call, self, result>>
  BY DEF FreeChunks
<1>2. \A t \in Threads : call[t] = NoCall
  BY <1>1, CallKinds
<1>3. ASSUME NEW k \in Keys PROVE map'[k] = NULL
  <2>1. PICK b \in Buckets : b = BucketIdx[k]
    BY DEF TableAssumption, Buckets
  <2>2. size'[b] = 0 /\ \A m \in 0 .. 0 - 1 : FALSE
    BY <1>1
  <2>3. Has(ChainOf(b)', keys', values', 0, k, NULL)
    BY <2>2 DEF Has
  <2>4. Has(ChainOf(b)', keys', values', size'[b], k, NULL)
    BY <2>2, <2>3
  <2> QED BY <2>1, <2>4, MapBecomes
<1>4. map' = [k \in Keys |-> NULL]
  <2>1. map' = [k \in Keys |-> map'[k]]
    BY DEF map
  <2> QED BY <1>3, <2>1
<1>5. answer' = answer
  <2>1. \A t \in Threads : answer'[t] = answer[t]
    BY <1>1, OwnAnswer DEF Published
  <2>2. answer = [t \in Threads |-> answer[t]] /\ answer' = [t \in Threads |-> answer'[t]]
    BY DEF answer
  <2> QED BY <2>1, <2>2
<1>6. done' = done
  BY <1>1 DEF done
<1> QED BY <1>1, <1>2, <1>4, <1>5, <1>6 DEF Abstract!Clear, Abstract!NoCall, NoCall

(* The empty table is the empty map.                                       *)
LEMMA InitImplements ==
  ASSUME TableAssumption, Init
  PROVE  Abstract!Init
<1>1. TableIInv
  BY InitKeeps
<1>2. /\ size = [b \in Buckets |-> 0] /\ pc = [t \in Threads |-> "idle"]
      /\ call = [t \in Threads |-> NoCall] /\ result = [t \in Threads |-> Result(NULL, FALSE)]
  BY DEF Init
<1>3. ASSUME NEW k \in Keys PROVE map[k] = NULL
  <2>1. PICK b \in Buckets : b = BucketIdx[k]
    BY DEF TableAssumption, Buckets
  <2>2. \A m \in 0 .. size[b] - 1 : FALSE
    BY <1>2
  <2> QED BY <1>1, <2>1, <2>2, MapIs
<1>4. map = [k \in Keys |-> NULL]
  <2>1. map = [k \in Keys |-> map[k]]
    BY DEF map
  <2> QED BY <1>3, <2>1
<1>5. answer = [t \in Threads |-> Result(NULL, FALSE)]
  <2>1. \A t \in Threads : answer[t] = Result(NULL, FALSE)
    BY <1>2, OwnAnswer DEF Published
  <2>2. answer = [t \in Threads |-> answer[t]]
    BY DEF answer
  <2> QED BY <2>1, <2>2
<1>6. done = [t \in Threads |-> FALSE]
  BY <1>2 DEF done
<1> QED BY <1>2, <1>4, <1>5, <1>6 DEF Abstract!Init, Abstract!NoCall, NoCall, Abstract!Result, Result

(* Every step is a step of AbstractMap, or none. *)
LEMMA ThreadImplements ==
  ASSUME TableAssumption, OneChunkIfRemoveIf, TableIInv, NEW t \in Threads, ThreadStep(t)
  PROVE  \/ Abstract!Invoke(t) \/ Abstract!Return(t) \/ Abstract!Get(t) \/ Abstract!Insert(t)
         \/ Abstract!GetInsteadOfInsert(t) \/ Abstract!Remove(t) \/ Abstract!Drop(t)
         \/ UNCHANGED Abstract!vars
<1>1. TableIInv'
  BY ThreadKeeps DEF ThreadStep
<1>2. OthersWait(t)
  BY OthersStay DEF TableIInv
<1>3. ReadBucketsGrow
  BY ReadersSafe
<1>4. CASE InvokeOnKey(t) \/ InvokeRemoveIf(t)
  BY <1>1, <1>2, <1>4, InvokeImplements
<1>5. CASE ReaderUnlock(t) \/ WriterUnlock(t)
  BY <1>1, <1>2, <1>5, ReturnImplements
<1>6. CASE Fetch(t)
  BY <1>1, <1>2, <1>6, FetchImplements
<1>7. CASE Reload(t)
  BY <1>1, <1>2, <1>7, ReloadImplements
<1>8. CASE Publish(t)
  BY <1>1, <1>2, <1>8, PublishImplements
<1>9. CASE Remove(t)
  BY <1>1, <1>2, <1>3, <1>9, RemoveImplements
<1>10. CASE RemoveNothing(t)
  BY <1>1, <1>2, <1>10, RemoveNothingImplements
<1>11. CASE VisitRemove(t)
  BY <1>1, <1>2, <1>3, <1>11, VisitRemoveImplements
<1>12. CASE InsertedUnlock(t) \/ FetchOwn(t)
  BY <1>1, <1>2, <1>12, PublishedSteps
<1>13. CASE \/ ReaderLock(t) \/ WriterLock(t) \/ Load(t) \/ Scan(t) \/ Trylock(t) \/ SpinLoad(t) \/ SpinScan(t)
            \/ SpinAgain(t) \/ LockedLoad(t) \/ LockedScan(t) \/ LockedScanEnd(t) \/ FoundUnlock(t)
            \/ ReuseBucketChunk(t) \/ NewChunk(t) \/ Write(t)
            \/ VisitKeep(t) \/ VisitNextChunk(t) \/ VisitEnd(t) \/ NextBucket(t)
  BY <1>1, <1>2, <1>13, QuietSteps
<1> QED BY <1>4, <1>5, <1>6, <1>7, <1>8, <1>9, <1>10, <1>11, <1>12, <1>13
        DEF ThreadStep, Reading, Inserting, Removing

(* Every step is a step of the abstract map or a stuttering step.          *)
LEMMA StepImplements ==
  ASSUME TableAssumption, OneChunkIfRemoveIf, TableIInv, [Next]_vars
  PROVE  [Abstract!Next]_(Abstract!vars)
<1>1. ASSUME FreeChunks PROVE Abstract!Next
  <2>1. TableIInv'
    BY <1>1, FreeChunksKeeps
  <2> QED BY <1>1, <2>1, FreeChunksImplements DEF Abstract!Next
<1>2. ASSUME NEW t \in Threads, ThreadStep(t) PROVE [Abstract!Next]_(Abstract!vars)
  BY <1>2, ThreadImplements DEF Abstract!Next
<1>3. ASSUME UNCHANGED vars PROVE UNCHANGED Abstract!vars
  <2>1. /\ UNCHANGED <<size, head, insert_lock, mode>> /\ UNCHANGED <<keys, values, next, allocated, free_list>>
        /\ UNCHANGED <<pc, call, self, result>>
    BY <1>3 DEF vars, bucketVars, chunkVars
  <2>2. map' = map
    BY <2>1 DEF map, KeyAt, ValueAt, ChunkOf, Chain
  <2>3. done' = done /\ answer' = answer
    BY <2>1 DEF done, answer, Deref
  <2> QED BY <2>1, <2>2, <2>3 DEF Abstract!vars
<1> QED BY <1>1, <1>2, <1>3 DEF Next, ThreadStep

(* The table is a map whose operations take effect at one instant each.    *)
THEOREM TableImplementsMap ==
  TableAssumption /\ OneChunkIfRemoveIf /\ Spec => Implements
<1> SUFFICES ASSUME TableAssumption, OneChunkIfRemoveIf PROVE Spec => Implements
  OBVIOUS
<1>1. Spec => []TableIInv
  BY InvariantAlways
<1>2. Init => Abstract!Init
  BY InitImplements
<1>3. TableIInv /\ [Next]_vars => [Abstract!Next]_(Abstract!vars)
  BY StepImplements
<1> QED BY <1>1, <1>2, <1>3, PTL DEF Spec, Implements, Abstract!Spec
=============================================================================
