---------------------------- MODULE ListLemmas ----------------------------
(***************************************************************************)
(* What the operations on linked lists do to the elements of a list, and   *)
(* that a list without duplicates stays one; used by the proofs about      *)
(* lists of recycled objects.  And what stands for induction: the least    *)
(* number of a set, and the function that iterates another.                *)
(***************************************************************************)
EXTENDS SequenceTheorems, WellFoundedInduction, TLAPS

(* An object put at the head of a list that does not hold it.              *)
LEMMA Prepend ==
  ASSUME NEW S, NEW s \in Seq(S), NEW e \in S
  PROVE  /\ <<e>> \o s \in Seq(S)
         /\ Range(<<e>> \o s) = {e} \cup Range(s)
         /\ IsInjective(s) /\ e \notin Range(s) => IsInjective(<<e>> \o s)
<1>1. <<e>> \in Seq(S) /\ Len(<<e>>) = 1 /\ <<e>>[1] = e
  OBVIOUS
<1>2. /\ <<e>> \o s \in Seq(S) /\ Len(<<e>> \o s) = 1 + Len(s)
      /\ \A i \in 1 .. 1 + Len(s) : (<<e>> \o s)[i] = IF i <= 1 THEN e ELSE s[i - 1]
  BY <1>1, ConcatProperties
<1>3. Range(<<e>> \o s) = {e} \cup Range(s)
  <2>1. Range(<<e>>) = {e}
    BY <1>1 DEF Range
  <2>2. <<e>> \in Seq(S)
    OBVIOUS
  <2>3. \A one \in Seq(S) : Range(one \o s) = Range(one) \cup Range(s)
    BY RangeConcatenation
  <2> QED BY <2>1, <2>2, <2>3
<1>4. ASSUME IsInjective(s), e \notin Range(s)
      PROVE  IsInjective(<<e>> \o s)
  <2>1. DOMAIN s = 1 .. Len(s) /\ DOMAIN (<<e>> \o s) = 1 .. 1 + Len(s) /\ Len(s) \in Nat
    BY <1>2, LenProperties
  <2>2. \A i \in 1 .. Len(s) : s[i] # e
    BY <1>4, <2>1 DEF Range
  <2> QED BY <1>2, <1>4, <2>1, <2>2 DEF IsInjective
<1> QED BY <1>2, <1>3, <1>4

(* An object put at the end.                                               *)
LEMMA AppendTo ==
  ASSUME NEW S, NEW s \in Seq(S), NEW e \in S
  PROVE  /\ Append(s, e) \in Seq(S)
         /\ Range(Append(s, e)) = Range(s) \cup {e}
         /\ IsInjective(s) /\ e \notin Range(s) => IsInjective(Append(s, e))
<1>1. /\ Append(s, e) \in Seq(S) /\ Len(Append(s, e)) = Len(s) + 1 /\ Len(s) \in Nat
      /\ \A i \in 1 .. Len(s) : Append(s, e)[i] = s[i]
      /\ Append(s, e)[Len(s) + 1] = e
  BY AppendProperties, LenProperties
<1>2. Range(s) = {s[i] : i \in 1 .. Len(s)}
  BY RangeEquality
<1>3. Range(Append(s, e)) = {Append(s, e)[i] : i \in 1 .. Len(s) + 1}
  BY <1>1, RangeEquality
<1>4. Range(Append(s, e)) = Range(s) \cup {e}
  BY <1>1, <1>2, <1>3
<1>5. ASSUME IsInjective(s), e \notin Range(s)
      PROVE  IsInjective(Append(s, e))
  <2>1. DOMAIN s = 1 .. Len(s) /\ DOMAIN Append(s, e) = 1 .. Len(s) + 1
    BY <1>1, LenProperties
  <2> QED BY <1>1, <1>2, <1>5, <2>1 DEF IsInjective
<1> QED BY <1>1, <1>4, <1>5

(* A list with something appended has something in it. *)
LEMMA AppendNotEmpty == \A S : \A s \in Seq(S), e \in S : Append(s, e) # << >>
BY AppendProperties

(* The head taken off. *)
LEMMA WithoutHead ==
  ASSUME NEW S, NEW s \in Seq(S), s # << >>, IsInjective(s)
  PROVE  /\ Head(s) \in S /\ Head(s) \in Range(s)
         /\ Tail(s) \in Seq(S) /\ IsInjective(Tail(s))
         /\ Range(Tail(s)) = Range(s) \ {Head(s)}
<1>1. /\ Tail(s) \in Seq(S) /\ Len(Tail(s)) = Len(s) - 1 /\ Head(s) \in S
      /\ \A i \in 1 .. Len(Tail(s)) : Tail(s)[i] = s[i + 1]
      /\ Len(s) \in Nat \ {0} /\ Head(s) = s[1]
  BY HeadTailProperties, EmptySeq
<1>2. DOMAIN s = 1 .. Len(s) /\ DOMAIN Tail(s) = 1 .. Len(s) - 1
  BY <1>1, LenProperties
<1>3. IsInjective(Tail(s))
  BY <1>1, <1>2 DEF IsInjective
<1>4. Range(Tail(s)) = Range(s) \ {Head(s)}
  <2>1. ASSUME NEW x \in Range(Tail(s)) PROVE x \in Range(s) \ {Head(s)}
    <3>1. PICK i \in 1 .. Len(s) - 1 : x = s[i + 1]
      BY <1>1, <1>2, <2>1 DEF Range
    <3>2. i + 1 \in 1 .. Len(s) /\ 1 \in 1 .. Len(s) /\ i + 1 # 1
      BY <1>1
    <3> QED BY <1>1, <1>2, <3>1, <3>2 DEF Range, IsInjective
  <2>2. ASSUME NEW x \in Range(s) \ {Head(s)} PROVE x \in Range(Tail(s))
    <3>1. PICK i \in 1 .. Len(s) : x = s[i] /\ i # 1
      BY <1>1, <1>2, <2>2 DEF Range
    <3>2. i - 1 \in 1 .. Len(s) - 1 /\ Tail(s)[i - 1] = x
      BY <1>1, <3>1
    <3> QED BY <1>2, <3>2 DEF Range
  <2> QED BY <2>1, <2>2
<1> QED BY <1>1, <1>2, <1>3, <1>4 DEF Range

(* The last element taken off. *)
LEMMA WithoutLast ==
  ASSUME NEW S, NEW s \in Seq(S), s # << >>, IsInjective(s)
  PROVE  /\ s[Len(s)] \in S /\ s[Len(s)] \in Range(s)
         /\ SubSeq(s, 1, Len(s) - 1) \in Seq(S) /\ IsInjective(SubSeq(s, 1, Len(s) - 1))
         /\ Len(SubSeq(s, 1, Len(s) - 1)) = Len(s) - 1
         /\ \A i \in 1 .. Len(s) - 1 : SubSeq(s, 1, Len(s) - 1)[i] = s[i]
         /\ Range(SubSeq(s, 1, Len(s) - 1)) = Range(s) \ {s[Len(s)]}
<1> DEFINE front == SubSeq(s, 1, Len(s) - 1)
<1>0. Len(s) \in Nat /\ Len(s) # 0
  BY EmptySeq
<1>1. Len(s) \in Nat \ {0} /\ DOMAIN s = 1 .. Len(s) /\ \A i \in 1 .. Len(s) : s[i] \in S
  BY EmptySeq, LenProperties, ElementOfSeq
<1>2. /\ front \in Seq(S) /\ Len(front) = Len(s) - 1
      /\ \A i \in 1 .. Len(s) - 1 : front[i] = s[i]
  <2>1. \A i \in 1 .. Len(s) - 1 : s[i] \in S
    BY <1>1
  <2>2. /\ front \in Seq(S)
        /\ Len(front) = IF 1 <= Len(s) - 1 THEN Len(s) - 1 - 1 + 1 ELSE 0
        /\ \A i \in 1 .. Len(s) - 1 - 1 + 1 : front[i] = s[1 + i - 1]
    BY <1>1, <2>1, SubSeqProperties
  <2> QED BY <1>1, <2>2
<1>3. DOMAIN front = 1 .. Len(s) - 1
  BY <1>2, LenProperties
<1> HIDE DEF front
<1>4. IsInjective(front)
  BY <1>1, <1>2, <1>3 DEF IsInjective
<1>5. Range(front) = Range(s) \ {s[Len(s)]}
  <2>1. ASSUME NEW x \in Range(front) PROVE x \in Range(s) \ {s[Len(s)]}
    <3>1. PICK i \in 1 .. Len(s) - 1 : x = s[i]
      BY <1>2, <1>3, <2>1 DEF Range
    <3>2. i \in 1 .. Len(s) /\ i # Len(s) /\ Len(s) \in 1 .. Len(s)
      BY <1>0
    <3> QED BY <1>1, <3>1, <3>2 DEF Range, IsInjective
  <2>2. ASSUME NEW x \in Range(s) \ {s[Len(s)]} PROVE x \in Range(front)
    <3>1. PICK i \in 1 .. Len(s) : x = s[i] /\ i # Len(s)
      BY <1>1, <2>2 DEF Range
    <3>2. i \in 1 .. Len(s) - 1
      BY <1>0, <3>1
    <3> QED BY <1>2, <1>3, <3>1, <3>2 DEF Range
  <2> QED BY <2>1, <2>2
<1>6. s[Len(s)] \in S /\ s[Len(s)] \in Range(s)
  BY <1>1 DEF Range
<1> QED BY <1>2, <1>4, <1>5, <1>6 DEF front

(* Two lists with nothing in common, one after the other.                  *)
LEMMA Concatenate ==
  ASSUME NEW S, NEW s \in Seq(S), NEW r \in Seq(S), IsInjective(s), IsInjective(r),
         Range(s) \cap Range(r) = {}
  PROVE  s \o r \in Seq(S) /\ Range(s \o r) = Range(s) \cup Range(r) /\ IsInjective(s \o r)
<1>1. /\ s \o r \in Seq(S) /\ Len(s \o r) = Len(s) + Len(r)
      /\ \A i \in 1 .. Len(s) + Len(r) : (s \o r)[i] = IF i <= Len(s) THEN s[i] ELSE r[i - Len(s)]
  BY ConcatProperties
<1>2. /\ Len(s) \in Nat /\ DOMAIN s = 1 .. Len(s) /\ Len(r) \in Nat /\ DOMAIN r = 1 .. Len(r)
      /\ DOMAIN (s \o r) = 1 .. Len(s) + Len(r)
  BY <1>1, LenProperties
<1>3. \A i \in 1 .. Len(s), j \in 1 .. Len(r) : s[i] # r[j]
  BY <1>2 DEF Range
<1>4. ASSUME NEW i \in 1 .. Len(s) + Len(r), NEW j \in 1 .. Len(s) + Len(r), (s \o r)[i] = (s \o r)[j]
      PROVE  i = j
  <2>1. CASE i <= Len(s) /\ j <= Len(s)
    <3>1. i \in 1 .. Len(s) /\ j \in 1 .. Len(s) /\ s[i] = s[j]
      BY <1>1, <1>2, <1>4, <2>1
    <3> QED BY <1>2, <3>1 DEF IsInjective
  <2>2. CASE i > Len(s) /\ j > Len(s)
    <3>1. i - Len(s) \in 1 .. Len(r) /\ j - Len(s) \in 1 .. Len(r) /\ r[i - Len(s)] = r[j - Len(s)]
      BY <1>1, <1>2, <1>4, <2>2
    <3>2. i - Len(s) = j - Len(s)
      BY <1>2, <3>1 DEF IsInjective
    <3> QED BY <1>2, <3>2
  <2> QED BY <1>1, <1>2, <1>3, <1>4, <2>1, <2>2
<1>5. IsInjective(s \o r)
  BY <1>2, <1>4 DEF IsInjective
<1> QED BY <1>1, <1>5, RangeConcatenation

(* The empty list. *)
LEMMA EmptyList ==
  ASSUME NEW S
  PROVE  << >> \in Seq(S) /\ Range(<< >>) = {} /\ IsInjective(<< >>)
<1>1. << >> \in Seq(S) /\ DOMAIN << >> = {}
  OBVIOUS
<1> QED BY <1>1 DEF Range, IsInjective

(* A set of numbers that is not empty has a least one: the first number     *)
(* for which a statement fails.                                            *)
LEMMA LeastNumber ==
  ASSUME NEW T, T \subseteq Nat, T # {}
  PROVE  \E x \in T : \A y \in T : x <= y
<1> DEFINE Less == {pair \in Nat \X Nat : pair[1] < pair[2]}
<1>1. IsWellFoundedOn(Less, Nat)
  BY NatLessThanWellFounded DEF OpToRel
<1> HIDE DEF Less
<1>2. PICK x \in T : \A y \in T : ~(<<y, x>> \in Less)
  BY <1>1, WFMin
<1>3. \A y \in T : ~(y < x)
  BY <1>2 DEF Less
<1> QED BY <1>3

(* f[n] is what n applications of step make of a.                          *)
IsIteration(f, S, step, a) ==
  f \in [Nat -> S] /\ f[0] = a /\ \A n \in Nat : f[n + 1] = step[f[n]]

(* There is such a function: the beginnings of it are the same as far as   *)
(* they go.                                                                *)
LEMMA Iterates ==
  ASSUME NEW S, NEW step \in [S -> S], NEW a \in S
  PROVE  \E f : IsIteration(f, S, step, a)
<1> DEFINE Starts(g, n) == g[0] = a /\ \A i \in 0 .. n : i < n => g[i + 1] = step[g[i]]
           Beginnings(n) == {g \in [0 .. n -> S] : Starts(g, n)}
           Longer == {n \in Nat : Beginnings(n) = {}}
<1>1. Longer = {}
  <2> SUFFICES ASSUME Longer # {} PROVE FALSE
    OBVIOUS
  <2>1. PICK n \in Longer : \A m \in Longer : n <= m
    BY LeastNumber
  <2>2. n # 0
    <3>1. [i \in 0 .. 0 |-> a] \in Beginnings(0)
      OBVIOUS
    <3> QED BY <2>1, <3>1
  <2>3. n - 1 \in Nat /\ n - 1 \notin Longer
    <3>1. n \in Nat
      OBVIOUS
    <3>2. n - 1 \in Nat /\ ~(n <= n - 1)
      BY <2>2, <3>1
    <3> HIDE DEF Longer
    <3> QED BY <2>1, <3>2
  <2>4. PICK g \in [0 .. n - 1 -> S] : Starts(g, n - 1)
    BY <2>3
  <2> DEFINE h == [i \in 0 .. n |-> IF i = n THEN step[g[n - 1]] ELSE g[i]]
  <2>5. h \in [0 .. n -> S]
    <3>1. ASSUME NEW i \in 0 .. n PROVE h[i] \in S
      <4>1. CASE i = n
        <5>1. n - 1 \in 0 .. n - 1
          BY <2>3
        <5> QED BY <2>4, <4>1, <5>1
      <4>2. CASE i # n
        <5>1. i \in 0 .. n - 1
          BY <2>3, <4>2
        <5> QED BY <2>4, <4>2, <5>1
      <4> QED BY <4>1, <4>2
    <3> QED BY <3>1
  <2>6. h[0] = a
    <3>1. 0 \in 0 .. n /\ h[0] = g[0]
      BY <2>2, <2>3
    <3> QED BY <2>4, <3>1
  <2>7. ASSUME NEW i \in 0 .. n, i < n PROVE h[i + 1] = step[h[i]]
    <3>1. CASE i = n - 1
      <4>1. h[i + 1] = step[g[n - 1]] /\ h[i] = g[n - 1]
        BY <2>3, <2>7, <3>1
      <4> QED BY <4>1
    <3>2. CASE i # n - 1
      <4>1. i \in 0 .. n - 1 /\ i < n - 1 /\ i + 1 \in 0 .. n /\ i + 1 # n /\ i # n
        BY <2>3, <2>7, <3>2
      <4>2. h[i + 1] = g[i + 1] /\ h[i] = g[i]
        BY <4>1
      <4>3. g[i + 1] = step[g[i]]
        BY <2>4, <4>1
      <4> QED BY <4>2, <4>3
    <3> QED BY <3>1, <3>2
  <2>8. h \in Beginnings(n)
    BY <2>5, <2>6, <2>7
  <2> QED BY <2>1, <2>8
<1>2. \A n \in Nat : Beginnings(n) # {}
  BY <1>1
<1> DEFINE G(n) == CHOOSE g \in Beginnings(n) : TRUE
<1>3. ASSUME NEW n \in Nat
      PROVE  /\ G(n) \in [0 .. n -> S] /\ G(n)[0] = a
             /\ \A i \in 0 .. n : i < n => G(n)[i + 1] = step[G(n)[i]]
  <2>1. G(n) \in Beginnings(n)
    BY <1>2
  <2> QED BY <2>1
<1> HIDE DEF G
<1>4. ASSUME NEW n \in Nat, NEW m \in Nat, NEW i \in Nat, i <= n, i <= m
      PROVE  G(n)[i] = G(m)[i]
  <2> DEFINE Differ == {k \in 0 .. i : G(n)[k] # G(m)[k]}
  <2> SUFFICES ASSUME Differ # {} PROVE FALSE
    OBVIOUS
  <2>1. PICK k \in Differ : \A l \in Differ : k <= l
    <3>1. Differ \subseteq Nat
      OBVIOUS
    <3> HIDE DEF Differ
    <3> QED BY <3>1, LeastNumber
  <2>2. k \in 0 .. i /\ G(n)[k] # G(m)[k]
    BY <2>1
  <2>3. k # 0
    BY <1>3, <2>2
  <2>4. k - 1 \in 0 .. i /\ ~(k <= k - 1)
    BY <2>2, <2>3
  <2>5. G(n)[k - 1] = G(m)[k - 1]
    BY <2>1, <2>4
  <2>6. k - 1 \in 0 .. n /\ k - 1 < n /\ k - 1 \in 0 .. m /\ k - 1 < m /\ k - 1 + 1 = k
    BY <1>4, <2>4, <2>2
  <2>7. G(n)[k] = step[G(n)[k - 1]] /\ G(m)[k] = step[G(m)[k - 1]]
    BY <1>3, <2>6
  <2> QED BY <2>2, <2>5, <2>7
<1> DEFINE f == [n \in Nat |-> G(n)[n]]
<1>5. f \in [Nat -> S]
  <2>1. ASSUME NEW n \in Nat PROVE G(n)[n] \in S
    <3>1. n \in 0 .. n
      OBVIOUS
    <3> QED BY <1>3, <3>1
  <2> QED BY <2>1
<1>6. f[0] = a
  BY <1>3
<1>7. ASSUME NEW n \in Nat PROVE f[n + 1] = step[f[n]]
  <2>1. n + 1 \in Nat /\ n \in 0 .. n + 1 /\ n < n + 1 /\ n <= n
    OBVIOUS
  <2>2. f[n + 1] = G(n + 1)[n + 1] /\ f[n] = G(n)[n]
    BY <2>1
  <2>3. G(n + 1)[n + 1] = step[G(n + 1)[n]]
    BY <1>3, <2>1
  <2>4. G(n + 1)[n] = G(n)[n]
    BY <1>4, <2>1
  <2> QED BY <2>2, <2>3, <2>4
<1> HIDE DEF f
<1>8. IsIteration(f, S, step, a)
  BY <1>5, <1>6, <1>7 DEF IsIteration
<1> QED BY <1>8
=============================================================================
