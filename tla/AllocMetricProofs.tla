------------------------- MODULE AllocMetricProofs -------------------------
(***************************************************************************)
(* Proofs about AllocMetric: the tree and the totals are what the program  *)
(* has allocated, and the times of the counters do not decrease, for any   *)
(* threads, metrics, addresses and sizes, any number of calls, and all     *)
(* search trees that do what TreesAssumption says.                         *)
(*                                                                         *)
(* The argument: between the moment when a wrapper takes an allocation out *)
(* of the tree and its report, the tree lacks an allocation of the program *)
(* (Out), and the total counts one that the tree lacks (Held).  No other   *)
(* thread uses that address meanwhile, unless the program freed it.  So    *)
(* the tree always has the reported allocations less those that are Out,   *)
(* and the total always is the sum of the tree and of what the threads     *)
(* hold.                                                                   *)
(***************************************************************************)
EXTENDS AllocMetric, ListLemmas, FiniteSetTheorems

-----------------------------------------------------------------------------
(* Sums.  SumFunctionOnSet takes the elements in the order of CHOOSE; for a *)
(* finite set the order does not matter.                                   *)
One(s) == CHOOSE x \in s : TRUE
IsSum(iter, w, D) ==
  iter = [s \in SUBSET D |-> IF s = {} THEN 0 ELSE w[One(s)] + iter[s \ {One(s)}]]

LEMMA OneOf == ASSUME NEW s, s # {} PROVE One(s) \in s
BY DEF One

LEMMA Smaller ==
  ASSUME NEW s, IsFiniteSet(s), NEW x \in s
  PROVE  /\ IsFiniteSet(s \ {x}) /\ Cardinality(s) \in Nat
         /\ Cardinality(s \ {x}) = Cardinality(s) - 1 /\ Cardinality(s \ {x}) \in Nat
BY FS_RemoveElement, FS_CardinalityType

(* There is such a function, as it can be made in steps: the n-th is right *)
(* for the sets of n elements.                                             *)
LEMMA SumExists ==
  ASSUME NEW D, IsFiniteSet(D), NEW w \in [D -> Int]
  PROVE  \E iter \in [SUBSET D -> Int] : IsSum(iter, w, D)
<1> DEFINE F == [SUBSET D -> Int]
           Next(g) == [s \in SUBSET D |-> IF s = {} THEN 0 ELSE w[One(s)] + g[s \ {One(s)}]]
           next == [g \in F |-> Next(g)]
           zero == [s \in SUBSET D |-> 0]
<1>1. ASSUME NEW g \in F PROVE Next(g) \in F
  <2>1. ASSUME NEW s \in SUBSET D, s # {} PROVE w[One(s)] + g[s \ {One(s)}] \in Int
    <3>1. One(s) \in D /\ s \ {One(s)} \in SUBSET D
      BY <2>1, OneOf
    <3> QED BY <3>1
  <2> QED BY <2>1
<1>2. next \in [F -> F]
  BY <1>1
<1>3. zero \in F
  OBVIOUS
<1> HIDE DEF zero
<1>4. PICK f : IsIteration(f, F, next, zero)
  <2> HIDE DEF next, F
  <2> QED BY <1>2, <1>3, Iterates
<1>5. /\ \A n \in Nat : f[n] \in F /\ f[n + 1] = Next(f[n])
  <2>1. \A n \in Nat : f[n] \in F /\ f[n + 1] = next[f[n]]
    <3> HIDE DEF F, next
    <3> QED BY <1>4 DEF IsIteration
  <2>2. \A g \in F : next[g] = Next(g)
    <3> HIDE DEF F, Next
    <3> QED OBVIOUS
  <2> HIDE DEF F, Next, next
  <2> QED BY <2>1, <2>2
<1> DEFINE Stable(n) == \A s \in SUBSET D : Cardinality(s) <= n => f[n + 1][s] = f[n][s]
           Bad == {n \in Nat : ~Stable(n)}
<1>6. \A s \in SUBSET D : IsFiniteSet(s) /\ Cardinality(s) \in Nat
  BY FS_Subset, FS_CardinalityType
<1>7. Bad = {}
  <2> SUFFICES ASSUME Bad # {} PROVE FALSE
    OBVIOUS
  <2>1. PICK n \in Bad : \A m \in Bad : n <= m
    BY LeastNumber
  <2>2. n \in Nat /\ ~Stable(n)
    BY <2>1
  <2>3. PICK s \in SUBSET D : Cardinality(s) <= n /\ f[n + 1][s] # f[n][s]
    BY <2>2
  <2>4. s # {}
    <3> SUFFICES ASSUME s = {} PROVE FALSE
      OBVIOUS
    <3>1. \A g : Next(g)[{}] = 0
      OBVIOUS
    <3>2. f[n + 1][s] = 0
      BY <1>5, <2>2, <3>1
    <3>3. CASE n = 0
      <4>1. f[n] = zero
        BY <1>4, <3>3 DEF IsIteration
      <4> QED BY <2>3, <3>2, <4>1 DEF zero
    <3>4. CASE n # 0
      <4>1. n - 1 \in Nat /\ n - 1 + 1 = n
        BY <2>2, <3>4
      <4>2. f[n] = Next(f[n - 1])
        BY <1>5, <4>1
      <4> QED BY <2>3, <3>1, <3>2, <4>2
    <3> QED BY <3>3, <3>4
  <2> DEFINE t == s \ {One(s)}
  <2>5. One(s) \in s /\ t \in SUBSET D /\ Cardinality(t) = Cardinality(s) - 1 /\ Cardinality(t) \in Nat
    BY <1>6, <2>4, OneOf, Smaller
  <2>6. n - 1 \in Nat /\ n - 1 + 1 = n /\ Cardinality(t) <= n - 1 /\ ~(n <= n - 1)
    BY <1>6, <2>2, <2>3, <2>5
  <2>7. Stable(n - 1)
    <3> HIDE DEF Stable
    <3> QED BY <2>1, <2>6
  <2>8. f[n][t] = f[n - 1][t]
    BY <2>5, <2>6, <2>7
  <2>9. f[n + 1][s] = w[One(s)] + f[n][t]
    <3>1. f[n + 1] = Next(f[n])
      BY <1>5, <2>2
    <3> QED BY <2>4, <3>1
  <2>10. f[n][s] = w[One(s)] + f[n - 1][t]
    <3>1. f[n] = Next(f[n - 1])
      BY <1>5, <2>6
    <3> QED BY <2>4, <3>1
  <2> QED BY <2>3, <2>8, <2>9, <2>10
<1> DEFINE N == Cardinality(D)
<1>8. N \in Nat /\ \A s \in SUBSET D : Cardinality(s) <= N
  BY FS_CardinalityType, FS_Subset
<1>9. Stable(N)
  <2> HIDE DEF Stable, N
  <2> QED BY <1>7, <1>8
<1>10. f[N] \in F /\ f[N + 1] \in F /\ f[N + 1] = Next(f[N])
  <2>1. N + 1 \in Nat
    BY <1>8
  <2> HIDE DEF N, F, Next
  <2> QED BY <1>5, <1>8, <2>1
<1>11. f[N + 1] = f[N]
  <2>1. \A s \in SUBSET D : f[N + 1][s] = f[N][s]
    BY <1>8, <1>9
  <2> HIDE DEF N
  <2> QED BY <1>10, <2>1
<1>12. IsSum(f[N], w, D)
  <2> HIDE DEF N
  <2> QED BY <1>10, <1>11 DEF IsSum
<1> QED BY <1>10, <1>12

(* What the sum over a set is depends on the values there only. *)
LEMMA SumsAgree ==
  ASSUME NEW D, NEW E, NEW v, NEW w, NEW f, NEW g, IsSum(f, v, D), IsSum(g, w, E),
         NEW S, S \subseteq D, S \subseteq E, IsFiniteSet(S), \A x \in S : v[x] = w[x]
  PROVE  f[S] = g[S]
<1> DEFINE Wrong == {n \in Nat : \E s \in SUBSET S : Cardinality(s) = n /\ f[s] # g[s]}
<1>0. \A s \in SUBSET S : IsFiniteSet(s) /\ Cardinality(s) \in Nat
  BY FS_Subset, FS_CardinalityType
<1>1. Wrong = {}
  <2> SUFFICES ASSUME Wrong # {} PROVE FALSE
    OBVIOUS
  <2>1. PICK n \in Wrong : \A m \in Wrong : n <= m
    BY LeastNumber
  <2>2. PICK s \in SUBSET S : Cardinality(s) = n /\ f[s] # g[s]
    BY <2>1
  <2> DEFINE F(h, u) == IF s = {} THEN 0 ELSE u[One(s)] + h[s \ {One(s)}]
  <2>3. f[s] = F(f, v) /\ g[s] = F(g, w)
    <3>1. s \in SUBSET D /\ s \in SUBSET E
      OBVIOUS
    <3>2. f[s] = F(f, v)
      BY <3>1 DEF IsSum
    <3>3. g[s] = F(g, w)
      BY <3>1 DEF IsSum
    <3> QED BY <3>2, <3>3
  <2>4. s # {}
    BY <2>2, <2>3
  <2> DEFINE t == s \ {One(s)}
  <2>5. One(s) \in s /\ t \in SUBSET S /\ Cardinality(t) = n - 1 /\ n - 1 \in Nat /\ n \in Nat
    BY <1>0, <2>2, <2>4, OneOf, Smaller
  <2>6. ~(n <= n - 1)
    BY <2>5
  <2>7. f[t] = g[t]
    <3> HIDE DEF t
    <3> QED BY <2>1, <2>5, <2>6
  <2>8. v[One(s)] = w[One(s)]
    BY <2>5
  <2> QED BY <2>2, <2>3, <2>4, <2>7, <2>8
<1> QED BY <1>0, <1>1

(* Any element can be taken first. *)
TakenFirst(f, w, S, x) == f[S] = w[x] + f[S \ {x}]

(* A sum over a finite set can be split at any element. *)
LEMMA SumSplits ==
  ASSUME NEW D, IsFiniteSet(D), NEW w \in [D -> Int], NEW f \in [SUBSET D -> Int], IsSum(f, w, D),
         NEW S, S \subseteq D, NEW x, x \in S
  PROVE  TakenFirst(f, w, S, x)
<1> DEFINE Wrong == {n \in Nat : \E s \in SUBSET D : /\ Cardinality(s) = n
                                                    /\ \E y \in s : f[s] # w[y] + f[s \ {y}]}
<1>0. \A s \in SUBSET D : IsFiniteSet(s) /\ Cardinality(s) \in Nat
  BY FS_Subset, FS_CardinalityType
<1>1. Wrong = {}
  <2> SUFFICES ASSUME Wrong # {} PROVE FALSE
    OBVIOUS
  <2>1. PICK n \in Wrong : \A m \in Wrong : n <= m
    BY LeastNumber
  <2>2. PICK s \in SUBSET D : Cardinality(s) = n /\ \E y \in s : f[s] # w[y] + f[s \ {y}]
    BY <2>1
  <2>3. PICK y \in s : f[s] # w[y] + f[s \ {y}]
    BY <2>2
  <2> DEFINE z == One(s)
             sy == s \ {y}
             sz == s \ {z}
             syz == s \ {y, z}
  <2>4. z \in s /\ f[s] = w[z] + f[sz]
    <3>1. s # {}
      OBVIOUS
    <3>2. One(s) \in s
      BY <3>1, OneOf
    <3>3. f[s] = IF s = {} THEN 0 ELSE w[One(s)] + f[s \ {One(s)}]
      BY DEF IsSum
    <3> QED BY <3>1, <3>2, <3>3
  <2> HIDE DEF z
  <2>5. y # z
    BY <2>3, <2>4
  <2>6. /\ n - 1 \in Nat /\ ~(n <= n - 1)
        /\ sy \in SUBSET D /\ sz \in SUBSET D /\ syz \in SUBSET D
        /\ Cardinality(sy) = n - 1 /\ Cardinality(sz) = n - 1
    <3>1. Cardinality(sy) = n - 1 /\ Cardinality(sz) = n - 1 /\ n \in Nat /\ n - 1 \in Nat
      BY <1>0, <2>2, <2>4, Smaller
    <3> QED BY <3>1
  <2>7. z \in sy /\ y \in sz /\ sy \ {z} = syz /\ sz \ {y} = syz
    BY <2>4, <2>5
  <2>8. n - 1 \notin Wrong
    <3> HIDE DEF Wrong
    <3> QED BY <2>1, <2>6
  <2>9. f[sy] = w[z] + f[syz] /\ f[sz] = w[y] + f[syz]
    <3>1. \A s1 \in SUBSET D : Cardinality(s1) = n - 1 => \A y1 \in s1 : f[s1] = w[y1] + f[s1 \ {y1}]
      BY <2>6, <2>8
    <3> HIDE DEF sy, sz, syz, Wrong
    <3>2. f[sy] = w[z] + f[sy \ {z}] /\ f[sz] = w[y] + f[sz \ {y}]
      BY <2>6, <2>7, <3>1
    <3> QED BY <2>7, <3>2
  <2>10. w[z] \in Int /\ w[y] \in Int /\ f[syz] \in Int
    BY <2>4, <2>6
  <2> HIDE DEF sy, sz, syz
  <2>11. f[s] # w[y] + f[sy]
    BY <2>3 DEF sy
  <2> QED BY <2>4, <2>9, <2>10, <2>11
<1> QED BY <1>0, <1>1 DEF TakenFirst

(* The three facts that the proofs use. *)
LEMMA SumIs ==
  ASSUME NEW D, NEW w
  PROVE  SumFunctionOnSet(w, D) = (CHOOSE iter : IsSum(iter, w, D))[D]
BY DEF SumFunctionOnSet, FoldFunctionOnSet, MapThenFoldSet, IsSum, One

LEMMA SumOf ==
  ASSUME NEW D, IsFiniteSet(D), NEW w \in [D -> Int]
  PROVE  \E f \in [SUBSET D -> Int] : IsSum(f, w, D) /\ SumFunction(w) = f[D]
<1>1. PICK f \in [SUBSET D -> Int] : IsSum(f, w, D)
  BY SumExists
<1>2. IsSum(CHOOSE iter : IsSum(iter, w, D), w, D)
  BY <1>1
<1>3. (CHOOSE iter : IsSum(iter, w, D))[D] = f[D]
  BY <1>1, <1>2, SumsAgree
<1>4. SumFunction(w) = f[D]
  BY <1>3, SumIs DEF SumFunction
<1> QED BY <1>1, <1>4

(* The sum of a finite function of numbers is a number. *)
LEMMA SumType ==
  ASSUME NEW D, IsFiniteSet(D), NEW w \in [D -> Int]
  PROVE  SumFunction(w) \in Int
<1>1. PICK f \in [SUBSET D -> Int] : SumFunction(w) = f[D]
  BY SumOf
<1> QED BY <1>1

LEMMA SumWithout ==
  ASSUME NEW D, IsFiniteSet(D), NEW w \in [D -> Int], NEW x \in D, NEW v \in [D \ {x} -> Int],
         \A y \in D \ {x} : v[y] = w[y]
  PROVE  SumFunction(w) = w[x] + SumFunction(v)
<1>1. PICK f \in [SUBSET D -> Int] : IsSum(f, w, D) /\ SumFunction(w) = f[D]
  BY SumOf
<1>2. IsFiniteSet(D \ {x})
  BY FS_Subset
<1>3. PICK g \in [SUBSET (D \ {x}) -> Int] : IsSum(g, v, D \ {x}) /\ SumFunction(v) = g[D \ {x}]
  BY <1>2, SumOf
<1>4. f[D] = w[x] + f[D \ {x}]
  <2>1. TakenFirst(f, w, D, x)
    BY <1>1, SumSplits
  <2> QED BY <2>1 DEF TakenFirst
<1>5. f[D \ {x}] = g[D \ {x}]
  BY <1>1, <1>2, <1>3, SumsAgree
<1> QED BY <1>1, <1>3, <1>4, <1>5

(* Sums of nothing and of zeros. *)
LEMMA SumOfNothing == ASSUME NEW w, DOMAIN w = {} PROVE SumFunction(w) = 0
<1>1. w \in [{} -> Int] /\ IsFiniteSet({})
  <2>1. w \in [{} -> Int]
    OBVIOUS
  <2> QED BY <2>1, FS_EmptySet
<1>2. PICK f \in [SUBSET {} -> Int] : IsSum(f, w, {}) /\ SumFunction(w) = f[{}]
  BY <1>1, SumOf
<1>3. f[{}] = 0
  BY <1>2 DEF IsSum
<1> QED BY <1>2, <1>3

LEMMA SumOfZeros ==
  ASSUME NEW D, IsFiniteSet(D), NEW w \in [D -> Int], \A x \in D : w[x] = 0
  PROVE  SumFunction(w) = 0
<1>1. PICK f \in [SUBSET D -> Int] : IsSum(f, w, D) /\ SumFunction(w) = f[D]
  BY SumOf
<1> DEFINE zero == [s \in SUBSET D |-> 0]
<1>2. IsSum(zero, w, D)
  <2>1. \A s \in SUBSET D : s # {} => One(s) \in D /\ s \ {One(s)} \in SUBSET D
    BY OneOf
  <2>2. \A s \in SUBSET D : 0 = IF s = {} THEN 0 ELSE w[One(s)] + zero[s \ {One(s)}]
    BY <2>1
  <2> QED BY <2>2 DEF IsSum
<1>3. f[D] = zero[D]
  BY <1>1, <1>2, SumsAgree
<1> QED BY <1>1, <1>3

(* One value changes. *)
LEMMA SumChange ==
  ASSUME NEW D, IsFiniteSet(D), NEW v \in [D -> Int], NEW w \in [D -> Int], NEW x \in D,
         \A y \in D \ {x} : v[y] = w[y]
  PROVE  SumFunction(w) = SumFunction(v) + w[x] - v[x]
<1> DEFINE u == [y \in D \ {x} |-> v[y]]
<1>1. u \in [D \ {x} -> Int] /\ \A y \in D \ {x} : u[y] = v[y] /\ u[y] = w[y]
  OBVIOUS
<1> HIDE DEF u
<1>2. SumFunction(v) = v[x] + SumFunction(u) /\ SumFunction(w) = w[x] + SumFunction(u)
  BY <1>1, SumWithout
<1>3. IsFiniteSet(D \ {x})
  BY FS_Subset
<1>4. SumFunction(u) \in Int /\ v[x] \in Int /\ w[x] \in Int
  BY <1>1, <1>3, SumType
<1> QED BY <1>2, <1>4

-----------------------------------------------------------------------------
(* The invariant.  The types first: what a thread does, and with what.     *)
Allocations == [address : Addresses, size : Sizes]
Calls == [pc : {"idle", "acquire", "call", "handle", "location", "write"},
          call : {"malloc", "free", "realloc", NULL}, metric : Metrics \cup {NULL},
          address : Addresses \cup {0}, size : Sizes \cup {0},
          allocation : Allocations \cup {Empty}, value : Int, time : Nat]

TypesOK ==
  /\ alloc_setup \in AllocSetups
  /\ heap \in [Metrics -> [Addresses -> Sizes \cup {0}]]
  /\ reported \in [Metrics -> SUBSET Addresses]
  /\ metric \in [Metrics -> [mutex : Callers \cup {NULL}, allocations : Trees, total : Int]]
  /\ process_allocated_memory \in Int
  /\ per_process_metrics \in [mutex : Callers \cup {NULL}, clock : Nat, last_timestamp : Nat]
  /\ caller \in [Callers -> Calls]

CallOK(t) ==
  ~InCall(t, "idle") =>
    /\ caller[t].call \in {"malloc", "free", "realloc"} /\ caller[t].metric \in Metrics /\ caller[t].address \in Addresses
    /\ caller[t].call # "free" => caller[t].size \in Sizes
    /\ caller[t].call = "malloc" => ~InCall(t, "acquire") /\ ~InCall(t, "call") /\ caller[t].allocation = Empty

ReportedOK == \A m \in Metrics : \A a \in reported[m] : heap[m][a] # 0

(* A thread uses memory that is allocated, and alone.                      *)
UseOK ==
  \A t \in Callers, m \in Metrics, a \in Addresses :
    InUseBy(t, m, a) => /\ heap[m][a] # 0
                        /\ \A u \in Callers : InUseBy(u, m, a) => u = t

(* From the moment when a wrapper takes the allocation out of the tree to  *)
(* its report, what the tree says is not what the program has.             *)
Out(t, m, a) ==
  /\ MetricOf(t) = m /\ caller[t].address = a
  /\ InCall(t, "call") \/ (InCall(t, "handle") /\ caller[t].call # "free")

CarriedOK(t) ==
  LET m == MetricOf(t)
      a == caller[t].address
  IN  /\ InCall(t, "call") => caller[t].allocation = IF a \in reported[m] THEN Item(a, heap[m][a]) ELSE Empty
      /\ InCall(t, "handle") /\ caller[t].call # "free" => a \in reported[m] /\ heap[m][a] = caller[t].size

InTree(m) == {a \in reported[m] : \A t \in Callers : ~Out(t, m, a)}
TreeOK(m) == ItemsOf(metric[m].allocations) = {Item(a, heap[m][a]) : a \in InTree(m)}

(* The total still counts what was taken out of the tree.                  *)
Held(t, m) ==
  IF MetricOf(t) = m /\ caller[t].pc \in {"call", "handle"} /\ ~IsEmpty(caller[t].allocation)
  THEN caller[t].allocation.size ELSE 0
SizesIn(items) == [item \in items |-> item.size]
HeldOf(m) == [t \in Callers |-> Held(t, m)]
Totals == [m \in Metrics |-> metric[m].total]

TotalOK(m) ==
  metric[m].total = SumFunction(SizesIn(ItemsOf(metric[m].allocations))) + SumFunction(HeldOf(m))
ProcessOK == process_allocated_memory = SumFunction(Totals)

MemoryOK ==
  /\ TypesOK /\ ReportedOK /\ UseOK
  /\ \A t \in Callers : CallOK(t) /\ CarriedOK(t)
  /\ \A m \in Metrics : TreeOK(m)
AllocIInv == MemoryOK /\ ProcessOK /\ \A m \in Metrics : TotalOK(m)

(* Every program reports what it frees, and reallocates with success.      *)
EveryFreeReported == \A s \in AllocSetups : s.features = {}
-----------------------------------------------------------------------------
(* A thread that does nothing keeps what it has out of the tree. *)
LEMMA OutKept ==
  ASSUME NEW t, caller'[t] = caller[t]
  PROVE  \A m, a : Out(t, m, a)' <=> Out(t, m, a)
BY DEF Out, InCall, MetricOf

(* Nobody's memory is at address 0, and memory has a size.                 *)
LEMMA NoZeros ==
  /\ Addresses \subseteq Nat /\ 0 \notin Addresses /\ Sizes \subseteq Nat /\ 0 \notin Sizes
  /\ NULL \notin Callers
BY AllocMetricAssumption DEF AllocMetricAssumption

(* The item of an address and a size, *)
LEMMA ItemFacts ==
  ASSUME NEW a \in Addresses, NEW n \in Sizes
  PROVE  /\ Item(a, n) \in Allocations /\ ~IsEmpty(Item(a, n))
         /\ Item(a, n).address = a /\ Item(a, n).size = n
<1>1. a # 0
  BY NoZeros
<1> QED BY <1>1 DEF Allocations, Item, IsEmpty

(* and the empty one, which is no allocation. *)
LEMMA EmptyIsNone ==
  IsEmpty(Empty) /\ Empty \notin Allocations /\ \A i \in Allocations : ~IsEmpty(i)
<1>1. Empty.address = 0
  BY DEF Empty
<1>2. \A i \in Allocations : i.address # 0
  BY NoZeros DEF Allocations
<1> QED BY <1>1, <1>2 DEF IsEmpty

(* The sizes are numbers. *)
LEMMA SizesAreNumbers == (\A n \in Sizes : n \in Int) /\ \A i \in Allocations : i.size \in Int
<1>1. \A n \in Sizes : n \in Int
  BY AllocMetricAssumption DEF AllocMetricAssumption
<1>2. ASSUME NEW i \in [address : Addresses, size : Sizes] PROVE i.size \in Sizes
  OBVIOUS
<1> QED BY <1>1, <1>2, Zenon DEF Allocations

(* The metrics are what they were set up to be. *)
LEMMA SameSetup ==
  ASSUME UNCHANGED alloc_setup
  PROVE  Metrics' = Metrics /\ Calls' = Calls
<1>1. Metrics' = Metrics
  BY DEF Metrics
<1> QED BY <1>1 DEF Calls

(* What an address is in the tree. *)
LEMMA TreeFacts ==
  ASSUME TypesOK, NEW m \in Metrics, TreeOK(m), NEW a \in Addresses,
         \A b \in reported[m] : heap[m][b] # 0
  PROVE  LET tree == metric[m].allocations
             root == Splay(tree, a)
         IN  /\ tree \in Trees /\ root \in Trees /\ ItemsOf(root) = ItemsOf(tree)
             /\ Knows(tree, a) <=> a \in InTree(m)
             /\ root.address = a <=> a \in InTree(m)
             /\ IsFiniteSet(ItemsOf(tree)) /\ ItemsOf(tree) \subseteq Allocations
             /\ a \in InTree(m) =>
                  /\ ItemAt(root) = Item(a, heap[m][a]) /\ ItemAt(root) \in ItemsOf(tree)
                  /\ RemoveRoot(root) \in Trees
                  /\ ItemsOf(RemoveRoot(root)) = ItemsOf(tree) \ {Item(a, heap[m][a])}
             /\ a \notin InTree(m) =>
                  \A n \in Sizes : /\ Insert(tree, Item(a, n)) \in Trees
                                   /\ ItemsOf(Insert(tree, Item(a, n))) = ItemsOf(tree) \cup {Item(a, n)}
<1> DEFINE tree == metric[m].allocations
           root == Splay(tree, a)
<1>1. tree \in Trees
  BY DEF TypesOK
<1> HIDE DEF tree
<1>2. /\ root \in Trees /\ ItemsOf(root) = ItemsOf(tree) /\ IsFiniteSet(ItemsOf(tree))
      /\ Knows(tree, a) <=> root.address = a
      /\ Knows(tree, a) => /\ ItemAt(root) \in ItemsOf(tree) /\ RemoveRoot(root) \in Trees
                           /\ ItemsOf(RemoveRoot(root)) = ItemsOf(tree) \ {ItemAt(root)}
      /\ ~Knows(tree, a) =>
           \A n \in Sizes : /\ Insert(tree, Item(a, n)) \in Trees
                            /\ ItemsOf(Insert(tree, Item(a, n))) = ItemsOf(tree) \cup {Item(a, n)}
  BY <1>1, TreesAssumption DEF TreesAssumption
<1>3. \A b \in InTree(m) : b \in Addresses /\ heap[m][b] \in Sizes
  BY DEF TypesOK, InTree
<1>4. ItemsOf(tree) = {Item(b, heap[m][b]) : b \in InTree(m)}
  BY DEF TreeOK, tree
<1>5. ItemsOf(tree) \subseteq Allocations
  BY <1>3, <1>4, ItemFacts
<1>6. Knows(tree, a) <=> a \in InTree(m)
  <2>1. ASSUME Knows(tree, a) PROVE a \in InTree(m)
    <3>1. PICK item \in ItemsOf(tree) : item.address = a
      BY <2>1 DEF Knows
    <3>2. PICK b \in InTree(m) : item = Item(b, heap[m][b])
      BY <1>4
    <3>3. b = a
      BY <1>3, <3>1, <3>2, ItemFacts
    <3> QED BY <3>3
  <2>2. ASSUME a \in InTree(m) PROVE Knows(tree, a)
    <3>1. Item(a, heap[m][a]) \in ItemsOf(tree) /\ Item(a, heap[m][a]).address = a
      BY <1>3, <1>4, <2>2, ItemFacts
    <3> QED BY <3>1 DEF Knows
  <2> QED BY <2>1, <2>2
<1>7. ASSUME a \in InTree(m) PROVE ItemAt(root) = Item(a, heap[m][a])
  <2>1. root.address = a /\ ItemAt(root) \in ItemsOf(tree)
    BY <1>2, <1>6, <1>7
  <2>2. PICK b \in InTree(m) : ItemAt(root) = Item(b, heap[m][b])
    BY <1>4, <2>1
  <2>3. ItemAt(root).address = a
    BY <2>1 DEF ItemAt, Item
  <2>4. b = a
    BY <2>2, <2>3 DEF Item
  <2> QED BY <2>2, <2>4
<1> HIDE DEF root
<1>8. /\ tree \in Trees /\ root \in Trees /\ ItemsOf(root) = ItemsOf(tree)
      /\ (Knows(tree, a) <=> a \in InTree(m)) /\ (root.address = a <=> a \in InTree(m))
      /\ IsFiniteSet(ItemsOf(tree)) /\ ItemsOf(tree) \subseteq Allocations
      /\ (a \in InTree(m) =>
           /\ ItemAt(root) = Item(a, heap[m][a]) /\ ItemAt(root) \in ItemsOf(tree)
           /\ RemoveRoot(root) \in Trees
           /\ ItemsOf(RemoveRoot(root)) = ItemsOf(tree) \ {Item(a, heap[m][a])})
      /\ (a \notin InTree(m) =>
           \A n \in Sizes : /\ Insert(tree, Item(a, n)) \in Trees
                            /\ ItemsOf(Insert(tree, Item(a, n))) = ItemsOf(tree) \cup {Item(a, n)})
  BY <1>1, <1>2, <1>5, <1>6, <1>7
<1> QED BY <1>8 DEF tree, root

(* What the other threads do is not disturbed: what a step by t has to say *)
(* of the memory that t uses.                                              *)
LEMMA UseKept ==
  ASSUME UseOK, NEW t \in Callers, UNCHANGED alloc_setup,
         \A u \in Callers \ {t} : caller'[u] = caller[u],
         \A m \in Metrics, a \in Addresses :
           /\ InUseBy(t, m, a)' => heap'[m][a] # 0 /\ \A u \in Callers \ {t} : ~InUseBy(u, m, a)
           /\ \A u \in Callers \ {t} : InUseBy(u, m, a) => heap'[m][a] # 0
  PROVE  UseOK'
<1>1. Metrics' = Metrics
  BY DEF Metrics
<1>2. \A u \in Callers \ {t} : \A m, a : InUseBy(u, m, a)' <=> InUseBy(u, m, a)
  BY DEF InUseBy, InCall, MetricOf
<1> SUFFICES ASSUME NEW v \in Callers, NEW m \in Metrics, NEW a \in Addresses, InUseBy(v, m, a)'
             PROVE  heap'[m][a] # 0 /\ \A u \in Callers : InUseBy(u, m, a)' => u = v
  BY <1>1 DEF UseOK
<1>3. CASE v = t
  BY <1>2, <1>3
<1>4. CASE v # t
  <2>1. InUseBy(v, m, a) /\ ~InUseBy(t, m, a)'
    BY <1>2, <1>4
  <2> QED BY <1>2, <1>4, <2>1 DEF UseOK
<1> QED BY <1>3, <1>4

(* Memory that is out of the tree is in use. *)
LEMMA OutIsUsed ==
  ASSUME NEW t \in Callers, CallOK(t), NEW m, NEW a, Out(t, m, a)
  PROVE  InUseBy(t, m, a)
BY DEF Out, InUseBy, CallOK, InCall, MetricOf

(* What the other threads carry stays true. *)
LEMMA CarriedKept ==
  ASSUME NEW t \in Callers, NEW u \in Callers \ {t}, CallOK(u), CarriedOK(u),
         caller'[u] = caller[u], UNCHANGED alloc_setup,
         \A m \in Metrics, a \in Addresses :
           InUseBy(u, m, a) => heap'[m][a] = heap[m][a] /\ (a \in reported'[m] <=> a \in reported[m])
  PROVE  CallOK(u)' /\ CarriedOK(u)'
<1>0. Metrics' = Metrics
  BY DEF Metrics
<1>1. CallOK(u)'
  BY <1>0 DEF CallOK, InCall
<1>2. CASE ~InCall(u, "call") /\ ~(InCall(u, "handle") /\ caller[u].call # "free")
  BY <1>1, <1>2 DEF CarriedOK, InCall, MetricOf
<1>3. CASE InCall(u, "call") \/ (InCall(u, "handle") /\ caller[u].call # "free")
  <2>1. MetricOf(u) \in Metrics /\ caller[u].address \in Addresses /\ InUseBy(u, MetricOf(u), caller[u].address)
    BY <1>3 DEF CallOK, InCall, MetricOf, InUseBy
  <2>2. /\ heap'[MetricOf(u)][caller[u].address] = heap[MetricOf(u)][caller[u].address]
        /\ caller[u].address \in reported'[MetricOf(u)] <=> caller[u].address \in reported[MetricOf(u)]
    BY <2>1
  <2> QED BY <1>1, <2>2 DEF CarriedOK, InCall, MetricOf
<1> QED BY <1>1, <1>2, <1>3

(* A tree that is not touched has the same items, if the same memory is in *)
(* it.                                                                     *)
LEMMA TreeKept ==
  ASSUME NEW m \in Metrics, TreeOK(m), metric'[m].allocations = metric[m].allocations,
         InTree(m)' = InTree(m), \A a \in InTree(m) : heap'[m][a] = heap[m][a]
  PROVE  TreeOK(m)'
BY DEF TreeOK

(* What a step of t has to show. *)
LEMMA StepKeepsMemory ==
  ASSUME MemoryOK, NEW t \in Callers, UNCHANGED alloc_setup, TypesOK', ReportedOK',
         \A u \in Callers \ {t} : caller'[u] = caller[u],
         CallOK(t)', CarriedOK(t)',
         \A m \in Metrics, a \in Addresses :
           InUseBy(t, m, a)' => heap'[m][a] # 0 /\ \A u \in Callers \ {t} : ~InUseBy(u, m, a),
         \A u \in Callers \ {t}, m \in Metrics, a \in Addresses : InUseBy(u, m, a) =>
           heap'[m][a] = heap[m][a] /\ (a \in reported'[m] <=> a \in reported[m]),
         \A m \in Metrics : TreeOK(m)'
  PROVE  MemoryOK'
<1>1. \A m \in Metrics, a \in Addresses : \A u \in Callers \ {t} : InUseBy(u, m, a) => heap'[m][a] # 0
  BY DEF MemoryOK, UseOK
<1>2. UseOK'
  BY <1>1, UseKept DEF MemoryOK
<1>3. \A u \in Callers \ {t} : CallOK(u)' /\ CarriedOK(u)'
  BY CarriedKept DEF MemoryOK
<1>4. Metrics' = Metrics
  BY SameSetup
<1> QED BY <1>2, <1>3, <1>4 DEF MemoryOK

(* The program begins a call. *)
LEMMA BeginCalls ==
  ASSUME TypesOK, NEW t \in Callers, NEW call \in {"malloc", "free", "realloc"}, NEW pc \in {"handle", "acquire"},
         NEW m \in Metrics, NEW a \in Addresses, NEW size \in Sizes \cup {0}, Begin(t, call, pc, m, a, size)
  PROVE  /\ caller' \in [Callers -> Calls] /\ \A u \in Callers \ {t} : caller'[u] = caller[u]
         /\ InCall(t, "idle") /\ InCall(t, pc)'
         /\ caller'[t].call = call /\ caller'[t].metric = m /\ caller'[t].address = a
         /\ caller'[t].size = size /\ caller'[t].allocation = Empty
         /\ UNCHANGED <<alloc_setup, metric, process_allocated_memory, per_process_metrics>>
         /\ Metrics' = Metrics /\ Calls' = Calls
<1> DEFINE c == [NoCall EXCEPT !.pc = pc, !.call = call, !.metric = m, !.address = a, !.size = size]
<1>1. caller' = [caller EXCEPT ![t] = c]
  BY DEF Begin
<1>6. c = [pc |-> pc, call |-> call, metric |-> m, address |-> a, size |-> size,
           allocation |-> Empty, value |-> 0, time |-> 0]
  <2> DEFINE c1 == [NoCall EXCEPT !.pc = pc]
             c2 == [c1 EXCEPT !.call = call]
             c3 == [c2 EXCEPT !.metric = m]
             c4 == [c3 EXCEPT !.address = a]
  <2>1. c1 = [pc |-> pc, call |-> NULL, metric |-> NULL, address |-> 0, size |-> 0,
              allocation |-> Empty, value |-> 0, time |-> 0]
    BY DEF NoCall
  <2>2. c = [c4 EXCEPT !.size = size]
    BY DEF NoCall
  <2> HIDE DEF c1
  <2>3. c2 = [pc |-> pc, call |-> call, metric |-> NULL, address |-> 0, size |-> 0,
              allocation |-> Empty, value |-> 0, time |-> 0]
    BY <2>1
  <2> HIDE DEF c2
  <2>4. c3 = [pc |-> pc, call |-> call, metric |-> m, address |-> 0, size |-> 0,
              allocation |-> Empty, value |-> 0, time |-> 0]
    BY <2>3
  <2> HIDE DEF c3
  <2>5. c4 = [pc |-> pc, call |-> call, metric |-> m, address |-> a, size |-> 0,
              allocation |-> Empty, value |-> 0, time |-> 0]
    BY <2>4
  <2> HIDE DEF c4, c
  <2> QED BY <2>2, <2>5
<1>2. c \in Calls /\ c.pc = pc /\ c.call = call /\ c.metric = m /\ c.address = a /\ c.size = size /\ c.allocation = Empty
  <2> HIDE DEF c
  <2> QED BY <1>6 DEF Calls
<1> HIDE DEF c
<1>3. InCall(t, "idle") /\ UNCHANGED <<alloc_setup, metric, process_allocated_memory, per_process_metrics>>
  BY DEF Begin
<1>4. Metrics' = Metrics /\ Calls' = Calls
  BY <1>3, SameSetup
<1>5. caller' \in [Callers -> Calls] /\ caller'[t] = c /\ \A u \in Callers \ {t} : caller'[u] = caller[u]
  BY <1>1, <1>2 DEF TypesOK
<1> QED BY <1>2, <1>3, <1>4, <1>5 DEF InCall

(* The steps of the program. *)
LEMMA MallocKeepsMemory ==
  ASSUME MemoryOK, NEW t \in Callers, NEW m \in Metrics, NEW a \in Addresses, NEW n \in Sizes, Malloc(t, m, a, n)
  PROVE  MemoryOK' /\ InCall(t, "idle") /\ InCall(t, "handle")' /\ caller'[t].allocation = Empty
         /\ UNCHANGED <<metric, process_allocated_memory>>
<1>1. /\ heap[m][a] = 0 /\ heap' = [heap EXCEPT ![m][a] = n]
      /\ reported' = [reported EXCEPT ![m] = @ \cup {a}] /\ Begin(t, "malloc", "handle", m, a, n)
  BY DEF Malloc, SetHeap
<1>2. /\ caller' \in [Callers -> Calls] /\ \A u \in Callers \ {t} : caller'[u] = caller[u]
      /\ InCall(t, "idle") /\ InCall(t, "handle")'
      /\ caller'[t].call = "malloc" /\ caller'[t].metric = m /\ caller'[t].address = a
      /\ caller'[t].size = n /\ caller'[t].allocation = Empty
      /\ UNCHANGED <<alloc_setup, metric, process_allocated_memory, per_process_metrics>>
      /\ Metrics' = Metrics /\ Calls' = Calls
  BY <1>1, BeginCalls DEF MemoryOK
<1>3. /\ heap' \in [Metrics -> [Addresses -> Sizes \cup {0}]] /\ heap'[m][a] = n
      /\ \A k \in Metrics, b \in Addresses : <<k, b>> # <<m, a>> => heap'[k][b] = heap[k][b]
      /\ reported' \in [Metrics -> SUBSET Addresses] /\ reported'[m] = reported[m] \cup {a}
      /\ \A k \in Metrics \ {m} : reported'[k] = reported[k]
  BY <1>1 DEF MemoryOK, TypesOK
<1>4. TypesOK'
  BY <1>2, <1>3 DEF MemoryOK, TypesOK
<1>5. n # 0 /\ ReportedOK'
  <2>1. n # 0
    BY NoZeros
  <2>2. ASSUME NEW k \in Metrics, NEW b \in reported'[k] PROVE heap'[k][b] # 0
    <3>1. b \in Addresses
      BY <1>3
    <3> QED BY <1>3, <2>1, <2>2, <3>1 DEF MemoryOK, ReportedOK
  <2> QED BY <1>2, <2>1, <2>2 DEF ReportedOK
<1>6. a \notin reported[m] /\ \A u \in Callers : ~InUseBy(u, m, a)
  BY <1>1 DEF MemoryOK, ReportedOK, UseOK
<1>7. CallOK(t)' /\ CarriedOK(t)'
  BY <1>2, <1>3 DEF CallOK, CarriedOK, InCall, MetricOf
<1>8. ASSUME NEW k \in Metrics, NEW b \in Addresses, InUseBy(t, k, b)'
      PROVE  heap'[k][b] # 0 /\ \A u \in Callers \ {t} : ~InUseBy(u, k, b)
  <2>1. k = m /\ b = a
    BY <1>2, <1>8 DEF InUseBy, MetricOf
  <2> QED BY <1>3, <1>5, <1>6, <2>1
<1>9. ASSUME NEW u \in Callers \ {t}, NEW k \in Metrics, NEW b \in Addresses, InUseBy(u, k, b)
      PROVE  heap'[k][b] = heap[k][b] /\ (b \in reported'[k] <=> b \in reported[k])
  <2>1. <<k, b>> # <<m, a>>
    BY <1>6, <1>9
  <2> QED BY <1>3, <2>1
<1>10. ASSUME NEW k \in Metrics PROVE TreeOK(k)'
  <2>1. \A u \in Callers : \A b : Out(u, k, b)' <=> (Out(u, k, b) \/ (u = t /\ k = m /\ b = a))
    BY <1>2 DEF Out, InCall, MetricOf
  <2>2. \A b : b \in reported'[k] <=> b \in reported[k] \/ (k = m /\ b = a)
    BY <1>3
  <2>3. InTree(k)' = InTree(k)
    BY <1>6, <2>1, <2>2 DEF InTree
  <2>4. \A b \in InTree(k) : b \in Addresses /\ <<k, b>> # <<m, a>>
    BY <1>6 DEF InTree, MemoryOK, TypesOK
  <2>5. \A b \in InTree(k) : heap'[k][b] = heap[k][b]
    BY <1>3, <2>4
  <2> QED BY <1>2, <2>3, <2>5, TreeKept DEF MemoryOK
<1>11. MemoryOK'
  BY <1>2, <1>4, <1>5, <1>7, <1>8, <1>9, <1>10, StepKeepsMemory
<1> QED BY <1>2, <1>11

(* A call of free or of realloc begins. *)
LEMMA ReleaseKeepsMemory ==
  ASSUME MemoryOK, NEW t \in Callers, NEW m \in Metrics, NEW a \in Addresses, NEW n \in Sizes \cup {0},
         NEW call \in {"free", "realloc"}, call = "realloc" => n \in Sizes,
         Owned(m, a), Begin(t, call, "acquire", m, a, n), UNCHANGED <<heap, reported>>
  PROVE  MemoryOK' /\ InCall(t, "idle") /\ InCall(t, "acquire")' /\ UNCHANGED <<metric, process_allocated_memory>>
<1>2. /\ caller' \in [Callers -> Calls] /\ \A u \in Callers \ {t} : caller'[u] = caller[u]
      /\ InCall(t, "idle") /\ InCall(t, "acquire")'
      /\ caller'[t].call = call /\ caller'[t].metric = m /\ caller'[t].address = a
      /\ caller'[t].size = n /\ caller'[t].allocation = Empty
      /\ UNCHANGED <<alloc_setup, metric, process_allocated_memory, per_process_metrics>>
      /\ Metrics' = Metrics /\ Calls' = Calls
  BY BeginCalls DEF MemoryOK
<1>3. heap[m][a] # 0 /\ \A u \in Callers : ~InUseBy(u, m, a)
  BY DEF Owned
<1>4. TypesOK' /\ ReportedOK'
  BY <1>2 DEF MemoryOK, TypesOK, ReportedOK
<1>5. CallOK(t)' /\ CarriedOK(t)'
  BY <1>2 DEF CallOK, CarriedOK, InCall, MetricOf
<1>6. ASSUME NEW k \in Metrics, NEW b \in Addresses, InUseBy(t, k, b)'
      PROVE  heap'[k][b] # 0 /\ \A u \in Callers \ {t} : ~InUseBy(u, k, b)
  <2>1. k = m /\ b = a
    BY <1>2, <1>6 DEF InUseBy, MetricOf
  <2> QED BY <1>3, <2>1
<1>7. ASSUME NEW k \in Metrics PROVE TreeOK(k)'
  <2>1. \A u \in Callers : \A b : Out(u, k, b)' <=> Out(u, k, b)
    BY <1>2 DEF Out, InCall, MetricOf
  <2>2. InTree(k)' = InTree(k)
    BY <2>1 DEF InTree
  <2> QED BY <1>2, <2>2, TreeKept DEF MemoryOK
<1>8. MemoryOK'
  BY <1>2, <1>4, <1>5, <1>6, <1>7, StepKeepsMemory
<1> QED BY <1>2, <1>8

(* A thread's memory is not another's, nor out of the tree for another.     *)
LEMMA Alone ==
  ASSUME MemoryOK, NEW t \in Callers, NEW m \in Metrics, NEW a \in Addresses, InUseBy(t, m, a)
  PROVE  heap[m][a] # 0 /\ \A u \in Callers \ {t} : ~InUseBy(u, m, a) /\ ~Out(u, m, a)
<1>1. heap[m][a] # 0 /\ \A u \in Callers \ {t} : ~InUseBy(u, m, a)
  BY DEF MemoryOK, UseOK
<1>2. \A u \in Callers \ {t} : ~Out(u, m, a)
  BY <1>1, OutIsUsed DEF MemoryOK
<1> QED BY <1>1, <1>2

(* What AcquireAlloc does, said of sets of items. *)
LEMMA AcquireEffects ==
  ASSUME MemoryOK, NEW t \in Callers, AcquireAlloc(t)
  PROVE  LET m == MetricOf(t)
             a == caller[t].address
             item == Item(a, heap[m][a])
             known == a \in reported[m]
         IN  /\ m \in Metrics /\ a \in Addresses /\ InUseBy(t, m, a)
             /\ known <=> a \in InTree(m)
             /\ InCall(t, "acquire") /\ caller'[t].pc = "call"
             /\ caller'[t] = [caller[t] EXCEPT !.pc = "call", !.allocation = IF known THEN item ELSE Empty]
             /\ caller'[t] \in Calls
             /\ \A u \in Callers \ {t} : caller'[u] = caller[u]
             /\ caller' \in [Callers -> Calls]
             /\ metric' \in [Metrics -> [mutex : Callers \cup {NULL}, allocations : Trees, total : Int]]
             /\ \A k \in Metrics \ {m} : metric'[k] = metric[k]
             /\ metric'[m].total = metric[m].total
             /\ ItemsOf(metric'[m].allocations) =
                  IF known THEN ItemsOf(metric[m].allocations) \ {item} ELSE ItemsOf(metric[m].allocations)
             /\ UNCHANGED <<alloc_setup, heap, reported, process_allocated_memory, per_process_metrics>>
<1> DEFINE m == MetricOf(t)
           a == caller[t].address
           item == Item(a, heap[m][a])
           known == a \in reported[m]
           tree == metric[m].allocations
           root == Splay(tree, a)
           rest == IF root.address = a THEN RemoveRoot(root) ELSE root
           taken == IF root.address = a THEN ItemAt(root) ELSE Empty
<1>1. /\ InCall(t, "acquire") /\ metric' = [metric EXCEPT ![m].allocations = rest]
      /\ caller' = [caller EXCEPT ![t].pc = "call", ![t].allocation = taken]
      /\ UNCHANGED <<alloc_setup, heap, reported, process_allocated_memory, per_process_metrics>>
  BY DEF AcquireAlloc
<1>2. m \in Metrics /\ a \in Addresses /\ InUseBy(t, m, a) /\ ~Out(t, m, a)
  BY <1>1 DEF MemoryOK, CallOK, InCall, InUseBy, Out, MetricOf
<1>3. known <=> a \in InTree(m)
  BY <1>2, Alone DEF InTree
<1>4. TreeOK(m) /\ TypesOK /\ \A b \in reported[m] : heap[m][b] # 0
  BY <1>2 DEF MemoryOK, ReportedOK
<1>5. /\ tree \in Trees /\ root \in Trees /\ ItemsOf(root) = ItemsOf(tree)
      /\ root.address = a <=> known
      /\ known => /\ ItemAt(root) = item /\ ItemAt(root) \in ItemsOf(tree) /\ ItemsOf(tree) \subseteq Allocations
                  /\ RemoveRoot(root) \in Trees /\ ItemsOf(RemoveRoot(root)) = ItemsOf(tree) \ {item}
  <2> HIDE DEF m, a
  <2> QED BY <1>2, <1>3, <1>4, TreeFacts
<1>6. /\ rest \in Trees /\ ItemsOf(rest) = IF known THEN ItemsOf(tree) \ {item} ELSE ItemsOf(tree)
      /\ taken = IF known THEN item ELSE Empty
      /\ taken \in Allocations \cup {Empty}
  BY <1>5
<1> HIDE DEF rest, taken, root
<1>7. /\ metric' \in [Metrics -> [mutex : Callers \cup {NULL}, allocations : Trees, total : Int]]
      /\ \A k \in Metrics \ {m} : metric'[k] = metric[k]
      /\ metric'[m].total = metric[m].total /\ metric'[m].allocations = rest
  BY <1>1, <1>2, <1>4, <1>6 DEF TypesOK
<1>8. caller[t] \in Calls /\ caller'[t] = [caller[t] EXCEPT !.pc = "call", !.allocation = taken]
  BY <1>1, <1>4 DEF TypesOK
<1>9. caller'[t] \in Calls /\ caller'[t].pc = "call"
  BY <1>6, <1>8 DEF Calls
<1>10. caller' \in [Callers -> Calls] /\ \A u \in Callers \ {t} : caller'[u] = caller[u]
  BY <1>1, <1>4, <1>9 DEF TypesOK
<1> HIDE DEF m, a, item, known, tree
<1>11. ItemsOf(metric'[m].allocations) = IF known THEN ItemsOf(tree) \ {item} ELSE ItemsOf(tree)
  BY <1>6, <1>7
<1>12. caller'[t] = [caller[t] EXCEPT !.pc = "call", !.allocation = IF known THEN item ELSE Empty]
  BY <1>6, <1>8
<1> QED BY <1>1, <1>2, <1>3, <1>7, <1>9, <1>10, <1>11, <1>12 DEF m, a, item, known, tree

(* The address is out of the tree, and in use by this thread alone. *)
LEMMA AcquireKeepsMemory ==
  ASSUME MemoryOK, NEW t \in Callers, AcquireAlloc(t)
  PROVE  MemoryOK'
<1> DEFINE m == MetricOf(t)
           a == caller[t].address
           item == Item(a, heap[m][a])
           known == a \in reported[m]
<1>1. /\ m \in Metrics /\ a \in Addresses /\ InUseBy(t, m, a)
      /\ known <=> a \in InTree(m)
      /\ InCall(t, "acquire") /\ caller'[t].pc = "call"
      /\ caller'[t] = [caller[t] EXCEPT !.pc = "call", !.allocation = IF known THEN item ELSE Empty]
      /\ \A u \in Callers \ {t} : caller'[u] = caller[u]
      /\ caller' \in [Callers -> Calls]
      /\ metric' \in [Metrics -> [mutex : Callers \cup {NULL}, allocations : Trees, total : Int]]
      /\ \A k \in Metrics \ {m} : metric'[k] = metric[k]
      /\ metric'[m].total = metric[m].total
      /\ ItemsOf(metric'[m].allocations) =
           IF known THEN ItemsOf(metric[m].allocations) \ {item} ELSE ItemsOf(metric[m].allocations)
      /\ UNCHANGED <<alloc_setup, heap, reported, process_allocated_memory, per_process_metrics>>
  BY AcquireEffects
<1>2. /\ caller[t] \in Calls /\ caller'[t].call = caller[t].call /\ caller'[t].metric = m /\ caller'[t].address = a
      /\ caller'[t].size = caller[t].size /\ caller'[t].allocation = IF known THEN item ELSE Empty
  BY <1>1 DEF MemoryOK, TypesOK, Calls, MetricOf
<1> HIDE DEF m, a, item, known
<1>3. TypesOK' /\ ReportedOK'
  <2>1. Metrics' = Metrics /\ Calls' = Calls
    BY <1>1, SameSetup
  <2> QED BY <1>1, <2>1 DEF MemoryOK, TypesOK, ReportedOK
<1>4. CallOK(t)'
  <2>1. Metrics' = Metrics
    BY <1>1, SameSetup
  <2>2. CallOK(t) /\ caller[t].pc = "acquire"
    BY <1>1 DEF MemoryOK, InCall
  <2> QED BY <1>1, <1>2, <2>1, <2>2 DEF CallOK, InCall
<1>5. CarriedOK(t)'
  BY <1>1, <1>2 DEF CarriedOK, InCall, MetricOf, item, known
<1>6. ASSUME NEW k \in Metrics, NEW b \in Addresses, InUseBy(t, k, b)'
      PROVE  heap'[k][b] # 0 /\ \A u \in Callers \ {t} : ~InUseBy(u, k, b)
  <2>1. k = m /\ b = a
    BY <1>2, <1>6 DEF InUseBy, MetricOf
  <2> QED BY <1>1, <2>1, Alone
<1>7. ASSUME NEW k \in Metrics PROVE TreeOK(k)'
  <2>0. TreeOK(k) /\ ReportedOK
    BY DEF MemoryOK
  <2>1. \A u \in Callers : \A b : Out(u, k, b)' <=> (Out(u, k, b) \/ (u = t /\ k = m /\ b = a))
    <3>1. ASSUME NEW b PROVE Out(t, k, b)' <=> (k = m /\ b = a)
      BY <1>1, <1>2 DEF Out, InCall, MetricOf
    <3>2. ASSUME NEW b PROVE ~Out(t, k, b)
      BY <1>1 DEF Out, InCall
    <3>3. ASSUME NEW u \in Callers \ {t} PROVE \A b : Out(u, k, b)' <=> Out(u, k, b)
      BY <1>1, OutKept
    <3> QED BY <3>1, <3>2, <3>3
  <2>2. InTree(k)' = IF k = m THEN InTree(k) \ {a} ELSE InTree(k)
    BY <1>1, <2>1 DEF InTree
  <2>3. CASE k # m
    BY <1>1, <2>0, <2>2, <2>3, TreeKept
  <2>4. CASE k = m /\ ~known
    BY <1>1, <2>0, <2>2, <2>4 DEF TreeOK
  <2>5. CASE k = m /\ known
    <3>1. \A b \in InTree(m) : b \in Addresses /\ (Item(b, heap[m][b]) = item <=> b = a)
      BY <1>1 DEF InTree, MemoryOK, TypesOK, item, Item
    <3>2. ItemsOf(metric[m].allocations) \ {item} = {Item(b, heap[m][b]) : b \in InTree(m) \ {a}}
      BY <2>0, <2>5, <3>1 DEF TreeOK
    <3> QED BY <1>1, <2>2, <2>5, <3>2 DEF TreeOK
  <2> QED BY <2>3, <2>4, <2>5
<1> QED BY <1>1, <1>3, <1>4, <1>5, <1>6, <1>7, StepKeepsMemory

(* What is freed is out of the tree already. *)
LEMMA CallFreeKeepsMemory ==
  ASSUME MemoryOK, NEW t \in Callers, CallFree(t)
  PROVE  /\ MemoryOK' /\ UNCHANGED <<alloc_setup, metric, process_allocated_memory>>
         /\ \A u \in Callers \ {t} : caller'[u] = caller[u]
         /\ caller[t].pc = "call" /\ caller'[t].pc = "handle" /\ caller'[t].metric = caller[t].metric
         /\ caller'[t].allocation = caller[t].allocation
<1> DEFINE m == MetricOf(t)
           a == caller[t].address
<1>1. /\ InCall(t, "call") /\ caller[t].call = "free"
      /\ heap' = [heap EXCEPT ![m][a] = 0] /\ reported' = [reported EXCEPT ![m] = @ \ {a}]
      /\ caller' = [caller EXCEPT ![t].pc = "handle"]
      /\ UNCHANGED <<alloc_setup, metric, process_allocated_memory, per_process_metrics>>
  BY DEF CallFree, Freed, SetHeap, NextPc
<1>2. m \in Metrics /\ a \in Addresses /\ InUseBy(t, m, a) /\ Out(t, m, a)
  BY <1>1 DEF MemoryOK, CallOK, InCall, InUseBy, Out, MetricOf
<1>3. /\ caller[t] \in Calls /\ caller'[t] = [caller[t] EXCEPT !.pc = "handle"]
      /\ caller'[t] \in Calls /\ caller' \in [Callers -> Calls]
      /\ \A u \in Callers \ {t} : caller'[u] = caller[u]
      /\ caller'[t].pc = "handle" /\ caller'[t].call = "free" /\ caller'[t].metric = m /\ caller'[t].address = a
      /\ caller'[t].size = caller[t].size /\ caller'[t].allocation = caller[t].allocation
  <2>1. caller[t] \in Calls /\ caller'[t] = [caller[t] EXCEPT !.pc = "handle"]
    BY <1>1 DEF MemoryOK, TypesOK
  <2>2. /\ caller'[t] \in Calls
        /\ caller'[t].pc = "handle" /\ caller'[t].call = "free" /\ caller'[t].metric = m /\ caller'[t].address = a
        /\ caller'[t].size = caller[t].size /\ caller'[t].allocation = caller[t].allocation
    BY <1>1, <2>1 DEF Calls, MetricOf
  <2> QED BY <1>1, <2>1, <2>2 DEF MemoryOK, TypesOK
<1> HIDE DEF m, a
<1>4. /\ heap' \in [Metrics -> [Addresses -> Sizes \cup {0}]]
      /\ \A k \in Metrics, b \in Addresses : <<k, b>> # <<m, a>> => heap'[k][b] = heap[k][b]
      /\ reported' \in [Metrics -> SUBSET Addresses] /\ reported'[m] = reported[m] \ {a}
      /\ \A k \in Metrics \ {m} : reported'[k] = reported[k]
  BY <1>1, <1>2 DEF MemoryOK, TypesOK
<1>5. Metrics' = Metrics /\ Calls' = Calls
  BY <1>1, SameSetup
<1>6. TypesOK'
  BY <1>1, <1>3, <1>4, <1>5 DEF MemoryOK, TypesOK
<1>7. ReportedOK'
  <2>1. ASSUME NEW k \in Metrics, NEW b \in reported'[k] PROVE heap'[k][b] # 0
    <3>1. b \in Addresses /\ b \in reported[k] /\ <<k, b>> # <<m, a>>
      BY <1>4
    <3> QED BY <1>4, <2>1, <3>1 DEF MemoryOK, ReportedOK
  <2> QED BY <1>5, <2>1 DEF ReportedOK
<1>8. CallOK(t)'
  BY <1>2, <1>3, <1>5 DEF CallOK, InCall
<1>9. CarriedOK(t)'
  BY <1>3 DEF CarriedOK, InCall
<1>10. ASSUME NEW k \in Metrics, NEW b \in Addresses, InUseBy(t, k, b)' PROVE FALSE
  BY <1>3, <1>10 DEF InUseBy
<1>11. ASSUME NEW u \in Callers \ {t}, NEW k \in Metrics, NEW b \in Addresses, InUseBy(u, k, b)
       PROVE  heap'[k][b] = heap[k][b] /\ (b \in reported'[k] <=> b \in reported[k])
  <2>1. <<k, b>> # <<m, a>>
    BY <1>2, <1>11, Alone
  <2> QED BY <1>4, <2>1
<1>12. ASSUME NEW k \in Metrics PROVE TreeOK(k)'
  <2>1. \A u \in Callers : \A b : <<k, b>> # <<m, a>> => (Out(u, k, b)' <=> Out(u, k, b))
    <3>1. ASSUME NEW b, <<k, b>> # <<m, a>> PROVE ~Out(t, k, b)' /\ ~Out(t, k, b)
      BY <1>3, <3>1 DEF Out, MetricOf, m, a
    <3>2. ASSUME NEW u \in Callers \ {t} PROVE \A b : Out(u, k, b)' <=> Out(u, k, b)
      BY <1>3, OutKept
    <3> QED BY <3>1, <3>2
  <2>2. \A b : <<k, b>> # <<m, a>> => (b \in reported'[k] <=> b \in reported[k])
    BY <1>4
  <2>3. k = m => a \notin InTree(k) /\ a \notin reported'[k]
    BY <1>2, <1>4 DEF InTree
  <2>4. InTree(k)' = InTree(k)
    BY <2>1, <2>2, <2>3 DEF InTree
  <2>5. \A b \in InTree(k) : b \in Addresses /\ <<k, b>> # <<m, a>>
    BY <2>3 DEF InTree, MemoryOK, TypesOK
  <2>6. \A b \in InTree(k) : heap'[k][b] = heap[k][b]
    BY <1>4, <2>5
  <2> QED BY <1>1, <2>4, <2>6, TreeKept DEF MemoryOK
<1>13. MemoryOK'
  BY <1>1, <1>3, <1>6, <1>7, <1>8, <1>9, <1>10, <1>11, <1>12, StepKeepsMemory
<1> QED BY <1>1, <1>3, <1>13 DEF InCall, m, MetricOf

(* The new address is free, or the old one. *)
LEMMA CallReallocKeepsMemory ==
  ASSUME MemoryOK, EveryFreeReported, NEW t \in Callers, CallRealloc(t)
  PROVE  /\ MemoryOK' /\ UNCHANGED <<alloc_setup, metric, process_allocated_memory>>
         /\ \A u \in Callers \ {t} : caller'[u] = caller[u]
         /\ caller[t].pc = "call" /\ caller'[t].pc = "handle" /\ caller'[t].metric = caller[t].metric
         /\ caller'[t].allocation = caller[t].allocation
<1> DEFINE m == MetricOf(t)
           a == caller[t].address
           n == caller[t].size
<1>1. /\ InCall(t, "call") /\ caller[t].call = "realloc"
      /\ UNCHANGED <<alloc_setup, metric, process_allocated_memory, per_process_metrics>>
  BY DEF CallRealloc
<1>0. PICK b \in Addresses :
        /\ b = a \/ heap[m][b] = 0
        /\ heap' = [heap EXCEPT ![m][a] = 0, ![m][b] = n]
        /\ reported' = [reported EXCEPT ![m] = (@ \ {a}) \cup {b}]
        /\ caller' = [caller EXCEPT ![t].pc = "handle", ![t].address = b]
  <2>1. alloc_setup.features = {}
    BY DEF EveryFreeReported, MemoryOK, TypesOK
  <2>2. 0 \notin Addresses
    BY NoZeros
  <2> QED BY <2>1, <2>2 DEF CallRealloc
<1>2. /\ m \in Metrics /\ a \in Addresses /\ n \in Sizes /\ InUseBy(t, m, a) /\ Out(t, m, a)
  BY <1>1 DEF MemoryOK, CallOK, InCall, InUseBy, Out, MetricOf
<1>3. /\ caller[t] \in Calls
      /\ caller'[t] \in Calls /\ caller' \in [Callers -> Calls]
      /\ \A u \in Callers \ {t} : caller'[u] = caller[u]
      /\ caller'[t].pc = "handle" /\ caller'[t].call = "realloc" /\ caller'[t].metric = m /\ caller'[t].address = b
      /\ caller'[t].size = n /\ caller'[t].allocation = caller[t].allocation
  <2>1. caller[t] \in Calls /\ caller'[t] = [caller[t] EXCEPT !.pc = "handle", !.address = b]
    BY <1>0 DEF MemoryOK, TypesOK
  <2>2. /\ caller'[t] \in Calls
        /\ caller'[t].pc = "handle" /\ caller'[t].call = "realloc" /\ caller'[t].metric = m /\ caller'[t].address = b
        /\ caller'[t].size = n /\ caller'[t].allocation = caller[t].allocation
    BY <1>1, <2>1 DEF Calls, MetricOf
  <2> QED BY <1>0, <2>1, <2>2 DEF MemoryOK, TypesOK
<1> HIDE DEF m, a, n
<1>4. /\ heap' \in [Metrics -> [Addresses -> Sizes \cup {0}]] /\ heap'[m][b] = n
      /\ \A k \in Metrics, c \in Addresses : <<k, c>> # <<m, a>> /\ <<k, c>> # <<m, b>> => heap'[k][c] = heap[k][c]
      /\ reported' \in [Metrics -> SUBSET Addresses] /\ reported'[m] = (reported[m] \ {a}) \cup {b}
      /\ \A k \in Metrics \ {m} : reported'[k] = reported[k]
  BY <1>0, <1>2 DEF MemoryOK, TypesOK
<1>5. Metrics' = Metrics /\ Calls' = Calls
  BY <1>1, SameSetup
<1>6. TypesOK'
  BY <1>1, <1>3, <1>4, <1>5 DEF MemoryOK, TypesOK
<1>7. n # 0 /\ ReportedOK'
  <2>0. n # 0
    BY <1>2, NoZeros
  <2>1. ASSUME NEW k \in Metrics, NEW c \in reported'[k] PROVE heap'[k][c] # 0
    <3>1. CASE k = m /\ c = b
      BY <1>4, <2>0, <3>1
    <3>2. CASE ~(k = m /\ c = b)
      <4>1. c \in Addresses /\ c \in reported[k] /\ <<k, c>> # <<m, a>> /\ <<k, c>> # <<m, b>>
        BY <1>4, <3>2
      <4> QED BY <1>4, <2>1, <4>1 DEF MemoryOK, ReportedOK
    <3> QED BY <3>1, <3>2
  <2> QED BY <1>5, <2>0, <2>1 DEF ReportedOK
<1>8. CallOK(t)'
  BY <1>2, <1>3, <1>5 DEF CallOK, InCall
<1>9. CarriedOK(t)'
  BY <1>3, <1>4 DEF CarriedOK, InCall, MetricOf
<1>10. \A u \in Callers \ {t} : ~InUseBy(u, m, a) /\ ~InUseBy(u, m, b)
  <2>1. \A u \in Callers \ {t} : ~InUseBy(u, m, a)
    BY <1>2, Alone
  <2>2. CASE b = a
    BY <2>1, <2>2
  <2>3. CASE heap[m][b] = 0
    BY <1>2, <2>1, <2>3 DEF MemoryOK, UseOK
  <2> QED BY <1>0, <2>2, <2>3 DEF m, a
<1>11. ASSUME NEW k \in Metrics, NEW c \in Addresses, InUseBy(t, k, c)'
       PROVE  heap'[k][c] # 0 /\ \A u \in Callers \ {t} : ~InUseBy(u, k, c)
  <2>1. k = m /\ c = b
    BY <1>3, <1>11 DEF InUseBy, MetricOf
  <2> QED BY <1>4, <1>7, <1>10, <2>1
<1>12. ASSUME NEW u \in Callers \ {t}, NEW k \in Metrics, NEW c \in Addresses, InUseBy(u, k, c)
       PROVE  heap'[k][c] = heap[k][c] /\ (c \in reported'[k] <=> c \in reported[k])
  <2>1. <<k, c>> # <<m, a>> /\ <<k, c>> # <<m, b>>
    BY <1>10, <1>12
  <2> QED BY <1>4, <2>1
<1>13. ASSUME NEW k \in Metrics PROVE TreeOK(k)'
  <2>1. \A u \in Callers : \A c : <<k, c>> # <<m, a>> /\ <<k, c>> # <<m, b>> => (Out(u, k, c)' <=> Out(u, k, c))
    BY <1>3 DEF Out, InCall, MetricOf, m, a
  <2>2. \A c : <<k, c>> # <<m, a>> /\ <<k, c>> # <<m, b>> => (c \in reported'[k] <=> c \in reported[k])
    BY <1>4
  <2>3. k = m => a \notin InTree(k) /\ b \notin InTree(k)
    <3>1. k = m => a \notin InTree(k)
      BY <1>2 DEF InTree
    <3>2. CASE b = a
      BY <3>1, <3>2
    <3>3. CASE heap[m][b] = 0
      BY <1>2, <3>1, <3>3 DEF InTree, MemoryOK, ReportedOK
    <3> QED BY <1>0, <3>2, <3>3 DEF m, a
  <2>4. k = m => Out(t, k, b)'
    BY <1>3 DEF Out, InCall, MetricOf
  <2>5. k = m => b \notin InTree(k)' /\ a \notin InTree(k)'
    <3>1. k = m => b \notin InTree(k)'
      BY <2>4 DEF InTree
    <3>2. a # b => a \notin reported'[m]
      BY <1>4
    <3> QED BY <3>1, <3>2 DEF InTree
  <2>6. InTree(k)' = InTree(k)
    BY <2>1, <2>2, <2>3, <2>5 DEF InTree
  <2>7. \A c \in InTree(k) : c \in Addresses /\ <<k, c>> # <<m, a>> /\ <<k, c>> # <<m, b>>
    BY <2>3 DEF InTree, MemoryOK, TypesOK
  <2>8. \A c \in InTree(k) : heap'[k][c] = heap[k][c]
    BY <1>4, <2>7
  <2> QED BY <1>1, <2>6, <2>8, TreeKept DEF MemoryOK
<1>14. MemoryOK'
  BY <1>1, <1>3, <1>6, <1>7, <1>8, <1>9, <1>11, <1>12, <1>13, StepKeepsMemory
<1> QED BY <1>1, <1>3, <1>14 DEF InCall, m, MetricOf

(* The reports. *)
LEMMA ReportEffects ==
  ASSUME MemoryOK, NEW t \in Callers, NEW tree \in Trees, NEW total \in Int, NEW process \in Int, NEW value \in Int,
         Report(t, tree, total, process, value)
  PROVE  LET m == MetricOf(t)
             a == caller[t].address
         IN  /\ m \in Metrics /\ a \in Addresses /\ InCall(t, "handle")
             /\ caller'[t].pc = "location" /\ caller'[t].metric = m /\ caller'[t].address = a
             /\ caller'[t].call = caller[t].call /\ caller'[t].size = caller[t].size
             /\ caller'[t].allocation = caller[t].allocation
             /\ \A u \in Callers \ {t} : caller'[u] = caller[u]
             /\ \A k \in Metrics \ {m} : metric'[k] = metric[k]
             /\ metric'[m].total = total /\ metric'[m].allocations = tree
             /\ process_allocated_memory' = process_allocated_memory + process
             /\ UNCHANGED <<alloc_setup, heap, reported>>
             /\ TypesOK' /\ ReportedOK' /\ CallOK(t)' /\ CarriedOK(t)'
             /\ \A k \in Metrics, b \in Addresses : InUseBy(t, k, b)' => InUseBy(t, k, b)
<1> DEFINE m == MetricOf(t)
           a == caller[t].address
<1>1. /\ InCall(t, "handle") /\ metric' = [metric EXCEPT ![m] = [mutex |-> t, allocations |-> tree, total |-> total]]
      /\ process_allocated_memory' = process_allocated_memory + process
      /\ caller' = [caller EXCEPT ![t].pc = "location", ![t].value = value]
      /\ UNCHANGED <<alloc_setup, heap, reported, per_process_metrics>>
  BY DEF Report
<1>2. m \in Metrics /\ a \in Addresses
  BY <1>1 DEF MemoryOK, CallOK, InCall, MetricOf
<1>3. /\ metric' \in [Metrics -> [mutex : Callers \cup {NULL}, allocations : Trees, total : Int]]
      /\ \A k \in Metrics \ {m} : metric'[k] = metric[k]
      /\ metric'[m].total = total /\ metric'[m].allocations = tree
  BY <1>1, <1>2 DEF MemoryOK, TypesOK
<1>4. caller[t] \in Calls /\ caller'[t] = [caller[t] EXCEPT !.pc = "location", !.value = value]
  BY <1>1 DEF MemoryOK, TypesOK
<1>5. /\ caller'[t] \in Calls /\ caller'[t].pc = "location" /\ caller'[t].metric = m /\ caller'[t].address = a
      /\ caller'[t].call = caller[t].call /\ caller'[t].size = caller[t].size
      /\ caller'[t].allocation = caller[t].allocation
  BY <1>4 DEF Calls, MetricOf
<1>6. caller' \in [Callers -> Calls] /\ \A u \in Callers \ {t} : caller'[u] = caller[u]
  BY <1>1, <1>5 DEF MemoryOK, TypesOK
<1> HIDE DEF m, a
<1>7. Metrics' = Metrics /\ Calls' = Calls
  BY <1>1, SameSetup
<1>8. TypesOK' /\ ReportedOK'
  BY <1>1, <1>3, <1>6, <1>7 DEF MemoryOK, TypesOK, ReportedOK
<1>9. CallOK(t)' /\ CarriedOK(t)'
  <2>1. caller[t].pc = "handle" /\ CallOK(t)
    BY <1>1 DEF MemoryOK, InCall
  <2> QED BY <1>2, <1>5, <1>7, <2>1 DEF CallOK, CarriedOK, InCall
<1>10. ASSUME NEW k \in Metrics, NEW b \in Addresses, InUseBy(t, k, b)' PROVE InUseBy(t, k, b)
  BY <1>1, <1>5, <1>10 DEF InUseBy, InCall, MetricOf, m, a
<1> QED BY <1>1, <1>2, <1>3, <1>5, <1>6, <1>8, <1>9, <1>10 DEF m, a

(* A report of new memory: its address is not in the tree. *)
LEMMA InsertKeepsMemory ==
  ASSUME MemoryOK, NEW t \in Callers, NEW total \in Int, NEW process \in Int, NEW value \in Int,
         caller[t].call \in {"malloc", "realloc"},
         Report(t, Insert(metric[MetricOf(t)].allocations, Item(caller[t].address, caller[t].size)),
                total, process, value)
  PROVE  LET m == MetricOf(t)
             item == Item(caller[t].address, caller[t].size)
         IN  /\ MemoryOK' /\ UNCHANGED alloc_setup
             /\ m \in Metrics /\ caller[t].pc = "handle" /\ caller'[t].pc = "location"
             /\ \A u \in Callers \ {t} : caller'[u] = caller[u]
             /\ \A k \in Metrics \ {m} : metric'[k] = metric[k]
             /\ metric'[m].total = total
             /\ ItemsOf(metric'[m].allocations) = ItemsOf(metric[m].allocations) \cup {item}
             /\ item \notin ItemsOf(metric[m].allocations) /\ item \in Allocations /\ item.size = caller[t].size
             /\ process_allocated_memory' = process_allocated_memory + process
<1> DEFINE m == MetricOf(t)
           a == caller[t].address
           n == caller[t].size
           tree == Insert(metric[m].allocations, Item(a, n))
<1>1. /\ m \in Metrics /\ a \in Addresses /\ InCall(t, "handle") /\ n \in Sizes
      /\ InUseBy(t, m, a) /\ Out(t, m, a) /\ a \in reported[m] /\ heap[m][a] = n
  <2>1. InCall(t, "handle")
    BY DEF Report
  <2>2. CallOK(t) /\ CarriedOK(t)
    BY DEF MemoryOK
  <2> QED BY <2>1, <2>2 DEF CallOK, CarriedOK, InCall, InUseBy, Out, MetricOf
<1>2. a \notin InTree(m)
  BY <1>1 DEF InTree
<1>3. TypesOK /\ TreeOK(m) /\ \A b \in reported[m] : heap[m][b] # 0
  BY <1>1 DEF MemoryOK, ReportedOK
<1>4. tree \in Trees /\ ItemsOf(tree) = ItemsOf(metric[m].allocations) \cup {Item(a, n)}
  <2> HIDE DEF m, a, n
  <2> QED BY <1>1, <1>2, <1>3, TreeFacts
<1>5. Report(t, tree, total, process, value)
  OBVIOUS
<1> HIDE DEF tree
<1>6. /\ caller'[t].pc = "location" /\ caller'[t].metric = m /\ caller'[t].address = a
      /\ caller'[t].call = caller[t].call
      /\ \A u \in Callers \ {t} : caller'[u] = caller[u]
      /\ \A k \in Metrics \ {m} : metric'[k] = metric[k]
      /\ metric'[m].total = total /\ metric'[m].allocations = tree
      /\ process_allocated_memory' = process_allocated_memory + process
      /\ UNCHANGED <<alloc_setup, heap, reported>>
      /\ TypesOK' /\ ReportedOK' /\ CallOK(t)' /\ CarriedOK(t)'
      /\ \A k \in Metrics, b \in Addresses : InUseBy(t, k, b)' => InUseBy(t, k, b)
  BY <1>4, <1>5, ReportEffects
<1>7. Item(a, n) \notin ItemsOf(metric[m].allocations)
  <2> SUFFICES ASSUME Item(a, n) \in ItemsOf(metric[m].allocations) PROVE FALSE
    OBVIOUS
  <2>1. PICK b \in InTree(m) : Item(a, n) = Item(b, heap[m][b])
    BY <1>3 DEF TreeOK
  <2>2. a = b
    BY <2>1 DEF Item
  <2> QED BY <1>2, <2>2
<1> HIDE DEF m, a, n
<1>8. Item(a, n) \in Allocations /\ Item(a, n).size = n
  BY <1>1, ItemFacts
<1>9. ASSUME NEW k \in Metrics, NEW b \in Addresses, InUseBy(t, k, b)'
      PROVE  heap'[k][b] # 0 /\ \A u \in Callers \ {t} : ~InUseBy(u, k, b)
  BY <1>6, <1>9, Alone
<1>10. ASSUME NEW k \in Metrics PROVE TreeOK(k)'
  <2>0. TreeOK(k)
    BY DEF MemoryOK
  <2>1. /\ \A u \in Callers \ {t} : \A b : Out(u, k, b)' <=> Out(u, k, b)
        /\ \A b : ~Out(t, k, b)'
    <3>1. ASSUME NEW u \in Callers \ {t} PROVE \A b : Out(u, k, b)' <=> Out(u, k, b)
      BY <1>6, OutKept
    <3>2. ASSUME NEW b PROVE ~Out(t, k, b)'
      BY <1>6 DEF Out, InCall, MetricOf
    <3> QED BY <3>1, <3>2
  <2>2. \A b : Out(t, k, b) => k = m /\ b = a
    BY DEF Out, m, a
  <2>3. k = m => \A u \in Callers \ {t} : ~Out(u, k, a)
    BY <1>1, Alone
  <2>4. InTree(k)' = IF k = m THEN InTree(k) \cup {a} ELSE InTree(k)
    BY <1>1, <1>6, <2>1, <2>2, <2>3 DEF InTree
  <2>5. CASE k # m
    BY <1>6, <2>0, <2>4, <2>5, TreeKept
  <2>6. CASE k = m
    <3>1. {Item(b, heap[m][b]) : b \in InTree(m) \cup {a}} = {Item(b, heap[m][b]) : b \in InTree(m)} \cup {Item(a, n)}
      BY <1>1
    <3>2. ItemsOf(metric[m].allocations) = {Item(b, heap[m][b]) : b \in InTree(m)}
      BY <2>0, <2>6 DEF TreeOK
    <3>3. ItemsOf(metric'[k].allocations) = {Item(b, heap[k][b]) : b \in InTree(k) \cup {a}}
      BY <1>4, <1>6, <2>6, <3>1, <3>2
    <3>4. ItemsOf(metric'[k].allocations) = {Item(b, heap[k][b]) : b \in InTree(k)'}
      BY <2>4, <2>6, <3>3
    <3>5. heap' = heap
      BY <1>6
    <3> QED BY <3>4, <3>5 DEF TreeOK
  <2> QED BY <2>5, <2>6
<1>11. MemoryOK'
  BY <1>6, <1>9, <1>10, StepKeepsMemory
<1>12. caller[t].pc = "handle"
  BY <1>1 DEF InCall
<1>13. /\ MemoryOK' /\ UNCHANGED alloc_setup
       /\ m \in Metrics /\ caller[t].pc = "handle" /\ caller'[t].pc = "location"
       /\ \A u \in Callers \ {t} : caller'[u] = caller[u]
       /\ \A k \in Metrics \ {m} : metric'[k] = metric[k]
       /\ metric'[m].total = total
       /\ ItemsOf(metric'[m].allocations) = ItemsOf(metric[m].allocations) \cup {Item(a, n)}
       /\ Item(a, n) \notin ItemsOf(metric[m].allocations) /\ Item(a, n) \in Allocations /\ Item(a, n).size = n
       /\ process_allocated_memory' = process_allocated_memory + process
  BY <1>1, <1>4, <1>6, <1>7, <1>8, <1>11, <1>12
<1> QED BY <1>13 DEF m, a, n

(* What is not about memory in a tree: the report of a free, and what      *)
(* comes after a report.                                                   *)
LEMMA QuietKeepsMemory ==
  ASSUME MemoryOK, NEW t \in Callers, UNCHANGED <<alloc_setup, heap, reported>>,
         TypesOK', CallOK(t)', CarriedOK(t)',
         \A u \in Callers \ {t} : caller'[u] = caller[u],
         \A k \in Metrics, b \in Addresses : InUseBy(t, k, b)' => InUseBy(t, k, b),
         \A k \in Metrics, b \in Addresses : ~Out(t, k, b) /\ ~Out(t, k, b)',
         \A k \in Metrics : metric'[k].allocations = metric[k].allocations
  PROVE  MemoryOK'
<1>1. Metrics' = Metrics
  BY SameSetup
<1>2. ReportedOK'
  BY <1>1 DEF MemoryOK, ReportedOK
<1>3. ASSUME NEW k \in Metrics, NEW b \in Addresses, InUseBy(t, k, b)'
      PROVE  heap'[k][b] # 0 /\ \A u \in Callers \ {t} : ~InUseBy(u, k, b)
  BY <1>3, Alone
<1>4. ASSUME NEW k \in Metrics PROVE TreeOK(k)'
  <2>1. \A u \in Callers : \A b \in Addresses : Out(u, k, b)' <=> Out(u, k, b)
    BY DEF Out, InCall, MetricOf
  <2>2. reported[k] \subseteq Addresses
    BY DEF MemoryOK, TypesOK
  <2>3. InTree(k)' = InTree(k)
    BY <2>1, <2>2 DEF InTree
  <2> QED BY <2>3, TreeKept DEF MemoryOK
<1> QED BY <1>2, <1>3, <1>4, StepKeepsMemory

(* The other steps do not touch the trees. *)
LEMMA HandleFreeKeepsMemory ==
  ASSUME MemoryOK, NEW t \in Callers, HandleFree(t)
  PROVE  LET m == MetricOf(t)
         IN  /\ MemoryOK' /\ UNCHANGED alloc_setup
             /\ m \in Metrics /\ caller[t].pc = "handle" /\ caller'[t].pc = "location"
             /\ ~IsEmpty(caller[t].allocation)
             /\ \A u \in Callers \ {t} : caller'[u] = caller[u]
             /\ \A k \in Metrics \ {m} : metric'[k] = metric[k]
             /\ metric'[m].total = metric[m].total - caller[t].allocation.size
             /\ metric'[m].allocations = metric[m].allocations
             /\ process_allocated_memory' = process_allocated_memory - caller[t].allocation.size
<1> DEFINE m == MetricOf(t)
           tree == metric[m].allocations
           size == caller[t].allocation.size
           total == metric[m].total - size
<1>1. /\ caller[t].call = "free" /\ ~IsEmpty(caller[t].allocation)
      /\ Report(t, tree, total, -size, total)
  BY DEF HandleFree
<1>2. m \in Metrics /\ caller[t].pc = "handle" /\ caller[t] \in Calls
  BY <1>1 DEF Report, MemoryOK, CallOK, TypesOK, InCall, MetricOf
<1>3. tree \in Trees /\ total \in Int /\ -size \in Int /\ size \in Int
  <2>1. caller[t].allocation \in Allocations
    BY <1>1, <1>2, EmptyIsNone DEF Calls
  <2>2. size \in Int
    BY <2>1, SizesAreNumbers
  <2> QED BY <1>2, <2>2 DEF MemoryOK, TypesOK
<1> HIDE DEF total, tree, size
<1>4. /\ caller'[t].pc = "location" /\ caller'[t].metric = m /\ caller'[t].call = caller[t].call
      /\ \A u \in Callers \ {t} : caller'[u] = caller[u]
      /\ \A k \in Metrics \ {m} : metric'[k] = metric[k]
      /\ metric'[m].total = total /\ metric'[m].allocations = tree
      /\ process_allocated_memory' = process_allocated_memory + (-size)
      /\ UNCHANGED <<alloc_setup, heap, reported>>
      /\ TypesOK' /\ CallOK(t)' /\ CarriedOK(t)'
      /\ \A k \in Metrics, b \in Addresses : InUseBy(t, k, b)' => InUseBy(t, k, b)
  BY <1>1, <1>3, ReportEffects
<1>5. ASSUME NEW k \in Metrics, NEW b \in Addresses PROVE ~Out(t, k, b) /\ ~Out(t, k, b)'
  BY <1>1, <1>2, <1>4 DEF Out, InCall
<1>6. \A k \in Metrics : metric'[k].allocations = metric[k].allocations
  BY <1>4 DEF tree
<1>7. MemoryOK'
  BY <1>4, <1>5, <1>6, QuietKeepsMemory
<1>8. process_allocated_memory' = process_allocated_memory - size
  BY <1>3, <1>4 DEF MemoryOK, TypesOK
<1> QED BY <1>1, <1>2, <1>4, <1>7, <1>8 DEF m, total, tree, size

LEMMA IdleCall == NoCall \in Calls /\ NoCall.pc = "idle"
BY DEF NoCall, Calls

LEMMA IgnoreKeepsMemory ==
  ASSUME MemoryOK, NEW t \in Callers, IgnoreFree(t)
  PROVE  /\ MemoryOK' /\ UNCHANGED <<alloc_setup, metric, process_allocated_memory>>
         /\ caller[t].pc = "handle" /\ IsEmpty(caller[t].allocation) /\ caller'[t].pc = "idle"
         /\ \A u \in Callers \ {t} : caller'[u] = caller[u]
<1>1. /\ caller[t].pc = "handle" /\ caller[t].call = "free" /\ IsEmpty(caller[t].allocation)
      /\ caller' = [caller EXCEPT ![t] = NoCall]
      /\ UNCHANGED <<alloc_setup, heap, reported, metric, process_allocated_memory, per_process_metrics>>
  BY DEF IgnoreFree, InCall
<1>2. caller' \in [Callers -> Calls] /\ caller'[t].pc = "idle" /\ \A u \in Callers \ {t} : caller'[u] = caller[u]
  BY <1>1, IdleCall DEF MemoryOK, TypesOK
<1>3. TypesOK'
  BY <1>1, <1>2, SameSetup DEF MemoryOK, TypesOK
<1>4. CallOK(t)' /\ CarriedOK(t)'
  BY <1>2 DEF CallOK, CarriedOK, InCall
<1>5. ASSUME NEW k \in Metrics, NEW b \in Addresses
      PROVE  ~Out(t, k, b) /\ ~Out(t, k, b)' /\ ~InUseBy(t, k, b)'
  BY <1>1, <1>2 DEF Out, InUseBy, InCall
<1>6. MemoryOK'
  BY <1>1, <1>2, <1>3, <1>4, <1>5, QuietKeepsMemory
<1> QED BY <1>1, <1>2, <1>6

LEMMA TimeKeepsMemory ==
  ASSUME MemoryOK, NEW t \in Callers, AcquirePerProcessMetricsLocation(t)
  PROVE  /\ MemoryOK' /\ UNCHANGED <<alloc_setup, metric, process_allocated_memory>>
         /\ caller[t].pc = "location" /\ caller'[t].pc = "write"
         /\ \A u \in Callers \ {t} : caller'[u] = caller[u]
<1> DEFINE now == per_process_metrics.clock + 1
<1>1. /\ caller[t].pc = "location"
      /\ per_process_metrics' = [per_process_metrics EXCEPT !.mutex = t, !.clock = @ + 1]
      /\ caller' = [caller EXCEPT ![t].pc = "write", ![t].time = now]
      /\ UNCHANGED <<alloc_setup, heap, reported, metric, process_allocated_memory>>
  BY DEF AcquirePerProcessMetricsLocation, InCall
<1>2. /\ now \in Nat
      /\ per_process_metrics' \in [mutex : Callers \cup {NULL}, clock : Nat, last_timestamp : Nat]
  <2>1. /\ per_process_metrics \in [mutex : Callers \cup {NULL}, clock : Nat, last_timestamp : Nat]
        /\ t \in Callers
    BY DEF MemoryOK, TypesOK
  <2>2. now \in Nat /\ per_process_metrics' = [per_process_metrics EXCEPT !.mutex = t, !.clock = now]
    BY <1>1, <2>1
  <2> HIDE DEF now
  <2> QED BY <2>1, <2>2
<1> HIDE DEF now
<1>3. caller[t] \in Calls /\ caller'[t] = [caller[t] EXCEPT !.pc = "write", !.time = now]
  BY <1>1 DEF MemoryOK, TypesOK
<1>4. /\ caller'[t] \in Calls /\ caller'[t].pc = "write" /\ caller'[t].call = caller[t].call
      /\ caller'[t].metric = caller[t].metric /\ caller'[t].address = caller[t].address
      /\ caller'[t].size = caller[t].size /\ caller'[t].allocation = caller[t].allocation
  BY <1>2, <1>3 DEF Calls
<1>5. caller' \in [Callers -> Calls] /\ \A u \in Callers \ {t} : caller'[u] = caller[u]
  BY <1>1, <1>4 DEF MemoryOK, TypesOK
<1>6. Metrics' = Metrics /\ Calls' = Calls
  BY <1>1, SameSetup
<1>7. TypesOK'
  BY <1>1, <1>2, <1>5, <1>6 DEF MemoryOK, TypesOK
<1>8. CallOK(t)' /\ CarriedOK(t)'
  <2>1. CallOK(t)
    BY DEF MemoryOK
  <2> QED BY <1>1, <1>4, <1>6, <2>1 DEF CallOK, CarriedOK, InCall
<1>9. ASSUME NEW k \in Metrics, NEW b \in Addresses
      PROVE  ~Out(t, k, b) /\ ~Out(t, k, b)' /\ (InUseBy(t, k, b)' => InUseBy(t, k, b))
  BY <1>1, <1>4 DEF Out, InUseBy, InCall, MetricOf
<1>10. MemoryOK'
  BY <1>1, <1>5, <1>7, <1>8, <1>9, QuietKeepsMemory
<1> QED BY <1>1, <1>4, <1>5, <1>10

LEMMA TriggerKeepsMemory ==
  ASSUME MemoryOK, NEW t \in Callers, TriggerCounter(t)
  PROVE  /\ MemoryOK' /\ UNCHANGED <<alloc_setup, process_allocated_memory>>
         /\ \A k \in Metrics : /\ metric'[k].total = metric[k].total
                               /\ metric'[k].allocations = metric[k].allocations
         /\ caller[t].pc = "write" /\ caller'[t].pc = "idle"
         /\ \A u \in Callers \ {t} : caller'[u] = caller[u]
<1>1. /\ caller[t].pc = "write"
      /\ per_process_metrics' = [per_process_metrics EXCEPT !.mutex = NULL, !.last_timestamp = caller[t].time]
      /\ metric' = [metric EXCEPT ![MetricOf(t)].mutex = NULL]
      /\ caller' = [caller EXCEPT ![t] = NoCall]
      /\ UNCHANGED <<alloc_setup, heap, reported, process_allocated_memory>>
  BY DEF TriggerCounter, InCall
<1>2. caller' \in [Callers -> Calls] /\ caller'[t].pc = "idle" /\ \A u \in Callers \ {t} : caller'[u] = caller[u]
  BY <1>1, IdleCall DEF MemoryOK, TypesOK
<1>3. per_process_metrics' \in [mutex : Callers \cup {NULL}, clock : Nat, last_timestamp : Nat]
  <2>1. caller[t].time \in Nat
    BY DEF MemoryOK, TypesOK, Calls
  <2> QED BY <1>1, <2>1 DEF MemoryOK, TypesOK
<1>4. /\ metric' \in [Metrics -> [mutex : Callers \cup {NULL}, allocations : Trees, total : Int]]
      /\ \A k \in Metrics : metric'[k].total = metric[k].total /\ metric'[k].allocations = metric[k].allocations
  BY <1>1 DEF MemoryOK, TypesOK
<1>5. TypesOK'
  BY <1>1, <1>2, <1>3, <1>4, SameSetup DEF MemoryOK, TypesOK
<1>6. CallOK(t)' /\ CarriedOK(t)'
  BY <1>2 DEF CallOK, CarriedOK, InCall
<1>7. ASSUME NEW k \in Metrics, NEW b \in Addresses
      PROVE  ~Out(t, k, b) /\ ~Out(t, k, b)' /\ ~InUseBy(t, k, b)'
  BY <1>1, <1>2 DEF Out, InUseBy, InCall
<1>8. MemoryOK'
  BY <1>1, <1>2, <1>4, <1>5, <1>6, <1>7, QuietKeepsMemory
<1> QED BY <1>1, <1>2, <1>4, <1>8

-----------------------------------------------------------------------------
(* The totals.                                                             *)
LEMMA HeldType ==
  ASSUME TypesOK, NEW m
  PROVE  HeldOf(m) \in [Callers -> Int] /\ \A t \in Callers : HeldOf(m)[t] = Held(t, m)
<1>1. ASSUME NEW t \in Callers PROVE Held(t, m) \in Int
  <2>1. caller[t].allocation \in Allocations \cup {Empty}
    BY DEF TypesOK, Calls
  <2>2. \A i \in Allocations : i.size \in Int
    BY SizesAreNumbers
  <2>3. IsEmpty(Empty)
    BY EmptyIsNone
  <2> QED BY <2>1, <2>2, <2>3 DEF Held
<1> QED BY <1>1 DEF HeldOf

LEMMA CallersFinite == IsFiniteSet(Callers)
BY AllocMetricAssumption DEF AllocMetricAssumption

(* The sum of what is held changes with the thread that moves. *)
LEMMA HeldChange ==
  ASSUME TypesOK, TypesOK', NEW t \in Callers, \A u \in Callers \ {t} : caller'[u] = caller[u], NEW m
  PROVE  /\ SumFunction(HeldOf(m)) \in Int /\ SumFunction(HeldOf(m))' \in Int
         /\ Held(t, m) \in Int /\ Held(t, m)' \in Int
         /\ SumFunction(HeldOf(m))' = SumFunction(HeldOf(m)) + Held(t, m)' - Held(t, m)
<1> DEFINE v == HeldOf(m)
           w == HeldOf(m)'
<1>1. v \in [Callers -> Int] /\ \A u \in Callers : v[u] = Held(u, m)
  BY HeldType
<1>2. w \in [Callers -> Int] /\ \A u \in Callers : w[u] = Held(u, m)'
  <2>1. \A u \in Callers : Held(u, m)' \in Int
    <3> SUFFICES ASSUME NEW u \in Callers PROVE Held(u, m)' \in Int
      OBVIOUS
    <3>1. caller'[u].allocation \in Allocations \cup {Empty}
      BY DEF TypesOK, Calls
    <3>2. \A i \in Allocations : i.size \in Int
      BY SizesAreNumbers
    <3>3. IsEmpty(Empty)
      BY EmptyIsNone
    <3> QED BY <3>1, <3>2, <3>3 DEF Held
  <2> QED BY <2>1 DEF HeldOf
<1>3. \A u \in Callers \ {t} : v[u] = w[u]
  <2>1. \A u \in Callers \ {t} : Held(u, m)' = Held(u, m)
    BY DEF Held, MetricOf
  <2> QED BY <1>1, <1>2, <2>1
<1>4. SumFunction(w) = SumFunction(v) + w[t] - v[t]
  <2> HIDE DEF v, w
  <2> QED BY <1>1, <1>2, <1>3, CallersFinite, SumChange
<1>5. SumFunction(v) \in Int /\ SumFunction(w) \in Int
  <2> HIDE DEF v, w
  <2> QED BY <1>1, <1>2, CallersFinite, SumType
<1> QED BY <1>1, <1>2, <1>4, <1>5

(* One item more adds its size. *)
LEMMA ItemsChange ==
  ASSUME NEW items, IsFiniteSet(items), items \subseteq Allocations
  PROVE  /\ SumFunction(SizesIn(items)) \in Int
         /\ \A i \in Allocations \ items :
              /\ i.size \in Int /\ IsFiniteSet(items \cup {i})
              /\ SumFunction(SizesIn(items \cup {i})) = SumFunction(SizesIn(items)) + i.size
<1>0. \A i \in Allocations : i.size \in Int
  BY SizesAreNumbers
<1>1. SizesIn(items) \in [items -> Int]
  BY <1>0 DEF SizesIn
<1>2. SumFunction(SizesIn(items)) \in Int
  BY <1>1, SumType
<1>3. ASSUME NEW i \in Allocations \ items
      PROVE  /\ IsFiniteSet(items \cup {i})
             /\ SumFunction(SizesIn(items \cup {i})) = SumFunction(SizesIn(items)) + i.size
  <2> DEFINE D == items \cup {i}
             w == SizesIn(D)
             v == SizesIn(items)
  <2>1. IsFiniteSet(D)
    BY FS_AddElement
  <2>2. D \ {i} = items /\ i \in D
    OBVIOUS
  <2>3. w \in [D -> Int] /\ w[i] = i.size
    BY <1>0 DEF SizesIn
  <2>4. v \in [D \ {i} -> Int] /\ \A y \in D \ {i} : v[y] = w[y]
    BY <1>1, <2>2 DEF SizesIn
  <2> HIDE DEF v, w, D
  <2>5. SumFunction(w) = w[i] + SumFunction(v)
    BY <2>1, <2>2, <2>3, <2>4, SumWithout
  <2>6. SumFunction(v) \in Int /\ i.size \in Int
    BY <1>0, <1>2 DEF v
  <2>7. SumFunction(w) = SumFunction(v) + i.size
    BY <2>3, <2>5, <2>6
  <2> QED BY <2>1, <2>7 DEF D, v, w
<1> QED BY <1>0, <1>2, <1>3

Items(m) == ItemsOf(metric[m].allocations)
SumOfItems(m) == SumFunction(SizesIn(Items(m)))

LEMMA ItemsType ==
  ASSUME MemoryOK, NEW m \in Metrics
  PROVE  IsFiniteSet(Items(m)) /\ Items(m) \subseteq Allocations /\ SumOfItems(m) \in Int
<1>1. metric[m].allocations \in Trees
  BY DEF MemoryOK, TypesOK
<1>2. IsFiniteSet(Items(m))
  BY <1>1, TreesAssumption DEF TreesAssumption, Items
<1>3. \A a \in InTree(m) : a \in Addresses /\ heap[m][a] \in Sizes
  BY DEF MemoryOK, TypesOK, ReportedOK, InTree
<1>4. Items(m) \subseteq Allocations
  BY <1>3, ItemFacts DEF MemoryOK, TreeOK, Items
<1> QED BY <1>2, <1>4, ItemsChange DEF SumOfItems

(* A step keeps a total that it changes by what it changes in the tree and *)
(* in the hands of its thread.                                             *)
LEMMA TotalStep ==
  ASSUME MemoryOK, MemoryOK', UNCHANGED alloc_setup, NEW t \in Callers,
         \A u \in Callers \ {t} : caller'[u] = caller[u],
         NEW m \in Metrics, TotalOK(m),
         metric'[m].total = metric[m].total + (SumOfItems(m)' - SumOfItems(m)) + (Held(t, m)' - Held(t, m))
  PROVE  TotalOK(m)'
<1>1. /\ SumFunction(HeldOf(m)) \in Int /\ SumFunction(HeldOf(m))' \in Int
      /\ Held(t, m) \in Int /\ Held(t, m)' \in Int
      /\ SumFunction(HeldOf(m))' = SumFunction(HeldOf(m)) + Held(t, m)' - Held(t, m)
  BY HeldChange DEF MemoryOK
<1>2. SumOfItems(m) \in Int
  BY ItemsType
<1>3. SumOfItems(m)' \in Int
  <2>1. MemoryOK' /\ m \in Metrics'
    BY SameSetup
  <2>2. metric'[m].allocations \in Trees
    BY <2>1 DEF MemoryOK, TypesOK
  <2>3. IsFiniteSet(Items(m)')
    BY <2>2, TreesAssumption DEF TreesAssumption, Items
  <2>4. \A a \in InTree(m)' : a \in Addresses /\ heap'[m][a] \in Sizes
    BY <2>1 DEF MemoryOK, TypesOK, ReportedOK, InTree
  <2>5. Items(m)' \subseteq Allocations
    BY <2>1, <2>4, ItemFacts DEF MemoryOK, TreeOK, Items
  <2> QED BY <2>3, <2>5, ItemsChange DEF SumOfItems
<1>4. metric[m].total = SumOfItems(m) + SumFunction(HeldOf(m))
  BY DEF TotalOK, SumOfItems, Items
<1>5. metric'[m].total = SumOfItems(m)' + SumFunction(HeldOf(m))'
  BY <1>1, <1>2, <1>3, <1>4
<1> QED BY <1>5 DEF TotalOK, SumOfItems, Items

(* The total of the process. *)
LEMMA ProcessStep ==
  ASSUME MemoryOK, MemoryOK', UNCHANGED alloc_setup, ProcessOK, NEW m \in Metrics,
         \A k \in Metrics \ {m} : metric'[k].total = metric[k].total,
         process_allocated_memory' = process_allocated_memory + (metric'[m].total - metric[m].total)
  PROVE  ProcessOK'
<1> DEFINE v == Totals
           w == Totals'
<1>1. IsFiniteSet(Metrics)
  BY AllocMetricAssumption DEF AllocMetricAssumption, MemoryOK, TypesOK, Metrics
<1>2. Metrics' = Metrics
  BY SameSetup
<1>3. v \in [Metrics -> Int] /\ \A k \in Metrics : v[k] = metric[k].total
  BY DEF Totals, MemoryOK, TypesOK
<1>4. w \in [Metrics -> Int] /\ \A k \in Metrics : w[k] = metric'[k].total
  BY <1>2 DEF Totals, MemoryOK, TypesOK
<1>5. \A k \in Metrics \ {m} : v[k] = w[k]
  BY <1>3, <1>4
<1> HIDE DEF v, w
<1>6. SumFunction(w) = SumFunction(v) + w[m] - v[m] /\ SumFunction(v) \in Int
  BY <1>1, <1>3, <1>4, <1>5, SumChange, SumType
<1>7. process_allocated_memory = SumFunction(v)
  BY DEF ProcessOK, v
<1>8. w[m] \in Int /\ v[m] \in Int /\ w[m] = metric'[m].total /\ v[m] = metric[m].total
  BY <1>3, <1>4
<1>9. process_allocated_memory' = SumFunction(w)
  BY <1>6, <1>7, <1>8
<1> QED BY <1>9 DEF ProcessOK, w

(* A step that changes the tree and the total of one metric. *)
LEMMA StepKeepsTotals ==
  ASSUME AllocIInv, MemoryOK', UNCHANGED alloc_setup, NEW t \in Callers,
         \A u \in Callers \ {t} : caller'[u] = caller[u],
         NEW m \in Metrics,
         \A k \in Metrics \ {m} : /\ metric'[k].total = metric[k].total
                                  /\ metric'[k].allocations = metric[k].allocations
                                  /\ Held(t, k)' = Held(t, k),
         metric'[m].total = metric[m].total + (SumOfItems(m)' - SumOfItems(m)) + (Held(t, m)' - Held(t, m)),
         process_allocated_memory' = process_allocated_memory + (metric'[m].total - metric[m].total)
  PROVE  AllocIInv'
<1>1. MemoryOK /\ ProcessOK /\ \A k \in Metrics : TotalOK(k)
  BY DEF AllocIInv
<1>2. ProcessOK'
  BY <1>1, ProcessStep
<1>3. ASSUME NEW k \in Metrics \ {m} PROVE TotalOK(k)'
  <2>1. SumOfItems(k)' = SumOfItems(k)
    BY DEF SumOfItems, Items
  <2>2. SumOfItems(k) \in Int
    BY <1>1, ItemsType
  <2>3. Held(t, k) \in Int /\ metric[k].total \in Int
    BY <1>1, HeldType DEF MemoryOK, TypesOK, HeldOf
  <2>4. metric'[k].total = metric[k].total + (SumOfItems(k)' - SumOfItems(k)) + (Held(t, k)' - Held(t, k))
    BY <2>1, <2>2, <2>3
  <2> QED BY <1>1, <2>4, TotalStep
<1>4. TotalOK(m)'
  BY <1>1, TotalStep
<1>5. \A k \in Metrics : TotalOK(k)'
  BY <1>3, <1>4
<1>6. Metrics' = Metrics
  BY SameSetup
<1>7. \A k \in Metrics' : TotalOK(k)'
  BY <1>5, <1>6
<1> QED BY <1>2, <1>7 DEF AllocIInv

(* A step that does not. *)
LEMMA QuietKeepsTotals ==
  ASSUME AllocIInv, MemoryOK', UNCHANGED <<alloc_setup, process_allocated_memory>>, NEW t \in Callers,
         \A u \in Callers \ {t} : caller'[u] = caller[u],
         \A k \in Metrics : /\ metric'[k].total = metric[k].total
                            /\ metric'[k].allocations = metric[k].allocations
                            /\ Held(t, k)' = Held(t, k)
  PROVE  AllocIInv'
<1>1. MemoryOK /\ ProcessOK /\ \A k \in Metrics : TotalOK(k)
  BY DEF AllocIInv
<1>2. Metrics' = Metrics
  BY SameSetup
<1>3. ProcessOK'
  <2>1. Totals' = Totals
    BY <1>2 DEF Totals
  <2> QED BY <1>1, <2>1 DEF ProcessOK
<1>4. ASSUME NEW k \in Metrics PROVE TotalOK(k)'
  <2>1. SumOfItems(k)' = SumOfItems(k)
    BY DEF SumOfItems, Items
  <2>2. SumOfItems(k) \in Int
    BY <1>1, ItemsType
  <2>3. Held(t, k) \in Int /\ metric[k].total \in Int
    BY <1>1, HeldType DEF MemoryOK, TypesOK, HeldOf
  <2>4. metric'[k].total = metric[k].total + (SumOfItems(k)' - SumOfItems(k)) + (Held(t, k)' - Held(t, k))
    BY <2>1, <2>2, <2>3
  <2> QED BY <1>1, <2>4, TotalStep
<1>5. \A k \in Metrics' : TotalOK(k)'
  BY <1>2, <1>4
<1> QED BY <1>3, <1>5 DEF AllocIInv

(* The invariant, step by step. *)
LEMMA MallocKeeps ==
  ASSUME AllocIInv, NEW t \in Callers, NEW m \in Metrics, NEW a \in Addresses, NEW n \in Sizes, Malloc(t, m, a, n)
  PROVE  AllocIInv'
<1>1. MemoryOK
  BY DEF AllocIInv
<1>2. /\ MemoryOK' /\ InCall(t, "idle") /\ caller'[t].allocation = Empty
      /\ UNCHANGED <<metric, process_allocated_memory>>
  BY <1>1, MallocKeepsMemory
<1>3. UNCHANGED alloc_setup /\ \A u \in Callers \ {t} : caller'[u] = caller[u]
  BY <1>1 DEF Malloc, Begin, MemoryOK, TypesOK
<1>4. IsEmpty(Empty)
  BY EmptyIsNone
<1>5. \A k \in Metrics : Held(t, k) = 0 /\ Held(t, k)' = 0
  BY <1>2, <1>4 DEF Held, InCall
<1> QED BY <1>2, <1>3, <1>5, QuietKeepsTotals

LEMMA ReleaseKeeps ==
  ASSUME AllocIInv, NEW t \in Callers, NEW m \in Metrics, NEW a \in Addresses, NEW n \in Sizes \cup {0},
         NEW call \in {"free", "realloc"}, call = "realloc" => n \in Sizes,
         Owned(m, a), Begin(t, call, "acquire", m, a, n), UNCHANGED <<heap, reported>>
  PROVE  AllocIInv'
<1>1. MemoryOK
  BY DEF AllocIInv
<1>2. MemoryOK' /\ InCall(t, "idle") /\ InCall(t, "acquire")' /\ UNCHANGED <<metric, process_allocated_memory>>
  BY <1>1, ReleaseKeepsMemory
<1>3. UNCHANGED alloc_setup /\ \A u \in Callers \ {t} : caller'[u] = caller[u]
  BY <1>1 DEF Begin, MemoryOK, TypesOK
<1>4. \A k \in Metrics : Held(t, k) = 0 /\ Held(t, k)' = 0
  BY <1>2 DEF Held, InCall
<1> QED BY <1>2, <1>3, <1>4, QuietKeepsTotals

LEMMA AcquireKeeps ==
  ASSUME AllocIInv, NEW t \in Callers, AcquireAlloc(t)
  PROVE  AllocIInv'
<1>1. MemoryOK /\ MemoryOK'
  BY AcquireKeepsMemory DEF AllocIInv
<1>0. PICK m : m = MetricOf(t)
  OBVIOUS
<1> DEFINE a == caller[t].address
           item == Item(a, heap[m][a])
           known == a \in reported[m]
<1>2. /\ m \in Metrics /\ a \in Addresses
      /\ known <=> a \in InTree(m)
      /\ caller[t].pc = "acquire" /\ caller'[t].pc = "call" /\ caller[t] \in Calls
      /\ caller'[t] = [caller[t] EXCEPT !.pc = "call", !.allocation = IF known THEN item ELSE Empty]
      /\ \A u \in Callers \ {t} : caller'[u] = caller[u]
      /\ \A k \in Metrics \ {m} : metric'[k] = metric[k]
      /\ metric'[m].total = metric[m].total
      /\ Items(m)' = IF known THEN Items(m) \ {item} ELSE Items(m)
      /\ UNCHANGED <<alloc_setup, heap, reported, process_allocated_memory, per_process_metrics>>
  <2>1. /\ \A u \in Callers \ {t} : caller'[u] = caller[u]
        /\ \A k \in Metrics \ {m} : metric'[k] = metric[k]
        /\ UNCHANGED <<alloc_setup, heap, reported, process_allocated_memory, per_process_metrics>>
    BY <1>0, <1>1, AcquireEffects
  <2>2. /\ m \in Metrics /\ a \in Addresses
        /\ known <=> a \in InTree(m)
        /\ caller[t].pc = "acquire" /\ caller'[t].pc = "call"
    BY <1>0, <1>1, AcquireEffects DEF InCall
  <2>3. /\ caller'[t] = [caller[t] EXCEPT !.pc = "call", !.allocation = IF known THEN item ELSE Empty]
        /\ metric'[m].total = metric[m].total
        /\ Items(m)' = IF known THEN Items(m) \ {item} ELSE Items(m)
    BY <1>0, <1>1, AcquireEffects DEF Items
  <2>4. caller[t] \in Calls
    BY <1>1 DEF MemoryOK, TypesOK
  <2> QED BY <2>1, <2>2, <2>3, <2>4
<1>3. caller'[t].metric = m /\ caller'[t].allocation = IF known THEN item ELSE Empty
  BY <1>0, <1>2 DEF Calls, MetricOf
<1>4. \A k \in Metrics : Held(t, k) = 0
  BY <1>2 DEF Held
<1>5. \A k \in Metrics \ {m} : Held(t, k)' = 0
  BY <1>3 DEF Held, MetricOf
<1>6. metric[m].total \in Int /\ SumOfItems(m) \in Int /\ IsFiniteSet(Items(m)) /\ Items(m) \subseteq Allocations
  BY <1>1, <1>2, ItemsType DEF MemoryOK, TypesOK
<1>7. /\ Held(t, m)' \in Int
      /\ SumOfItems(m)' \in Int
      /\ (SumOfItems(m)' - SumOfItems(m)) + (Held(t, m)' - Held(t, m)) = 0
  <2>1. CASE known
    <3>1. item \in Items(m)
      BY <1>1, <1>2, <2>1 DEF MemoryOK, TreeOK, Items
    <3>2. heap[m][a] \in Sizes
      BY <1>1, <1>2, <2>1 DEF MemoryOK, TypesOK, ReportedOK
    <3>3. item \in Allocations /\ ~IsEmpty(item) /\ item.size = heap[m][a]
      BY <1>2, <3>2, ItemFacts
    <3>4. Held(t, m)' = item.size
      BY <1>2, <1>3, <2>1, <3>3 DEF Held, MetricOf
    <3> DEFINE rest == Items(m) \ {item}
    <3>5. rest \cup {item} = Items(m) /\ IsFiniteSet(rest) /\ rest \subseteq Allocations /\ item \in Allocations \ rest
      BY <1>6, <3>1, <3>3, FS_RemoveElement
    <3>6. /\ SumFunction(SizesIn(rest)) \in Int /\ item.size \in Int
          /\ SumFunction(SizesIn(rest \cup {item})) = SumFunction(SizesIn(rest)) + item.size
      <4> HIDE DEF rest, item
      <4> QED BY <3>5, ItemsChange
    <3>7. SumOfItems(m)' = SumFunction(SizesIn(rest)) /\ SumOfItems(m) = SumFunction(SizesIn(rest \cup {item}))
      BY <1>2, <2>1, <3>5 DEF SumOfItems, SizesIn
    <3>8. Held(t, m) = 0
      BY <1>2, <1>4
    <3> HIDE DEF rest, item
    <3> QED BY <3>4, <3>6, <3>7, <3>8
  <2>2. CASE ~known
    <3>1. SumOfItems(m)' = SumOfItems(m)
      BY <1>2, <2>2 DEF SumOfItems, SizesIn
    <3>2. Held(t, m)' = 0
      BY <1>3, <2>2, EmptyIsNone DEF Held
    <3> QED BY <1>2, <1>4, <1>6, <3>1, <3>2
  <2> QED BY <2>1, <2>2
<1>8. Held(t, m) = 0
  BY <1>2, <1>4
<1>9. process_allocated_memory \in Int
  BY <1>1 DEF MemoryOK, TypesOK
<1> HIDE DEF a, item, known
<1>10. /\ metric'[m].total = metric[m].total + (SumOfItems(m)' - SumOfItems(m)) + (Held(t, m)' - Held(t, m))
       /\ process_allocated_memory' = process_allocated_memory + (metric'[m].total - metric[m].total)
  <2>1. metric'[m].total = metric[m].total /\ process_allocated_memory' = process_allocated_memory
    BY <1>2
  <2>2. Held(t, m) \in Int
    BY <1>8
  <2> QED BY <1>6, <1>7, <1>9, <2>1, <2>2
<1>11. \A k \in Metrics \ {m} : /\ metric'[k].total = metric[k].total
                                /\ metric'[k].allocations = metric[k].allocations
                                /\ Held(t, k)' = Held(t, k)
  BY <1>2, <1>4, <1>5
<1> QED BY <1>1, <1>2, <1>10, <1>11, StepKeepsTotals

LEMMA CallKeeps ==
  ASSUME AllocIInv, EveryFreeReported, NEW t \in Callers, CallFree(t) \/ CallRealloc(t)
  PROVE  AllocIInv'
<1>1. MemoryOK
  BY DEF AllocIInv
<1>2. /\ MemoryOK' /\ UNCHANGED <<alloc_setup, metric, process_allocated_memory>>
      /\ \A u \in Callers \ {t} : caller'[u] = caller[u]
      /\ caller[t].pc = "call" /\ caller'[t].pc = "handle" /\ caller'[t].metric = caller[t].metric
      /\ caller'[t].allocation = caller[t].allocation
  <2>1. CASE CallFree(t)
    BY <1>1, <2>1, CallFreeKeepsMemory
  <2>2. CASE CallRealloc(t)
    BY <1>1, <2>2, CallReallocKeepsMemory
  <2> QED BY <2>1, <2>2
<1>3. \A k \in Metrics : Held(t, k)' = Held(t, k)
  BY <1>2 DEF Held, MetricOf
<1> QED BY <1>2, <1>3, QuietKeepsTotals

LEMMA IgnoreKeeps ==
  ASSUME AllocIInv, NEW t \in Callers, IgnoreFree(t)
  PROVE  AllocIInv'
<1>1. /\ MemoryOK' /\ UNCHANGED <<alloc_setup, metric, process_allocated_memory>>
      /\ IsEmpty(caller[t].allocation) /\ caller'[t].pc = "idle"
      /\ \A u \in Callers \ {t} : caller'[u] = caller[u]
  BY IgnoreKeepsMemory DEF AllocIInv
<1>2. \A k \in Metrics : Held(t, k) = 0 /\ Held(t, k)' = 0
  BY <1>1 DEF Held
<1> QED BY <1>1, <1>2, QuietKeepsTotals

LEMMA WriteKeeps ==
  ASSUME AllocIInv, NEW t \in Callers, AcquirePerProcessMetricsLocation(t) \/ TriggerCounter(t)
  PROVE  AllocIInv'
<1>1. /\ MemoryOK' /\ UNCHANGED <<alloc_setup, process_allocated_memory>>
      /\ \A k \in Metrics : /\ metric'[k].total = metric[k].total
                            /\ metric'[k].allocations = metric[k].allocations
      /\ caller[t].pc \notin {"call", "handle"} /\ caller'[t].pc \notin {"call", "handle"}
      /\ \A u \in Callers \ {t} : caller'[u] = caller[u]
  <2>1. CASE AcquirePerProcessMetricsLocation(t)
    BY <2>1, TimeKeepsMemory DEF AllocIInv
  <2>2. CASE TriggerCounter(t)
    BY <2>2, TriggerKeepsMemory DEF AllocIInv
  <2> QED BY <2>1, <2>2
<1>2. \A k \in Metrics : Held(t, k) = 0 /\ Held(t, k)' = 0
  BY <1>1 DEF Held
<1> QED BY <1>1, <1>2, QuietKeepsTotals

(* A report puts one allocation into the tree, and adds its size, less the *)
(* size of the one that the thread holds.                                  *)
LEMMA InsertKeeps ==
  ASSUME AllocIInv, NEW t \in Callers, caller[t].call \in {"malloc", "realloc"},
         NEW old \in Int, old = Held(t, MetricOf(t)), NEW value \in Int,
         LET mine == metric[MetricOf(t)]
             size == caller[t].size
         IN  Report(t, Insert(mine.allocations, Item(caller[t].address, size)),
                    mine.total + size - old, size - old, value)
  PROVE  AllocIInv'
<1>1. MemoryOK
  BY DEF AllocIInv
<1>2. PICK m : m = MetricOf(t)
  OBVIOUS
<1> DEFINE size == caller[t].size
           item == Item(caller[t].address, size)
           total == metric[m].total + size - old
           process == size - old
<1>3. caller[t].pc = "handle" /\ m \in Metrics /\ size \in Sizes /\ size \in Int
  <2>1. CallOK(t) /\ caller[t].pc = "handle"
    BY <1>1 DEF MemoryOK, Report, InCall
  <2>2. m \in Metrics /\ size \in Sizes
    BY <1>2, <2>1 DEF CallOK, MetricOf, InCall
  <2>3. \A n \in Sizes : n \in Int
    BY SizesAreNumbers
  <2> QED BY <2>1, <2>2, <2>3
<1>4. metric[m].total \in Int /\ process_allocated_memory \in Int
  BY <1>1, <1>3 DEF MemoryOK, TypesOK
<1>5. total \in Int /\ process \in Int
  BY <1>3, <1>4
<1>6. Report(t, Insert(metric[m].allocations, item), total, process, value)
  BY <1>2
<1> HIDE DEF total, process
<1>7. /\ MemoryOK' /\ UNCHANGED alloc_setup
      /\ caller'[t].pc = "location"
      /\ \A u \in Callers \ {t} : caller'[u] = caller[u]
      /\ \A k \in Metrics \ {m} : metric'[k] = metric[k]
      /\ metric'[m].total = total
      /\ Items(m)' = Items(m) \cup {item}
      /\ item \notin Items(m) /\ item \in Allocations /\ item.size = size
      /\ process_allocated_memory' = process_allocated_memory + process
  BY <1>1, <1>2, <1>5, <1>6, InsertKeepsMemory DEF Items
<1>8. \A k \in Metrics : Held(t, k)' = 0 /\ (k # m => Held(t, k) = 0)
  BY <1>2, <1>7 DEF Held, MetricOf
<1>9. /\ SumOfItems(m) \in Int /\ SumOfItems(m)' = SumOfItems(m) + size
  <2>1. IsFiniteSet(Items(m)) /\ Items(m) \subseteq Allocations /\ SumOfItems(m) \in Int
    BY <1>1, <1>3, ItemsType
  <2> HIDE DEF item
  <2>2. SumFunction(SizesIn(Items(m) \cup {item})) = SumFunction(SizesIn(Items(m))) + item.size
    BY <1>7, <2>1, ItemsChange
  <2>3. SumOfItems(m)' = SumFunction(SizesIn(Items(m) \cup {item}))
    BY <1>7 DEF SumOfItems, SizesIn
  <2> QED BY <1>7, <2>1, <2>2, <2>3 DEF SumOfItems
<1>10. metric'[m].total = metric[m].total + (SumOfItems(m)' - SumOfItems(m)) + (Held(t, m)' - Held(t, m))
  <2>1. Held(t, m)' = 0 /\ Held(t, m) = old
    BY <1>2, <1>3, <1>8
  <2> HIDE DEF size, item
  <2> QED BY <1>3, <1>4, <1>7, <1>9, <2>1 DEF total
<1>11. process_allocated_memory' = process_allocated_memory + (metric'[m].total - metric[m].total)
  <2> HIDE DEF size, item
  <2> QED BY <1>3, <1>4, <1>7 DEF total, process
<1>12. \A k \in Metrics \ {m} : /\ metric'[k].total = metric[k].total
                                /\ metric'[k].allocations = metric[k].allocations
                                /\ Held(t, k)' = Held(t, k)
  BY <1>7, <1>8
<1> QED BY <1>3, <1>7, <1>10, <1>11, <1>12, StepKeepsTotals

LEMMA HandleKeeps ==
  ASSUME AllocIInv, NEW t \in Callers, HandleAlloc(t) \/ HandleRealloc(t)
  PROVE  AllocIInv'
<1> DEFINE mine == metric[MetricOf(t)]
           size == caller[t].size
           held == caller[t].allocation
           moved == caller[t].address # held.address
<1>1. CallOK(t) /\ caller[t].pc = "handle" /\ caller[t] \in Calls
  BY DEF AllocIInv, MemoryOK, TypesOK, HandleAlloc, HandleRealloc, Report, InCall
<1>2. caller[t].call \in {"malloc", "realloc"}
  BY DEF HandleAlloc, HandleRealloc
<1>3. size \in Int
  <2>1. size \in Sizes
    BY <1>1, <1>2 DEF CallOK, InCall
  <2> QED BY <2>1, SizesAreNumbers
<1>4. mine.total \in Int
  BY <1>1 DEF CallOK, InCall, AllocIInv, MemoryOK, TypesOK, MetricOf
<1>5. IsEmpty(Empty)
  BY EmptyIsNone
<1>6. CASE HandleAlloc(t)
  <2>1. IsEmpty(held)
    BY <1>1, <1>5, <1>6 DEF HandleAlloc, CallOK, InCall
  <2>2. Held(t, MetricOf(t)) = 0
    BY <2>1 DEF Held
  <2>3. Report(t, Insert(mine.allocations, Item(caller[t].address, size)),
               mine.total + size, size, mine.total + size)
    BY <1>6 DEF HandleAlloc
  <2> DEFINE total == mine.total + size
  <2>4. total \in Int /\ total = mine.total + size - 0 /\ size = size - 0
    BY <1>3, <1>4
  <2>5. Report(t, Insert(mine.allocations, Item(caller[t].address, size)), mine.total + size - 0, size - 0, total)
    BY <2>3, <2>4
  <2> HIDE DEF total
  <2> QED BY <1>2, <2>2, <2>4, <2>5, InsertKeeps
<1>7. CASE HandleRealloc(t)
  <2> DEFINE value == mine.total + size - (IF moved THEN 0 ELSE held.size)
  <2>1. ~IsEmpty(held)
    BY <1>7 DEF HandleRealloc
  <2>2. Held(t, MetricOf(t)) = held.size
    BY <1>1, <2>1 DEF Held
  <2>3. held.size \in Int
    <3>1. held \in Allocations
      BY <1>1, <1>5, <2>1 DEF Calls
    <3> QED BY <3>1, SizesAreNumbers
  <2>4. Report(t, Insert(mine.allocations, Item(caller[t].address, size)),
               mine.total + size - held.size, size - held.size, value)
    BY <1>7 DEF HandleRealloc
  <2>5. value \in Int
    BY <1>3, <1>4, <2>3
  <2> HIDE DEF value
  <2> QED BY <1>2, <2>2, <2>3, <2>4, <2>5, InsertKeeps
<1> QED BY <1>6, <1>7

LEMMA HandleFreeKeeps ==
  ASSUME AllocIInv, NEW t \in Callers, HandleFree(t)
  PROVE  AllocIInv'
<1>1. MemoryOK
  BY DEF AllocIInv
<1>2. PICK m : m = MetricOf(t)
  OBVIOUS
<1> DEFINE size == caller[t].allocation.size
<1>3. /\ MemoryOK' /\ UNCHANGED alloc_setup
      /\ m \in Metrics /\ caller[t].pc = "handle" /\ caller'[t].pc = "location"
      /\ ~IsEmpty(caller[t].allocation)
      /\ \A u \in Callers \ {t} : caller'[u] = caller[u]
      /\ \A k \in Metrics \ {m} : metric'[k] = metric[k]
      /\ metric'[m].total = metric[m].total - size
      /\ metric'[m].allocations = metric[m].allocations
      /\ process_allocated_memory' = process_allocated_memory - size
  BY <1>1, <1>2, HandleFreeKeepsMemory
<1>4. \A k \in Metrics : Held(t, k)' = 0 /\ (k # m => Held(t, k) = 0)
  BY <1>2, <1>3 DEF Held, MetricOf
<1>5. Held(t, m) = size /\ size \in Int
  <2>1. Held(t, m) = size
    BY <1>2, <1>3 DEF Held
  <2>2. Held(t, m) \in Int
    BY <1>1, HeldType DEF MemoryOK
  <2> QED BY <2>1, <2>2
<1>6. SumOfItems(m) \in Int /\ SumOfItems(m)' = SumOfItems(m)
  BY <1>1, <1>3, ItemsType DEF SumOfItems, Items
<1>7. metric[m].total \in Int /\ process_allocated_memory \in Int
  BY <1>1, <1>3 DEF MemoryOK, TypesOK
<1>8. Held(t, m)' = 0
  BY <1>3, <1>4
<1> HIDE DEF size
<1>9. /\ metric'[m].total = metric[m].total + (SumOfItems(m)' - SumOfItems(m)) + (Held(t, m)' - Held(t, m))
      /\ process_allocated_memory' = process_allocated_memory + (metric'[m].total - metric[m].total)
  BY <1>3, <1>5, <1>6, <1>7, <1>8
<1>10. \A k \in Metrics \ {m} : /\ metric'[k].total = metric[k].total
                                /\ metric'[k].allocations = metric[k].allocations
                                /\ Held(t, k)' = Held(t, k)
  BY <1>3, <1>4
<1> QED BY <1>3, <1>9, <1>10, StepKeepsTotals

(* All steps. *)
LEMMA StutterKeeps == ASSUME AllocIInv, UNCHANGED allocVars PROVE AllocIInv'
<1>1. UNCHANGED <<alloc_setup, heap, reported, metric, process_allocated_memory, per_process_metrics, caller>>
  BY DEF allocVars
<1>2. Metrics' = Metrics /\ Calls' = Calls
  BY <1>1, SameSetup
<1>3. TypesOK' /\ ReportedOK'
  BY <1>1, <1>2 DEF AllocIInv, MemoryOK, TypesOK, ReportedOK
<1>4. \A t, m, a : (InUseBy(t, m, a)' <=> InUseBy(t, m, a)) /\ (Out(t, m, a)' <=> Out(t, m, a))
  BY <1>1 DEF InUseBy, Out, InCall, MetricOf
<1>5. UseOK'
  BY <1>1, <1>2, <1>4 DEF AllocIInv, MemoryOK, UseOK
<1>6. \A t \in Callers : CallOK(t)' /\ CarriedOK(t)'
  BY <1>1, <1>2 DEF AllocIInv, MemoryOK, CallOK, CarriedOK, InCall, MetricOf
<1>7. \A m \in Metrics : TreeOK(m)'
  <2>1. \A m : InTree(m)' = InTree(m)
    BY <1>1, <1>4 DEF InTree
  <2> QED BY <1>1, <2>1 DEF AllocIInv, MemoryOK, TreeOK
<1>8. MemoryOK'
  BY <1>2, <1>3, <1>5, <1>6, <1>7 DEF MemoryOK
<1>9. ProcessOK'
  <2>1. Totals' = Totals
    BY <1>1, <1>2 DEF Totals
  <2> QED BY <1>1, <2>1 DEF AllocIInv, ProcessOK
<1>10. \A m \in Metrics : TotalOK(m)'
  <2>1. \A m : HeldOf(m)' = HeldOf(m)
    BY <1>1 DEF HeldOf, Held, MetricOf
  <2> QED BY <1>1, <2>1 DEF AllocIInv, TotalOK
<1> QED BY <1>2, <1>8, <1>9, <1>10 DEF AllocIInv

LEMMA StepKeeps == AllocIInv /\ EveryFreeReported /\ [AllocNext]_allocVars => AllocIInv'
<1> SUFFICES ASSUME AllocIInv, EveryFreeReported, [AllocNext]_allocVars PROVE AllocIInv'
  OBVIOUS
<1>1. CASE UNCHANGED allocVars
  BY <1>1, StutterKeeps
<1>2. CASE AllocStop
  BY <1>1, <1>2 DEF AllocStop
<1>3. ASSUME NEW t \in Callers, NEW m \in Metrics, NEW a \in Addresses, Free(t, m, a) PROVE AllocIInv'
  <2>1. "windows" \notin alloc_setup.features
    BY DEF EveryFreeReported, AllocIInv, MemoryOK, TypesOK
  <2>2. Owned(m, a) /\ Begin(t, "free", "acquire", m, a, 0) /\ UNCHANGED <<heap, reported>>
    BY <1>3, <2>1 DEF Free
  <2> QED BY <2>2, ReleaseKeeps
<1>4. ASSUME NEW t \in Callers, NEW m \in Metrics, NEW a \in Addresses, NEW n \in Sizes,
             Malloc(t, m, a, n) \/ Realloc(t, m, a, n)
      PROVE  AllocIInv'
  <2>1. CASE Malloc(t, m, a, n)
    BY <2>1, MallocKeeps
  <2>2. CASE Realloc(t, m, a, n)
    BY <2>2, ReleaseKeeps DEF Realloc
  <2> QED BY <1>4, <2>1, <2>2
<1>5. ASSUME NEW t \in Callers,
             \/ AcquireAlloc(t) \/ CallFree(t) \/ CallRealloc(t)
             \/ HandleAlloc(t) \/ HandleRealloc(t) \/ HandleFree(t) \/ IgnoreFree(t)
             \/ AcquirePerProcessMetricsLocation(t) \/ TriggerCounter(t)
      PROVE  AllocIInv'
  BY <1>5, AcquireKeeps, CallKeeps, HandleKeeps, HandleFreeKeeps, IgnoreKeeps, WriteKeeps
<1> QED BY <1>1, <1>2, <1>3, <1>4, <1>5 DEF AllocNext

(* No memory is known at first. *)
LEMMA InitKeeps == AllocInit => AllocIInv
<1> SUFFICES ASSUME AllocInit PROVE AllocIInv
  OBVIOUS
<1>1. IsFiniteSet(Metrics) /\ IsFiniteSet(Callers)
  BY AllocMetricAssumption DEF AllocMetricAssumption, AllocInit, Metrics
<1>2. \A t \in Callers : caller[t] = NoCall
  BY DEF AllocInit
<1>3. \A m \in Metrics : /\ reported[m] = {} /\ metric[m].total = 0 /\ metric[m].allocations = Empty
  BY DEF AllocInit
<1>4. TypesOK
  <2>1. (CHOOSE size \in Sizes : TRUE) \in Sizes
    BY AllocMetricAssumption DEF AllocMetricAssumption
  <2>2. heap \in [Metrics -> [Addresses -> Sizes \cup {0}]]
    BY <2>1 DEF AllocInit
  <2>3. reported \in [Metrics -> SUBSET Addresses] /\ alloc_setup \in AllocSetups /\ process_allocated_memory \in Int
    BY DEF AllocInit
  <2>4. metric \in [Metrics -> [mutex : Callers \cup {NULL}, allocations : Trees, total : Int]]
    BY TreesAssumption DEF AllocInit, TreesAssumption
  <2>5. per_process_metrics \in [mutex : Callers \cup {NULL}, clock : Nat, last_timestamp : Nat]
    BY DEF AllocInit
  <2>6. caller \in [Callers -> Calls]
    BY IdleCall DEF AllocInit
  <2> QED BY <2>2, <2>3, <2>4, <2>5, <2>6 DEF TypesOK
<1>5. \A t \in Callers : caller[t].pc = "idle"
  BY <1>2, IdleCall
<1>6. ReportedOK /\ UseOK /\ \A t \in Callers : CallOK(t) /\ CarriedOK(t)
  BY <1>3, <1>5 DEF ReportedOK, UseOK, InUseBy, CallOK, CarriedOK, InCall
<1>7. ASSUME NEW m \in Metrics PROVE TreeOK(m) /\ TotalOK(m)
  <2>1. ItemsOf(metric[m].allocations) = {}
    BY <1>3, TreesAssumption DEF TreesAssumption
  <2>2. InTree(m) = {}
    BY <1>3 DEF InTree
  <2>3. TreeOK(m)
    BY <2>1, <2>2 DEF TreeOK
  <2>4. SumFunction(SizesIn(ItemsOf(metric[m].allocations))) = 0
    BY <2>1, SumOfNothing DEF SizesIn
  <2>5. HeldOf(m) \in [Callers -> Int] /\ \A t \in Callers : HeldOf(m)[t] = 0
    BY <1>5 DEF HeldOf, Held
  <2>6. SumFunction(HeldOf(m)) = 0
    <3> DEFINE v == HeldOf(m)
    <3>1. v \in [Callers -> Int] /\ \A t \in Callers : v[t] = 0
      BY <2>5
    <3> HIDE DEF v
    <3>2. SumFunction(v) = 0
      BY <1>1, <3>1, SumOfZeros
    <3> QED BY <3>2 DEF v
  <2> QED BY <1>3, <2>3, <2>4, <2>6 DEF TotalOK
<1>8. ProcessOK
  <2> DEFINE v == Totals
  <2>1. v \in [Metrics -> Int] /\ \A m \in Metrics : v[m] = 0
    BY <1>3 DEF Totals
  <2> HIDE DEF v
  <2>2. SumFunction(v) = 0
    BY <1>1, <2>1, SumOfZeros
  <2> QED BY <2>2 DEF v, ProcessOK, AllocInit
<1> QED BY <1>4, <1>6, <1>7, <1>8 DEF AllocIInv, MemoryOK

(* What the invariant says when no wrapper is running. *)
LEMMA Tracked == AllocIInv => AllocationsTracked
<1> SUFFICES ASSUME AllocIInv PROVE AllocationsTracked
  OBVIOUS
<1>1. \A m \in Metrics : IsSearchTree(metric[m].allocations)
  BY TreesAssumption DEF TreesAssumption, AllocIInv, MemoryOK, TypesOK
<1>2. ASSUME AllIdle, NEW m \in Metrics
      PROVE  ItemsOf(metric[m].allocations) = LiveItems(m) /\ metric[m].total = Total(m)
  <2>1. \A t \in Callers : caller[t].pc = "idle"
    BY <1>2 DEF AllIdle, InCall
  <2>2. InTree(m) = reported[m]
    BY <2>1 DEF InTree, Out, InCall
  <2>3. ItemsOf(metric[m].allocations) = LiveItems(m)
    BY <2>2 DEF LiveItems, AllocIInv, MemoryOK, TreeOK
  <2> DEFINE v == HeldOf(m)
  <2>4. v \in [Callers -> Int] /\ \A t \in Callers : v[t] = 0
    BY <2>1 DEF HeldOf, Held
  <2> HIDE DEF v
  <2>5. SumFunction(v) = 0
    BY <2>4, CallersFinite, SumOfZeros
  <2>6. SumOfItems(m) \in Int /\ SumOfItems(m) = Total(m)
    <3>1. SumOfItems(m) \in Int
      BY ItemsType DEF AllocIInv
    <3> QED BY <2>3, <3>1 DEF SumOfItems, Items, SizesIn, Total
  <2>7. metric[m].total = SumOfItems(m) + SumFunction(v)
    BY DEF AllocIInv, TotalOK, SumOfItems, Items, v
  <2> QED BY <2>3, <2>5, <2>6, <2>7
<1>3. process_allocated_memory = SumFunction([m \in Metrics |-> metric[m].total])
  BY DEF AllocIInv, ProcessOK, Totals
<1> QED BY <1>1, <1>2, <1>3 DEF AllocationsTracked

(* AllocationsTracked for every program that reports all that it frees and *)
(* whose reallocations succeed: whenever no wrapper is running, the tree   *)
(* and the totals that AcquireAlloc and the Handle functions keep are what *)
(* the program has allocated.                                              *)
THEOREM AllocationsAreTracked ==
  ASSUME EveryFreeReported
  PROVE  AllocSpec => []AllocationsTracked
<1>1. AllocIInv /\ [AllocNext]_allocVars => AllocIInv'
  BY StepKeeps
<1> QED BY <1>1, InitKeeps, Tracked, PTL DEF AllocSpec

-----------------------------------------------------------------------------
(* The times of the counters. *)
TimeOK ==
  /\ per_process_metrics \in [mutex : Callers \cup {NULL}, clock : Nat, last_timestamp : Nat]
  /\ per_process_metrics.last_timestamp <= per_process_metrics.clock
  /\ DOMAIN caller = Callers
  /\ \A t \in Callers :
       /\ {"pc", "time"} \subseteq DOMAIN caller[t]
       /\ InCall(t, "write") => /\ per_process_metrics.mutex = t
                                /\ caller[t].time = per_process_metrics.clock

(* A step that does not write a counter. *)
LEMMA OtherTimes ==
  ASSUME TimeOK, UNCHANGED per_process_metrics, NEW t \in Callers, NEW c,
         {"pc", "time"} \subseteq DOMAIN c, c.pc # "write", caller' = [caller EXCEPT ![t] = c]
  PROVE  TimeOK'
<1>1. DOMAIN caller' = Callers /\ caller'[t] = c /\ \A u \in Callers \ {t} : caller'[u] = caller[u]
  BY DEF TimeOK
<1> QED BY <1>1 DEF TimeOK, InCall

LEMMA GoesOnTimes ==
  ASSUME TimeOK, UNCHANGED per_process_metrics, NEW t \in Callers, NEW pc, pc # "write", NEW x,
         \/ caller' = [caller EXCEPT ![t].pc = pc]
         \/ caller' = [caller EXCEPT ![t].pc = pc, ![t].allocation = x]
         \/ caller' = [caller EXCEPT ![t].pc = pc, ![t].address = x]
  PROVE  TimeOK'
<1>1. {"pc", "time"} \subseteq DOMAIN caller[t] /\ t \in DOMAIN caller
  BY DEF TimeOK
<1>2. CASE caller' = [caller EXCEPT ![t].pc = pc]
  <2> DEFINE c == [caller[t] EXCEPT !.pc = pc]
  <2>1. {"pc", "time"} \subseteq DOMAIN c /\ c.pc = pc
    BY <1>1
  <2>2. caller' = [caller EXCEPT ![t] = c]
    BY <1>1, <1>2
  <2> HIDE DEF c
  <2> QED BY <2>1, <2>2, OtherTimes
<1>3. CASE caller' = [caller EXCEPT ![t].pc = pc, ![t].allocation = x]
  <2> DEFINE c == [caller[t] EXCEPT !.pc = pc, !.allocation = x]
  <2>1. {"pc", "time"} \subseteq DOMAIN c /\ c.pc = pc
    BY <1>1
  <2>2. caller' = [caller EXCEPT ![t] = c]
    BY <1>1, <1>3
  <2> HIDE DEF c
  <2> QED BY <2>1, <2>2, OtherTimes
<1>4. CASE caller' = [caller EXCEPT ![t].pc = pc, ![t].address = x]
  <2> DEFINE c == [caller[t] EXCEPT !.pc = pc, !.address = x]
  <2>1. {"pc", "time"} \subseteq DOMAIN c /\ c.pc = pc
    BY <1>1
  <2>2. caller' = [caller EXCEPT ![t] = c]
    BY <1>1, <1>4
  <2> HIDE DEF c
  <2> QED BY <2>1, <2>2, OtherTimes
<1> QED BY <1>2, <1>3, <1>4

(* The steps that begin a call, report, and write a counter. *)
LEMMA BeginTimes ==
  ASSUME TimeOK, NEW t \in Callers, NEW call, NEW pc \in {"handle", "acquire"}, NEW m, NEW a, NEW size,
         Begin(t, call, pc, m, a, size)
  PROVE  TimeOK'
<1> DEFINE c == [NoCall EXCEPT !.pc = pc, !.call = call, !.metric = m, !.address = a, !.size = size]
<1>1. {"pc", "time"} \subseteq DOMAIN c /\ c.pc = pc
  BY DEF NoCall
<1>2. caller' = [caller EXCEPT ![t] = c] /\ UNCHANGED per_process_metrics
  BY DEF Begin
<1> HIDE DEF c
<1> QED BY <1>1, <1>2, OtherTimes

LEMMA ReportTimes ==
  ASSUME TimeOK, NEW t \in Callers, NEW tree, NEW total, NEW process, NEW value,
         Report(t, tree, total, process, value)
  PROVE  TimeOK'
<1> DEFINE c == [caller[t] EXCEPT !.pc = "location", !.value = value]
<1>1. caller' = [caller EXCEPT ![t] = c] /\ UNCHANGED per_process_metrics
  BY DEF Report, TimeOK
<1>2. {"pc", "time"} \subseteq DOMAIN c /\ c.pc = "location"
  BY DEF TimeOK
<1> HIDE DEF c
<1> QED BY <1>1, <1>2, OtherTimes

LEMMA TimeStep ==
  ASSUME TimeOK, NEW t \in Callers, AcquirePerProcessMetricsLocation(t) \/ TriggerCounter(t)
  PROVE  TimeOK' /\ per_process_metrics'.last_timestamp >= per_process_metrics.last_timestamp
<1> DEFINE p == per_process_metrics
           last == p.last_timestamp
           now == p.clock
           next == now + 1
<1>1. /\ p \in [mutex : Callers \cup {NULL}, clock : Nat, last_timestamp : Nat]
      /\ last \in Nat /\ now \in Nat /\ next \in Nat /\ last <= now /\ now <= next /\ last <= next
      /\ NULL \notin Callers
  <2>1. last \in Nat /\ now \in Nat /\ last <= now
    BY DEF TimeOK
  <2>2. next \in Nat /\ now <= next /\ last <= next
    <3> HIDE DEF last, now
    <3> QED BY <2>1
  <2> QED BY <2>1, <2>2, NoZeros DEF TimeOK
<1>2. CASE AcquirePerProcessMetricsLocation(t)
  <2>1. /\ p.mutex = NULL /\ per_process_metrics' = [p EXCEPT !.mutex = t, !.clock = next]
        /\ caller' = [caller EXCEPT ![t].pc = "write", ![t].time = next]
    BY <1>1, <1>2 DEF AcquirePerProcessMetricsLocation
  <2>2. \A u \in Callers : ~InCall(u, "write")
    BY <1>1, <2>1 DEF TimeOK
  <2> HIDE DEF next
  <2>3. /\ per_process_metrics' \in [mutex : Callers \cup {NULL}, clock : Nat, last_timestamp : Nat]
        /\ per_process_metrics'.mutex = t /\ per_process_metrics'.clock = next
        /\ per_process_metrics'.last_timestamp = last
    BY <1>1, <2>1
  <2>4. /\ DOMAIN caller' = Callers /\ {"pc", "time"} \subseteq DOMAIN caller'[t]
        /\ caller'[t].time = next
        /\ \A u \in Callers \ {t} : caller'[u] = caller[u]
    BY <2>1 DEF TimeOK
  <2>5. TimeOK'
    <3> HIDE DEF last, now, p
    <3> QED BY <1>1, <2>2, <2>3, <2>4 DEF TimeOK, InCall
  <2>6. last >= last
    <3> HIDE DEF last
    <3> QED BY <1>1
  <2> QED BY <2>3, <2>5, <2>6
<1>3. CASE TriggerCounter(t)
  <2>1. /\ InCall(t, "write") /\ caller' = [caller EXCEPT ![t] = NoCall]
        /\ per_process_metrics' = [p EXCEPT !.mutex = NULL, !.last_timestamp = caller[t].time]
    BY <1>3 DEF TriggerCounter
  <2>2. /\ caller[t].time = now
        /\ \A u \in Callers \ {t} : ~InCall(u, "write")
    BY <2>1 DEF TimeOK
  <2>3. /\ per_process_metrics' \in [mutex : Callers \cup {NULL}, clock : Nat, last_timestamp : Nat]
        /\ per_process_metrics'.clock = now /\ per_process_metrics'.last_timestamp = now
    BY <1>1, <2>1, <2>2
  <2>4. {"pc", "time"} \subseteq DOMAIN NoCall /\ NoCall.pc = "idle"
    BY DEF NoCall
  <2>5. /\ DOMAIN caller' = Callers /\ caller'[t] = NoCall
        /\ \A u \in Callers \ {t} : caller'[u] = caller[u]
    BY <2>1 DEF TimeOK
  <2>6. now <= now /\ now >= last
    <3> HIDE DEF now, last
    <3> QED BY <1>1
  <2>7. TimeOK'
    <3>1. \A u \in Callers : {"pc", "time"} \subseteq DOMAIN caller'[u] /\ ~InCall(u, "write")'
      BY <2>2, <2>4, <2>5 DEF TimeOK, InCall
    <3> HIDE DEF last, now, p
    <3> QED BY <2>3, <2>5, <2>6, <3>1 DEF TimeOK
  <2> QED BY <2>3, <2>6, <2>7
<1> QED BY <1>2, <1>3

LEMMA TimesStep ==
  TimeOK /\ [AllocNext]_allocVars =>
    TimeOK' /\ per_process_metrics'.last_timestamp >= per_process_metrics.last_timestamp
<1> SUFFICES ASSUME TimeOK, [AllocNext]_allocVars
             PROVE  TimeOK' /\ per_process_metrics'.last_timestamp >= per_process_metrics.last_timestamp
  OBVIOUS
<1>0. ASSUME UNCHANGED per_process_metrics
      PROVE  per_process_metrics'.last_timestamp >= per_process_metrics.last_timestamp
  BY <1>0 DEF TimeOK
<1>1. CASE UNCHANGED allocVars
  BY <1>0, <1>1 DEF allocVars, TimeOK, InCall
<1>2. CASE AllocStop
  BY <1>1, <1>2 DEF AllocStop
<1>3. ASSUME NEW t \in Callers, NEW m \in Metrics, NEW a \in Addresses, Free(t, m, a)
      PROVE  TimeOK' /\ UNCHANGED per_process_metrics
  <2>1. \/ UNCHANGED <<per_process_metrics, caller>>
        \/ Begin(t, "free", "acquire", m, a, 0)
    BY <1>3 DEF Free
  <2>2. CASE UNCHANGED <<per_process_metrics, caller>>
    BY <2>2 DEF TimeOK, InCall
  <2>3. CASE Begin(t, "free", "acquire", m, a, 0)
    BY <2>3, BeginTimes DEF Begin
  <2> QED BY <2>1, <2>2, <2>3
<1>4. ASSUME NEW t \in Callers, NEW m \in Metrics, NEW a \in Addresses, NEW n \in Sizes,
             Malloc(t, m, a, n) \/ Realloc(t, m, a, n)
      PROVE  TimeOK' /\ UNCHANGED per_process_metrics
  <2>1. Begin(t, "malloc", "handle", m, a, n) \/ Begin(t, "realloc", "acquire", m, a, n)
    BY <1>4 DEF Malloc, Realloc
  <2> QED BY <2>1, BeginTimes DEF Begin
<1>5. ASSUME NEW t \in Callers, AcquireAlloc(t) \/ CallFree(t) \/ CallRealloc(t) \/ IgnoreFree(t)
      PROVE  TimeOK' /\ UNCHANGED per_process_metrics
  <2>1. UNCHANGED per_process_metrics
    BY <1>5 DEF AcquireAlloc, CallFree, CallRealloc, IgnoreFree
  <2>2. ASSUME caller' = [caller EXCEPT ![t] = NoCall] PROVE TimeOK'
    <3>1. {"pc", "time"} \subseteq DOMAIN NoCall /\ NoCall.pc # "write"
      BY DEF NoCall
    <3> QED BY <2>1, <2>2, <3>1, OtherTimes
  <2>3. CASE IgnoreFree(t)
    BY <2>1, <2>2, <2>3 DEF IgnoreFree
  <2>4. CASE CallFree(t)
    <3>1. caller' = [caller EXCEPT ![t].pc = "handle"]
      BY <2>4 DEF CallFree, NextPc
    <3> QED BY <2>1, <3>1, GoesOnTimes
  <2>5. CASE AcquireAlloc(t)
    <3>1. PICK x : caller' = [caller EXCEPT ![t].pc = "call", ![t].allocation = x]
      BY <2>5 DEF AcquireAlloc
    <3> QED BY <2>1, <3>1, GoesOnTimes
  <2>6. CASE CallRealloc(t)
    <3>1. \/ caller' = [caller EXCEPT ![t] = NoCall]
          \/ \E b : caller' = [caller EXCEPT ![t].pc = "handle", ![t].address = b]
      BY <2>6 DEF CallRealloc
    <3> QED BY <2>1, <2>2, <3>1, GoesOnTimes
  <2> QED BY <1>5, <2>1, <2>3, <2>4, <2>5, <2>6
<1>6. ASSUME NEW t \in Callers, HandleAlloc(t) \/ HandleRealloc(t) \/ HandleFree(t)
      PROVE  TimeOK' /\ UNCHANGED per_process_metrics
  <2>1. PICK tree, total, process, value : Report(t, tree, total, process, value)
    BY <1>6 DEF HandleAlloc, HandleRealloc, HandleFree
  <2>2. TimeOK'
    BY <2>1, ReportTimes
  <2> QED BY <2>1, <2>2 DEF Report
<1>7. ASSUME NEW t \in Callers, AcquirePerProcessMetricsLocation(t) \/ TriggerCounter(t)
      PROVE  TimeOK' /\ per_process_metrics'.last_timestamp >= per_process_metrics.last_timestamp
  BY <1>7, TimeStep
<1> QED BY <1>0, <1>1, <1>2, <1>3, <1>4, <1>5, <1>6, <1>7 DEF AllocNext

(* CounterTimesInOrder, for every program: the time of a counter is taken  *)
(* under the mutex of the location of the process, and not given up before *)
(* the counter is written.                                                 *)
THEOREM TimesNeverDecrease == AllocSpec => CounterTimesInOrder
<1>1. AllocInit => TimeOK
  BY DEF AllocInit, TimeOK, InCall, NoCall
<1>2. TimeOK /\ [AllocNext]_allocVars => TimeOK'
  BY TimesStep
<1>3. TimeOK /\ [AllocNext]_allocVars =>
        [per_process_metrics'.last_timestamp >= per_process_metrics.last_timestamp]_allocVars
  BY TimesStep
<1> QED BY <1>1, <1>2, <1>3, PTL DEF AllocSpec, CounterTimesInOrder
=============================================================================
