------------------------- MODULE MpiRequestsProofs -------------------------
(***************************************************************************)
(* Proof that the request management of the MPI adapter neither loses nor  *)
(* doubles one of its objects (MpiRequests), and that its wrappers write   *)
(* each completion the program observes once, for any number of threads,   *)
(* values, objects and operations.                                         *)
(*                                                                         *)
(* While wrappers run, a request is in one of four places: the list of its *)
(* value, the pool, the hands of the thread that is about to append or to  *)
(* release it (Hands), or memory that was never used; RequestsApart says   *)
(* that these never overlap, EntriesApart the same of the table's entries. *)
(* A list exists only as `next' links between requests: Linked relates     *)
(* them to the sequence that ItemsFrom walks, and the lemmas about it say  *)
(* what appending and unlinking a request do.  That the entry a thread has *)
(* looked up is still its value's when it is locked (AtEntry in Knows)     *)
(* takes that threads in MPI at the same time work with different values   *)
(* (ThreadsOK), and hence that MPI gives no value twice (OpsOK).           *)
(*                                                                         *)
(* RecordsOK says what the requests of a value hold: while nobody works    *)
(* with it (RestingOK), and in each phase of the call that does            *)
(* (WorkingOK).  Each value but the dummy has one request, whose flags     *)
(* show the state of its operation (Single...).  The requests with the     *)
(* dummy value are only counted: of those in the list no more than the     *)
(* operations that go on are still to be recorded (Dummy...).              *)
(***************************************************************************)
EXTENDS MpiRequests, ListLemmas, FiniteSetTheorems

(* s is the list that begins with the request first.                       *)
Linked(s, first, requests) ==
  /\ s \in Seq(Requests) /\ s # << >> /\ IsInjective(s)
  /\ s[1] = first
  /\ \A i \in 1 .. Len(s) : requests[s[i]].next = IF i < Len(s) THEN s[i + 1] ELSE NULL

(* The walk from first by the `next' yields it.                            *)
LEMMA LinkedIsList ==
  ASSUME NEW s, NEW first, NEW requests, Linked(s, first, requests), MpiRequestsAssumption
  PROVE  ItemsFrom(first, requests) = s
<1> DEFINE Whole(g) == [n \in Nat |->
                          IF n = 0 THEN first
                          ELSE IF g[n - 1] \in Requests THEN requests[g[n - 1]].next ELSE NULL]
           node == CHOOSE g : g = Whole(g)
           f == [n \in Nat |-> IF n < Len(s) THEN s[n + 1] ELSE NULL]
<1>1. /\ s \in Seq(Requests) /\ Len(s) \in Nat \ {0} /\ DOMAIN s = 1 .. Len(s) /\ IsInjective(s)
      /\ \A i \in 1 .. Len(s) : s[i] \in Requests
      /\ NULL \notin Requests /\ IsFiniteSet(Requests)
  BY EmptySeq, LenProperties, ElementOfSeq DEF Linked, MpiRequestsAssumption
<1>2. ASSUME NEW n \in Nat
      PROVE  f[n] = IF n = 0 THEN first
                    ELSE IF f[n - 1] \in Requests THEN requests[f[n - 1]].next ELSE NULL
  <2>1. CASE n = 0
    BY <1>1, <2>1 DEF Linked
  <2>2. CASE n # 0
    <3>1. n - 1 \in Nat /\ (n - 1) + 1 = n
      BY <2>2
    <3>2. CASE n - 1 < Len(s)
      <4>1. f[n - 1] = s[n] /\ n \in 1 .. Len(s)
        BY <1>1, <3>1, <3>2
      <4>2. f[n - 1] \in Requests /\ requests[s[n]].next = IF n < Len(s) THEN s[n + 1] ELSE NULL
        BY <1>1, <4>1 DEF Linked
      <4> QED BY <2>2, <4>1, <4>2
    <3>3. CASE ~(n - 1 < Len(s))
      <4>1. f[n - 1] = NULL /\ ~(n < Len(s))
        BY <1>1, <3>1, <3>3
      <4> QED BY <1>1, <2>2, <4>1
    <3> QED BY <3>2, <3>3
  <2> QED BY <2>1, <2>2
<1>3. f = Whole(f)
  BY <1>2
<1>4. node = Whole(node)
  <2> HIDE DEF Whole, f
  <2> QED BY <1>3
<1>5. ItemsFrom(first, requests)
        = LET length == Cardinality({n \in 0 .. Cardinality(Requests) : node[n] \in Requests})
          IN  [n \in 1 .. length |-> node[n - 1]]
  BY DEF ItemsFrom
<1> HIDE DEF node
<1>6. \A n \in Nat : node[n] = IF n = 0 THEN first
                               ELSE IF node[n - 1] \in Requests THEN requests[node[n - 1]].next ELSE NULL
  BY <1>4
<1> HIDE DEF f
<1>7. \A n \in Nat : node[n] = f[n]
  <2> DEFINE Wrong == {n \in Nat : node[n] # f[n]}
  <2> SUFFICES ASSUME Wrong # {} PROVE FALSE
    OBVIOUS
  <2>1. PICK n \in Wrong : \A m \in Wrong : n <= m
    <3>1. Wrong \subseteq Nat
      OBVIOUS
    <3> HIDE DEF Wrong
    <3> QED BY <3>1, LeastNumber
  <2>2. n \in Nat /\ node[n] # f[n]
    BY <2>1
  <2>3. CASE n = 0
    BY <1>2, <1>6, <2>2, <2>3
  <2>4. CASE n # 0
    <3>1. n - 1 \in Nat /\ ~(n <= n - 1)
      BY <2>2, <2>4
    <3>2. node[n - 1] = f[n - 1]
      BY <2>1, <3>1
    <3> QED BY <1>2, <1>6, <2>2, <2>4, <3>2
  <2> QED BY <2>3, <2>4
<1>8. Len(s) <= Cardinality(Requests) /\ Cardinality(Requests) \in Nat
  <2>1. s \in Injection(1 .. Len(s), Requests)
    BY <1>1 DEF Injection, IsInjective
  <2>2. Cardinality(1 .. Len(s)) = Len(s)
    BY <1>1, FS_Interval
  <2> QED BY <1>1, <2>1, <2>2, FS_Injection, FS_CardinalityType
<1>9. {n \in 0 .. Cardinality(Requests) : node[n] \in Requests} = 0 .. Len(s) - 1
  <2>1. ASSUME NEW n \in Nat PROVE node[n] \in Requests <=> n < Len(s)
    <3>1. CASE n < Len(s)
      <4>1. n + 1 \in 1 .. Len(s) /\ node[n] = s[n + 1]
        BY <1>1, <1>7, <3>1 DEF f
      <4> QED BY <1>1, <3>1, <4>1
    <3>2. CASE ~(n < Len(s))
      BY <1>1, <1>7, <3>2 DEF f
    <3> QED BY <3>1, <3>2
  <2> QED BY <1>1, <1>8, <2>1
<1>10. Cardinality(0 .. Len(s) - 1) = Len(s)
  <2>1. Len(s) - 1 \in Int /\ ~(0 > Len(s) - 1) /\ Len(s) - 1 - 0 + 1 = Len(s)
    BY <1>1
  <2> QED BY <2>1, FS_Interval
<1>11. ItemsFrom(first, requests) = [n \in 1 .. Len(s) |-> node[n - 1]]
  BY <1>5, <1>9, <1>10
<1>12. ASSUME NEW n \in 1 .. Len(s) PROVE node[n - 1] = s[n]
  <2>1. n - 1 \in Nat /\ n - 1 < Len(s) /\ (n - 1) + 1 = n
    BY <1>1
  <2> QED BY <1>7, <2>1 DEF f
<1>13. s = [n \in 1 .. Len(s) |-> s[n]]
  BY <1>1
<1> QED BY <1>11, <1>12, <1>13

(* A list of one.                                                          *)
LEMMA LinkedOne ==
  ASSUME NEW r \in Requests, NEW requests, requests[r].next = NULL
  PROVE  Linked(<<r>>, r, requests) /\ Range(<<r>>) = {r}
<1>1. /\ <<r>> \in Seq(Requests) /\ Len(<<r>>) = 1 /\ <<r>>[1] = r /\ DOMAIN <<r>> = 1 .. 1 /\ <<r>> # << >>
      /\ \A i \in 1 .. 1 : <<r>>[i] = r /\ i = 1
  OBVIOUS
<1>2. Range(<<r>>) = {r}
  BY <1>1 DEF Range
<1>3. IsInjective(<<r>>)
  BY <1>1 DEF IsInjective
<1> QED BY <1>1, <1>2, <1>3 DEF Linked

(* Requests outside of the list do not matter.                             *)
LEMMA LinkedStays ==
  ASSUME NEW s, NEW first, NEW requests, NEW others, Linked(s, first, requests),
         \A r \in Range(s) : others[r].next = requests[r].next
  PROVE  Linked(s, first, others)
<1>1. \A i \in 1 .. Len(s) : s[i] \in Range(s)
  <2>1. DOMAIN s = 1 .. Len(s)
    BY LenProperties DEF Linked
  <2> QED BY <2>1 DEF Range
<1> QED BY <1>1 DEF Linked

(* A request appended.                                                     *)
AppendedTo(s, r, requests, others) ==
  /\ others[s[Len(s)]].next = r /\ others[r].next = NULL
  /\ \A q \in Range(s) \ {s[Len(s)]} : others[q].next = requests[q].next
(* The list with r at its end.                                             *)
LEMMA LinkedAppend ==
  ASSUME NEW s, NEW first, NEW requests, NEW others, Linked(s, first, requests), NEW r \in Requests \ Range(s),
         AppendedTo(s, r, requests, others)
  PROVE  Linked(Append(s, r), first, others) /\ Range(Append(s, r)) = Range(s) \cup {r}
<1> USE DEF AppendedTo
<1>1. /\ s \in Seq(Requests) /\ Len(s) \in Nat \ {0} /\ DOMAIN s = 1 .. Len(s) /\ IsInjective(s)
      /\ r \in Requests
  BY EmptySeq, LenProperties DEF Linked
<1>2. /\ Append(s, r) \in Seq(Requests) /\ IsInjective(Append(s, r)) /\ Append(s, r) # << >>
      /\ Range(Append(s, r)) = Range(s) \cup {r}
  BY <1>1, AppendTo, AppendNotEmpty
<1>3. /\ Len(Append(s, r)) = Len(s) + 1
      /\ \A i \in 1 .. Len(s) : Append(s, r)[i] = s[i]
      /\ Append(s, r)[Len(s) + 1] = r
  BY <1>1, AppendProperties
<1>4. Append(s, r)[1] = first
  BY <1>1, <1>3 DEF Linked
<1>5. ASSUME NEW i \in 1 .. Len(s) + 1
      PROVE  others[Append(s, r)[i]].next = IF i < Len(s) + 1 THEN Append(s, r)[i + 1] ELSE NULL
  <2>1. CASE i = Len(s) + 1
    BY <1>1, <1>3, <2>1
  <2>2. CASE i = Len(s)
    BY <1>1, <1>3, <2>2
  <2>3. CASE i < Len(s)
    <3>1. i \in 1 .. Len(s) /\ i + 1 \in 1 .. Len(s) /\ Len(s) \in 1 .. Len(s) /\ i # Len(s)
      <4>1. PICK length \in Nat \ {0} : length = Len(s)
        BY <1>1
      <4>2. i \in 1 .. length + 1 /\ i < length
        BY <2>3, <4>1
      <4>3. i \in 1 .. length /\ i + 1 \in 1 .. length /\ length \in 1 .. length /\ i # length
        BY <4>2
      <4> QED BY <4>1, <4>3
    <3>2. s[i] \in Range(s) /\ s[i] # s[Len(s)]
      BY <1>1, <3>1 DEF Range, IsInjective
    <3>3. others[s[i]].next = s[i + 1]
      BY <2>3, <3>1, <3>2 DEF Linked
    <3> QED BY <1>3, <2>3, <3>1, <3>3
  <2> QED BY <1>1, <2>1, <2>2, <2>3
<1> QED BY <1>1, <1>2, <1>3, <1>4, <1>5 DEF Linked

(* A request unlinked.                                                     *)
Without(s, n) == [i \in 1 .. Len(s) - 1 |-> IF i < n THEN s[i] ELSE s[i + 1]]
UnlinkedFrom(s, n, requests, others) ==
  /\ n # 1 => others[s[n - 1]].next = requests[s[n]].next
  /\ \A i \in 1 .. Len(s) : i # n - 1 /\ i # n => others[s[i]].next = requests[s[i]].next
(* The list without its n-th request.                                      *)
LEMMA LinkedWithout ==
  ASSUME NEW s, NEW first, NEW requests, NEW others, Linked(s, first, requests),
         NEW n \in 1 .. Len(s), Len(s) # 1, UnlinkedFrom(s, n, requests, others),
         NEW start, start = IF n = 1 THEN requests[first].next ELSE first
  PROVE  /\ Linked(Without(s, n), start, others)
         /\ Range(Without(s, n)) = Range(s) \ {s[n]}
<1> USE DEF UnlinkedFrom
<1> DEFINE w == Without(s, n)
<1>1. /\ s \in Seq(Requests) /\ Len(s) \in Nat \ {0, 1} /\ DOMAIN s = 1 .. Len(s) /\ IsInjective(s)
      /\ \A i \in 1 .. Len(s) : s[i] \in Requests
      /\ s[1] = first
  BY EmptySeq, LenProperties, ElementOfSeq DEF Linked
<1>2. /\ DOMAIN w = 1 .. Len(s) - 1
      /\ \A i \in 1 .. Len(s) - 1 : w[i] = IF i < n THEN s[i] ELSE s[i + 1]
  BY DEF Without
<1>3. \A i \in 1 .. Len(s) - 1 : i \in 1 .. Len(s) /\ i + 1 \in 1 .. Len(s)
  BY <1>1
<1>4. w \in Seq(Requests) /\ Len(w) = Len(s) - 1 /\ w # << >>
  <2>1. \A i \in 1 .. Len(s) - 1 : w[i] \in Requests
    BY <1>1, <1>2, <1>3
  <2>2. Len(s) - 1 \in Nat
    BY <1>1
  <2>3. w \in [1 .. Len(s) - 1 -> Requests]
    BY <2>1 DEF Without
  <2>4. w \in Seq(Requests) /\ Len(w) = Len(s) - 1
    BY <2>2, <2>3, SeqDef, LenProperties, <1>2
  <2> QED BY <1>1, <2>4, EmptySeq
<1> HIDE DEF w
<1>5. IsInjective(w)
  <2> SUFFICES ASSUME NEW i \in 1 .. Len(s) - 1, NEW j \in 1 .. Len(s) - 1, w[i] = w[j] PROVE i = j
    BY <1>2 DEF IsInjective
  <2>1. \A k, l \in 1 .. Len(s) : s[k] = s[l] => k = l
    BY <1>1 DEF IsInjective
  <2> QED BY <1>1, <1>2, <1>3, <2>1
<1>6. w[1] = start
  <2>1. 1 \in 1 .. Len(s) - 1 /\ 1 \in 1 .. Len(s) /\ 1 < Len(s)
    BY <1>1
  <2>2. requests[s[1]].next = s[2]
    BY <2>1 DEF Linked
  <2> QED BY <1>1, <1>2, <2>1, <2>2
<1>7. ASSUME NEW i \in 1 .. Len(s) - 1
      PROVE  others[w[i]].next = IF i < Len(s) - 1 THEN w[i + 1] ELSE NULL
  <2>1. CASE i < n - 1
    <3>1. w[i] = s[i] /\ i \in 1 .. Len(s) /\ i # n - 1 /\ i # n /\ i < Len(s) - 1 /\ i + 1 \in 1 .. Len(s) - 1 /\ i + 1 < n /\ i < Len(s)
      BY <1>1, <1>2, <2>1
    <3>2. others[s[i]].next = s[i + 1] /\ w[i + 1] = s[i + 1]
      BY <1>2, <3>1 DEF Linked
    <3> QED BY <3>1, <3>2
  <2>2. CASE i = n - 1
    <3>1. w[i] = s[n - 1] /\ n # 1 /\ i + 1 = n
      BY <1>1, <1>2, <2>2
    <3>2. others[w[i]].next = IF n < Len(s) THEN s[n + 1] ELSE NULL
      BY <3>1 DEF Linked
    <3>3. CASE n < Len(s)
      <4>1. n \in 1 .. Len(s) - 1 /\ i < Len(s) - 1
        BY <1>1, <2>2, <3>3
      <4>2. w[i + 1] = s[n + 1]
        BY <1>1, <1>2, <3>1, <4>1
      <4> QED BY <3>2, <3>3, <4>1, <4>2
    <3>4. CASE ~(n < Len(s))
      <4>1. ~(i < Len(s) - 1)
        BY <1>1, <2>2, <3>4
      <4> QED BY <3>2, <3>4, <4>1
    <3> QED BY <3>3, <3>4
  <2>3. CASE i > n - 1
    <3>1. w[i] = s[i + 1] /\ i + 1 \in 1 .. Len(s) /\ i + 1 # n - 1 /\ i + 1 # n
      BY <1>1, <1>2, <2>3
    <3>2. others[w[i]].next = IF i + 1 < Len(s) THEN s[i + 1 + 1] ELSE NULL
      BY <3>1 DEF Linked
    <3>3. CASE i + 1 < Len(s)
      <4>1. i < Len(s) - 1 /\ i + 1 \in 1 .. Len(s) - 1 /\ ~(i + 1 < n)
        BY <1>1, <2>3, <3>3
      <4> QED BY <1>2, <3>2, <3>3, <4>1
    <3>4. CASE ~(i + 1 < Len(s))
      <4>1. ~(i < Len(s) - 1)
        BY <1>1, <3>4
      <4> QED BY <3>2, <3>4, <4>1
    <3> QED BY <3>3, <3>4
  <2> QED BY <1>1, <2>1, <2>2, <2>3
<1>8. Linked(w, start, others)
  BY <1>4, <1>5, <1>6, <1>7 DEF Linked
<1>9. Range(w) = Range(s) \ {s[n]}
  <2>1. ASSUME NEW x \in Range(w) PROVE x \in Range(s) \ {s[n]}
    <3>1. PICK i \in 1 .. Len(s) - 1 : x = IF i < n THEN s[i] ELSE s[i + 1]
      BY <1>2, <2>1 DEF Range
    <3>2. PICK j \in 1 .. Len(s) : x = s[j] /\ j # n
      BY <1>1, <1>3, <3>1
    <3> QED BY <1>1, <3>2 DEF Range, IsInjective
  <2>2. ASSUME NEW x \in Range(s) \ {s[n]} PROVE x \in Range(w)
    <3>1. PICK j \in 1 .. Len(s) : x = s[j] /\ j # n
      BY <1>1, <2>2 DEF Range
    <3>2. CASE j < n
      <4>1. j \in 1 .. Len(s) - 1 /\ w[j] = x
        BY <1>1, <1>2, <3>1, <3>2
      <4> QED BY <1>2, <4>1 DEF Range
    <3>3. CASE ~(j < n)
      <4>1. j - 1 \in 1 .. Len(s) - 1 /\ ~(j - 1 < n) /\ (j - 1) + 1 = j
        BY <1>1, <3>1, <3>3
      <4>2. w[j - 1] = x
        BY <1>2, <3>1, <4>1
      <4> QED BY <1>2, <4>1, <4>2 DEF Range
    <3> QED BY <3>2, <3>3
  <2> QED BY <2>1, <2>2
<1> QED BY <1>8, <1>9 DEF w

-----------------------------------------------------------------------------
(* What a thread in a call is about; w is its record.                      *)
Idle(w) == w.pc = "idle"
Inserting(w) == w.pc = "insert"
Appending(w) == w.pc \in {"lock", "control", "append"} /\ w.after = "append"
Getting(w) == w.pc \in {"lookup", "lock", "control", "get"} /\ w.after = "get"
Using(w) == w.pc = "use" \/ (w.pc = "unlock" /\ w.after = "use")
Freeing(w) == w.pc \in {"lookup", "lock", "control", "free"} /\ w.after = "free"
Releasing(w) == w.pc = "release" \/ (w.pc = "unlock" /\ w.after = "release")
Leaving(w) == w.pc \in {"unmark", "return"} \/ (w.pc = "unlock" /\ w.after = "unmark")
Appended(w) == w.pc = "unlock" /\ w.after = "idle"
AtEntry(w) == w.pc \in {"lock", "control", "append", "get", "free"}
Holds(w) == Appending(w) \/ Releasing(w)

Places == {"idle", "insert", "lookup", "lock", "control", "append", "get", "free", "unlock", "use",
           "release", "unmark", "return"}
FlagNames == {"IS_PERSISTENT", "IS_ACTIVE", "IS_COMPLETED", "DEALLOCATE"}
ThreadRecords ==
  [pc : Places, call : WithRequest \cup {NULL}, id : Nat, key : Keys, value : Entries \cup {NULL},
   control : Entries \cup {NULL}, req : Requests \cup {NULL}, after : Places]
RequestRecords ==
  [request : Keys, id : Nat, flags : SUBSET FlagNames, next : Requests \cup {NULL}, marker : BOOLEAN]
Operations ==
  [key : Keys, state : {"none", "active", "complete", "inactive", "done"}, persistent : BOOLEAN,
   known : BOOLEAN, thread : Threads \cup {NULL}, starts : Nat, observed : Nat]

MpiTyped ==
  /\ setup \in MpiSetups
  /\ request_table \in [Keys -> Entries \cup {NULL}]
  /\ payload \in [Entries -> Requests \cup Entries \cup {NULL}]
  /\ request \in [Requests -> RequestRecords]
  /\ request_table_entry_free_list \in Seq(Entries)
  /\ request_free_list \in Seq(Requests)
  /\ allocated \subseteq Requests \cup Entries
  /\ mpi_last_request_id \in 0 .. setup.operations
  /\ th \in [Threads -> ThreadRecords]
  /\ op \in [Ids -> Operations]
  /\ completions \in [Ids -> Nat]

(* The requests with a value, in order.                                    *)
Own(k) == IF request_table[k] = NULL THEN << >> ELSE List(request_table[k])
(* The request that is only in a thread's hands.                           *)
Hands(t) == IF Holds(th[t]) THEN {th[t].req} ELSE {}
Live(i) == op[i].state \in {"active", "complete", "inactive"}

(* MPI gives a value other than the dummy to one operation at a time.      *)
OpsOK ==
  /\ \A i \in Ids : i > mpi_last_request_id => ~Live(i)
  /\ \A i, j \in Ids : i # j /\ op[i].key = op[j].key /\ Live(i) /\ Live(j) => op[i].key = Dummy
  /\ Allows("multiple") => \A i \in Ids : Live(i) => op[i].key # Dummy /\ op[i].thread # NULL

(* What a thread in a call knows of the table.                             *)
Knows(w) ==
  /\ w.control = NULL
  /\ w.id \in 1 .. mpi_last_request_id /\ w.key = op[w.id].key
  /\ \/ Inserting(w) \/ Appending(w) \/ Getting(w) \/ Using(w)
     \/ Freeing(w) \/ Releasing(w) \/ Leaving(w) \/ Appended(w)
  /\ (Inserting(w) \/ Appending(w) \/ Appended(w)) <=> w.call = NULL
  /\ Getting(w) => w.req = NULL
  /\ Using(w) => w.req = NULL \/ w.req \in Range(Own(w.key))
  /\ Freeing(w) => w.req \in Range(Own(w.key))
  /\ Holds(w) => w.req \in Requests
  /\ Appending(w) => request[w.req].request = w.key
  /\ AtEntry(w) => w.value = request_table[w.key] /\ w.value # NULL
  /\ w.pc = "unlock" => w.value # NULL
  /\ w.call = "Start" => op[w.id].state = "inactive"
ThreadOK(t) == Knows(th[t])

(* Threads that are in MPI at the same time work with different values.    *)
ThreadsOK ==
  /\ \A t \in Threads : ~Idle(th[t]) => ThreadOK(t)
  /\ \A t \in Threads : ~Idle(th[t]) =>
       \A i \in Ids : Live(i) /\ op[i].key = th[t].key /\ op[i].key # Dummy => i = th[t].id
  /\ \A t, u \in Threads : t # u /\ ~Idle(th[t]) /\ ~Idle(th[u]) => Allows("multiple") /\ th[t].key # th[u].key
  /\ Allows("multiple") => \A t \in Threads : ~Idle(th[t]) => op[th[t].id].thread = t /\ th[t].key # Dummy

(* The table heads linked lists.                                           *)
ListOK(k) ==
  request_table[k] # NULL =>
    /\ Linked(List(request_table[k]), payload[request_table[k]], request)
    /\ \A r \in Range(List(request_table[k])) : request[r].request = k
ListsOK == \A k \in Keys : ListOK(k)

(* Every request that was allocated is in one place.                       *)
RequestsApart ==
  /\ IsInjective(request_free_list)
  /\ \A k, l \in Keys : k # l => Range(Own(k)) \cap Range(Own(l)) = {}
  /\ \A k \in Keys : Range(Own(k)) \cap Range(request_free_list) = {}
  /\ \A t \in Threads : Hands(t) \cap Range(request_free_list) = {}
  /\ \A t \in Threads, k \in Keys : Hands(t) \cap Range(Own(k)) = {}
  /\ \A t, u \in Threads : t # u => Hands(t) \cap Hands(u) = {}
  /\ \A r \in Requests : r \in allocated <=> \/ r \in Range(request_free_list)
                                             \/ \E k \in Keys : r \in Range(Own(k))
                                             \/ \E t \in Threads : r \in Hands(t)

(* So is every entry.                                                      *)
EntriesApart ==
  /\ IsInjective(request_table_entry_free_list)
  /\ \A k, l \in Keys : k # l /\ request_table[k] # NULL => request_table[k] # request_table[l]
  /\ \A k \in Keys : request_table[k] \notin Range(request_table_entry_free_list)
  /\ \A e \in Entries : e \in allocated <=> \/ e \in Range(request_table_entry_free_list)
                                            \/ \E k \in Keys : request_table[k] = e

MpiIInv == MpiTyped /\ OpsOK /\ ThreadsOK /\ ListsOK /\ RequestsApart /\ EntriesApart

(* Programs with one thread in MPI at a time, or whose threads are given   *)
(* values that no other operation, and no other thread's call, has.        *)
ValuesApart ==
  \A s \in MpiSetups : "multiple" \in s.features => "early" \notin s.features /\ "dummy" \notin s.features

-----------------------------------------------------------------------------
(* The lists of values that are not touched.                               *)
LEMMA OwnIs ==
  ASSUME MpiRequestsAssumption, NEW k \in Keys, NEW s, request_table'[k] # NULL,
         Linked(s, payload'[request_table'[k]], request')
  PROVE  Own(k)' = s /\ List(request_table[k])' = s
<1>1. ItemsFrom(payload'[request_table'[k]], request') = s
  BY LinkedIsList
<1> QED BY <1>1 DEF Own, List

(* A value whose entry, and whose requests' links, stay keeps its list.    *)
LEMMA OwnKept ==
  ASSUME MpiRequestsAssumption, NEW k \in Keys, ListOK(k), request_table'[k] = request_table[k],
         request_table[k] # NULL => payload'[request_table[k]] = payload[request_table[k]],
         \A r \in Range(Own(k)) : request'[r].next = request[r].next /\ request'[r].request = request[r].request
  PROVE  Own(k)' = Own(k) /\ ListOK(k)'
<1>1. CASE request_table[k] = NULL
  BY <1>1 DEF Own, ListOK
<1>2. CASE request_table[k] # NULL
  <2>1. Own(k) = List(request_table[k])
    BY <1>2 DEF Own
  <2>2. Linked(Own(k), payload[request_table[k]], request) /\ \A r \in Range(Own(k)) : request[r].request = k
    BY <1>2, <2>1 DEF ListOK
  <2>3. Linked(Own(k), payload[request_table[k]], request')
    BY <2>2, LinkedStays
  <2>4. Linked(Own(k), payload'[request_table'[k]], request')
    BY <1>2, <2>3
  <2>5. Own(k)' = Own(k) /\ List(request_table[k])' = Own(k)
    BY <1>2, <2>4, OwnIs
  <2> QED BY <2>2, <2>4, <2>5 DEF ListOK
<1> QED BY <1>1, <1>2

(* A list whose elements are known.                                        *)
LEMMA OwnElements ==
  ASSUME MpiRequestsAssumption, NEW k \in Keys, ListOK(k)
  PROVE  /\ Own(k) \in Seq(Requests) /\ Range(Own(k)) \subseteq Requests /\ IsInjective(Own(k))
         /\ Own(k) # << >> <=> request_table[k] # NULL
         /\ Range(Own(k)) # {} <=> request_table[k] # NULL
<1>1. CASE request_table[k] = NULL
  BY <1>1, EmptyList DEF Own
<1>2. CASE request_table[k] # NULL
  <2>1. Own(k) \in Seq(Requests) /\ IsInjective(Own(k)) /\ Own(k) # << >>
    BY <1>2 DEF Own, ListOK, Linked
  <2>2. DOMAIN Own(k) = 1 .. Len(Own(k)) /\ Len(Own(k)) \in Nat \ {0} /\ \A i \in 1 .. Len(Own(k)) : Own(k)[i] \in Requests
    BY <2>1, LenProperties, EmptySeq, ElementOfSeq
  <2>3. 1 \in 1 .. Len(Own(k))
    BY <2>2
  <2> QED BY <1>2, <2>1, <2>2, <2>3 DEF Range
<1> QED BY <1>1, <1>2

(* Requests move between the list of a value, the pool, a thread's hands   *)
(* and the memory that was never used.                                     *)
LEMMA RequestsMove ==
  ASSUME RequestsApart, NEW k0 \in Keys, NEW t \in Threads,
         \A k \in Keys : Range(Own(k)) \subseteq Requests, \A u \in Threads : Hands(u) \subseteq Requests,
         \A k \in Keys \ {k0} : Own(k)' = Own(k), \A u \in Threads \ {t} : Hands(u)' = Hands(u),
         allocated \subseteq allocated', IsInjective(request_free_list'),
         Range(Own(k0)') \cap Range(request_free_list') = {},
         Range(Own(k0)') \cap Hands(t)' = {}, Hands(t)' \cap Range(request_free_list') = {},
         Range(Own(k0)') \subseteq Requests, Hands(t)' \subseteq Requests, Range(request_free_list') \subseteq Requests,
         \A r \in Requests :
           r \in Range(Own(k0)') \/ r \in Hands(t)' \/ r \in Range(request_free_list')
             <=> \/ r \in Range(Own(k0)) \/ r \in Hands(t) \/ r \in Range(request_free_list)
                 \/ r \in allocated' /\ r \notin allocated
  PROVE  RequestsApart'
<1> DEFINE A == Range(Own(k0))  P == Range(request_free_list)  H == Hands(t)
           A2 == Range(Own(k0)')  P2 == Range(request_free_list')  H2 == Hands(t)'
<1>1. \A k \in Keys \ {k0} : \A r \in Range(Own(k)) : r \in allocated /\ r \notin A /\ r \notin P /\ r \notin H
  BY DEF RequestsApart
<1>2. \A u \in Threads \ {t} : \A r \in Hands(u) : r \in allocated /\ r \notin A /\ r \notin P /\ r \notin H
  BY DEF RequestsApart
<1>3. \A r \in Requests : r \in A2 \/ r \in P2 \/ r \in H2 => r \in A \/ r \in P \/ r \in H \/ r \notin allocated
  OBVIOUS
<1>4. \A k \in Keys \ {k0} : \A r \in Range(Own(k)) : r \notin A2 /\ r \notin P2 /\ r \notin H2
  BY <1>1, <1>3
<1>5. \A u \in Threads \ {t} : \A r \in Hands(u) : r \notin A2 /\ r \notin P2 /\ r \notin H2
  BY <1>2, <1>3
<1>6. \A k, l \in Keys : k # l => Range(Own(k)') \cap Range(Own(l)') = {}
  <2>1. ASSUME NEW k \in Keys, NEW l \in Keys, k # l PROVE Range(Own(k)') \cap Range(Own(l)') = {}
    <3>1. CASE k # k0 /\ l # k0
      BY <2>1, <3>1 DEF RequestsApart
    <3>2. CASE k = k0
      BY <1>4, <2>1, <3>2
    <3>3. CASE l = k0
      BY <1>4, <2>1, <3>3
    <3> QED BY <3>1, <3>2, <3>3
  <2> QED BY <2>1
<1>7. \A k \in Keys : Range(Own(k)') \cap P2 = {}
  BY <1>4
<1>8. \A u \in Threads : Hands(u)' \cap P2 = {}
  BY <1>5
<1>9. \A u \in Threads, k \in Keys : Hands(u)' \cap Range(Own(k)') = {}
  <2>1. ASSUME NEW u \in Threads, NEW k \in Keys PROVE Hands(u)' \cap Range(Own(k)') = {}
    <3>1. CASE u # t /\ k # k0
      BY <3>1 DEF RequestsApart
    <3>2. CASE u = t /\ k # k0
      BY <1>4, <3>2
    <3>3. CASE u # t /\ k = k0
      BY <1>5, <3>3
    <3> QED BY <3>1, <3>2, <3>3
  <2> QED BY <2>1
<1>10. \A u, v \in Threads : u # v => Hands(u)' \cap Hands(v)' = {}
  <2>1. ASSUME NEW u \in Threads, NEW v \in Threads, u # v PROVE Hands(u)' \cap Hands(v)' = {}
    <3>1. CASE u # t /\ v # t
      BY <2>1, <3>1 DEF RequestsApart
    <3>2. CASE u = t \/ v = t
      BY <1>5, <2>1, <3>2
    <3> QED BY <3>1, <3>2
  <2> QED BY <2>1
<1>11. ASSUME NEW r \in Requests
       PROVE  r \in allocated' <=> \/ r \in P2 \/ (\E k \in Keys : r \in Range(Own(k)'))
                                   \/ \E u \in Threads : r \in Hands(u)'
  <2>1. r \in allocated <=> \/ r \in P \/ (\E k \in Keys : r \in Range(Own(k))) \/ \E u \in Threads : r \in Hands(u)
    BY DEF RequestsApart
  <2>2. (\E k \in Keys : r \in Range(Own(k)')) <=> r \in A2 \/ \E k \in Keys \ {k0} : r \in Range(Own(k))
    OBVIOUS
  <2>3. (\E k \in Keys : r \in Range(Own(k))) <=> r \in A \/ \E k \in Keys \ {k0} : r \in Range(Own(k))
    OBVIOUS
  <2>4. (\E u \in Threads : r \in Hands(u)') <=> r \in H2 \/ \E u \in Threads \ {t} : r \in Hands(u)
    OBVIOUS
  <2>5. (\E u \in Threads : r \in Hands(u)) <=> r \in H \/ \E u \in Threads \ {t} : r \in Hands(u)
    OBVIOUS
  <2>6. r \in A2 \/ r \in H2 \/ r \in P2 <=> r \in A \/ r \in H \/ r \in P \/ (r \in allocated' /\ r \notin allocated)
    OBVIOUS
  <2>7. r \in allocated => r \in allocated'
    OBVIOUS
  <2> HIDE DEF A, P, H, A2, P2, H2
  <2> QED BY <2>1, <2>2, <2>3, <2>4, <2>5, <2>6, <2>7
<1> QED BY <1>6, <1>7, <1>8, <1>9, <1>10, <1>11 DEF RequestsApart

(* Entries move between a value, the pool and the unused memory.           *)
LEMMA EntriesMove ==
  ASSUME MpiRequestsAssumption, EntriesApart, NEW k0 \in Keys,
         request_table \in [Keys -> Entries \cup {NULL}], request_table' \in [Keys -> Entries \cup {NULL}],
         \A k \in Keys \ {k0} : request_table'[k] = request_table[k],
         allocated \subseteq allocated', IsInjective(request_table_entry_free_list'),
         Range(request_table_entry_free_list') \subseteq Entries,
         request_table'[k0] \notin Range(request_table_entry_free_list'),
         \A e \in Entries :
           e = request_table'[k0] \/ e \in Range(request_table_entry_free_list')
             <=> \/ e = request_table[k0] \/ e \in Range(request_table_entry_free_list)
                 \/ (e \in allocated' /\ e \notin allocated)
  PROVE  EntriesApart'
<1> DEFINE T == request_table[k0]  P == Range(request_table_entry_free_list)
           T2 == request_table'[k0]  P2 == Range(request_table_entry_free_list')
<1>0. NULL \notin Entries
  BY DEF MpiRequestsAssumption
<1>1. \A k \in Keys \ {k0} : request_table[k] # NULL =>
        request_table[k] \in allocated /\ request_table[k] # T /\ request_table[k] \notin P /\ request_table[k] \in Entries
  BY DEF EntriesApart
<1>2. \A k \in Keys \ {k0} : request_table[k] # NULL => request_table[k] # T2 /\ request_table[k] \notin P2
  BY <1>1
<1>3. \A k, l \in Keys : k # l /\ request_table'[k] # NULL => request_table'[k] # request_table'[l]
  <2>1. ASSUME NEW k \in Keys, NEW l \in Keys, k # l, request_table'[k] # NULL PROVE request_table'[k] # request_table'[l]
    <3>1. CASE k # k0 /\ l # k0
      BY <2>1, <3>1 DEF EntriesApart
    <3>2. CASE k = k0 \/ l = k0
      BY <1>2, <2>1, <3>2
    <3> QED BY <3>1, <3>2
  <2> QED BY <2>1
<1>4. \A k \in Keys : request_table'[k] \notin P2
  BY <1>0, <1>2
<1>5. ASSUME NEW e \in Entries
      PROVE  e \in allocated' <=> e \in P2 \/ \E k \in Keys : request_table'[k] = e
  <2>1. e \in allocated <=> e \in P \/ \E k \in Keys : request_table[k] = e
    BY DEF EntriesApart
  <2>2. (\E k \in Keys : request_table'[k] = e) <=> e = T2 \/ \E k \in Keys \ {k0} : request_table[k] = e
    OBVIOUS
  <2>3. (\E k \in Keys : request_table[k] = e) <=> e = T \/ \E k \in Keys \ {k0} : request_table[k] = e
    OBVIOUS
  <2>4. e = T2 \/ e \in P2 <=> e = T \/ e \in P \/ (e \in allocated' /\ e \notin allocated)
    OBVIOUS
  <2>5. e \in allocated => e \in allocated'
    OBVIOUS
  <2> HIDE DEF T, P, T2, P2
  <2> QED BY <2>1, <2>2, <2>3, <2>4, <2>5
<1> QED BY <1>3, <1>4, <1>5 DEF EntriesApart

(* The bound on operations is a number, and so are their ids.              *)
LEMMA SetupBounds ==
  ASSUME MpiRequestsAssumption, MpiTyped
  PROVE  setup.operations \in Nat /\ mpi_last_request_id \in Nat /\ mpi_last_request_id <= setup.operations
         /\ \A i \in 1 .. mpi_last_request_id : i \in Ids
<1>1. setup \in MpiSetups /\ mpi_last_request_id \in 0 .. setup.operations
  BY DEF MpiTyped
<1>2. setup.operations \in Nat
  BY <1>1 DEF MpiRequestsAssumption
<1> QED BY <1>1, <1>2 DEF Ids

(* What a step of thread t leaves as it is: the operations but for their   *)
(* state, and what the other threads know.                                 *)
LEMMA OthersKeep ==
  ASSUME MpiRequestsAssumption, MpiTyped, OpsOK, ThreadsOK, NEW t \in Threads, ~Idle(th[t]),
         \A u \in Threads \ {t} : th'[u] = th[u],
         Idle(th'[t]) \/ (th'[t].id = th[t].id /\ th'[t].key = th[t].key /\ ThreadOK(t)'),
         setup' = setup, mpi_last_request_id' = mpi_last_request_id,
         \A i \in Ids : op'[i].key = op[i].key /\ op'[i].thread = op[i].thread /\ (Live(i)' => Live(i)),
         \A i \in Ids : i # th[t].id => op'[i].state = op[i].state,
         \A u \in Threads \ {t} : Holds(th[u]) => request'[th[u].req].request = request[th[u].req].request,
         \A k \in Keys : k # th[t].key => Own(k)' = Own(k) /\ request_table'[k] = request_table[k]
  PROVE  OpsOK' /\ ThreadsOK'
<1>1. Ids' = Ids /\ (Allows("multiple")' <=> Allows("multiple")) /\ mpi_last_request_id \in Nat /\ setup.operations \in Nat
  BY SetupBounds DEF Ids, Allows
<1>2. OpsOK'
  BY <1>1 DEF OpsOK
<1>3. ASSUME NEW u \in Threads, ~Idle(th'[u]) PROVE ThreadOK(u)'
  <2>1. CASE u = t
    BY <1>3, <2>1
  <2>2. CASE u # t
    <3>1. th'[u] = th[u] /\ ThreadOK(u) /\ ~Idle(th[u]) /\ th[u].key # th[t].key /\ th[u].key \in Keys
      BY <1>3, <2>2 DEF ThreadsOK, MpiTyped, ThreadRecords
    <3>2. PICK key \in Keys : key = th[u].key
      BY <3>1
    <3>3. Own(key)' = Own(key) /\ request_table'[key] = request_table[key] /\ th'[u].key = key
      BY <3>1, <3>2
    <3>4. th[u].id \in Ids
      BY <3>1, SetupBounds DEF ThreadOK, Knows
    <3>5. op'[th[u].id].key = op[th[u].id].key
      BY <3>4
    <3>6. op'[th[u].id].state = op[th[u].id].state
      <4>1. th[u].key = op[th[u].id].key /\ th[t].key = op[th[t].id].key
        BY <3>1 DEF ThreadsOK, ThreadOK, Knows
      <4> QED BY <3>1, <3>4, <4>1
    <3>7. Appending(th[u]) => request'[th[u].req].request = request[th[u].req].request
      BY <2>2 DEF Holds
    <3> QED BY <1>1, <3>1, <3>2, <3>3, <3>5, <3>6, <3>7 DEF ThreadOK, Knows
  <2> QED BY <2>1, <2>2
<1>4. ASSUME NEW u \in Threads, ~Idle(th'[u])
      PROVE  /\ ~Idle(th[u]) /\ th'[u].id = th[u].id /\ th'[u].key = th[u].key
             /\ th[u].id \in Ids
  <2>1. ~Idle(th[u]) /\ th'[u].id = th[u].id /\ th'[u].key = th[u].key
    BY <1>4
  <2>2. ThreadOK(u)
    BY <2>1 DEF ThreadsOK
  <2> QED BY <2>1, <2>2, SetupBounds DEF ThreadOK, Knows
<1>5. \A u \in Threads : ~Idle(th'[u]) =>
        \A i \in Ids : Live(i)' /\ op'[i].key = th'[u].key /\ op'[i].key # Dummy => i = th'[u].id
  BY <1>4 DEF ThreadsOK
<1>6. \A u, v \in Threads : u # v /\ ~Idle(th'[u]) /\ ~Idle(th'[v]) => Allows("multiple") /\ th'[u].key # th'[v].key
  BY <1>4 DEF ThreadsOK
<1>7. Allows("multiple") => \A u \in Threads : ~Idle(th'[u]) => op'[th'[u].id].thread = u /\ th'[u].key # Dummy
  BY <1>4 DEF ThreadsOK
<1> QED BY <1>1, <1>2, <1>3, <1>5, <1>6, <1>7 DEF ThreadsOK

(* A step that changes no list, no pool and no thread's hands.             *)
LEMMA ListsKept ==
  ASSUME MpiRequestsAssumption, ListsOK, RequestsApart, EntriesApart,
         request_table' = request_table, payload' = payload, allocated' = allocated,
         request_free_list' = request_free_list,
         request_table_entry_free_list' = request_table_entry_free_list,
         \A r \in Requests : request'[r].next = request[r].next /\ request'[r].request = request[r].request,
         \A u \in Threads : Hands(u)' = Hands(u)
  PROVE  ListsOK' /\ RequestsApart' /\ EntriesApart' /\ \A k \in Keys : Own(k)' = Own(k)
<1>1. ASSUME NEW k \in Keys PROVE Own(k)' = Own(k) /\ ListOK(k)'
  <2>1. ListOK(k) /\ Range(Own(k)) \subseteq Requests
    BY OwnElements DEF ListsOK
  <2> QED BY <2>1, OwnKept
<1>2. RequestsApart'
  BY <1>1 DEF RequestsApart
<1>3. EntriesApart'
  BY DEF EntriesApart
<1> QED BY <1>1, <1>2, <1>3 DEF ListsOK

(* The types of what a thread has.                                         *)
LEMMA ThreadFields ==
  ASSUME MpiRequestsAssumption, MpiTyped, ThreadsOK, NEW t \in Threads, ~Idle(th[t])
  PROVE  /\ th[t] \in ThreadRecords /\ th[t].key \in Keys /\ th[t].req \in Requests \cup {NULL}
         /\ th[t].value \in Entries \cup {NULL} /\ th[t].id \in Ids /\ th[t].id \in Nat
         /\ DOMAIN th = Threads /\ ThreadOK(t)
         /\ th[t].pc \in Places /\ th[t].after \in Places
<1>1. th[t] \in ThreadRecords /\ DOMAIN th = Threads /\ ThreadOK(t)
  BY DEF MpiTyped, ThreadsOK
<1>3. th[t].id \in Ids
  BY <1>1, SetupBounds DEF ThreadOK, Knows
<1> QED BY <1>1, <1>3 DEF ThreadRecords

(* A thread's place and what it holds, changed one after the other.        *)
LEMMA ThreadUpdates ==
  ASSUME NEW w \in ThreadRecords
  PROVE  /\ \A p \in Places : [w EXCEPT !.pc = p] \in ThreadRecords /\ [w EXCEPT !.after = p] \in ThreadRecords
         /\ \A e \in Entries \cup {NULL} : [w EXCEPT !.value = e] \in ThreadRecords /\ [w EXCEPT !.control = e] \in ThreadRecords
         /\ \A r \in Requests \cup {NULL} : [w EXCEPT !.req = r] \in ThreadRecords
         /\ \A k \in Keys : [w EXCEPT !.key = k] \in ThreadRecords
BY DEF ThreadRecords

(* The record of a thread outside of MPI.                                  *)
LEMMA IdleRecord == MpiRequestsAssumption => IdleThread \in ThreadRecords /\ Idle(IdleThread) /\ ~Holds(IdleThread)
BY DEF MpiRequestsAssumption, IdleThread, ThreadRecords, Places, Idle, Holds, Appending, Releasing

(* Only the thread t moves.                                                *)
LEMMA HandsKept ==
  ASSUME NEW t \in Threads, \A u \in Threads \ {t} : th'[u] = th[u], Hands(t)' = Hands(t)
  PROVE  \A u \in Threads : Hands(u)' = Hands(u)
BY DEF Hands

(* A step in which t changes only what it knows, the state of operations   *)
(* and the flags and marks of requests.                                    *)
LEMMA FrameStep ==
  ASSUME MpiRequestsAssumption, MpiIInv, NEW t \in Threads, ~Idle(th[t]),
         NEW w \in ThreadRecords, th' = [th EXCEPT ![t] = w],
         Idle(w) \/ (w.id = th[t].id /\ w.key = th[t].key /\ Knows(w)),
         Holds(w) <=> Holds(th[t]), Holds(w) => w.req = th[t].req,
         request_table' = request_table, payload' = payload, allocated' = allocated,
         request_free_list' = request_free_list,
         request_table_entry_free_list' = request_table_entry_free_list,
         setup' = setup, mpi_last_request_id' = mpi_last_request_id,
         request' \in [Requests -> RequestRecords],
         \A r \in Requests : request'[r].next = request[r].next /\ request'[r].request = request[r].request,
         op' \in [Ids -> Operations],
         \A i \in Ids : op'[i].key = op[i].key /\ op'[i].thread = op[i].thread /\ (Live(i)' => Live(i)),
         \A i \in Ids : i # th[t].id => op'[i].state = op[i].state,
         Idle(w) \/ w.call # "Start" \/ op'[th[t].id].state = op[th[t].id].state,
         completions' \in [Ids -> Nat]
  PROVE  MpiIInv'
<1>1. th'[t] = w /\ (\A u \in Threads \ {t} : th'[u] = th[u]) /\ th' \in [Threads -> ThreadRecords]
  BY DEF MpiIInv, MpiTyped
<1>2. \A u \in Threads : Hands(u)' = Hands(u)
  <2>1. Hands(t)' = Hands(t)
    BY <1>1 DEF Hands
  <2> QED BY <1>1, <2>1, HandsKept
<1>3. ListsOK' /\ RequestsApart' /\ EntriesApart' /\ \A k \in Keys : Own(k)' = Own(k)
  BY <1>2, ListsKept DEF MpiIInv
<1>4. Idle(th'[t]) \/ (th'[t].id = th[t].id /\ th'[t].key = th[t].key /\ ThreadOK(t)')
  <2> SUFFICES ASSUME ~Idle(w) PROVE th'[t].id = th[t].id /\ th'[t].key = th[t].key /\ ThreadOK(t)'
    BY <1>1
  <2>1. w.id = th[t].id /\ w.key = th[t].key /\ Knows(w)
    OBVIOUS
  <2>2. w.key \in Keys /\ w.id \in Ids
    BY <2>1, ThreadFields DEF MpiIInv
  <2>3. PICK key \in Keys : key = w.key
    BY <2>2
  <2>4. Own(key)' = Own(key) /\ request_table'[key] = request_table[key] /\ op'[w.id].key = op[w.id].key
    BY <1>3, <2>2
  <2>6. w.call = "Start" => op'[w.id].state = op[w.id].state
    BY <2>1
  <2>7. Appending(w) => request'[w.req].request = request[w.req].request
    BY <2>1 DEF Knows, Holds
  <2>5. ThreadOK(t)'
    BY <1>1, <2>1, <2>3, <2>4, <2>6, <2>7 DEF ThreadOK, Knows
  <2> QED BY <1>1, <2>1, <2>5
<1>7. \A u \in Threads \ {t} : Holds(th[u]) => request'[th[u].req].request = request[th[u].req].request
  <2>1. \A u \in Threads : Holds(th[u]) => ~Idle(th[u]) /\ th[u].req \in Requests
    BY DEF MpiIInv, ThreadsOK, ThreadOK, Knows, Idle, Holds, Appending, Releasing
  <2> QED BY <2>1
<1>5. OpsOK' /\ ThreadsOK'
  BY <1>1, <1>3, <1>4, <1>7, OthersKeep DEF MpiIInv
<1>6. MpiTyped'
  <2>1. Ids' = Ids
    BY DEF Ids
  <2> QED BY <1>1, <2>1 DEF MpiIInv, MpiTyped
<1> QED BY <1>3, <1>5, <1>6 DEF MpiIInv

(* A request whose flags change, or whose mark.                            *)
LEMMA FlagUpdates ==
  ASSUME MpiTyped
  PROVE  \A r \in Requests : \A flags \in SUBSET FlagNames :
           /\ [request EXCEPT ![r].flags = flags] \in [Requests -> RequestRecords]
           /\ \A q \in Requests :
                /\ [request EXCEPT ![r].flags = flags][q].next = request[q].next
                /\ [request EXCEPT ![r].flags = flags][q].request = request[q].request
                /\ [request EXCEPT ![r].flags = flags][q].marker = request[q].marker
                /\ [request EXCEPT ![r].flags = flags][q].id = request[q].id
                /\ [request EXCEPT ![r].flags = flags][q].flags = IF q = r THEN flags ELSE request[q].flags
<1>1. request \in [Requests -> RequestRecords]
  BY DEF MpiTyped
<1>2. \A q \in RequestRecords : \A flags \in SUBSET FlagNames :
        /\ [q EXCEPT !.flags = flags] \in RequestRecords
        /\ [q EXCEPT !.flags = flags].next = q.next /\ [q EXCEPT !.flags = flags].request = q.request
        /\ [q EXCEPT !.flags = flags].marker = q.marker /\ [q EXCEPT !.flags = flags].id = q.id
        /\ [q EXCEPT !.flags = flags].flags = flags
  BY DEF RequestRecords
<1> QED BY <1>1, <1>2

(* A step that changes flags leaves links and values as they are.          *)
LEMMA FlagsOnly ==
  ASSUME MpiTyped, NEW r \in Requests, NEW flags \in SUBSET FlagNames, request' = [request EXCEPT ![r].flags = flags]
  PROVE  /\ request' \in [Requests -> RequestRecords]
         /\ \A q \in Requests : request'[q].next = request[q].next /\ request'[q].request = request[q].request
BY FlagUpdates

(* So does one that changes a mark.                                        *)
LEMMA MarkUpdates ==
  ASSUME MpiTyped
  PROVE  \A r \in Requests : \A marker \in BOOLEAN :
           /\ [request EXCEPT ![r].marker = marker] \in [Requests -> RequestRecords]
           /\ \A q \in Requests :
                /\ [request EXCEPT ![r].marker = marker][q].next = request[q].next
                /\ [request EXCEPT ![r].marker = marker][q].request = request[q].request
                /\ [request EXCEPT ![r].marker = marker][q].flags = request[q].flags
                /\ [request EXCEPT ![r].marker = marker][q].id = request[q].id
                /\ [request EXCEPT ![r].marker = marker][q].marker = IF q = r THEN marker ELSE request[q].marker
<1>1. request \in [Requests -> RequestRecords]
  BY DEF MpiTyped
<1>2. \A q \in RequestRecords : \A marker \in BOOLEAN :
        /\ [q EXCEPT !.marker = marker] \in RequestRecords
        /\ [q EXCEPT !.marker = marker].next = q.next /\ [q EXCEPT !.marker = marker].request = q.request
        /\ [q EXCEPT !.marker = marker].flags = q.flags /\ [q EXCEPT !.marker = marker].id = q.id
        /\ [q EXCEPT !.marker = marker].marker = marker
  BY DEF RequestRecords
<1> QED BY <1>1, <1>2

LEMMA MarkSet ==
  ASSUME MpiTyped, NEW m \in Requests, NEW marker \in BOOLEAN,
         request' = [request EXCEPT ![m].marker = marker]
  PROVE  \A r \in Requests :
           /\ request'[r].next = request[r].next /\ request'[r].request = request[r].request
           /\ request'[r].flags = request[r].flags /\ request'[r].id = request[r].id
           /\ r # m => request'[r].marker = request[r].marker
           /\ r = m => request'[r].marker = marker
<1>1. request \in [Requests -> RequestRecords]
  BY DEF MpiTyped
<1>2. request'[m] = [request[m] EXCEPT !.marker = marker] /\ \A r \in Requests \ {m} : request'[r] = request[r]
  BY <1>1
<1>3. PICK q \in RequestRecords : q = request[m]
  BY <1>1
<1>4. PICK marked : marked = [q EXCEPT !.marker = marker]
  OBVIOUS
<1>5. /\ marked.next = q.next /\ marked.request = q.request /\ marked.flags = q.flags /\ marked.id = q.id
      /\ marked.marker = marker
  BY <1>4 DEF RequestRecords
<1>6. request'[m] = marked
  BY <1>2, <1>3, <1>4
<1> QED BY <1>2, <1>3, <1>5, <1>6

(* Nothing but what t knows changes.                                       *)
LEMMA ThreadOnly ==
  ASSUME MpiRequestsAssumption, MpiIInv, NEW t \in Threads, ~Idle(th[t]),
         NEW w \in ThreadRecords, th' = [th EXCEPT ![t] = w],
         Idle(w) \/ (w.id = th[t].id /\ w.key = th[t].key /\ Knows(w)),
         Holds(w) <=> Holds(th[t]), Holds(w) => w.req = th[t].req,
         request_table' = request_table, payload' = payload, allocated' = allocated,
         request_free_list' = request_free_list,
         request_table_entry_free_list' = request_table_entry_free_list,
         setup' = setup, mpi_last_request_id' = mpi_last_request_id,
         request' = request, op' = op, completions' = completions
  PROVE  MpiIInv'
<1>1. \A i \in Ids : Live(i)' => Live(i)
  BY DEF Live
<1> QED BY <1>1, FrameStep DEF MpiIInv, MpiTyped

(* request_table_get and request_table_remove find the entry of the value. *)
LEMMA LookupKeeps == ASSUME MpiRequestsAssumption, MpiIInv, NEW t \in Threads, Lookup(t) PROVE MpiIInv'
<1>1. ~Idle(th[t]) /\ th[t].pc = "lookup"
  BY DEF Lookup, ThreadAt, Idle
<1>2. th[t] \in ThreadRecords /\ ThreadOK(t) /\ DOMAIN th = Threads /\ th[t].key \in Keys
  BY <1>1, ThreadFields DEF MpiIInv
<1>3. CASE request_table[th[t].key] # NULL
  <2> DEFINE w == [th[t] EXCEPT !.pc = "lock", !.value = request_table[th[t].key]]
  <2>1. th' = [th EXCEPT ![t] = w]
    BY <1>3 DEF Lookup
  <2>2. w \in ThreadRecords
    <3>1. request_table[th[t].key] \in Entries \cup {NULL} /\ "lock" \in Places
      BY <1>2 DEF MpiIInv, MpiTyped, Places
    <3> QED BY <1>2, <3>1, ThreadUpdates
  <2>3. w.id = th[t].id /\ w.key = th[t].key /\ Knows(w) /\ ~Holds(w) /\ ~Holds(th[t])
    BY <1>1, <1>2, <1>3 DEF ThreadRecords, ThreadOK, Knows, Inserting, Appending, Getting, Using, Freeing, Releasing, Leaving, Appended, AtEntry, Holds
  <2> QED BY <1>1, <2>1, <2>2, <2>3, ThreadOnly DEF Lookup, poolVars
<1>4. CASE request_table[th[t].key] = NULL
  <2>0. th[t].after = "get"
    <3>1. Getting(th[t]) \/ Freeing(th[t])
      BY <1>1, <1>2 DEF ThreadOK, Knows, Inserting, Appending, Getting, Using, Freeing, Releasing, Leaving, Appended
    <3>2. ~Freeing(th[t])
      <4>1. Range(Own(th[t].key)) = {}
        BY <1>2, <1>4, OwnElements DEF MpiIInv, ListsOK
      <4> QED BY <1>2, <4>1 DEF ThreadOK, Knows
    <3> QED BY <3>1, <3>2 DEF Getting
  <2> DEFINE w == [th[t] EXCEPT !.pc = "use"]
  <2>1. th' = [th EXCEPT ![t] = w]
    BY <1>4, <2>0 DEF Lookup
  <2>2. w \in ThreadRecords
    BY <1>2, ThreadUpdates DEF Places
  <2>3. w.id = th[t].id /\ w.key = th[t].key /\ Knows(w) /\ ~Holds(w) /\ ~Holds(th[t])
    BY <1>1, <1>2, <2>0 DEF ThreadRecords, ThreadOK, Knows, Inserting, Appending, Getting, Using, Freeing, Releasing, Leaving, Appended, AtEntry, Holds
  <2> QED BY <1>1, <2>1, <2>2, <2>3, ThreadOnly DEF Lookup, poolVars
<1> QED BY <1>3, <1>4

(* The lock of the entry is taken.                                         *)
LEMMA LockEntryKeeps == ASSUME MpiRequestsAssumption, MpiIInv, NEW t \in Threads, LockEntry(t) PROVE MpiIInv'
<1>1. ~Idle(th[t]) /\ th[t].pc = "lock"
  BY DEF LockEntry, ThreadAt, Idle
<1>2. th[t] \in ThreadRecords /\ ThreadOK(t) /\ DOMAIN th = Threads /\ th[t].key \in Keys
  BY <1>1, ThreadFields DEF MpiIInv
<1> DEFINE w == [th[t] EXCEPT !.pc = "control"]
<1>3. th' = [th EXCEPT ![t] = w]
  BY DEF LockEntry, MoveTo
<1>4. w \in ThreadRecords
  BY <1>2, ThreadUpdates DEF Places
<1>5. w.id = th[t].id /\ w.key = th[t].key /\ Knows(w) /\ (Holds(w) <=> Holds(th[t])) /\ w.req = th[t].req
  BY <1>1, <1>2 DEF ThreadRecords, ThreadOK, Knows, Inserting, Appending, Getting, Using, Freeing, Releasing, Leaving, Appended, AtEntry, Holds
<1> QED BY <1>1, <1>3, <1>4, <1>5, ThreadOnly DEF LockEntry, poolVars

(* The entry that was looked up is still the one in the table.             *)
LEMMA ControlKeeps == ASSUME MpiRequestsAssumption, MpiIInv, NEW t \in Threads, Control(t) PROVE MpiIInv'
<1>1. ~Idle(th[t]) /\ th[t].pc = "control"
  BY DEF Control, ThreadAt, Idle
<1>2. th[t] \in ThreadRecords /\ ThreadOK(t) /\ DOMAIN th = Threads /\ th[t].key \in Keys
  BY <1>1, ThreadFields DEF MpiIInv
<1>3. request_table[th[t].key] = th[t].value
  BY <1>1, <1>2 DEF ThreadOK, Knows, AtEntry
<1> DEFINE w == [th[t] EXCEPT !.pc = th[t].after]
<1>4. th' = [th EXCEPT ![t] = w]
  BY <1>3 DEF Control
<1>5. w \in ThreadRecords
  BY <1>2, ThreadUpdates DEF ThreadRecords
<1>6. w.id = th[t].id /\ w.key = th[t].key /\ Knows(w) /\ (Holds(w) <=> Holds(th[t])) /\ w.req = th[t].req
  BY <1>1, <1>2 DEF ThreadRecords, ThreadOK, Knows, Inserting, Appending, Getting, Using, Freeing, Releasing, Leaving, Appended, AtEntry, Holds
<1> QED BY <1>1, <1>4, <1>5, <1>6, ThreadOnly DEF Control, poolVars

(* A thread at an entry finds the control value unchanged: the actions for *)
(* an entry that has changed never happen.                                 *)
LEMMA NeverChanged ==
  ASSUME MpiRequestsAssumption, MpiIInv, NEW t \in Threads
  PROVE  ~ControlInsert(t) /\ ~ControlGone(t)
<1> SUFFICES ASSUME th[t].pc = "control", request_table[th[t].key] = NULL PROVE FALSE
  BY DEF ControlInsert, ControlGone, ThreadAt
<1>1. ThreadOK(t)
  BY DEF MpiIInv, ThreadsOK, Idle
<1> QED BY <1>1 DEF ThreadOK, Knows, AtEntry

(* The lock of the entry is released.                                      *)
LEMMA UnlockKeeps == ASSUME MpiRequestsAssumption, MpiIInv, NEW t \in Threads, UnlockEntry(t) PROVE MpiIInv'
<1>1. ~Idle(th[t]) /\ th[t].pc = "unlock"
  BY DEF UnlockEntry, ThreadAt, Idle
<1>2. th[t] \in ThreadRecords /\ ThreadOK(t) /\ DOMAIN th = Threads /\ th[t].key \in Keys
  BY <1>1, ThreadFields DEF MpiIInv
<1> DEFINE w == [th[t] EXCEPT !.pc = th[t].after]
<1>3. th' = [th EXCEPT ![t] = w]
  BY <1>2 DEF UnlockEntry, ThreadOK, Knows
<1>4. w \in ThreadRecords
  BY <1>2, ThreadUpdates DEF ThreadRecords
<1>5. w.id = th[t].id /\ w.key = th[t].key /\ (Idle(w) \/ Knows(w)) /\ (Holds(w) <=> Holds(th[t])) /\ w.req = th[t].req
  BY <1>1, <1>2 DEF ThreadRecords, ThreadOK, Knows, Idle, Inserting, Appending, Getting, Using, Freeing, Releasing, Leaving, Appended, AtEntry, Holds
<1> QED BY <1>1, <1>3, <1>4, <1>5, ThreadOnly DEF UnlockEntry, poolVars

(* The mark is taken off, whatever the request is by now.                  *)
LEMMA UnmarkKeeps == ASSUME MpiRequestsAssumption, MpiIInv, NEW t \in Threads, Unmark(t) PROVE MpiIInv'
<1>1. ~Idle(th[t]) /\ th[t].pc = "unmark"
  BY DEF Unmark, ThreadAt, Idle
<1>2. th[t] \in ThreadRecords /\ ThreadOK(t) /\ DOMAIN th = Threads /\ th[t].req \in Requests \cup {NULL}
  BY <1>1, ThreadFields DEF MpiIInv
<1> DEFINE w == [th[t] EXCEPT !.pc = "return"]
<1>3. th' = [th EXCEPT ![t] = w]
  BY DEF Unmark, MoveTo
<1>4. w \in ThreadRecords
  BY <1>2, ThreadUpdates DEF Places
<1>5. w.id = th[t].id /\ w.key = th[t].key /\ Knows(w) /\ ~Holds(w) /\ ~Holds(th[t])
  BY <1>1, <1>2 DEF ThreadRecords, ThreadOK, Knows, Inserting, Appending, Getting, Using, Freeing, Releasing, Leaving, Appended, AtEntry, Holds
<1>6. /\ request' \in [Requests -> RequestRecords]
      /\ \A r \in Requests : request'[r].next = request[r].next /\ request'[r].request = request[r].request
  <2>1. CASE th[t].req = NULL
    BY <2>1 DEF Unmark, MpiIInv, MpiTyped
  <2>2. CASE th[t].req # NULL
    <3>1. th[t].req \in Requests /\ request' = [request EXCEPT ![th[t].req].marker = FALSE]
      BY <1>2, <2>2 DEF Unmark
    <3> QED BY <3>1, MarkUpdates DEF MpiIInv
  <2> QED BY <2>1, <2>2
<1>7. op' = op /\ completions' = completions /\ \A i \in Ids : Live(i)' => Live(i)
  BY DEF Unmark, Live
<1>8. /\ request_table' = request_table /\ payload' = payload /\ allocated' = allocated
      /\ request_free_list' = request_free_list
      /\ request_table_entry_free_list' = request_table_entry_free_list
      /\ setup' = setup /\ mpi_last_request_id' = mpi_last_request_id
  BY DEF Unmark, poolVars
<1> HIDE DEF w
<1> QED BY <1>1, <1>3, <1>4, <1>5, <1>6, <1>7, <1>8, FrameStep DEF MpiIInv, MpiTyped

(* The request that is marked is in the list.                              *)
LEMMA FirstUnmarkedIsListed ==
  ASSUME NEW s \in Seq(Requests)
  PROVE  \/ FirstUnmarked(s) = NULL /\ \A r \in Range(s) : request[r].marker
         \/ FirstUnmarked(s) \in Range(s) /\ ~request[FirstUnmarked(s)].marker
<1> DEFINE unmarked == {n \in DOMAIN s : ~request[s[n]].marker}
           n == CHOOSE n \in unmarked : \A m \in unmarked : n <= m
<1>1. DOMAIN s = 1 .. Len(s) /\ Len(s) \in Nat
  BY LenProperties
<1>2. CASE unmarked = {}
  <2>1. FirstUnmarked(s) = NULL
    BY <1>2 DEF FirstUnmarked
  <2>2. \A m \in DOMAIN s : request[s[m]].marker
    BY <1>2
  <2> QED BY <2>1, <2>2 DEF Range
<1>3. CASE unmarked # {}
  <2>1. unmarked \subseteq Nat
    BY <1>1
  <2>2. \E m \in unmarked : \A l \in unmarked : m <= l
    <3> HIDE DEF unmarked
    <3> QED BY <1>3, <2>1, LeastNumber
  <2>3. n \in unmarked
    <3> HIDE DEF unmarked
    <3> QED BY <2>2
  <2>4. FirstUnmarked(s) = s[n]
    BY <1>3 DEF FirstUnmarked
  <2> HIDE DEF n
  <2>5. n \in DOMAIN s /\ ~request[s[n]].marker
    BY <2>3
  <2> QED BY <2>4, <2>5 DEF Range
<1> QED BY <1>2, <1>3

(* The first request that is not marked is marked and taken.               *)
LEMMA GetKeeps == ASSUME MpiRequestsAssumption, MpiIInv, NEW t \in Threads, Get(t) PROVE MpiIInv'
<1>1. ~Idle(th[t]) /\ th[t].pc = "get"
  BY DEF Get, ThreadAt, Idle
<1>2. th[t] \in ThreadRecords /\ ThreadOK(t) /\ DOMAIN th = Threads /\ th[t].key \in Keys
  BY <1>1, ThreadFields DEF MpiIInv
<1>3. request_table[th[t].key] = th[t].value /\ th[t].value # NULL
  BY <1>1, <1>2 DEF ThreadOK, Knows, AtEntry
<1>4. List(th[t].value) = Own(th[t].key)
  BY <1>3 DEF Own
<1> DEFINE r == FirstUnmarked(List(th[t].value))
           w == [th[t] EXCEPT !.pc = "unlock", !.after = "use", !.req = r]
<1>5. th' = [th EXCEPT ![t] = w] /\ request' = IF r = NULL THEN request ELSE [request EXCEPT ![r].marker = TRUE]
  BY DEF Get
<1>6. /\ r = NULL \/ r \in Range(Own(th[t].key))
      /\ Range(Own(th[t].key)) \subseteq Requests
  <2>1. Own(th[t].key) \in Seq(Requests) /\ Range(Own(th[t].key)) \subseteq Requests
    BY <1>2, OwnElements DEF MpiIInv, ListsOK
  <2> QED BY <1>4, <2>1, FirstUnmarkedIsListed
<1> HIDE DEF r
<1>7. w \in ThreadRecords
  <2>1. [th[t] EXCEPT !.pc = "unlock"] \in ThreadRecords
    BY <1>2, ThreadUpdates DEF Places
  <2>2. [th[t] EXCEPT !.pc = "unlock", !.after = "use"] \in ThreadRecords
    BY <2>1, ThreadUpdates DEF Places
  <2> QED BY <1>6, <2>2, ThreadUpdates
<1>8. w.id = th[t].id /\ w.key = th[t].key /\ Knows(w) /\ ~Holds(w) /\ ~Holds(th[t])
  <2>1. /\ w.pc = "unlock" /\ w.after = "use" /\ w.req = r /\ w.id = th[t].id /\ w.key = th[t].key
        /\ w.value = th[t].value /\ w.control = th[t].control /\ w.call = th[t].call
    BY <1>2 DEF ThreadRecords
  <2> HIDE DEF w
  <2> QED BY <1>1, <1>2, <1>3, <1>6, <2>1 DEF ThreadOK, Knows, Inserting, Appending, Getting, Using, Freeing, Releasing, Leaving, Appended, AtEntry, Holds
<1>9. /\ request' \in [Requests -> RequestRecords]
      /\ \A q \in Requests : request'[q].next = request[q].next /\ request'[q].request = request[q].request
  <2>1. CASE r = NULL
    BY <1>5, <2>1 DEF MpiIInv, MpiTyped
  <2>2. CASE r # NULL
    <3>1. r \in Requests /\ request' = [request EXCEPT ![r].marker = TRUE]
      BY <1>5, <1>6, <2>2
    <3> QED BY <3>1, MarkUpdates DEF MpiIInv
  <2> QED BY <2>1, <2>2
<1>10. op' = op /\ completions' = completions /\ \A i \in Ids : Live(i)' => Live(i)
  BY DEF Get, Live
<1>11. /\ request_table' = request_table /\ payload' = payload /\ poolVars' = poolVars
       /\ setup' = setup /\ mpi_last_request_id' = mpi_last_request_id
       /\ op' \in [Ids -> Operations] /\ completions' \in [Ids -> Nat]
  BY <1>10 DEF Get, MpiIInv, MpiTyped, poolVars
<1> HIDE DEF w
<1> QED BY <1>1, <1>5, <1>7, <1>8, <1>9, <1>10, <1>11, FrameStep DEF poolVars

(* A wrapper goes on to what it does with its request.                     *)
LEMMA Leaves ==
  ASSUME MpiRequestsAssumption, MpiIInv, NEW t \in Threads, th[t].pc = "use", MoveTo(t, "unmark")
  PROVE  \E w \in ThreadRecords : /\ th' = [th EXCEPT ![t] = w] /\ w.id = th[t].id /\ w.key = th[t].key
                                  /\ w.call = th[t].call /\ Knows(w) /\ ~Holds(w) /\ ~Holds(th[t]) /\ ~Idle(th[t])
<1> DEFINE w == [th[t] EXCEPT !.pc = "unmark"]
<1>1. ~Idle(th[t])
  BY DEF Idle
<1>2. th[t] \in ThreadRecords /\ ThreadOK(t) /\ DOMAIN th = Threads /\ th[t].key \in Keys
  BY <1>1, ThreadFields DEF MpiIInv
<1>3. th' = [th EXCEPT ![t] = w] /\ w \in ThreadRecords
  BY <1>2, ThreadUpdates DEF MoveTo, Places
<1>4. w.id = th[t].id /\ w.key = th[t].key /\ w.call = th[t].call /\ Knows(w) /\ ~Holds(w) /\ ~Holds(th[t])
  BY <1>1, <1>2 DEF ThreadRecords, ThreadOK, Knows, Inserting, Appending, Getting, Using, Freeing, Releasing, Leaving, Appended, AtEntry, Holds
<1> QED BY <1>1, <1>3, <1>4

(* A wrapper begins to free its request.                                   *)
LEMMA StartsToFree ==
  ASSUME MpiRequestsAssumption, MpiIInv, NEW t \in Threads, th[t].pc = "use", th[t].req # NULL, ToFree(t)
  PROVE  \E w \in ThreadRecords : /\ th' = [th EXCEPT ![t] = w] /\ w.id = th[t].id /\ w.key = th[t].key
                                  /\ w.call = th[t].call /\ Knows(w) /\ ~Holds(w) /\ ~Holds(th[t]) /\ ~Idle(th[t])
<1> DEFINE w == [th[t] EXCEPT !.pc = "lookup", !.after = "free", !.key = request[th[t].req].request]
<1>1. ~Idle(th[t])
  BY DEF Idle
<1>2. th[t] \in ThreadRecords /\ ThreadOK(t) /\ DOMAIN th = Threads /\ th[t].key \in Keys
  BY <1>1, ThreadFields DEF MpiIInv
<1>3. th[t].req \in Range(Own(th[t].key))
  BY <1>2 DEF ThreadOK, Knows, Using
<1>4. request[th[t].req].request = th[t].key
  <2>1. request_table[th[t].key] # NULL
    BY <1>2, <1>3, OwnElements DEF MpiIInv, ListsOK
  <2>2. Own(th[t].key) = List(request_table[th[t].key])
    BY <2>1 DEF Own
  <2> QED BY <1>2, <1>3, <2>1, <2>2 DEF MpiIInv, ListsOK, ListOK
<1>5. th' = [th EXCEPT ![t] = w]
  BY DEF ToFree
<1>6. w \in ThreadRecords
  <2>1. [th[t] EXCEPT !.pc = "lookup"] \in ThreadRecords
    BY <1>2, ThreadUpdates DEF Places
  <2>2. [th[t] EXCEPT !.pc = "lookup", !.after = "free"] \in ThreadRecords
    BY <2>1, ThreadUpdates DEF Places
  <2> QED BY <1>2, <1>4, <2>2, ThreadUpdates
<1>7. w.id = th[t].id /\ w.key = th[t].key /\ w.call = th[t].call /\ Knows(w) /\ ~Holds(w) /\ ~Holds(th[t])
  <2>1. /\ w.pc = "lookup" /\ w.after = "free" /\ w.req = th[t].req /\ w.id = th[t].id /\ w.key = th[t].key
        /\ w.value = th[t].value /\ w.control = th[t].control /\ w.call = th[t].call
    BY <1>2, <1>4 DEF ThreadRecords
  <2> HIDE DEF w
  <2> QED BY <1>1, <1>2, <1>3, <2>1 DEF ThreadOK, Knows, Inserting, Appending, Getting, Using, Freeing, Releasing, Leaving, Appended, AtEntry, Holds
<1> QED BY <1>1, <1>5, <1>6, <1>7

(* What the wrappers do with the request leaves the lists as they are.     *)
LEMMA UseKeeps ==
  ASSUME MpiRequestsAssumption, MpiIInv, NEW t \in Threads, th[t].pc = "use",
         (th[t].req # NULL /\ ToFree(t)) \/ MoveTo(t, "unmark"),
         request' = request \/ \E flags \in SUBSET FlagNames :
           th[t].req # NULL /\ request' = [request EXCEPT ![th[t].req].flags = flags],
         request_table' = request_table, payload' = payload, poolVars' = poolVars,
         setup' = setup, mpi_last_request_id' = mpi_last_request_id,
         op' \in [Ids -> Operations],
         \A i \in Ids : op'[i].key = op[i].key /\ op'[i].thread = op[i].thread /\ (Live(i)' => Live(i)),
         \A i \in Ids : i # th[t].id \/ th[t].call = "Start" => op'[i].state = op[i].state,
         completions' \in [Ids -> Nat]
  PROVE  MpiIInv'
<1>1. PICK w \in ThreadRecords : /\ th' = [th EXCEPT ![t] = w] /\ w.id = th[t].id /\ w.key = th[t].key
                                 /\ w.call = th[t].call /\ Knows(w) /\ ~Holds(w) /\ ~Holds(th[t]) /\ ~Idle(th[t])
  BY Leaves, StartsToFree
<1>2. /\ request' \in [Requests -> RequestRecords]
      /\ \A q \in Requests : request'[q].next = request[q].next /\ request'[q].request = request[q].request
  <2>1. CASE request' = request
    BY <2>1 DEF MpiIInv, MpiTyped
  <2>2. CASE request' # request
    <3>1. PICK flags \in SUBSET FlagNames : th[t].req # NULL /\ request' = [request EXCEPT ![th[t].req].flags = flags]
      BY <2>2
    <3>2. th[t].req \in Requests
      BY <1>1, <3>1, ThreadFields DEF MpiIInv
    <3>3. MpiTyped
      BY DEF MpiIInv
    <3>4. PICK r \in Requests : r = th[t].req
      BY <3>2
    <3>5. request' = [request EXCEPT ![r].flags = flags]
      BY <3>1, <3>4
    <3> QED BY <3>3, <3>5, FlagsOnly
  <2> QED BY <2>1, <2>2
<1>3. th[t].id \in Ids
  BY <1>1, ThreadFields DEF MpiIInv
<1>4. /\ \A i \in Ids : i # th[t].id => op'[i].state = op[i].state
      /\ Idle(w) \/ w.call # "Start" \/ op'[th[t].id].state = op[th[t].id].state
  BY <1>1, <1>3
<1>5. Holds(w) <=> Holds(th[t])
  BY <1>1
<1> QED BY <1>1, <1>2, <1>4, <1>5, FrameStep DEF poolVars

(* Completion.                                                             *)
LEMMA UseWaitKeeps == ASSUME MpiRequestsAssumption, MpiIInv, NEW t \in Threads, UseWait(t) PROVE MpiIInv'
<1>1. th[t].pc = "use" /\ th[t].req # NULL
  BY DEF UseWait, ThreadAt
<1>2. th[t].req \in Requests /\ request[th[t].req] \in RequestRecords
  BY <1>1, ThreadFields DEF MpiIInv, MpiTyped, Idle
<1>3. Flags(t) \in SUBSET FlagNames /\ request[th[t].req].id \in Nat
  BY <1>2 DEF Flags, RequestRecords
<1>4. completions' \in [Ids -> Nat]
  <2>1. completions \in [Ids -> Nat]
    BY DEF MpiIInv, MpiTyped
  <2>2. completions' = completions \/ completions' = [completions EXCEPT ![request[th[t].req].id] = @ + 1]
    BY DEF UseWait, Check
  <2> QED BY <2>1, <2>2
<1>5. (th[t].req # NULL /\ ToFree(t)) \/ MoveTo(t, "unmark")
  BY <1>1 DEF UseWait
<1>6. request' = request \/ \E flags \in SUBSET FlagNames :
        th[t].req # NULL /\ request' = [request EXCEPT ![th[t].req].flags = flags]
  <2>1. Flags(t) \ {"IS_ACTIVE", "IS_COMPLETED"} \in SUBSET FlagNames
    BY <1>3
  <2> QED BY <1>1, <2>1 DEF UseWait
<1>7. /\ request_table' = request_table /\ payload' = payload /\ poolVars' = poolVars
      /\ setup' = setup /\ mpi_last_request_id' = mpi_last_request_id /\ op' = op
  BY DEF UseWait, poolVars
<1>8. op' \in [Ids -> Operations] /\ \A i \in Ids : op'[i].key = op[i].key /\ op'[i].thread = op[i].thread /\ (Live(i)' => Live(i))
                                                    /\ ((i # th[t].id \/ th[t].call = "Start") => op'[i].state = op[i].state)
  BY <1>7 DEF Live, MpiIInv, MpiTyped
<1> QED BY <1>1, <1>4, <1>5, <1>6, <1>7, <1>8, UseKeeps

(* MPI_Start.                                                              *)
LEMMA UseStartKeeps == ASSUME MpiRequestsAssumption, MpiIInv, NEW t \in Threads, UseStart(t) PROVE MpiIInv'
<1>1. th[t].pc = "use" /\ th[t].req # NULL
  BY DEF UseStart, ThreadAt
<1>2. th[t].req \in Requests /\ request[th[t].req] \in RequestRecords
  BY <1>1, ThreadFields DEF MpiIInv, MpiTyped, Idle
<1>3. Flags(t) \cup {"IS_ACTIVE"} \in SUBSET FlagNames
  BY <1>2 DEF Flags, RequestRecords, FlagNames
<1>4. request' = request \/ \E flags \in SUBSET FlagNames :
        th[t].req # NULL /\ request' = [request EXCEPT ![th[t].req].flags = flags]
  BY <1>1, <1>3 DEF UseStart, Flags
<1>5. /\ request_table' = request_table /\ payload' = payload /\ poolVars' = poolVars /\ MoveTo(t, "unmark")
      /\ setup' = setup /\ mpi_last_request_id' = mpi_last_request_id /\ op' = op /\ completions' = completions
  BY DEF UseStart, poolVars
<1>6. /\ op' \in [Ids -> Operations] /\ completions' \in [Ids -> Nat]
      /\ \A i \in Ids : op'[i].key = op[i].key /\ op'[i].thread = op[i].thread /\ (Live(i)' => Live(i))
                        /\ ((i # th[t].id \/ th[t].call = "Start") => op'[i].state = op[i].state)
  BY <1>5 DEF Live, MpiIInv, MpiTyped
<1> QED BY <1>1, <1>4, <1>5, <1>6, UseKeeps

(* MPI_Request_free.                                                       *)
LEMMA UseRequestFreeKeeps == ASSUME MpiRequestsAssumption, MpiIInv, NEW t \in Threads, UseRequestFree(t) PROVE MpiIInv'
<1>1. th[t].pc = "use" /\ th[t].req # NULL
  BY DEF UseRequestFree, ThreadAt
<1>2. th[t].req \in Requests /\ request[th[t].req] \in RequestRecords
  BY <1>1, ThreadFields DEF MpiIInv, MpiTyped, Idle
<1>3. Flags(t) \cup {"DEALLOCATE"} \in SUBSET FlagNames
  BY <1>2 DEF Flags, RequestRecords, FlagNames
<1>4. request' = request \/ \E flags \in SUBSET FlagNames :
        th[t].req # NULL /\ request' = [request EXCEPT ![th[t].req].flags = flags]
  BY <1>1, <1>3 DEF UseRequestFree, Flags
<1>5. /\ request_table' = request_table /\ payload' = payload /\ poolVars' = poolVars
      /\ (th[t].req # NULL /\ ToFree(t)) \/ MoveTo(t, "unmark")
      /\ setup' = setup /\ mpi_last_request_id' = mpi_last_request_id /\ op' = op /\ completions' = completions
  BY <1>1 DEF UseRequestFree, poolVars
<1>6. /\ op' \in [Ids -> Operations] /\ completions' \in [Ids -> Nat]
      /\ \A i \in Ids : op'[i].key = op[i].key /\ op'[i].thread = op[i].thread /\ (Live(i)' => Live(i))
                        /\ ((i # th[t].id \/ th[t].call = "Start") => op'[i].state = op[i].state)
  BY <1>5 DEF Live, MpiIInv, MpiTyped
<1> QED BY <1>1, <1>4, <1>5, <1>6, UseKeeps

(* MPI_Request_get_status.                                                 *)
LEMMA UseGetStatusKeeps == ASSUME MpiRequestsAssumption, MpiIInv, NEW t \in Threads, UseGetStatus(t) PROVE MpiIInv'
<1>1. th[t].pc = "use" /\ th[t].req # NULL /\ th[t].call # "Start"
  BY DEF UseGetStatus, ThreadAt
<1>2. th[t].req \in Requests /\ request[th[t].req] \in RequestRecords /\ th[t].id \in Ids
  BY <1>1, ThreadFields DEF MpiIInv, MpiTyped, Idle
<1>3. Flags(t) \cup {"IS_COMPLETED"} \in SUBSET FlagNames /\ request[th[t].req].id \in Nat
  BY <1>2 DEF Flags, RequestRecords, FlagNames
<1>4. request' = request \/ \E flags \in SUBSET FlagNames :
        th[t].req # NULL /\ request' = [request EXCEPT ![th[t].req].flags = flags]
  BY <1>1, <1>3 DEF UseGetStatus, Flags
<1>5. /\ request_table' = request_table /\ payload' = payload /\ poolVars' = poolVars /\ MoveTo(t, "unmark")
      /\ setup' = setup /\ mpi_last_request_id' = mpi_last_request_id
  BY DEF UseGetStatus, poolVars
<1>6. completions' \in [Ids -> Nat]
  <2>1. completions \in [Ids -> Nat]
    BY DEF MpiIInv, MpiTyped
  <2>2. completions' = completions \/ completions' = [completions EXCEPT ![request[th[t].req].id] = @ + 1]
    BY DEF UseGetStatus, Check
  <2> QED BY <2>1, <2>2
<1>7. op' \in [Ids -> Operations] /\ \A i \in Ids : op'[i].key = op[i].key /\ op'[i].thread = op[i].thread /\ (Live(i)' => Live(i))
                                                    /\ ((i # th[t].id \/ th[t].call = "Start") => op'[i].state = op[i].state)
  <2>1. op \in [Ids -> Operations]
    BY DEF MpiIInv, MpiTyped
  <2>2. CASE op[th[t].id].state # "active"
    <3>1. op' = op
      BY <2>2 DEF UseGetStatus
    <3> QED BY <2>1, <3>1 DEF Live
  <2>3. CASE op[th[t].id].state = "active"
    <3> DEFINE o == op[th[t].id]  new == [o EXCEPT !.state = "complete", !.observed = @ + 1]
    <3>1. op' = [op EXCEPT ![th[t].id] = new]
      BY <1>2, <2>1, <2>3 DEF UseGetStatus
    <3>2. o \in Operations /\ o.observed + 1 \in Nat
      BY <1>2, <2>1 DEF Operations
    <3>3. new \in Operations /\ new.key = o.key /\ new.thread = o.thread
      BY <3>2 DEF Operations
    <3> HIDE DEF new
    <3>4. op' \in [Ids -> Operations]
      BY <2>1, <3>1, <3>3
    <3>5. ASSUME NEW i \in Ids
          PROVE  /\ op'[i].key = op[i].key /\ op'[i].thread = op[i].thread /\ (Live(i)' => Live(i))
                 /\ ((i # th[t].id \/ th[t].call = "Start") => op'[i].state = op[i].state)
      <4>1. CASE i = th[t].id
        BY <1>1, <1>2, <2>1, <2>3, <3>1, <3>3, <4>1 DEF Live
      <4>2. CASE i # th[t].id
        BY <2>1, <3>1, <4>2 DEF Live
      <4> QED BY <4>1, <4>2
    <3> QED BY <3>4, <3>5
  <2> QED BY <2>2, <2>3
<1> QED BY <1>1, <1>4, <1>5, <1>6, <1>7, UseKeeps

(* Calls that write nothing.                                               *)
LEMMA UseNothingKeeps == ASSUME MpiRequestsAssumption, MpiIInv, NEW t \in Threads, UseNothing(t) PROVE MpiIInv'
<1>1. /\ th[t].pc = "use" /\ MoveTo(t, "unmark") /\ request' = request
      /\ request_table' = request_table /\ payload' = payload /\ poolVars' = poolVars
      /\ setup' = setup /\ mpi_last_request_id' = mpi_last_request_id /\ op' = op /\ completions' = completions
  BY DEF UseNothing, poolVars, ThreadAt
<1>2. /\ op' \in [Ids -> Operations] /\ completions' \in [Ids -> Nat]
      /\ \A i \in Ids : op'[i].key = op[i].key /\ op'[i].thread = op[i].thread /\ (Live(i)' => Live(i))
                        /\ ((i # th[t].id \/ th[t].call = "Start") => op'[i].state = op[i].state)
  BY <1>1 DEF Live, MpiIInv, MpiTyped
<1> QED BY <1>1, <1>2, UseKeeps

(* The wrapper returns; its operation has started or is over.              *)
LEMMA ReturnKeeps == ASSUME MpiRequestsAssumption, MpiIInv, NEW t \in Threads, ReturnFromMpi(t) PROVE MpiIInv'
<1>1. ~Idle(th[t]) /\ th[t].pc = "return" /\ ~Holds(th[t])
  BY DEF ReturnFromMpi, ThreadAt, Idle, Holds, Appending, Releasing
<1>2. th[t].id \in Ids /\ (th[t].call = "Start" => op[th[t].id].state = "inactive")
  BY <1>1, ThreadFields DEF MpiIInv, ThreadOK, Knows
<1>3. IdleThread \in ThreadRecords /\ Idle(IdleThread) /\ ~Holds(IdleThread)
  BY IdleRecord
<1>4. op' \in [Ids -> Operations] /\ \A i \in Ids : /\ op'[i].key = op[i].key /\ op'[i].thread = op[i].thread
                                              /\ (Live(i)' => Live(i)) /\ (i # th[t].id => op'[i].state = op[i].state)
  <2>1. op \in [Ids -> Operations]
    BY DEF MpiIInv, MpiTyped
  <2>2. PICK new \in Operations : op' = [op EXCEPT ![th[t].id] = new]
                                  /\ new.key = op[th[t].id].key /\ new.thread = op[th[t].id].thread
                                  /\ (new.state \in {"active", "complete", "inactive"} => Live(th[t].id))
    <3> DEFINE o == op[th[t].id]
    <3>1. o \in Operations /\ op = [op EXCEPT ![th[t].id] = o]
      BY <1>2, <2>1
    <3>6. o.starts + 1 \in Nat
      BY <3>1 DEF Operations
    <3> HIDE DEF o
    <3>2. /\ [o EXCEPT !.state = "active", !.starts = @ + 1] \in Operations
          /\ [o EXCEPT !.state = "active", !.starts = @ + 1].key = o.key
          /\ [o EXCEPT !.state = "active", !.starts = @ + 1].thread = o.thread
          /\ [o EXCEPT !.state = "done"] \in Operations
          /\ [o EXCEPT !.state = "done"].state = "done"
          /\ [o EXCEPT !.state = "done"].key = o.key /\ [o EXCEPT !.state = "done"].thread = o.thread
      BY <3>1, <3>6 DEF Operations
    <3>7. o = op[th[t].id]
      BY DEF o
    <3>3. CASE th[t].call = "Start"
      <4>1. op' = [op EXCEPT ![th[t].id] = [o EXCEPT !.state = "active", !.starts = @ + 1]]
        BY <1>2, <2>1, <3>3, <3>7 DEF ReturnFromMpi
      <4> QED BY <1>2, <3>2, <3>3, <3>7, <4>1 DEF Live
    <3>4. CASE th[t].call = "Request_free"
      <4>1. op' = [op EXCEPT ![th[t].id] = [o EXCEPT !.state = "done"]]
        BY <1>2, <2>1, <3>4, <3>7 DEF ReturnFromMpi
      <4> QED BY <3>2, <3>7, <4>1
    <3>5. CASE th[t].call \notin {"Start", "Request_free"}
      <4>1. op' = op
        BY <3>5 DEF ReturnFromMpi
      <4> QED BY <3>1, <3>7, <4>1 DEF Live
    <3> QED BY <3>3, <3>4, <3>5
  <2>3. ASSUME NEW i \in Ids
        PROVE  /\ op'[i].key = op[i].key /\ op'[i].thread = op[i].thread
               /\ (Live(i)' => Live(i)) /\ (i # th[t].id => op'[i].state = op[i].state)
    <3>1. CASE i = th[t].id
      BY <1>2, <2>1, <2>2, <3>1 DEF Live
    <3>2. CASE i # th[t].id
      BY <2>1, <2>2, <3>2 DEF Live
    <3> QED BY <3>1, <3>2
  <2> QED BY <2>1, <2>2, <2>3
<1>5. /\ th' = [th EXCEPT ![t] = IdleThread] /\ request_table' = request_table /\ payload' = payload
      /\ poolVars' = poolVars /\ setup' = setup /\ mpi_last_request_id' = mpi_last_request_id
      /\ request' = request /\ completions' = completions
  BY DEF ReturnFromMpi, poolVars
<1>6. /\ request' \in [Requests -> RequestRecords] /\ completions' \in [Ids -> Nat]
      /\ \A r \in Requests : request'[r].next = request[r].next /\ request'[r].request = request[r].request
  BY <1>5 DEF MpiIInv, MpiTyped
<1>7. /\ allocated' = allocated /\ request_free_list' = request_free_list
      /\ request_table_entry_free_list' = request_table_entry_free_list
  BY <1>5 DEF poolVars
<1> QED BY <1>1, <1>3, <1>4, <1>5, <1>6, <1>7, FrameStep

-----------------------------------------------------------------------------
(* An object taken from its pool, or from the memory.                      *)
LEMMA PoolTaken ==
  ASSUME NEW objects, NEW pool \in Seq(objects), IsInjective(pool), Available(pool, objects)
  PROVE  /\ NewOf(pool, objects) \in objects
         /\ RestOfPool(pool) \in Seq(objects) /\ IsInjective(RestOfPool(pool))
         /\ Range(RestOfPool(pool)) = Range(pool) \ {NewOf(pool, objects)}
         /\ NewOf(pool, objects) \in Range(pool) \/ NewOf(pool, objects) \notin allocated
<1>1. CASE pool # << >>
  <2>1. NewOf(pool, objects) = Head(pool) /\ RestOfPool(pool) = Tail(pool)
    BY <1>1 DEF NewOf, RestOfPool
  <2> QED BY <1>1, <2>1, WithoutHead
<1>2. CASE pool = << >>
  <2>1. RestOfPool(pool) = << >> /\ objects \ allocated # {}
    BY <1>2 DEF RestOfPool, Available
  <2>2. NewOf(pool, objects) \in objects \ allocated
    BY <1>2, <2>1 DEF NewOf
  <2> QED BY <1>2, <2>1, <2>2, EmptyList
<1> QED BY <1>1, <1>2

(* An object given to its pool.                                            *)
LEMMA PoolGiven ==
  ASSUME NEW objects, NEW pool \in Seq(objects), IsInjective(pool), NEW o \in objects, o \notin Range(pool)
  PROVE  /\ <<o>> \o pool \in Seq(objects) /\ IsInjective(<<o>> \o pool)
         /\ Range(<<o>> \o pool) = Range(pool) \cup {o}
         /\ FirstOfPool(pool) \in objects \cup {NULL}
<1>1. FirstOfPool(pool) \in objects \cup {NULL}
  BY HeadTailProperties DEF FirstOfPool
<1> QED BY <1>1, Prepend

(* What a step does to the lists of the other values: it leaves them as    *)
(* they are, but for marks that it takes off.                              *)
SameData(r) == /\ request'[r].id = request[r].id /\ request'[r].flags = request[r].flags
               /\ request'[r].marker => request[r].marker
OthersKept(key) == \A k \in Keys \ {key} : Own(k)' = Own(k) /\ \A r \in Range(Own(k)) : SameData(r)

(* A step in which t changes the list of its value, what it holds, and the *)
(* pools.                                                                  *)
LEMMA MoveStep ==
  ASSUME MpiRequestsAssumption, MpiIInv, NEW t \in Threads, ~Idle(th[t]),
         NEW w \in ThreadRecords, th' = [th EXCEPT ![t] = w],
         Idle(w) \/ (w.id = th[t].id /\ w.key = th[t].key /\ Knows(w)'),
         NEW key \in Keys, key = th[t].key,
         setup' = setup, mpi_last_request_id' = mpi_last_request_id, op' = op, completions' = completions,
         request_table' \in [Keys -> Entries \cup {NULL}],
         payload' \in [Entries -> Requests \cup Entries \cup {NULL}],
         request' \in [Requests -> RequestRecords],
         request_free_list' \in Seq(Requests), request_table_entry_free_list' \in Seq(Entries),
         allocated \subseteq allocated', allocated' \subseteq Requests \cup Entries,
         (* others do not see it *)
         \A k \in Keys \ {key} : request_table'[k] = request_table[k],
         \A e \in Entries : e \in allocated /\ e # request_table[key] /\ e \notin Range(request_table_entry_free_list)
                              => payload'[e] = payload[e],
         \A r \in Requests :
           r \in allocated /\ r \notin Range(Own(key)) /\ r \notin Hands(t) /\ r \notin Range(request_free_list)
             => request'[r] = request[r],
         ListOK(key)',
         IsInjective(request_free_list'), IsInjective(request_table_entry_free_list'),
         Range(Own(key)') \cap Range(request_free_list') = {},
         Range(Own(key)') \cap Hands(t)' = {}, Hands(t)' \cap Range(request_free_list') = {},
         \A r \in Requests :
           r \in Range(Own(key)') \/ r \in Hands(t)' \/ r \in Range(request_free_list')
             <=> \/ r \in Range(Own(key)) \/ r \in Hands(t) \/ r \in Range(request_free_list)
                 \/ r \in allocated' /\ r \notin allocated,
         request_table'[key] \notin Range(request_table_entry_free_list'),
         \A e \in Entries :
           e = request_table'[key] \/ e \in Range(request_table_entry_free_list')
             <=> \/ e = request_table[key] \/ e \in Range(request_table_entry_free_list)
                 \/ (e \in allocated' /\ e \notin allocated)
  PROVE  MpiIInv' /\ OthersKept(key)
<1>1. th'[t] = w /\ (\A u \in Threads \ {t} : th'[u] = th[u]) /\ th' \in [Threads -> ThreadRecords]
  BY DEF MpiIInv, MpiTyped
<1>2. ASSUME NEW k \in Keys \ {key} PROVE Own(k)' = Own(k) /\ ListOK(k)' /\ \A r \in Range(Own(k)) : request'[r] = request[r]
  <2>1. ListOK(k) /\ Range(Own(k)) \subseteq Requests
    BY OwnElements DEF MpiIInv, ListsOK
  <2>2. request_table'[k] = request_table[k]
    BY <1>2
  <2>3. request_table[k] # NULL => payload'[request_table[k]] = payload[request_table[k]]
    <3> SUFFICES ASSUME request_table[k] # NULL PROVE payload'[request_table[k]] = payload[request_table[k]]
      OBVIOUS
    <3>1. PICK e \in Entries : e = request_table[k]
      BY DEF MpiIInv, MpiTyped
    <3>2. e \in allocated /\ e # request_table[key] /\ e \notin Range(request_table_entry_free_list)
      BY <1>2, <3>1 DEF MpiIInv, EntriesApart
    <3> QED BY <3>1, <3>2
  <2>4. \A r \in Range(Own(k)) : request'[r] = request[r]
    <3> SUFFICES ASSUME NEW r \in Range(Own(k)) PROVE request'[r] = request[r]
      OBVIOUS
    <3>1. r \in Requests
      BY <2>1
    <3>2. r \in allocated /\ r \notin Range(Own(key)) /\ r \notin Hands(t) /\ r \notin Range(request_free_list)
      BY <1>2, <3>1 DEF MpiIInv, RequestsApart
    <3> QED BY <3>1, <3>2
  <2> QED BY <2>1, <2>2, <2>3, <2>4, OwnKept
<1>3. ListsOK'
  BY <1>2 DEF ListsOK
<1>4. \A u \in Threads \ {t} : Hands(u)' = Hands(u)
  BY <1>1 DEF Hands
<1>5. RequestsApart'
  <2>1. \A k \in Keys : Range(Own(k)) \subseteq Requests
    BY OwnElements DEF MpiIInv, ListsOK
  <2>2. \A u \in Threads : Hands(u) \subseteq Requests
    <3>1. ASSUME NEW u \in Threads, Holds(th[u]) PROVE th[u].req \in Requests
      <4>1. ~Idle(th[u])
        BY <3>1 DEF Holds, Idle, Appending, Releasing
      <4> QED BY <3>1, <4>1 DEF MpiIInv, ThreadsOK, ThreadOK, Knows
    <3> QED BY <3>1 DEF Hands
  <2>3. Range(request_free_list') \subseteq Requests
    BY RangeOfSeq
  <2>4. Range(Own(key)') \subseteq Requests
    <3>1. request_table'[key] = NULL => Range(Own(key)') = {}
      BY EmptyList DEF Own
    <3>2. request_table'[key] # NULL => Own(key)' \in Seq(Requests)
      BY DEF ListOK, Own, Linked
    <3> QED BY <3>1, <3>2, RangeOfSeq
  <2>5. Hands(t)' \subseteq Requests
    <3>1. Holds(w) => w.req \in Requests
      BY DEF Knows, Holds, Idle, Appending, Releasing
    <3> QED BY <1>1, <3>1 DEF Hands
  <2>6. RequestsApart
    BY DEF MpiIInv
  <2>7. \A k \in Keys \ {key} : Own(k)' = Own(k)
    BY <1>2
  <2> QED BY <1>4, <2>1, <2>2, <2>3, <2>4, <2>5, <2>6, <2>7, RequestsMove
<1>6. EntriesApart'
  <2>1. Range(request_table_entry_free_list') \subseteq Entries /\ EntriesApart /\ request_table \in [Keys -> Entries \cup {NULL}]
    BY RangeOfSeq DEF MpiIInv, MpiTyped
  <2> QED BY <2>1, EntriesMove
<1>7. OpsOK' /\ ThreadsOK'
  <2>1. Idle(th'[t]) \/ (th'[t].id = th[t].id /\ th'[t].key = th[t].key /\ ThreadOK(t)')
    BY <1>1 DEF ThreadOK
  <2>2. \A i \in Ids : op'[i].key = op[i].key /\ op'[i].thread = op[i].thread /\ (Live(i)' => Live(i)) /\ op'[i].state = op[i].state
    BY DEF Live
  <2>3. \A k \in Keys : k # th[t].key => Own(k)' = Own(k) /\ request_table'[k] = request_table[k]
    BY <1>2
  <2>4. MpiTyped /\ OpsOK /\ ThreadsOK
    BY DEF MpiIInv
  <2>5. ASSUME NEW u \in Threads \ {t}, Holds(th[u]) PROVE request'[th[u].req].request = request[th[u].req].request
    <3>1. th[u].req \in Requests /\ Hands(u) = {th[u].req}
      BY <2>5 DEF Hands, Holds, MpiIInv, ThreadsOK, ThreadOK, Knows, Idle, Appending, Releasing
    <3>2. PICK r \in Requests : r = th[u].req
      BY <3>1
    <3>3. r \in allocated /\ r \notin Range(Own(key)) /\ r \notin Hands(t) /\ r \notin Range(request_free_list)
      BY <2>5, <3>1, <3>2 DEF MpiIInv, RequestsApart
    <3> QED BY <3>2, <3>3
  <2> QED BY <1>1, <2>1, <2>2, <2>3, <2>4, <2>5, OthersKeep
<1>8. MpiTyped'
  <2>1. Ids' = Ids
    BY DEF Ids
  <2> QED BY <1>1, <2>1 DEF MpiIInv, MpiTyped
<1>9. OthersKept(key)
  BY <1>2 DEF OthersKept, SameData
<1> QED BY <1>3, <1>5, <1>6, <1>7, <1>8, <1>9 DEF MpiIInv

(* A request whose `next' changes.                                         *)
LEMMA NextOnly ==
  ASSUME MpiTyped, NEW r \in Requests, NEW n \in Requests \cup {NULL},
         request' = [request EXCEPT ![r].next = n]
  PROVE  /\ request' \in [Requests -> RequestRecords]
         /\ \A q \in Requests \ {r} : request'[q] = request[q]
         /\ request'[r].next = n /\ request'[r].request = request[r].request
         /\ request'[r].id = request[r].id /\ request'[r].flags = request[r].flags /\ request'[r].marker = request[r].marker
<1>1. request \in [Requests -> RequestRecords]
  BY DEF MpiTyped
<1>2. \A q \in RequestRecords : /\ [q EXCEPT !.next = n] \in RequestRecords
                                /\ [q EXCEPT !.next = n].next = n
                                /\ [q EXCEPT !.next = n].request = q.request
                                /\ [q EXCEPT !.next = n].id = q.id /\ [q EXCEPT !.next = n].flags = q.flags
                                /\ [q EXCEPT !.next = n].marker = q.marker
  BY DEF RequestRecords
<1> QED BY <1>1, <1>2

(* What is known of the list of a value that a thread works with.          *)
LEMMA ListOfValue ==
  ASSUME MpiRequestsAssumption, MpiIInv, NEW t \in Threads, ~Idle(th[t])
  PROVE  /\ th[t].key \in Keys /\ ListOK(th[t].key)
         /\ Own(th[t].key) \in Seq(Requests) /\ Range(Own(th[t].key)) \subseteq Requests
         /\ Range(Own(th[t].key)) \cap Range(request_free_list) = {}
         /\ Range(Own(th[t].key)) \cap Hands(t) = {} /\ Hands(t) \cap Range(request_free_list) = {}
         /\ request_table[th[t].key] \notin Range(request_table_entry_free_list)
         /\ IsInjective(request_free_list) /\ IsInjective(request_table_entry_free_list)
<1>1. th[t].key \in Keys
  BY ThreadFields DEF MpiIInv
<1>2. PICK key \in Keys : key = th[t].key
  BY <1>1
<1>3. ListOK(key) /\ Own(key) \in Seq(Requests) /\ Range(Own(key)) \subseteq Requests
  BY OwnElements DEF MpiIInv, ListsOK
<1> QED BY <1>2, <1>3 DEF MpiIInv, RequestsApart, EntriesApart

(* A request goes from the thread's hands to the pool.                     *)
LEMMA ReleaseKeeps ==
  ASSUME MpiRequestsAssumption, MpiIInv, NEW t \in Threads, ReleaseRequest(t)
  PROVE  MpiIInv' /\ \E key \in Keys :
            /\ key = th[t].key /\ OthersKept(key)
            /\ Own(key)' = Own(key) /\ \A q \in Range(Own(key)) : SameData(q)
<1>1. ~Idle(th[t]) /\ th[t].pc = "release" /\ Holds(th[t])
  BY DEF ReleaseRequest, ThreadAt, Idle, Holds, Releasing
<1>2. /\ th[t] \in ThreadRecords /\ ThreadOK(t) /\ DOMAIN th = Threads /\ th[t].req \in Requests
      /\ th[t].call # NULL
  BY <1>1, ThreadFields DEF MpiIInv, ThreadOK, Knows, Inserting, Appending, Appended
<1>3. PICK r \in Requests : r = th[t].req
  BY <1>2
<1>4. PICK w \in ThreadRecords : w = [th[t] EXCEPT !.pc = "unmark"]
  BY <1>2, ThreadUpdates DEF Places
<1>5. /\ w.id = th[t].id /\ w.key = th[t].key /\ w.call = th[t].call /\ w.pc = "unmark" /\ w.control = th[t].control
      /\ th' = [th EXCEPT ![t] = w] /\ th'[t] = w
  BY <1>2, <1>4 DEF ThreadRecords, ReleaseRequest
<1>6. PICK key \in Keys : key = th[t].key
  BY <1>1, ListOfValue
<1>7. /\ ListOK(key) /\ Range(Own(key)) \subseteq Requests
      /\ Range(Own(key)) \cap Range(request_free_list) = {}
      /\ Range(Own(key)) \cap Hands(t) = {} /\ Hands(t) \cap Range(request_free_list) = {}
      /\ request_table[key] \notin Range(request_table_entry_free_list)
      /\ IsInjective(request_free_list) /\ IsInjective(request_table_entry_free_list)
  BY <1>1, <1>6, ListOfValue
<1>8. /\ request_table' = request_table /\ payload' = payload /\ allocated' = allocated
      /\ request_table_entry_free_list' = request_table_entry_free_list
      /\ setup' = setup /\ mpi_last_request_id' = mpi_last_request_id /\ op' = op /\ completions' = completions
      /\ request_free_list' = <<r>> \o request_free_list
      /\ request' = [request EXCEPT ![r].next = FirstOfPool(request_free_list)]
  BY <1>3 DEF ReleaseRequest
<1>9. Hands(t) = {r} /\ r \notin Range(request_free_list) /\ r \notin Range(Own(key))
  BY <1>1, <1>3, <1>7 DEF Hands
<1>10. MpiTyped
  BY DEF MpiIInv
<1>11. /\ request_free_list' \in Seq(Requests) /\ IsInjective(request_free_list')
       /\ Range(request_free_list') = Range(request_free_list) \cup {r}
       /\ FirstOfPool(request_free_list) \in Requests \cup {NULL}
  BY <1>7, <1>8, <1>9, <1>10, PoolGiven DEF MpiTyped
<1>12. /\ request' \in [Requests -> RequestRecords]
       /\ \A q \in Requests \ {r} : request'[q] = request[q]
  <2>1. PICK n \in Requests \cup {NULL} : n = FirstOfPool(request_free_list)
    BY <1>11
  <2>2. request' = [request EXCEPT ![r].next = n]
    BY <1>8, <2>1
  <2> QED BY <1>10, <2>2, NextOnly
<1>13. Own(key)' = Own(key) /\ ListOK(key)'
  <2>1. \A q \in Range(Own(key)) : request'[q].next = request[q].next /\ request'[q].request = request[q].request
    BY <1>7, <1>9, <1>12
  <2> QED BY <1>7, <1>8, <2>1, OwnKept
<1>14. Hands(t)' = {} /\ Knows(w)'
  <2>1. ~Holds(w)
    BY <1>5 DEF Holds, Appending, Releasing
  <2>2. Knows(w)'
    BY <1>1, <1>2, <1>5, <1>8 DEF ThreadOK, Knows, Inserting, Appending, Getting, Using, Freeing, Releasing, Leaving, Appended, AtEntry, Holds
  <2> QED BY <1>5, <2>1, <2>2 DEF Hands
<1>15. /\ request_table' \in [Keys -> Entries \cup {NULL}] /\ payload' \in [Entries -> Requests \cup Entries \cup {NULL}]
       /\ request_table_entry_free_list' \in Seq(Entries) /\ allocated' \subseteq Requests \cup Entries
  BY <1>8, <1>10 DEF MpiTyped
<1>16. \A q \in Requests :
         q \in Range(Own(key)') \/ q \in Hands(t)' \/ q \in Range(request_free_list')
           <=> \/ q \in Range(Own(key)) \/ q \in Hands(t) \/ q \in Range(request_free_list)
               \/ q \in allocated' /\ q \notin allocated
  BY <1>8, <1>9, <1>11, <1>13, <1>14
<1>17. \A q \in Requests :
         q \in allocated /\ q \notin Range(Own(key)) /\ q \notin Hands(t) /\ q \notin Range(request_free_list)
           => request'[q] = request[q]
  BY <1>9, <1>12
<1>18. /\ Idle(w) \/ (w.id = th[t].id /\ w.key = th[t].key /\ Knows(w)')
       /\ \A k \in Keys \ {key} : request_table'[k] = request_table[k]
       /\ allocated \subseteq allocated'
       /\ \A e \in Entries : e \in allocated /\ e # request_table[key] /\ e \notin Range(request_table_entry_free_list)
                              => payload'[e] = payload[e]
       /\ Range(Own(key)') \cap Range(request_free_list') = {}
       /\ Range(Own(key)') \cap Hands(t)' = {} /\ Hands(t)' \cap Range(request_free_list') = {}
       /\ IsInjective(request_table_entry_free_list')
       /\ request_table'[key] \notin Range(request_table_entry_free_list')
       /\ \A e \in Entries :
            e = request_table'[key] \/ e \in Range(request_table_entry_free_list')
              <=> \/ e = request_table[key] \/ e \in Range(request_table_entry_free_list)
                  \/ (e \in allocated' /\ e \notin allocated)
  BY <1>5, <1>7, <1>8, <1>9, <1>11, <1>13, <1>14
<1>19. /\ th' = [th EXCEPT ![t] = w] /\ ~Idle(th[t]) /\ ListOK(key)'
       /\ setup' = setup /\ mpi_last_request_id' = mpi_last_request_id /\ op' = op /\ completions' = completions
       /\ request_table' \in [Keys -> Entries \cup {NULL}]
       /\ payload' \in [Entries -> Requests \cup Entries \cup {NULL}]
       /\ request' \in [Requests -> RequestRecords]
       /\ request_free_list' \in Seq(Requests) /\ request_table_entry_free_list' \in Seq(Entries)
       /\ allocated \subseteq allocated' /\ allocated' \subseteq Requests \cup Entries
       /\ IsInjective(request_free_list') /\ IsInjective(request_table_entry_free_list')
  BY <1>1, <1>5, <1>6, <1>8, <1>11, <1>12, <1>13, <1>15, <1>16, <1>17, <1>18
<1>20. MpiIInv' /\ OthersKept(key)
  BY ZenonT(40), <1>6, <1>16, <1>17, <1>18, <1>19, MoveStep
<1>21. \A q \in Range(Own(key)) : SameData(q)
  BY <1>7, <1>9, <1>12 DEF SameData
<1> QED BY <1>6, <1>13, <1>20, <1>21

(* Two requests whose `next' change.                                       *)
LEMMA NextOfTwo ==
  ASSUME MpiTyped, NEW p \in Requests, NEW r \in Requests, p # r,
         request' = [request EXCEPT ![p].next = r, ![r].next = NULL]
  PROVE  /\ request' \in [Requests -> RequestRecords]
         /\ \A q \in Requests \ {p, r} : request'[q] = request[q]
         /\ request'[p].next = r /\ request'[p].request = request[p].request
         /\ request'[r].next = NULL /\ request'[r].request = request[r].request
         /\ request'[p].id = request[p].id /\ request'[p].flags = request[p].flags /\ request'[p].marker = request[p].marker
         /\ request'[r].id = request[r].id /\ request'[r].flags = request[r].flags /\ request'[r].marker = request[r].marker
<1>1. request \in [Requests -> RequestRecords]
  BY DEF MpiTyped
<1>2. \A q \in RequestRecords, n \in Requests \cup {NULL} :
        /\ [q EXCEPT !.next = n] \in RequestRecords
        /\ [q EXCEPT !.next = n].next = n /\ [q EXCEPT !.next = n].request = q.request
        /\ [q EXCEPT !.next = n].id = q.id /\ [q EXCEPT !.next = n].flags = q.flags
        /\ [q EXCEPT !.next = n].marker = q.marker
  BY DEF RequestRecords
<1>3. PICK x \in RequestRecords, y \in RequestRecords : x = [request[p] EXCEPT !.next = r] /\ y = [request[r] EXCEPT !.next = NULL]
  BY <1>1, <1>2
<1>4. /\ x.next = r /\ x.request = request[p].request /\ x.id = request[p].id /\ x.flags = request[p].flags
      /\ x.marker = request[p].marker
      /\ y.next = NULL /\ y.request = request[r].request /\ y.id = request[r].id /\ y.flags = request[r].flags
      /\ y.marker = request[r].marker
  BY <1>1, <1>2, <1>3
<1>5. request' = [request EXCEPT ![p] = x, ![r] = y]
  BY <1>1, <1>3
<1>6. /\ request' \in [Requests -> RequestRecords] /\ \A q \in Requests \ {p, r} : request'[q] = request[q]
      /\ request'[p] = x /\ request'[r] = y
  BY <1>1, <1>5
<1> QED BY <1>4, <1>6

(* A request goes from the thread's hands to the end of its value's list.  *)
LEMMA AppendKeeps ==
  ASSUME MpiRequestsAssumption, MpiIInv, NEW t \in Threads, AppendRequest(t)
  PROVE  MpiIInv' /\ \E key \in Keys, r \in Requests :
            /\ key = th[t].key /\ OthersKept(key)
            /\ r = th[t].req /\ Range(Own(key)') = Range(Own(key)) \cup {r}
            /\ \A q \in Range(Own(key)) \cup {r} : SameData(q)
<1>1. ~Idle(th[t]) /\ th[t].pc = "append"
  BY DEF AppendRequest, ThreadAt, Idle
<1>2. /\ th[t] \in ThreadRecords /\ ThreadOK(t) /\ DOMAIN th = Threads
  BY <1>1, ThreadFields DEF MpiIInv
<1>3. /\ Appending(th[t]) /\ Holds(th[t]) /\ th[t].req \in Requests /\ request[th[t].req].request = th[t].key
      /\ th[t].call = NULL /\ th[t].value = request_table[th[t].key] /\ th[t].value # NULL
  BY <1>1, <1>2 DEF ThreadOK, Knows, Inserting, Appending, Getting, Using, Freeing, Releasing, Leaving, Appended, AtEntry, Holds
<1>4. PICK r \in Requests : r = th[t].req
  BY <1>3
<1>5. PICK key \in Keys : key = th[t].key
  BY <1>1, ListOfValue
<1>6. /\ ListOK(key) /\ Range(Own(key)) \subseteq Requests /\ Own(key) \in Seq(Requests)
      /\ Range(Own(key)) \cap Range(request_free_list) = {}
      /\ Range(Own(key)) \cap Hands(t) = {} /\ Hands(t) \cap Range(request_free_list) = {}
      /\ request_table[key] \notin Range(request_table_entry_free_list)
      /\ IsInjective(request_free_list) /\ IsInjective(request_table_entry_free_list)
  BY <1>1, <1>5, ListOfValue
<1>7. PICK s \in Seq(Requests) : s = Own(key)
  BY <1>6
<1>8. /\ List(th[t].value) = s /\ Linked(s, payload[request_table[key]], request)
      /\ \A q \in Range(s) : request[q].request = key
  BY <1>3, <1>5, <1>6, <1>7 DEF Own, ListOK
<1>9. PICK p \in Requests : p = s[Len(s)] /\ p \in Range(s)
  BY <1>8, WithoutLast DEF Linked
<1>10. PICK w \in ThreadRecords : w = [th[t] EXCEPT !.pc = "unlock", !.after = "idle"]
  BY <1>2, ThreadUpdates DEF Places
<1>11. /\ w.id = th[t].id /\ w.key = th[t].key /\ w.call = NULL /\ w.pc = "unlock" /\ w.after = "idle"
       /\ w.control = th[t].control /\ w.value = th[t].value
       /\ th' = [th EXCEPT ![t] = w] /\ th'[t] = w
  BY <1>2, <1>3, <1>10 DEF ThreadRecords, AppendRequest
<1>12. /\ request_table' = request_table /\ payload' = payload /\ allocated' = allocated
       /\ request_table_entry_free_list' = request_table_entry_free_list
       /\ setup' = setup /\ mpi_last_request_id' = mpi_last_request_id /\ op' = op /\ completions' = completions
       /\ request_free_list' = request_free_list
       /\ request' = [request EXCEPT ![p].next = r, ![r].next = NULL]
  BY <1>4, <1>8, <1>9 DEF AppendRequest, poolVars
<1>13. Hands(t) = {r} /\ r \notin Range(request_free_list) /\ r \notin Range(s)
  BY <1>3, <1>4, <1>6, <1>7 DEF Hands
<1>14. MpiTyped
  BY DEF MpiIInv
<1>15. /\ request' \in [Requests -> RequestRecords]
       /\ \A q \in Requests \ {p, r} : request'[q] = request[q]
       /\ request'[p].next = r /\ request'[p].request = request[p].request
       /\ request'[r].next = NULL /\ request'[r].request = request[r].request
       /\ request'[p].id = request[p].id /\ request'[p].flags = request[p].flags /\ request'[p].marker = request[p].marker
       /\ request'[r].id = request[r].id /\ request'[r].flags = request[r].flags /\ request'[r].marker = request[r].marker
  <2>1. p # r
    BY <1>9, <1>13
  <2> QED BY <1>12, <1>14, <2>1, NextOfTwo
<1>16. Linked(Append(s, r), payload[request_table[key]], request') /\ Range(Append(s, r)) = Range(s) \cup {r}
  <2>1. \A q \in Range(s) \ {s[Len(s)]} : request'[q].next = request[q].next
    BY <1>6, <1>7, <1>9, <1>13, <1>15
  <2>2. request'[s[Len(s)]].next = r
    BY <1>9, <1>15
  <2>3. r \in Requests \ Range(s)
    BY <1>13
  <2>4. AppendedTo(s, r, request, request')
    BY <1>15, <2>1, <2>2 DEF AppendedTo
  <2>5. PICK first : first = payload[request_table[key]]
    OBVIOUS
  <2>6. Linked(s, first, request)
    BY <1>8, <2>5
  <2>7. Linked(Append(s, r), first, request') /\ Range(Append(s, r)) = Range(s) \cup {r}
    BY <2>3, <2>4, <2>6, LinkedAppend
  <2> QED BY <2>5, <2>7
<1>17. Own(key)' = Append(s, r) /\ ListOK(key)'
  <2>1. request_table'[key] # NULL
    BY <1>3, <1>5, <1>12
  <2>2. Linked(Append(s, r), payload'[request_table'[key]], request')
    BY <1>12, <1>16
  <2>3. Own(key)' = Append(s, r) /\ List(request_table[key])' = Append(s, r)
    BY <2>1, <2>2, OwnIs
  <2>4. \A q \in Range(Append(s, r)) : request'[q].request = key
    BY <1>3, <1>4, <1>5, <1>6, <1>7, <1>8, <1>15, <1>16
  <2> QED BY <2>2, <2>3, <2>4 DEF ListOK
<1>18. Hands(t)' = {} /\ Knows(w)'
  <2>1. ~Holds(w)
    BY <1>11 DEF Holds, Appending, Releasing
  <2>2. Knows(w)'
    BY <1>1, <1>2, <1>3, <1>11, <1>12 DEF ThreadOK, Knows, Inserting, Appending, Getting, Using, Freeing, Releasing, Leaving, Appended, AtEntry, Holds
  <2> QED BY <1>11, <2>1, <2>2 DEF Hands
<1>19. /\ request_table' \in [Keys -> Entries \cup {NULL}] /\ payload' \in [Entries -> Requests \cup Entries \cup {NULL}]
       /\ request_table_entry_free_list' \in Seq(Entries) /\ allocated' \subseteq Requests \cup Entries
       /\ request_free_list' \in Seq(Requests)
  BY <1>12, <1>14 DEF MpiTyped
<1>20. /\ \A q \in Requests :
            q \in Range(Own(key)') \/ q \in Hands(t)' \/ q \in Range(request_free_list')
              <=> \/ q \in Range(Own(key)) \/ q \in Hands(t) \/ q \in Range(request_free_list)
                  \/ q \in allocated' /\ q \notin allocated
       /\ \A q \in Requests :
            q \in allocated /\ q \notin Range(Own(key)) /\ q \notin Hands(t) /\ q \notin Range(request_free_list)
              => request'[q] = request[q]
  BY <1>7, <1>9, <1>12, <1>13, <1>15, <1>16, <1>17, <1>18
<1>21. /\ Idle(w) \/ (w.id = th[t].id /\ w.key = th[t].key /\ Knows(w)')
       /\ \A k \in Keys \ {key} : request_table'[k] = request_table[k]
       /\ allocated \subseteq allocated'
       /\ \A e \in Entries : e \in allocated /\ e # request_table[key] /\ e \notin Range(request_table_entry_free_list)
                              => payload'[e] = payload[e]
       /\ Range(Own(key)') \cap Range(request_free_list') = {}
       /\ Range(Own(key)') \cap Hands(t)' = {} /\ Hands(t)' \cap Range(request_free_list') = {}
       /\ IsInjective(request_free_list') /\ IsInjective(request_table_entry_free_list')
       /\ request_table'[key] \notin Range(request_table_entry_free_list')
       /\ \A e \in Entries :
            e = request_table'[key] \/ e \in Range(request_table_entry_free_list')
              <=> \/ e = request_table[key] \/ e \in Range(request_table_entry_free_list)
                  \/ (e \in allocated' /\ e \notin allocated)
  BY <1>6, <1>7, <1>11, <1>12, <1>13, <1>16, <1>17, <1>18
<1>22. /\ th' = [th EXCEPT ![t] = w] /\ ~Idle(th[t]) /\ ListOK(key)'
       /\ setup' = setup /\ mpi_last_request_id' = mpi_last_request_id /\ op' = op /\ completions' = completions
       /\ request_table' \in [Keys -> Entries \cup {NULL}]
       /\ payload' \in [Entries -> Requests \cup Entries \cup {NULL}]
       /\ request' \in [Requests -> RequestRecords]
       /\ request_free_list' \in Seq(Requests) /\ request_table_entry_free_list' \in Seq(Entries)
       /\ allocated \subseteq allocated' /\ allocated' \subseteq Requests \cup Entries
       /\ IsInjective(request_free_list') /\ IsInjective(request_table_entry_free_list')
  BY <1>1, <1>5, <1>11, <1>12, <1>15, <1>17, <1>19, <1>20, <1>21
<1>23. MpiIInv' /\ OthersKept(key)
  BY ZenonT(40), <1>5, <1>20, <1>21, <1>22, MoveStep
<1>24. \A q \in Range(Own(key)) \cup {r} : SameData(q)
  BY <1>6, <1>7, <1>13, <1>15 DEF SameData
<1> QED BY <1>4, <1>5, <1>7, <1>16, <1>17, <1>23, <1>24

(* A request is unlinked: from its value's list to the thread's hands.     *)
LEMMA FreeOneKeeps ==
  ASSUME MpiRequestsAssumption, MpiIInv, NEW t \in Threads, FreeOne(t)
  PROVE  MpiIInv' /\ \E key \in Keys, r \in Requests :
            /\ key = th[t].key /\ OthersKept(key)
            /\ r = th[t].req /\ Range(Own(key)') = Range(Own(key)) \ {r} /\ Own(key) # <<r>>
            /\ th'[t].after = "release"
            /\ \A q \in Range(Own(key)) : SameData(q)
<1>1. ~Idle(th[t]) /\ th[t].pc = "free"
  BY DEF FreeOne, ThreadAt, Idle
<1>2. /\ th[t] \in ThreadRecords /\ ThreadOK(t) /\ DOMAIN th = Threads
  BY <1>1, ThreadFields DEF MpiIInv
<1>3. /\ Freeing(th[t]) /\ ~Holds(th[t]) /\ th[t].req \in Range(Own(th[t].key)) /\ th[t].call # NULL
      /\ th[t].value = request_table[th[t].key] /\ th[t].value # NULL
  BY <1>1, <1>2 DEF ThreadOK, Knows, Inserting, Appending, Getting, Using, Freeing, Releasing, Leaving, Appended, AtEntry, Holds
<1>4. PICK key \in Keys : key = th[t].key
  BY <1>1, ListOfValue
<1>5. /\ ListOK(key) /\ Range(Own(key)) \subseteq Requests /\ Own(key) \in Seq(Requests)
      /\ Range(Own(key)) \cap Range(request_free_list) = {}
      /\ request_table[key] \notin Range(request_table_entry_free_list)
      /\ IsInjective(request_free_list) /\ IsInjective(request_table_entry_free_list)
  BY <1>1, <1>4, ListOfValue
<1>6. PICK s \in Seq(Requests) : s = Own(key)
  BY <1>5
<1>7. PICK r \in Requests : r = th[t].req /\ r \in Range(s)
  BY <1>3, <1>4, <1>5, <1>6
<1>8. /\ List(th[t].value) = s /\ Linked(s, payload[request_table[key]], request)
      /\ \A q \in Range(s) : request[q].request = key
      /\ s[1] = payload[request_table[key]] /\ IsInjective(s) /\ s # << >>
  BY <1>3, <1>4, <1>5, <1>6 DEF Own, ListOK, Linked
<1>9. DOMAIN s = 1 .. Len(s) /\ Len(s) \in Nat \ {0} /\ \A i \in 1 .. Len(s) : s[i] \in Requests
  BY <1>8, LenProperties, EmptySeq, ElementOfSeq
<1>10. PICK n \in 1 .. Len(s) : n = (CHOOSE m \in DOMAIN s : s[m] = r) /\ s[n] = r
  <2>1. \E m \in DOMAIN s : s[m] = r
    BY <1>7 DEF Range
  <2>2. (CHOOSE m \in DOMAIN s : s[m] = r) \in DOMAIN s /\ s[CHOOSE m \in DOMAIN s : s[m] = r] = r
    BY <2>1
  <2> QED BY <1>9, <2>2
<1>11. Len(s) # 1
  <2> SUFFICES ASSUME Len(s) = 1 PROVE FALSE
    OBVIOUS
  <2>1. s[n] = r
    BY <1>10
  <2>3. n \in 1 .. 1
    OBVIOUS
  <2>4. n = 1
    BY <2>3
  <2>2. s = <<r>>
    BY <1>9, <2>1, <2>4
  <2> QED BY <1>7, <1>8, <2>2 DEF FreeOne
<1>12. PICK w \in ThreadRecords : w = [th[t] EXCEPT !.pc = "unlock", !.after = "release"]
  BY <1>2, ThreadUpdates DEF Places
<1>13. /\ w.id = th[t].id /\ w.key = th[t].key /\ w.call = th[t].call /\ w.pc = "unlock" /\ w.after = "release"
       /\ w.control = th[t].control /\ w.value = th[t].value /\ w.req = r
       /\ th' = [th EXCEPT ![t] = w] /\ th'[t] = w
  BY <1>2, <1>7, <1>8, <1>12 DEF ThreadRecords, FreeOne
<1>14. /\ request_table' = request_table /\ allocated' = allocated
       /\ request_table_entry_free_list' = request_table_entry_free_list
       /\ setup' = setup /\ mpi_last_request_id' = mpi_last_request_id /\ op' = op /\ completions' = completions
       /\ request_free_list' = request_free_list
       /\ payload' = IF n = 1 THEN [payload EXCEPT ![th[t].value] = request[r].next] ELSE payload
       /\ request' = IF n # 1 THEN [request EXCEPT ![s[n - 1]].next = request[r].next] ELSE request
  BY <1>7, <1>8, <1>10 DEF FreeOne, poolVars
<1>15. MpiTyped /\ request[r].next \in Requests \cup {NULL}
  BY DEF MpiIInv, MpiTyped, RequestRecords
<1>16. /\ request' \in [Requests -> RequestRecords]
       /\ \A q \in Requests : request'[q].request = request[q].request
       /\ \A q \in Requests : request'[q].id = request[q].id /\ request'[q].flags = request[q].flags /\ request'[q].marker = request[q].marker
       /\ \A i \in 1 .. Len(s) : i # n - 1 \/ n = 1 => request'[s[i]] = request[s[i]]
       /\ n # 1 => request'[s[n - 1]].next = request[r].next
       /\ \A q \in Requests \ Range(s) : request'[q] = request[q]
  <2>1. CASE n = 1
    BY <1>14, <1>15, <2>1 DEF MpiTyped
  <2>2. CASE n # 1
    <3>1. n - 1 \in 1 .. Len(s)
      BY <1>9, <2>2
    <3>2. PICK m \in 1 .. Len(s) : m = n - 1
      BY <3>1
    <3>3. PICK p \in Requests : p = s[m] /\ p \in Range(s)
      BY <1>9, <3>2 DEF Range
    <3>4. PICK x \in Requests \cup {NULL} : x = request[r].next
      BY <1>15
    <3>5. request' = [request EXCEPT ![p].next = x]
      BY <1>14, <2>2, <3>2, <3>3, <3>4
    <3>6. /\ request' \in [Requests -> RequestRecords]
          /\ \A q \in Requests \ {p} : request'[q] = request[q]
          /\ request'[p].next = x /\ request'[p].request = request[p].request
          /\ request'[p].id = request[p].id /\ request'[p].flags = request[p].flags /\ request'[p].marker = request[p].marker
      BY <1>15, <3>5, NextOnly
    <3>7. \A i \in 1 .. Len(s) : i # m => s[i] # p
      BY <1>8, <1>9, <3>3 DEF IsInjective
    <3> QED BY <1>9, <2>2, <3>2, <3>3, <3>4, <3>6, <3>7
  <2> QED BY <2>1, <2>2
<1>17. /\ Linked(Without(s, n), payload'[request_table[key]], request')
       /\ Range(Without(s, n)) = Range(s) \ {r}
  <2>0. PICK others : others = request'
    OBVIOUS
  <2>1. UnlinkedFrom(s, n, request, others)
    BY <1>10, <1>16, <2>0 DEF UnlinkedFrom
  <2>2. PICK first : first = payload[request_table[key]]
    OBVIOUS
  <2>3. Linked(s, first, request)
    BY <1>8, <2>2
  <2>4. PICK start : start = payload'[request_table[key]]
    OBVIOUS
  <2>5. start = IF n = 1 THEN request[first].next ELSE first
    <3>1. request_table[key] \in Entries /\ payload \in [Entries -> Requests \cup Entries \cup {NULL}]
      BY <1>3, <1>4, <1>15 DEF MpiTyped
    <3>2. n = 1 => first = r
      BY <1>8, <1>10, <2>2
    <3> QED BY <1>3, <1>4, <1>14, <2>2, <2>4, <3>1, <3>2
  <2>6. Linked(Without(s, n), start, others) /\ Range(Without(s, n)) = Range(s) \ {s[n]}
    BY <1>11, <2>1, <2>3, <2>5, LinkedWithout
  <2> QED BY <1>10, <2>0, <2>4, <2>6
<1>18. Own(key)' = Without(s, n) /\ ListOK(key)'
  <2>1. request_table'[key] # NULL
    BY <1>3, <1>4, <1>14
  <2>2. Linked(Without(s, n), payload'[request_table'[key]], request')
    BY <1>14, <1>17
  <2>3. Own(key)' = Without(s, n) /\ List(request_table[key])' = Without(s, n)
    BY <2>1, <2>2, OwnIs
  <2>4. \A q \in Range(Without(s, n)) : request'[q].request = key
    BY <1>5, <1>6, <1>8, <1>16, <1>17
  <2> QED BY <2>2, <2>3, <2>4 DEF ListOK
<1>19. Hands(t) = {} /\ Hands(t)' = {r} /\ Knows(w)'
  <2>1. Holds(w)
    BY <1>13 DEF Holds, Releasing
  <2>2. Knows(w)'
    BY <1>1, <1>2, <1>3, <1>13, <1>14 DEF ThreadOK, Knows, Inserting, Appending, Getting, Using, Freeing, Releasing, Leaving, Appended, AtEntry, Holds
  <2> QED BY <1>3, <1>13, <2>1, <2>2 DEF Hands
<1>20. /\ request_table' \in [Keys -> Entries \cup {NULL}] /\ payload' \in [Entries -> Requests \cup Entries \cup {NULL}]
       /\ request_table_entry_free_list' \in Seq(Entries) /\ allocated' \subseteq Requests \cup Entries
       /\ request_free_list' \in Seq(Requests)
  <2>1. payload' \in [Entries -> Requests \cup Entries \cup {NULL}]
    <3>1. payload \in [Entries -> Requests \cup Entries \cup {NULL}]
      BY <1>15 DEF MpiTyped
    <3> QED BY <1>14, <1>15, <3>1
  <2> QED BY <1>14, <1>15, <2>1 DEF MpiTyped
<1>21. /\ \A q \in Requests :
            q \in Range(Own(key)') \/ q \in Hands(t)' \/ q \in Range(request_free_list')
              <=> \/ q \in Range(Own(key)) \/ q \in Hands(t) \/ q \in Range(request_free_list)
                  \/ q \in allocated' /\ q \notin allocated
       /\ \A q \in Requests :
            q \in allocated /\ q \notin Range(Own(key)) /\ q \notin Hands(t) /\ q \notin Range(request_free_list)
              => request'[q] = request[q]
  BY <1>6, <1>7, <1>14, <1>16, <1>17, <1>18, <1>19
<1>22. /\ Idle(w) \/ (w.id = th[t].id /\ w.key = th[t].key /\ Knows(w)')
       /\ \A k \in Keys \ {key} : request_table'[k] = request_table[k]
       /\ allocated \subseteq allocated'
       /\ \A e \in Entries : e \in allocated /\ e # request_table[key] /\ e \notin Range(request_table_entry_free_list)
                              => payload'[e] = payload[e]
       /\ Range(Own(key)') \cap Range(request_free_list') = {}
       /\ Range(Own(key)') \cap Hands(t)' = {} /\ Hands(t)' \cap Range(request_free_list') = {}
       /\ IsInjective(request_free_list') /\ IsInjective(request_table_entry_free_list')
       /\ request_table'[key] \notin Range(request_table_entry_free_list')
       /\ \A e \in Entries :
            e = request_table'[key] \/ e \in Range(request_table_entry_free_list')
              <=> \/ e = request_table[key] \/ e \in Range(request_table_entry_free_list)
                  \/ (e \in allocated' /\ e \notin allocated)
  <2>1. \A e \in Entries : e # request_table[key] => payload'[e] = payload[e]
    BY <1>3, <1>4, <1>14, <1>15 DEF MpiTyped
  <2> QED BY <1>5, <1>6, <1>7, <1>13, <1>14, <1>17, <1>18, <1>19, <2>1
<1>23. /\ th' = [th EXCEPT ![t] = w] /\ ~Idle(th[t]) /\ ListOK(key)'
       /\ setup' = setup /\ mpi_last_request_id' = mpi_last_request_id /\ op' = op /\ completions' = completions
       /\ request_table' \in [Keys -> Entries \cup {NULL}]
       /\ payload' \in [Entries -> Requests \cup Entries \cup {NULL}]
       /\ request' \in [Requests -> RequestRecords]
       /\ request_free_list' \in Seq(Requests) /\ request_table_entry_free_list' \in Seq(Entries)
       /\ allocated \subseteq allocated' /\ allocated' \subseteq Requests \cup Entries
       /\ IsInjective(request_free_list') /\ IsInjective(request_table_entry_free_list')
  BY <1>1, <1>4, <1>13, <1>14, <1>16, <1>18, <1>20, <1>21, <1>22
<1>24. MpiIInv' /\ OthersKept(key)
  BY ZenonT(40), <1>4, <1>21, <1>22, <1>23, MoveStep
<1>25. \A q \in Range(Own(key)) : SameData(q)
  BY <1>5, <1>6, <1>16 DEF SameData
<1>26. Own(key) # <<r>>
  BY <1>6, <1>7, <1>8 DEF FreeOne
<1> QED BY <1>4, <1>6, <1>7, <1>13, <1>17, <1>18, <1>24, <1>25, <1>26

(* The last request and its entry go to their pools.                       *)
LEMMA FreeLastKeeps ==
  ASSUME MpiRequestsAssumption, MpiIInv, NEW t \in Threads, FreeLast(t)
  PROVE  MpiIInv' /\ \E key \in Keys, r \in Requests :
            /\ key = th[t].key /\ OthersKept(key)
            /\ r = th[t].req /\ Own(key) = <<r>> /\ Range(Own(key)) = {r} /\ Own(key)' = << >>
            /\ errors' = errors
<1>1. ~Idle(th[t]) /\ th[t].pc = "free"
  BY DEF FreeLast, ThreadAt, Idle
<1>2. /\ th[t] \in ThreadRecords /\ ThreadOK(t) /\ DOMAIN th = Threads
  BY <1>1, ThreadFields DEF MpiIInv
<1>3. /\ Freeing(th[t]) /\ ~Holds(th[t]) /\ th[t].req \in Range(Own(th[t].key)) /\ th[t].call # NULL
      /\ th[t].value = request_table[th[t].key] /\ th[t].value # NULL
  BY <1>1, <1>2 DEF ThreadOK, Knows, Inserting, Appending, Getting, Using, Freeing, Releasing, Leaving, Appended, AtEntry, Holds
<1>4. PICK key \in Keys : key = th[t].key
  BY <1>1, ListOfValue
<1>5. /\ ListOK(key) /\ Range(Own(key)) \subseteq Requests
      /\ Range(Own(key)) \cap Range(request_free_list) = {}
      /\ request_table[key] \notin Range(request_table_entry_free_list)
      /\ IsInjective(request_free_list) /\ IsInjective(request_table_entry_free_list)
  BY <1>1, <1>4, ListOfValue
<1>6. MpiTyped
  BY DEF MpiIInv
<1>7. PICK e \in Entries : e = request_table[key] /\ e # NULL /\ e = th[t].value
  BY <1>3, <1>4, <1>6 DEF MpiTyped
<1>8. PICK r \in Requests : r = th[t].req
  BY <1>3, <1>4, <1>5
<1>9. Own(key) = <<r>> /\ Range(Own(key)) = {r} /\ payload[e] = r
  <2>1. Own(key) = <<r>>
    BY <1>4, <1>7, <1>8 DEF FreeLast, Own
  <2>2. Linked(Own(key), payload[e], request)
    BY <1>5, <1>7 DEF ListOK, Own
  <2>3. DOMAIN <<r>> = 1 .. 1 /\ \A i \in 1 .. 1 : <<r>>[i] = r
    OBVIOUS
  <2>4. Range(<<r>>) = {r}
    BY <2>3 DEF Range
  <2> QED BY <2>1, <2>2, <2>4 DEF Linked
<1>10. PICK w \in ThreadRecords : w = [th[t] EXCEPT !.pc = "unlock", !.after = "unmark"]
  BY <1>2, ThreadUpdates DEF Places
<1>11. /\ w.id = th[t].id /\ w.key = th[t].key /\ w.call = th[t].call /\ w.pc = "unlock" /\ w.after = "unmark"
       /\ w.control = th[t].control /\ w.value = th[t].value
       /\ th' = [th EXCEPT ![t] = w] /\ th'[t] = w
  BY <1>2, <1>10 DEF ThreadRecords, FreeLast
<1>12. /\ request_table' = [request_table EXCEPT ![key] = NULL] /\ allocated' = allocated
       /\ request_table_entry_free_list' = <<e>> \o request_table_entry_free_list
       /\ setup' = setup /\ mpi_last_request_id' = mpi_last_request_id /\ op' = op /\ completions' = completions
       /\ request_free_list' = <<r>> \o request_free_list
       /\ payload' = [payload EXCEPT ![e] = FirstOfPool(request_table_entry_free_list)]
       /\ request' = [request EXCEPT ![r].next = FirstOfPool(request_free_list)]
  BY <1>4, <1>7, <1>9 DEF FreeLast, Destroy
<1>13. /\ request_free_list' \in Seq(Requests) /\ IsInjective(request_free_list')
       /\ Range(request_free_list') = Range(request_free_list) \cup {r}
       /\ FirstOfPool(request_free_list) \in Requests \cup {NULL}
  <2>1. r \notin Range(request_free_list)
    BY <1>5, <1>9
  <2> QED BY <1>5, <1>6, <1>12, <2>1, PoolGiven DEF MpiTyped
<1>14. /\ request_table_entry_free_list' \in Seq(Entries) /\ IsInjective(request_table_entry_free_list')
       /\ Range(request_table_entry_free_list') = Range(request_table_entry_free_list) \cup {e}
       /\ FirstOfPool(request_table_entry_free_list) \in Entries \cup {NULL}
  <2>1. e \notin Range(request_table_entry_free_list)
    BY <1>5, <1>7
  <2> QED BY <1>5, <1>6, <1>12, <2>1, PoolGiven DEF MpiTyped
<1>15. /\ request' \in [Requests -> RequestRecords]
       /\ \A q \in Requests \ {r} : request'[q] = request[q]
  <2>1. PICK n \in Requests \cup {NULL} : n = FirstOfPool(request_free_list)
    BY <1>13
  <2>2. request' = [request EXCEPT ![r].next = n]
    BY <1>12, <2>1
  <2> QED BY <1>6, <2>2, NextOnly
<1>16. /\ request_table' \in [Keys -> Entries \cup {NULL}] /\ request_table'[key] = NULL
       /\ \A k \in Keys \ {key} : request_table'[k] = request_table[k]
       /\ payload' \in [Entries -> Requests \cup Entries \cup {NULL}]
       /\ \A d \in Entries \ {e} : payload'[d] = payload[d]
       /\ allocated' \subseteq Requests \cup Entries
  BY <1>6, <1>12, <1>14 DEF MpiTyped
<1>17. Own(key)' = << >> /\ Range(Own(key)') = {} /\ ListOK(key)'
  BY <1>16, EmptyList DEF Own, ListOK
<1>18. Hands(t) = {} /\ Hands(t)' = {} /\ Knows(w)'
  <2>1. ~Holds(w)
    BY <1>11 DEF Holds, Appending, Releasing
  <2>2. Knows(w)'
    BY <1>1, <1>2, <1>3, <1>11, <1>12 DEF ThreadOK, Knows, Inserting, Appending, Getting, Using, Freeing, Releasing, Leaving, Appended, AtEntry, Holds
  <2> QED BY <1>3, <1>11, <2>1, <2>2 DEF Hands
<1>19. /\ \A q \in Requests :
            q \in Range(Own(key)') \/ q \in Hands(t)' \/ q \in Range(request_free_list')
              <=> \/ q \in Range(Own(key)) \/ q \in Hands(t) \/ q \in Range(request_free_list)
                  \/ q \in allocated' /\ q \notin allocated
       /\ \A q \in Requests :
            q \in allocated /\ q \notin Range(Own(key)) /\ q \notin Hands(t) /\ q \notin Range(request_free_list)
              => request'[q] = request[q]
  BY <1>9, <1>12, <1>13, <1>15, <1>17, <1>18
<1>20. /\ Idle(w) \/ (w.id = th[t].id /\ w.key = th[t].key /\ Knows(w)')
       /\ allocated \subseteq allocated'
       /\ \A d \in Entries : d \in allocated /\ d # request_table[key] /\ d \notin Range(request_table_entry_free_list)
                              => payload'[d] = payload[d]
       /\ Range(Own(key)') \cap Range(request_free_list') = {}
       /\ Range(Own(key)') \cap Hands(t)' = {} /\ Hands(t)' \cap Range(request_free_list') = {}
       /\ request_table'[key] \notin Range(request_table_entry_free_list')
       /\ \A d \in Entries :
            d = request_table'[key] \/ d \in Range(request_table_entry_free_list')
              <=> \/ d = request_table[key] \/ d \in Range(request_table_entry_free_list)
                  \/ (d \in allocated' /\ d \notin allocated)
  <2>1. NULL \notin Entries
    BY DEF MpiRequestsAssumption
  <2>2. Range(request_table_entry_free_list) \subseteq Entries
    BY <1>6, RangeOfSeq DEF MpiTyped
  <2> QED BY <1>7, <1>11, <1>12, <1>14, <1>16, <1>17, <1>18, <2>1, <2>2
<1>21. /\ th' = [th EXCEPT ![t] = w] /\ ~Idle(th[t]) /\ ListOK(key)'
       /\ setup' = setup /\ mpi_last_request_id' = mpi_last_request_id /\ op' = op /\ completions' = completions
       /\ request_table' \in [Keys -> Entries \cup {NULL}]
       /\ payload' \in [Entries -> Requests \cup Entries \cup {NULL}]
       /\ request' \in [Requests -> RequestRecords]
       /\ request_free_list' \in Seq(Requests) /\ request_table_entry_free_list' \in Seq(Entries)
       /\ allocated \subseteq allocated' /\ allocated' \subseteq Requests \cup Entries
       /\ IsInjective(request_free_list') /\ IsInjective(request_table_entry_free_list')
       /\ \A k \in Keys \ {key} : request_table'[k] = request_table[k]
  BY <1>1, <1>4, <1>11, <1>12, <1>13, <1>14, <1>15, <1>16, <1>17, <1>19, <1>20
<1>22. MpiIInv' /\ OthersKept(key)
  BY ZenonT(40), <1>4, <1>19, <1>20, <1>21, MoveStep
<1>23. errors' = errors
  BY <1>4, <1>7 DEF FreeLast
<1> QED BY <1>4, <1>8, <1>9, <1>17, <1>22, <1>23

(* What the wrapper enters.                                                *)
LEMMA DataTyped ==
  ASSUME MpiRequestsAssumption, MpiTyped, NEW i \in Ids, i \in Nat
  PROVE  /\ DataOf(i) \in RequestRecords /\ DataOf(i).request = op[i].key /\ DataOf(i).next = NULL
         /\ DataOf(i).id = i /\ DataOf(i).marker = FALSE
         /\ DataOf(i).flags = IF op[i].persistent THEN {"IS_PERSISTENT"} ELSE {}
<1>1. op[i].key \in Keys
  BY DEF MpiTyped, Operations
<1>2. (IF op[i].persistent THEN {"IS_PERSISTENT"} ELSE {}) \in SUBSET FlagNames
  BY DEF FlagNames
<1> QED BY <1>1, <1>2 DEF DataOf, RequestRecords

(* A request that was taken is in no other place.                          *)
LEMMA TakenRequest ==
  ASSUME MpiRequestsAssumption, MpiIInv, NEW t \in Threads, ~Idle(th[t]), ~Holds(th[t]),
         Available(request_free_list, Requests)
  PROVE  \E r \in Requests :
           /\ r = NewOf(request_free_list, Requests)
           /\ RestOfPool(request_free_list) \in Seq(Requests) /\ IsInjective(RestOfPool(request_free_list))
           /\ Range(RestOfPool(request_free_list)) = Range(request_free_list) \ {r}
           /\ r \in Range(request_free_list) \/ r \notin allocated
           /\ r \notin Range(Own(th[t].key))
           /\ Range(Own(th[t].key)) \subseteq allocated /\ Range(request_free_list) \subseteq allocated
<1>1. PICK key \in Keys : key = th[t].key
  BY ListOfValue
<1>2. Range(Own(key)) \cap Range(request_free_list) = {} /\ Range(Own(key)) \subseteq Requests /\ IsInjective(request_free_list)
  BY <1>1, ListOfValue
<1>3. request_free_list \in Seq(Requests) /\ Range(request_free_list) \subseteq Requests
  BY RangeOfSeq DEF MpiIInv, MpiTyped
<1>4. \A r \in Requests : r \in Range(Own(key)) \/ r \in Range(request_free_list) => r \in allocated
  BY DEF MpiIInv, RequestsApart
<1>5. /\ NewOf(request_free_list, Requests) \in Requests
      /\ RestOfPool(request_free_list) \in Seq(Requests) /\ IsInjective(RestOfPool(request_free_list))
      /\ Range(RestOfPool(request_free_list)) = Range(request_free_list) \ {NewOf(request_free_list, Requests)}
      /\ NewOf(request_free_list, Requests) \in Range(request_free_list) \/ NewOf(request_free_list, Requests) \notin allocated
  BY <1>2, <1>3, PoolTaken
<1> QED BY <1>1, <1>2, <1>3, <1>4, <1>5

(* A request for a value that has an entry comes from the pool.            *)
LEMMA InsertDuplicateKeeps ==
  ASSUME MpiRequestsAssumption, MpiIInv, NEW t \in Threads, InsertDuplicate(t)
  PROVE  MpiIInv' /\ \E key \in Keys, r \in Requests :
            /\ r \notin Range(Own(key)) /\ key = th[t].key /\ OthersKept(key)
            /\ Own(key) # << >> /\ Own(key)' = Own(key) /\ th'[t].req = r /\ request'[r] = DataOf(th[t].id)
            /\ \A q \in Range(Own(key)) : SameData(q)
<1>1. ~Idle(th[t]) /\ th[t].pc = "insert" /\ request_table[th[t].key] # NULL /\ ~Holds(th[t])
  BY DEF InsertDuplicate, ThreadAt, Idle, Holds, Appending, Releasing
<1>2. /\ th[t] \in ThreadRecords /\ ThreadOK(t) /\ DOMAIN th = Threads /\ th[t].id \in Ids /\ th[t].id \in Nat
      /\ th[t].call = NULL /\ op[th[t].id].key = th[t].key
  BY <1>1, ThreadFields DEF MpiIInv, ThreadOK, Knows, Inserting
<1>3. MpiTyped
  BY DEF MpiIInv
<1>4. PICK key \in Keys : key = th[t].key
  BY <1>1, ListOfValue
<1>5. /\ ListOK(key)
      /\ Range(Own(key)) \cap Range(request_free_list) = {} /\ Range(Own(key)) \subseteq Requests
      /\ request_table[key] \notin Range(request_table_entry_free_list)
      /\ IsInjective(request_table_entry_free_list)
  BY <1>1, <1>4, ListOfValue
<1>6. PICK r \in Requests :
        /\ r = NewOf(request_free_list, Requests)
        /\ RestOfPool(request_free_list) \in Seq(Requests) /\ IsInjective(RestOfPool(request_free_list))
        /\ Range(RestOfPool(request_free_list)) = Range(request_free_list) \ {r}
        /\ r \in Range(request_free_list) \/ r \notin allocated
        /\ r \notin Range(Own(key))
        /\ Range(Own(key)) \subseteq allocated /\ Range(request_free_list) \subseteq allocated
  BY <1>1, <1>4, TakenRequest DEF InsertDuplicate
<1>7. PICK d \in RequestRecords : d = DataOf(th[t].id) /\ d.request = key /\ d.next = NULL
  <2>1. PICK i \in Ids : i = th[t].id /\ i \in Nat
    BY <1>2
  <2>2. DataOf(i) \in RequestRecords /\ DataOf(i).request = op[i].key /\ DataOf(i).next = NULL
    BY <1>3, <2>1, DataTyped
  <2> QED BY <1>2, <1>4, <2>1, <2>2
<1>8. PICK w \in ThreadRecords :
        w = [th[t] EXCEPT !.pc = "lock", !.value = request_table[th[t].key], !.req = r, !.after = "append"]
  <2>1. request_table[th[t].key] \in Entries \cup {NULL}
    BY <1>3, <1>4 DEF MpiTyped
  <2> QED BY <1>2, <2>1 DEF ThreadRecords, Places
<1>9. /\ w.id = th[t].id /\ w.key = th[t].key /\ w.call = NULL /\ w.pc = "lock" /\ w.after = "append"
      /\ w.control = th[t].control /\ w.value = request_table[key] /\ w.req = r
      /\ th' = [th EXCEPT ![t] = w] /\ th'[t] = w
  BY <1>2, <1>4, <1>6, <1>8 DEF ThreadRecords, InsertDuplicate
<1>10. /\ request_table' = request_table /\ payload' = payload /\ allocated' = allocated \cup {r}
       /\ request_table_entry_free_list' = request_table_entry_free_list
       /\ setup' = setup /\ mpi_last_request_id' = mpi_last_request_id /\ op' = op /\ completions' = completions
       /\ request_free_list' = RestOfPool(request_free_list)
       /\ request' = [request EXCEPT ![r] = d]
  BY <1>6, <1>7 DEF InsertDuplicate
<1>11. /\ request' \in [Requests -> RequestRecords]
       /\ \A q \in Requests \ {r} : request'[q] = request[q]
       /\ request'[r] = d
  BY <1>3, <1>10 DEF MpiTyped
<1>12. Own(key)' = Own(key) /\ ListOK(key)'
  <2>1. \A q \in Range(Own(key)) : request'[q].next = request[q].next /\ request'[q].request = request[q].request
    BY <1>5, <1>6, <1>11
  <2> QED BY <1>5, <1>10, <2>1, OwnKept
<1>13. Hands(t) = {} /\ Hands(t)' = {r} /\ Knows(w)'
  <2>1. Holds(w)
    BY <1>9 DEF Holds, Appending
  <2>2. Knows(w)'
    BY <1>1, <1>2, <1>4, <1>7, <1>9, <1>10, <1>11 DEF ThreadOK, Knows, Inserting, Appending, Getting, Using, Freeing, Releasing, Leaving, Appended, AtEntry, Holds
  <2> QED BY <1>1, <1>9, <2>1, <2>2 DEF Hands
<1>14. /\ request_table' \in [Keys -> Entries \cup {NULL}] /\ payload' \in [Entries -> Requests \cup Entries \cup {NULL}]
       /\ request_table_entry_free_list' \in Seq(Entries) /\ allocated' \subseteq Requests \cup Entries
       /\ request_free_list' \in Seq(Requests) /\ IsInjective(request_free_list')
       /\ Range(request_free_list') = Range(request_free_list) \ {r}
  BY <1>3, <1>6, <1>10 DEF MpiTyped
<1>15. /\ \A q \in Requests :
            q \in Range(Own(key)') \/ q \in Hands(t)' \/ q \in Range(request_free_list')
              <=> \/ q \in Range(Own(key)) \/ q \in Hands(t) \/ q \in Range(request_free_list)
                  \/ q \in allocated' /\ q \notin allocated
       /\ \A q \in Requests :
            q \in allocated /\ q \notin Range(Own(key)) /\ q \notin Hands(t) /\ q \notin Range(request_free_list)
              => request'[q] = request[q]
  BY <1>6, <1>10, <1>11, <1>12, <1>13, <1>14
<1>16. /\ Idle(w) \/ (w.id = th[t].id /\ w.key = th[t].key /\ Knows(w)')
       /\ \A k \in Keys \ {key} : request_table'[k] = request_table[k]
       /\ allocated \subseteq allocated'
       /\ \A e \in Entries : e \in allocated /\ e # request_table[key] /\ e \notin Range(request_table_entry_free_list)
                              => payload'[e] = payload[e]
       /\ Range(Own(key)') \cap Range(request_free_list') = {}
       /\ Range(Own(key)') \cap Hands(t)' = {} /\ Hands(t)' \cap Range(request_free_list') = {}
       /\ IsInjective(request_table_entry_free_list')
       /\ request_table'[key] \notin Range(request_table_entry_free_list')
       /\ \A e \in Entries :
            e = request_table'[key] \/ e \in Range(request_table_entry_free_list')
              <=> \/ e = request_table[key] \/ e \in Range(request_table_entry_free_list)
                  \/ (e \in allocated' /\ e \notin allocated)
  <2>1. r \notin Entries
    BY DEF MpiRequestsAssumption
  <2> QED BY <1>5, <1>6, <1>9, <1>10, <1>12, <1>13, <1>14, <2>1
<1>17. /\ th' = [th EXCEPT ![t] = w] /\ ~Idle(th[t]) /\ ListOK(key)'
       /\ setup' = setup /\ mpi_last_request_id' = mpi_last_request_id /\ op' = op /\ completions' = completions
       /\ request_table' \in [Keys -> Entries \cup {NULL}]
       /\ payload' \in [Entries -> Requests \cup Entries \cup {NULL}]
       /\ request' \in [Requests -> RequestRecords]
       /\ request_free_list' \in Seq(Requests) /\ request_table_entry_free_list' \in Seq(Entries)
       /\ allocated \subseteq allocated' /\ allocated' \subseteq Requests \cup Entries
       /\ IsInjective(request_free_list') /\ IsInjective(request_table_entry_free_list')
  BY <1>1, <1>4, <1>9, <1>10, <1>11, <1>12, <1>14, <1>15, <1>16
<1>18. MpiIInv' /\ OthersKept(key)
  BY ZenonT(40), <1>4, <1>15, <1>16, <1>17, MoveStep
<1>19. \A q \in Range(Own(key)) : SameData(q)
  BY <1>5, <1>6, <1>11 DEF SameData
<1>20. Own(key) # << >>
  BY <1>1, <1>4, <1>5, OwnElements
<1> QED BY <1>4, <1>6, <1>7, <1>9, <1>11, <1>12, <1>18, <1>19, <1>20

(* A value that has no entry gets one, which heads a list of one request.  *)
LEMMA InsertNewKeeps ==
  ASSUME MpiRequestsAssumption, MpiIInv, NEW t \in Threads, InsertNew(t)
  PROVE  MpiIInv' /\ \E key \in Keys, r \in Requests :
            /\ key = th[t].key /\ OthersKept(key)
            /\ Own(key) = << >> /\ Own(key)' = <<r>> /\ Range(Own(key)') = {r} /\ request'[r] = DataOf(th[t].id)
<1>1. ~Idle(th[t]) /\ th[t].pc = "insert" /\ request_table[th[t].key] = NULL /\ ~Holds(th[t])
  BY DEF InsertNew, ThreadAt, Idle, Holds, Appending, Releasing
<1>2. /\ ThreadOK(t) /\ DOMAIN th = Threads /\ th[t].id \in Ids /\ th[t].id \in Nat
      /\ op[th[t].id].key = th[t].key
  BY <1>1, ThreadFields DEF MpiIInv, ThreadOK, Knows
<1>3. MpiTyped
  BY DEF MpiIInv
<1>4. PICK key \in Keys : key = th[t].key
  BY <1>1, ListOfValue
<1>5. IsInjective(request_table_entry_free_list)
  BY <1>1, ListOfValue
<1>6. PICK r \in Requests :
        /\ r = NewOf(request_free_list, Requests)
        /\ RestOfPool(request_free_list) \in Seq(Requests) /\ IsInjective(RestOfPool(request_free_list))
        /\ Range(RestOfPool(request_free_list)) = Range(request_free_list) \ {r}
        /\ r \in Range(request_free_list) \/ r \notin allocated
        /\ Range(request_free_list) \subseteq allocated
  BY <1>1, TakenRequest DEF InsertNew, Construct
<1>7. PICK e \in Entries :
        /\ e = NewOf(request_table_entry_free_list, Entries)
        /\ RestOfPool(request_table_entry_free_list) \in Seq(Entries) /\ IsInjective(RestOfPool(request_table_entry_free_list))
        /\ Range(RestOfPool(request_table_entry_free_list)) = Range(request_table_entry_free_list) \ {e}
        /\ e \in Range(request_table_entry_free_list) \/ e \notin allocated
  <2>1. request_table_entry_free_list \in Seq(Entries) /\ Available(request_table_entry_free_list, Entries)
    BY <1>3 DEF MpiTyped, InsertNew, Construct
  <2> QED BY <1>5, <2>1, PoolTaken
<1>8. PICK d \in RequestRecords : d = DataOf(th[t].id) /\ d.request = key /\ d.next = NULL
  <2>1. PICK i \in Ids : i = th[t].id /\ i \in Nat
    BY <1>2
  <2>2. DataOf(i) \in RequestRecords /\ DataOf(i).request = op[i].key /\ DataOf(i).next = NULL
    BY <1>3, <2>1, DataTyped
  <2> QED BY <1>2, <1>4, <2>1, <2>2
<1>9. PICK w \in ThreadRecords : w = IdleThread /\ Idle(w) /\ ~Holds(w)
  BY IdleRecord
<1>10. /\ th' = [th EXCEPT ![t] = w] /\ th'[t] = w
       /\ request_table' = [request_table EXCEPT ![key] = e]
       /\ payload' = [payload EXCEPT ![e] = r]
       /\ request' = [request EXCEPT ![r] = d]
       /\ request_table_entry_free_list' = RestOfPool(request_table_entry_free_list)
       /\ request_free_list' = RestOfPool(request_free_list)
       /\ allocated' = allocated \cup {e, r}
       /\ setup' = setup /\ mpi_last_request_id' = mpi_last_request_id /\ op' = op /\ completions' = completions
  BY <1>2, <1>4, <1>6, <1>7, <1>8, <1>9 DEF InsertNew, Construct
<1>11. /\ request' \in [Requests -> RequestRecords]
       /\ \A q \in Requests \ {r} : request'[q] = request[q]
       /\ request'[r] = d
       /\ request_table' \in [Keys -> Entries \cup {NULL}] /\ request_table'[key] = e
       /\ \A k \in Keys \ {key} : request_table'[k] = request_table[k]
       /\ payload' \in [Entries -> Requests \cup Entries \cup {NULL}] /\ payload'[e] = r
       /\ \A c \in Entries \ {e} : payload'[c] = payload[c]
       /\ allocated' \subseteq Requests \cup Entries /\ allocated \subseteq allocated'
  BY <1>3, <1>10 DEF MpiTyped
<1>12. Own(key)' = <<r>> /\ Range(Own(key)') = {r} /\ ListOK(key)'
  <2>1. Linked(<<r>>, r, request') /\ Range(<<r>>) = {r}
    BY <1>8, <1>11, LinkedOne
  <2>2. request_table'[key] # NULL
    BY <1>11 DEF MpiRequestsAssumption
  <2>3. Linked(<<r>>, payload'[request_table'[key]], request')
    BY <1>11, <2>1
  <2>4. Own(key)' = <<r>> /\ List(request_table[key])' = <<r>>
    BY <2>2, <2>3, OwnIs
  <2> QED BY <1>8, <1>11, <2>1, <2>3, <2>4 DEF ListOK
<1>13. Own(key) = << >> /\ Range(Own(key)) = {} /\ Hands(t) = {} /\ Hands(t)' = {}
  BY <1>1, <1>4, <1>9, <1>10, EmptyList DEF Own, Hands
<1>14. r \notin Entries /\ e \notin Requests /\ NULL \notin Entries
  BY DEF MpiRequestsAssumption
<1>15. /\ \A q \in Requests :
            q \in Range(Own(key)') \/ q \in Hands(t)' \/ q \in Range(request_free_list')
              <=> \/ q \in Range(Own(key)) \/ q \in Hands(t) \/ q \in Range(request_free_list)
                  \/ q \in allocated' /\ q \notin allocated
       /\ \A q \in Requests :
            q \in allocated /\ q \notin Range(Own(key)) /\ q \notin Hands(t) /\ q \notin Range(request_free_list)
              => request'[q] = request[q]
  BY <1>6, <1>10, <1>11, <1>12, <1>13, <1>14
<1>16. \A c \in Entries :
         c = request_table'[key] \/ c \in Range(request_table_entry_free_list')
           <=> \/ c = request_table[key] \/ c \in Range(request_table_entry_free_list)
               \/ (c \in allocated' /\ c \notin allocated)
  <2>1. \A c \in Entries : c \in Range(request_table_entry_free_list) => c \in allocated
    BY DEF MpiIInv, EntriesApart
  <2> QED BY <1>1, <1>4, <1>7, <1>10, <1>11, <1>14, <2>1
<1>17. /\ Idle(w) \/ (w.id = th[t].id /\ w.key = th[t].key /\ Knows(w)')
       /\ \A c \in Entries : c \in allocated /\ c # request_table[key] /\ c \notin Range(request_table_entry_free_list)
                              => payload'[c] = payload[c]
       /\ Range(Own(key)') \cap Range(request_free_list') = {}
       /\ Range(Own(key)') \cap Hands(t)' = {} /\ Hands(t)' \cap Range(request_free_list') = {}
       /\ IsInjective(request_free_list') /\ IsInjective(request_table_entry_free_list')
       /\ request_free_list' \in Seq(Requests) /\ request_table_entry_free_list' \in Seq(Entries)
       /\ request_table'[key] \notin Range(request_table_entry_free_list')
  BY <1>6, <1>7, <1>9, <1>10, <1>11, <1>12, <1>13
<1>18. /\ th' = [th EXCEPT ![t] = w] /\ ~Idle(th[t]) /\ ListOK(key)'
       /\ setup' = setup /\ mpi_last_request_id' = mpi_last_request_id /\ op' = op /\ completions' = completions
       /\ request' \in [Requests -> RequestRecords]
       /\ request_table' \in [Keys -> Entries \cup {NULL}]
       /\ \A k \in Keys \ {key} : request_table'[k] = request_table[k]
       /\ payload' \in [Entries -> Requests \cup Entries \cup {NULL}]
       /\ allocated' \subseteq Requests \cup Entries /\ allocated \subseteq allocated'
  BY <1>1, <1>10, <1>11, <1>12
<1>19. MpiIInv' /\ OthersKept(key)
  BY ZenonT(40), <1>4, <1>15, <1>16, <1>17, <1>18, MoveStep
<1> QED BY <1>4, <1>8, <1>11, <1>12, <1>13, <1>19

-----------------------------------------------------------------------------
(* A thread that makes a call.                                             *)
LEMMA CallKeeps ==
  ASSUME MpiRequestsAssumption, MpiIInv, NEW t \in Threads, NEW id \in Ids, NEW call \in WithRequest,
         CallWithRequest(t, id, call)
  PROVE  MpiIInv'
<1>1. Idle(th[t]) /\ (Allows("multiple") \/ \A u \in Threads : Idle(th[u]))
  BY DEF CallWithRequest, MayCall, ThreadAt, Idle
<1>2. MpiTyped /\ OpsOK /\ ThreadsOK
  BY DEF MpiIInv
<1>3. PICK o \in Operations : o = op[id]
  BY <1>2 DEF MpiTyped
<1>4. /\ o.thread \in {t, NULL} /\ Live(id) /\ (call = "Start" => o.state = "inactive")
      /\ op' = IF call = "Wait" THEN [op EXCEPT ![id] = Finish(o)] ELSE op
  BY <1>3 DEF CallWithRequest, Live
<1>5. /\ request_table' = request_table /\ payload' = payload /\ request' = request /\ allocated' = allocated
      /\ request_free_list' = request_free_list /\ request_table_entry_free_list' = request_table_entry_free_list
      /\ setup' = setup /\ mpi_last_request_id' = mpi_last_request_id /\ completions' = completions
  BY DEF CallWithRequest, poolVars
<1>6. setup.operations \in Nat /\ mpi_last_request_id \in Nat /\ Ids = 1 .. setup.operations /\ id \in 1 .. mpi_last_request_id
  <2>1. setup.operations \in Nat /\ mpi_last_request_id \in Nat /\ Ids = 1 .. setup.operations
    BY <1>2, SetupBounds DEF Ids
  <2>2. ~(id > mpi_last_request_id)
    BY <1>2, <1>4 DEF OpsOK
  <2> QED BY <2>1, <2>2
<1>7. PICK w \in ThreadRecords :
        w = [IdleThread EXCEPT !.pc = "lookup", !.call = call, !.id = id, !.key = o.key, !.after = "get"]
  <2>1. o.key \in Keys /\ id \in Nat
    BY <1>3, <1>6 DEF Operations
  <2> QED BY <2>1 DEF IdleThread, ThreadRecords, Places, MpiRequestsAssumption
<1>8. /\ w.pc = "lookup" /\ w.call = call /\ w.id = id /\ w.key = o.key /\ w.after = "get"
      /\ w.req = NULL /\ w.control = NULL /\ call # NULL
  <2>1. w.pc = "lookup" /\ w.call = call /\ w.id = id /\ w.key = o.key /\ w.after = "get" /\ w.req = NULL /\ w.control = NULL
    BY <1>7 DEF IdleThread
  <2>2. call # NULL
    BY DEF MpiRequestsAssumption
  <2> QED BY <2>1, <2>2
<1>9. /\ th' = [th EXCEPT ![t] = w] /\ th'[t] = w /\ (\A u \in Threads \ {t} : th'[u] = th[u])
      /\ th' \in [Threads -> ThreadRecords]
  BY <1>2, <1>3, <1>7 DEF CallWithRequest, MpiTyped
<1>10. op' \in [Ids -> Operations] /\ \A i \in Ids : /\ op'[i].key = op[i].key /\ op'[i].thread = op[i].thread
                                               /\ (Live(i)' => Live(i)) /\ (i # id \/ call = "Start" => op'[i].state = op[i].state)
  <2>1. CASE call # "Wait"
    BY <1>2, <1>4, <2>1 DEF MpiTyped, Live
  <2>2. CASE call = "Wait"
    <3>1. o.observed + 1 \in Nat
      BY <1>3 DEF Operations
    <3>2. Finish(o) \in Operations /\ Finish(o).key = o.key /\ Finish(o).thread = o.thread
      BY <1>3, <3>1 DEF Finish, Operations
    <3>3. PICK f \in Operations : f = Finish(o) /\ f.key = o.key /\ f.thread = o.thread
      BY <3>2
    <3>4. op' = [op EXCEPT ![id] = f] /\ op \in [Ids -> Operations]
      BY <1>2, <1>4, <2>2, <3>3 DEF MpiTyped
    <3>5. op' \in [Ids -> Operations] /\ op'[id] = f /\ \A i \in Ids \ {id} : op'[i] = op[i]
      BY <3>4
    <3> QED BY <1>3, <1>4, <2>2, <3>3, <3>5 DEF Live
  <2> QED BY <2>1, <2>2
<1>11. ~Holds(w) /\ ~Idle(w) /\ Hands(t)' = {} /\ Hands(t) = {}
  BY <1>1, <1>8, <1>9 DEF Holds, Idle, Appending, Releasing, Hands
<1>12. ListsOK' /\ RequestsApart' /\ EntriesApart' /\ \A k \in Keys : Own(k)' = Own(k)
  <2>1. \A u \in Threads : Hands(u)' = Hands(u)
    BY <1>9, <1>11, HandsKept
  <2> QED BY <1>5, <2>1, ListsKept DEF MpiIInv
<1>13. Ids' = Ids /\ (Allows("multiple")' <=> Allows("multiple"))
  BY <1>5 DEF Ids, Allows
<1>14. MpiTyped'
  BY <1>2, <1>5, <1>9, <1>10, <1>13 DEF MpiTyped
<1>15. OpsOK'
  BY <1>2, <1>5, <1>10, <1>13 DEF OpsOK
<1>16. ThreadsOK'
  <2>1. ASSUME NEW u \in Threads, ~Idle(th'[u]) PROVE ThreadOK(u)'
    <3>1. CASE u = t
      <4>1. op'[id].key = o.key /\ (call = "Start" => op'[id].state = "inactive")
        BY <1>3, <1>4, <1>10
      <4> QED BY <1>5, <1>6, <1>8, <1>9, <3>1, <4>1 DEF ThreadOK, Knows, Inserting, Appending, Getting, Using, Freeing, Releasing, Leaving, Appended, AtEntry, Holds
    <3>2. CASE u # t
      <4>1. th'[u] = th[u] /\ ThreadOK(u) /\ ~Idle(th[u]) /\ th[u].id \in Ids /\ th[u].key \in Keys
        BY <1>2, <1>9, <2>1, <3>2, ThreadFields DEF ThreadsOK
      <4>2. PICK key \in Keys : key = th[u].key
        BY <4>1
      <4>3. PICK i \in Ids : i = th[u].id
        BY <4>1
      <4>4. Own(key)' = Own(key) /\ op'[i].key = op[i].key /\ (i # id => op'[i].state = op[i].state)
        BY <1>10, <1>12
      <4>5. th[u].call = "Start" => op'[i].state = op[i].state
        <5> SUFFICES ASSUME th[u].call = "Start", i = id PROVE op'[i].state = op[i].state
          BY <4>4
        <5>1. Allows("multiple") => op[th[u].id].thread = u
          BY <1>2, <4>1 DEF ThreadsOK
        <5>2. Allows("multiple")
          BY <1>1, <4>1
        <5>3. o.thread = u
          BY <1>3, <4>3, <5>1, <5>2
        <5>4. FALSE
          BY <1>4, <3>2, <5>3 DEF MpiRequestsAssumption
        <5> QED BY <5>4
      <4> QED BY <1>5, <4>1, <4>2, <4>3, <4>4, <4>5 DEF ThreadOK, Knows
    <3> QED BY <3>1, <3>2
  <2>2. ASSUME NEW u \in Threads, ~Idle(th'[u]), NEW i \in Ids, Live(i)', op'[i].key = th'[u].key, op'[i].key # Dummy
        PROVE  i = th'[u].id
    <3>1. Live(i) /\ op'[i].key = op[i].key
      BY <1>10, <2>2
    <3>2. CASE u = t
      BY <1>2, <1>3, <1>4, <1>8, <1>9, <2>2, <3>1, <3>2 DEF OpsOK
    <3>3. CASE u # t
      BY <1>2, <1>9, <2>2, <3>1, <3>3 DEF ThreadsOK
    <3> QED BY <3>2, <3>3
  <2>3. ASSUME NEW u \in Threads, u # t, ~Idle(th[u]) PROVE Allows("multiple") /\ th[u].key # o.key
    <3>1. Allows("multiple")
      BY <1>1, <2>3
    <3>2. op[th[u].id].thread = u /\ th[u].key # Dummy
      BY <1>2, <2>3, <3>1 DEF ThreadsOK
    <3>3. th[u].key = o.key => id = th[u].id
      BY <1>2, <1>3, <1>4, <2>3, <3>2 DEF ThreadsOK
    <3>4. o.thread # u
      BY <1>4, <2>3 DEF MpiRequestsAssumption
    <3> QED BY <1>3, <3>1, <3>2, <3>3, <3>4
  <2>4. ASSUME NEW u \in Threads, NEW v \in Threads, u # v, ~Idle(th'[u]), ~Idle(th'[v])
        PROVE  Allows("multiple") /\ th'[u].key # th'[v].key
    <3>1. CASE u # t /\ v # t
      BY <1>2, <1>9, <2>4, <3>1 DEF ThreadsOK
    <3>2. CASE u = t
      BY <1>8, <1>9, <2>3, <2>4, <3>2
    <3>3. CASE v = t
      BY <1>8, <1>9, <2>3, <2>4, <3>3
    <3> QED BY <3>1, <3>2, <3>3
  <2>5. ASSUME Allows("multiple"), NEW u \in Threads, ~Idle(th'[u]) PROVE op'[th'[u].id].thread = u /\ th'[u].key # Dummy
    <3>1. CASE u = t
      <4>1. o.key # Dummy /\ o.thread = t
        BY <1>2, <1>3, <1>4, <2>5 DEF OpsOK
      <4> QED BY <1>3, <1>8, <1>9, <1>10, <3>1, <4>1
    <3>2. CASE u # t
      <4>1. th'[u] = th[u] /\ th[u].id \in Ids
        BY <1>2, <1>9, <2>5, <3>2, ThreadFields
      <4> QED BY <1>2, <1>10, <2>5, <4>1 DEF ThreadsOK
    <3> QED BY <3>1, <3>2
  <2> QED BY <1>13, <2>1, <2>2, <2>4, <2>5 DEF ThreadsOK
<1> QED BY <1>12, <1>14, <1>15, <1>16 DEF MpiIInv

(* MPI gives a value to a new operation.                                   *)
LEMMA CreateKeeps ==
  ASSUME MpiRequestsAssumption, ValuesApart, MpiIInv, NEW t \in Threads, NEW k \in Keys,
         NEW persistent \in BOOLEAN, NEW known \in BOOLEAN, CreateOperation(t, k, persistent, known)
  PROVE  MpiIInv'
<1>1. Idle(th[t]) /\ (Allows("multiple") \/ \A u \in Threads : Idle(th[u]))
  BY DEF CreateOperation, MayCall, ThreadAt, Idle
<1>2. MpiTyped /\ OpsOK /\ ThreadsOK
  BY DEF MpiIInv
<1>3. Allows("multiple") => ~Allows("early") /\ ~Allows("dummy")
  BY <1>2 DEF MpiTyped, ValuesApart, Allows
<1>4. PICK n \in Nat : n = mpi_last_request_id + 1
  BY <1>2, SetupBounds
<1>5. /\ setup.operations \in Nat /\ mpi_last_request_id \in Nat /\ Ids = 1 .. setup.operations /\ n \in Ids
      /\ \A i \in 1 .. mpi_last_request_id : i \in Ids /\ i # n /\ i \in 1 .. n
      /\ n \in 0 .. setup.operations /\ n \in 1 .. n
  <2>1. /\ setup.operations \in Nat /\ mpi_last_request_id \in Nat /\ Ids = 1 .. setup.operations
        /\ mpi_last_request_id < setup.operations
    BY <1>2, SetupBounds DEF Ids, CreateOperation
  <2>2. PICK m \in Nat, l \in Nat : m = setup.operations /\ l = mpi_last_request_id
    BY <2>1
  <2>3. n = l + 1 /\ l < m
    BY <1>4, <2>1, <2>2
  <2>4. n \in 1 .. m /\ n \in 0 .. m /\ n \in 1 .. n /\ \A i \in 1 .. l : i \in 1 .. m /\ i # n /\ i \in 1 .. n
    BY <2>3
  <2> QED BY <2>1, <2>2, <2>4
<1>6. PICK o \in Operations :
        o = [key |-> k, state |-> IF persistent THEN "inactive" ELSE "active",
             persistent |-> persistent, known |-> known,
             thread |-> IF Allows("multiple") THEN t ELSE NULL, starts |-> 0, observed |-> 0]
  <2>1. PICK s \in {"inactive", "active"} : s = IF persistent THEN "inactive" ELSE "active"
    OBVIOUS
  <2>2. PICK p \in Threads \cup {NULL} : p = IF Allows("multiple") THEN t ELSE NULL
    OBVIOUS
  <2>3. [key |-> k, state |-> s, persistent |-> persistent, known |-> known, thread |-> p, starts |-> 0, observed |-> 0]
          \in Operations
    BY DEF Operations
  <2> QED BY <2>1, <2>2, <2>3
<1>7. o.key = k /\ o.thread = IF Allows("multiple") THEN t ELSE NULL
  BY <1>6
<1>8. /\ op' = [op EXCEPT ![n] = o] /\ mpi_last_request_id' = n
      /\ request_table' = request_table /\ payload' = payload /\ request' = request /\ allocated' = allocated
      /\ request_free_list' = request_free_list /\ request_table_entry_free_list' = request_table_entry_free_list
      /\ setup' = setup /\ completions' = completions
  BY <1>4, <1>6 DEF CreateOperation, poolVars
<1>9. op' \in [Ids -> Operations] /\ op'[n] = o /\ \A i \in Ids \ {n} : op'[i] = op[i]
  BY <1>2, <1>5, <1>8 DEF MpiTyped
(* No operation that goes on, and no other call, has the value.            *)
<1>10. k # Dummy => \A i \in Ids : op[i].key = k => ~Live(i)
  BY DEF CreateOperation, Values, Live
<1>11. k # Dummy => \A u \in Threads : ~Idle(th[u]) => th[u].key # k
  <2>1. k # Dummy => Allows("early") \/ \A u \in Threads : Idle(th[u]) \/ th[u].key # k
    BY DEF CreateOperation, Values, ThreadAt, Idle
  <2> QED BY <1>1, <1>3, <2>1
<1>12. Allows("multiple") => k # Dummy
  BY <1>3 DEF CreateOperation, Values
<1>13. PICK w \in ThreadRecords : w = [IdleThread EXCEPT !.pc = "insert", !.id = n, !.key = k]
  BY DEF IdleThread, ThreadRecords, Places
<1>14. /\ w.pc = "insert" /\ w.id = n /\ w.key = k /\ w.after = "idle" /\ w.call = NULL
       /\ w.req = NULL /\ w.control = NULL
  BY <1>13 DEF IdleThread
<1>15. /\ th' \in [Threads -> ThreadRecords] /\ (\A u \in Threads \ {t} : th'[u] = th[u])
       /\ th'[t] = w \/ th'[t] = th[t]
  BY <1>2, <1>4, <1>13 DEF CreateOperation, MpiTyped
<1>16. ~Holds(w) /\ ~Idle(w)
  BY <1>14 DEF Holds, Idle, Appending, Releasing
<1>17. ListsOK' /\ RequestsApart' /\ EntriesApart' /\ \A l \in Keys : Own(l)' = Own(l)
  <2>1. Hands(t)' = Hands(t)
    BY <1>1, <1>15, <1>16 DEF Hands, Holds, Idle, Appending, Releasing
  <2>2. \A u \in Threads : Hands(u)' = Hands(u)
    BY <1>15, <2>1, HandsKept
  <2> QED BY <1>8, <2>2, ListsKept DEF MpiIInv
<1>18. Ids' = Ids /\ (Allows("multiple")' <=> Allows("multiple"))
  BY <1>8 DEF Ids, Allows
<1>19. MpiTyped'
  BY <1>2, <1>5, <1>8, <1>9, <1>15, <1>18 DEF MpiTyped
<1>20. OpsOK'
  <2>1. ASSUME NEW i \in Ids, i > n PROVE ~Live(i)'
    <3>1. i > mpi_last_request_id /\ i # n
      BY <1>4, <1>5, <2>1
    <3> QED BY <1>2, <1>9, <3>1 DEF OpsOK, Live
  <2>2. ASSUME NEW i \in Ids, NEW j \in Ids, i # j, op'[i].key = op'[j].key, Live(i)', Live(j)' PROVE op'[i].key = Dummy
    <3>1. CASE i # n /\ j # n
      BY <1>2, <1>9, <2>2, <3>1 DEF OpsOK, Live
    <3>2. CASE i = n
      BY <1>7, <1>9, <1>10, <2>2, <3>2 DEF Live
    <3>3. CASE j = n
      BY <1>7, <1>9, <1>10, <2>2, <3>3 DEF Live
    <3> QED BY <3>1, <3>2, <3>3
  <2>3. ASSUME Allows("multiple"), NEW i \in Ids, Live(i)' PROVE op'[i].key # Dummy /\ op'[i].thread # NULL
    <3>1. CASE i # n
      BY <1>2, <1>9, <2>3, <3>1 DEF OpsOK, Live
    <3>2. CASE i = n
      BY <1>7, <1>9, <1>12, <2>3, <3>2 DEF MpiRequestsAssumption
    <3> QED BY <3>1, <3>2
  <2> QED BY <1>8, <1>18, <2>1, <2>2, <2>3 DEF OpsOK
<1>21. ASSUME NEW u \in Threads, ~Idle(th'[u]), ~(u = t /\ th'[u] = w)
       PROVE  th'[u] = th[u] /\ ~Idle(th[u]) /\ u # t /\ ThreadOK(u) /\ th[u].key \in Keys
              /\ th[u].id \in 1 .. mpi_last_request_id
  <2>1. th'[u] = th[u] /\ ~Idle(th[u]) /\ u # t
    BY <1>1, <1>15, <1>21
  <2>2. ThreadOK(u) /\ th[u].key \in Keys
    BY <1>2, <2>1, ThreadFields
  <2> QED BY <2>1, <2>2 DEF ThreadOK, Knows
<1>22. ThreadsOK'
  <2>1. ASSUME NEW u \in Threads, ~Idle(th'[u]) PROVE ThreadOK(u)'
    <3>1. CASE u = t /\ th'[u] = w
      <4>1. w.call # "Start"
        BY <1>14 DEF MpiRequestsAssumption, WithRequest
      <4> QED BY <1>5, <1>7, <1>8, <1>9, <1>14, <3>1, <4>1 DEF ThreadOK, Knows, Inserting, Appending, Getting, Using, Freeing, Releasing, Leaving, Appended, AtEntry, Holds
    <3>2. CASE ~(u = t /\ th'[u] = w)
      <4>1. th'[u] = th[u] /\ ThreadOK(u) /\ th[u].key \in Keys /\ th[u].id \in 1 .. mpi_last_request_id
        BY <1>21, <2>1, <3>2
      <4>2. PICK key \in Keys : key = th[u].key
        BY <4>1
      <4>3. op'[th[u].id] = op[th[u].id] /\ th[u].id \in 1 .. mpi_last_request_id'
        BY <1>5, <1>8, <1>9, <4>1
      <4>4. Own(key)' = Own(key)
        BY <1>17
      <4>5. PICK v, i : v = th[u] /\ i = th[u].id
        OBVIOUS
      <4>6. /\ th'[u] = v /\ v.id = i /\ v.key = key /\ i \in 1 .. mpi_last_request_id'
            /\ op'[i] = op[i] /\ Knows(v)
        BY <4>1, <4>2, <4>3, <4>5 DEF ThreadOK
      <4>7. Knows(v)'
        BY <1>8, <4>4, <4>6 DEF Knows
      <4> QED BY <4>6, <4>7 DEF ThreadOK, Knows
    <3> QED BY <3>1, <3>2
  <2>2. ASSUME NEW u \in Threads, ~Idle(th'[u]), NEW i \in Ids, Live(i)', op'[i].key = th'[u].key, op'[i].key # Dummy
        PROVE  i = th'[u].id
    <3>1. CASE u = t /\ th'[u] = w
      BY <1>9, <1>10, <1>14, <2>2, <3>1 DEF Live
    <3>2. CASE ~(u = t /\ th'[u] = w)
      <4>1. th'[u] = th[u] /\ ~Idle(th[u])
        BY <1>21, <2>2, <3>2
      <4>2. i # n
        BY <1>7, <1>9, <1>11, <2>2, <4>1
      <4> QED BY <1>2, <1>9, <2>2, <4>1, <4>2 DEF ThreadsOK, Live
    <3> QED BY <3>1, <3>2
  <2>3. ASSUME NEW u \in Threads, u # t, ~Idle(th[u]) PROVE Allows("multiple") /\ th[u].key # k
    BY <1>1, <1>11, <1>12, <2>3
  <2>4. ASSUME NEW u \in Threads, NEW v \in Threads, u # v, ~Idle(th'[u]), ~Idle(th'[v])
        PROVE  Allows("multiple") /\ th'[u].key # th'[v].key
    <3>1. CASE u # t /\ v # t
      BY <1>2, <1>15, <2>4, <3>1 DEF ThreadsOK
    <3>2. CASE u = t
      BY <1>1, <1>14, <1>15, <2>3, <2>4, <3>2
    <3>3. CASE v = t
      BY <1>1, <1>14, <1>15, <2>3, <2>4, <3>3
    <3> QED BY <3>1, <3>2, <3>3
  <2>5. ASSUME Allows("multiple"), NEW u \in Threads, ~Idle(th'[u]) PROVE op'[th'[u].id].thread = u /\ th'[u].key # Dummy
    <3>1. CASE u = t /\ th'[u] = w
      BY <1>7, <1>9, <1>12, <1>14, <2>5, <3>1
    <3>2. CASE ~(u = t /\ th'[u] = w)
      <4>1. th'[u] = th[u] /\ ~Idle(th[u]) /\ th[u].id \in 1 .. mpi_last_request_id
        BY <1>21, <2>5, <3>2
      <4>2. op'[th[u].id] = op[th[u].id]
        BY <1>5, <1>9, <4>1
      <4> QED BY <1>2, <2>5, <4>1, <4>2 DEF ThreadsOK
    <3> QED BY <3>1, <3>2
  <2> QED BY <1>18, <2>1, <2>2, <2>4, <2>5 DEF ThreadsOK
<1> QED BY <1>17, <1>19, <1>20, <1>22 DEF MpiIInv

-----------------------------------------------------------------------------
(* At first nothing is allocated.                                          *)
LEMMA MpiInitOK == ASSUME MpiRequestsAssumption, MpiInit PROVE MpiIInv
<1> USE DEF MpiInit
<1>1. IdleThread \in ThreadRecords /\ Idle(IdleThread) /\ ~Holds(IdleThread)
  BY IdleRecord
<1>2. \A t \in Threads : th[t] = IdleThread /\ Idle(th[t]) /\ Hands(t) = {}
  BY <1>1 DEF Hands
<1>3. setup \in MpiSetups /\ setup.operations \in Nat
  BY DEF MpiRequestsAssumption
<1>4. MpiTyped
  <2>1. NoRequest \in RequestRecords /\ NoOp \in Operations
    BY DEF NoRequest, NoOp, RequestRecords, Operations, MpiRequestsAssumption
  <2>2. << >> \in Seq(Entries) /\ << >> \in Seq(Requests)
    BY EmptyList
  <2>3. 0 \in 0 .. setup.operations
    BY <1>3
  <2> QED BY <1>1, <1>3, <2>1, <2>2, <2>3 DEF MpiTyped
<1>5. OpsOK
  BY DEF OpsOK, Live, NoOp
<1>6. ThreadsOK
  BY <1>2 DEF ThreadsOK
<1>7. \A k \in Keys : request_table[k] = NULL /\ Own(k) = << >> /\ Range(Own(k)) = {}
  BY EmptyList DEF Own
<1>8. ListsOK
  BY <1>7 DEF ListsOK, ListOK
<1>9. RequestsApart
  BY <1>2, <1>7, EmptyList DEF RequestsApart
<1>10. EntriesApart
  BY <1>7, EmptyList DEF EntriesApart, MpiRequestsAssumption
<1> QED BY <1>4, <1>5, <1>6, <1>8, <1>9, <1>10 DEF MpiIInv

(* A step that changes nothing.                                            *)
LEMMA MpiStutter == ASSUME MpiIInv, UNCHANGED mpiVars PROVE MpiIInv'
<1>1. /\ setup' = setup /\ request_table' = request_table /\ payload' = payload /\ request' = request
      /\ request_table_entry_free_list' = request_table_entry_free_list /\ request_free_list' = request_free_list
      /\ allocated' = allocated /\ mpi_last_request_id' = mpi_last_request_id /\ th' = th /\ op' = op
      /\ completions' = completions
  BY DEF mpiVars, poolVars
<1>2. /\ \A k \in Keys : Own(k)' = Own(k) /\ ListOK(k)' = ListOK(k)
      /\ \A t \in Threads : Hands(t)' = Hands(t)
      /\ Ids' = Ids /\ \A i \in Ids : Live(i)' = Live(i)
      /\ Allows("multiple")' = Allows("multiple")
  BY <1>1 DEF Own, List, ListOK, Hands, Ids, Live, Allows
<1>3. MpiTyped'
  BY <1>1, <1>2 DEF MpiIInv, MpiTyped
<1>4. OpsOK'
  BY <1>1, <1>2 DEF MpiIInv, OpsOK
<1>5. ThreadsOK'
  <2>1. \A t \in Threads : ThreadOK(t)' = ThreadOK(t)
    BY <1>1 DEF ThreadOK, Knows, Own, List
  <2> QED BY <1>1, <1>2, <2>1 DEF MpiIInv, ThreadsOK
<1>6. ListsOK' /\ RequestsApart' /\ EntriesApart'
  BY <1>1, <1>2 DEF MpiIInv, ListsOK, RequestsApart, EntriesApart
<1> QED BY <1>3, <1>4, <1>5, <1>6 DEF MpiIInv

(* Every wrapper's every step.                                             *)
LEMMA MpiNextKeeps == ASSUME MpiRequestsAssumption, ValuesApart, MpiIInv, [MpiNext]_mpiVars PROVE MpiIInv'
<1>1. CASE UNCHANGED mpiVars
  BY <1>1, MpiStutter
<1>2. CASE MpiStop
  BY <1>2, MpiStutter DEF MpiStop
<1>3. ASSUME NEW t \in Threads, WrapperStep(t) PROVE MpiIInv'
  BY <1>3, InsertNewKeeps, InsertDuplicateKeeps, LookupKeeps, LockEntryKeeps, ControlKeeps, NeverChanged, UnlockKeeps,
     AppendKeeps, GetKeeps, FreeLastKeeps, FreeOneKeeps, ReleaseKeeps, UseWaitKeeps, UseStartKeeps, UseRequestFreeKeeps,
     UseGetStatusKeeps, UseNothingKeeps, UnmarkKeeps, ReturnKeeps DEF WrapperStep
<1>4. ASSUME NEW t \in Threads, NEW k \in Keys, NEW persistent \in BOOLEAN, NEW known \in BOOLEAN,
             CreateOperation(t, k, persistent, known)
      PROVE  MpiIInv'
  BY <1>4, CreateKeeps
<1>5. ASSUME NEW t \in Threads, NEW id \in Ids, NEW call \in WithRequest, CallWithRequest(t, id, call) PROVE MpiIInv'
  BY <1>5, CallKeeps
<1> QED BY <1>1, <1>2, <1>3, <1>4, <1>5 DEF MpiNext

(* The invariant says where everything is.                                 *)
LEMMA OwnedWhenIdle == ASSUME MpiRequestsAssumption, MpiIInv PROVE ObjectsOwnedOnce
<1> SUFFICES ASSUME NoWrapper
             PROVE  LET listed == UNION {Range(List(e)) : e \in InTable}
                    IN  /\ IsInjective(request_free_list) /\ IsInjective(request_table_entry_free_list)
                        /\ \A e \in InTable : IsInjective(List(e)) /\ List(e) # << >>
                        /\ \A k, l \in Keys : k # l /\ request_table[k] # NULL => request_table[k] # request_table[l]
                        /\ \A d, e \in InTable : d # e => Range(List(d)) \cap Range(List(e)) = {}
                        /\ listed \cap Range(request_free_list) = {}
                        /\ InTable \cap Range(request_table_entry_free_list) = {}
                        /\ allocated = listed \cup InTable \cup Range(request_free_list)
                                       \cup Range(request_table_entry_free_list)
  BY DEF ObjectsOwnedOnce
<1> DEFINE listed == UNION {Range(List(e)) : e \in InTable}
<1>1. MpiTyped /\ ListsOK /\ RequestsApart /\ EntriesApart
  BY DEF MpiIInv
<1>2. \A e \in InTable : \E k \in Keys : e = request_table[k] /\ request_table[k] # NULL /\ List(e) = Own(k)
  BY DEF InTable, Own
<1>3. \A k \in Keys : request_table[k] # NULL => request_table[k] \in InTable /\ List(request_table[k]) = Own(k)
  BY DEF InTable, Own
<1>4. \A k \in Keys : /\ IsInjective(Own(k)) /\ Range(Own(k)) \subseteq Requests
                      /\ request_table[k] # NULL => Own(k) # << >>
                      /\ request_table[k] = NULL => Range(Own(k)) = {}
  BY <1>1, OwnElements DEF ListsOK
<1>5. \A r : r \in listed <=> \E k \in Keys : r \in Range(Own(k))
  <2>1. ASSUME NEW r, r \in listed PROVE \E k \in Keys : r \in Range(Own(k))
    BY <1>2, <2>1
  <2>2. ASSUME NEW r, NEW k \in Keys, r \in Range(Own(k)) PROVE r \in listed
    BY <1>3, <1>4, <2>2
  <2> QED BY <2>1, <2>2
<1>6. \A e : e \in InTable <=> e # NULL /\ \E k \in Keys : request_table[k] = e
  BY DEF InTable
<1>7. \A t \in Threads : Hands(t) = {}
  BY DEF NoWrapper, ThreadAt, Hands, Holds, Appending, Releasing
<1> HIDE DEF listed
<1>8. \A e \in InTable : IsInjective(List(e)) /\ List(e) # << >>
  BY <1>2, <1>4
<1>9. \A d, e \in InTable : d # e => Range(List(d)) \cap Range(List(e)) = {}
  <2>1. ASSUME NEW d \in InTable, NEW e \in InTable, d # e PROVE Range(List(d)) \cap Range(List(e)) = {}
    <3>1. PICK k \in Keys : d = request_table[k] /\ List(d) = Own(k)
      BY <1>2
    <3>2. PICK l \in Keys : e = request_table[l] /\ List(e) = Own(l)
      BY <1>2
    <3> QED BY <1>1, <2>1, <3>1, <3>2 DEF RequestsApart
  <2> QED BY <2>1
<1>10. listed \cap Range(request_free_list) = {}
  BY <1>1, <1>5 DEF RequestsApart
<1>11. InTable \cap Range(request_table_entry_free_list) = {}
  BY <1>1, <1>6 DEF EntriesApart
<1>12. allocated = listed \cup InTable \cup Range(request_free_list) \cup Range(request_table_entry_free_list)
  <2>1. /\ Range(request_free_list) \subseteq Requests /\ Range(request_table_entry_free_list) \subseteq Entries
        /\ allocated \subseteq Requests \cup Entries
    BY <1>1, RangeOfSeq DEF MpiTyped
  <2>2. listed \subseteq Requests
    BY <1>4, <1>5
  <2>3. InTable \subseteq Entries
    BY <1>1, <1>6 DEF MpiTyped
  <2>4. Requests \cap Entries = {} /\ NULL \notin Entries
    BY DEF MpiRequestsAssumption
  <2>5. \A r \in Requests : r \in allocated <=> r \in Range(request_free_list) \/ r \in listed
    BY <1>1, <1>5, <1>7 DEF RequestsApart
  <2>6. \A e \in Entries : e \in allocated <=> e \in Range(request_table_entry_free_list) \/ e \in InTable
    BY <1>1, <1>6, <2>4 DEF EntriesApart
  <2> QED BY <2>1, <2>2, <2>3, <2>4, <2>5, <2>6
<1> QED BY <1>1, <1>8, <1>9, <1>10, <1>11, <1>12 DEF RequestsApart, EntriesApart, listed

(* Wherever the steps of the threads interleave, each request and each     *)
(* entry that was allocated is in the table or in a free list, once,       *)
(* whenever no wrapper runs.                                               *)
THEOREM RequestsOwnedOnce == ASSUME ValuesApart PROVE MpiSpec => []ObjectsOwnedOnce
<1>1. MpiInit => MpiIInv
  BY MpiRequestsAssumption, MpiInitOK
<1>2. MpiIInv /\ [MpiNext]_mpiVars => MpiIInv'
  BY MpiRequestsAssumption, MpiNextKeeps
<1>3. MpiIInv => ObjectsOwnedOnce
  BY MpiRequestsAssumption, OwnedWhenIdle
<1> QED BY <1>1, <1>2, <1>3, PTL DEF MpiSpec

-----------------------------------------------------------------------------
(* The operations for which a request with the value is kept.              *)
Of(k) == {i \in Ids : op[i].key = k /\ op[i].known}

(* What scorep_mpi_check_request makes of a request's flags.               *)
Shows(flags) ==
  IF "IS_COMPLETED" \in flags THEN "complete"
  ELSE IF "IS_PERSISTENT" \in flags /\ "IS_ACTIVE" \notin flags THEN "inactive" ELSE "active"

(* r is the request of operation i, the only one with its value.           *)
Keeps(k, i, r) ==
  /\ Own(k) = <<r>> /\ request[r].id = i
  /\ "IS_PERSISTENT" \in request[r].flags <=> op[i].persistent
  /\ "DEALLOCATE" \notin request[r].flags
  /\ op[i].persistent /\ "IS_COMPLETED" \in request[r].flags => "IS_ACTIVE" \in request[r].flags

Recorded(i) == completions[i] = op[i].observed
Over(i) == op[i].state = IF op[i].persistent THEN "inactive" ELSE "done"
(* MPI_Wait has observed the completion that its wrapper still has to write. *)
Pending(i, r) == completions[i] + (IF Shows(request[r].flags) = "active" THEN 1 ELSE 0) = op[i].observed
InTime(i, call) ==
  /\ Live(i)
  /\ call = "Start" => op[i].state = "inactive"
  /\ call = "Request_get_status" => op[i].state # "inactive"
  /\ call = "Request_free" /\ op[i].persistent => op[i].state = "inactive"
Drops(i, call) == call = "Request_free" \/ (call = "Wait" /\ ~op[i].persistent)

(* What is known of the operation of a thread's call, w, with value k ...  *)
InsertsOK(k, w) ==
  /\ w.call = NULL /\ Own(k) = << >> /\ Recorded(w.id)
  /\ op[w.id].state = IF op[w.id].persistent THEN "inactive" ELSE "active"
UsesOK(k, w) ==
  /\ w.call # NULL
  /\ \E r \in Requests :
       /\ Keeps(k, w.id, r) /\ (Using(w) => w.req = r)
       /\ IF w.call = "Wait" THEN Over(w.id) /\ Pending(w.id, r)
          ELSE Recorded(w.id) /\ InTime(w.id, w.call) /\ Shows(request[r].flags) = op[w.id].state
FreesOK(k, w) ==
  /\ Keeps(k, w.id, w.req) /\ Recorded(w.id) /\ Drops(w.id, w.call)
  /\ IF w.call = "Wait" THEN Over(w.id) ELSE InTime(w.id, w.call)
LeavesOK(k, w) ==
  /\ w.call # NULL /\ Recorded(w.id)
  /\ IF w.call = "Wait" THEN Over(w.id) ELSE InTime(w.id, w.call)
  /\ IF Drops(w.id, w.call) THEN Own(k) = << >>
     ELSE \E r \in Requests : /\ Keeps(k, w.id, r)
                              /\ Shows(request[r].flags) = IF w.call = "Start" THEN "active" ELSE op[w.id].state
SingleWorks(k, w) ==
  /\ w.id \in Of(k)
  /\ \/ Inserting(w) /\ InsertsOK(k, w)
     \/ (Getting(w) \/ Using(w)) /\ UsesOK(k, w)
     \/ Freeing(w) /\ FreesOK(k, w)
     \/ Leaving(w) /\ LeavesOK(k, w)
  /\ \A i \in Of(k) \ {w.id} : Recorded(i)
(* ... and of those of a value that no thread works with.                  *)
SingleRests(k) ==
  /\ \A i \in Of(k) : /\ Recorded(i)
                      /\ Live(i) => \E r \in Requests : Keeps(k, i, r) /\ Shows(request[r].flags) = op[i].state
  /\ (\A i \in Of(k) : ~Live(i)) => Own(k) = << >>

(* The requests with the dummy value stand for each other: X are not in    *)
(* the list yet, Y are recorded, but in the list.                          *)
Unrecorded(k) == {i \in Of(k) : completions[i] = 0}
Active(k) == {i \in Of(k) : op[i].state = "active"}
Listed(k, X, Y) ==
  /\ \A i \in Of(k) : completions[i] \in {0, 1} /\ op[i].observed = IF op[i].state = "done" THEN 1 ELSE 0
  /\ \A i \in Unrecorded(k) \ X : \E r \in Range(Own(k)) : request[r].id = i
  /\ \A r \in Range(Own(k)) : request[r].id \in Of(k) \ X /\ request[r].flags = {}
  /\ \A r \in Range(Own(k)) \ Y : completions[request[r].id] = 0
  /\ \A r, q \in Range(Own(k)) : request[r].id = request[q].id => r = q
Enough(k, c) == Cardinality(Unrecorded(k)) <= Cardinality(Active(k)) + c
DummyInserts(k, w) ==
  /\ w.call = NULL /\ w.id \in Unrecorded(k) /\ Listed(k, {w.id}, {}) /\ Enough(k, 0)
  /\ Appending(w) => /\ request[w.req].id = w.id /\ request[w.req].flags = {}
                     /\ request[w.req].marker = FALSE
DummyUses(k, w) ==
  /\ w.call = "Wait" /\ Listed(k, {}, {}) /\ Enough(k, 1)
  /\ Using(w) /\ w.req = NULL => Own(k) = << >>
DummyFrees(k, w) ==
  w.call = "Wait" /\ Listed(k, {}, {w.req}) /\ Enough(k, 0) /\ completions[request[w.req].id] # 0
DummyLeaves(k, w) == w.call = "Wait" /\ Listed(k, {}, {}) /\ Enough(k, 0)
DummyAppended(k, w) == w.call = NULL /\ Listed(k, {}, {}) /\ Enough(k, 0)
DummyWorks(k, w) ==
  \/ (Inserting(w) \/ Appending(w)) /\ DummyInserts(k, w)
  \/ (Getting(w) \/ Using(w)) /\ DummyUses(k, w)
  \/ Freeing(w) /\ DummyFrees(k, w)
  \/ (Releasing(w) \/ Leaving(w)) /\ DummyLeaves(k, w)
  \/ Appended(w) /\ DummyAppended(k, w)
DummyRests(k) == Listed(k, {}, {}) /\ Enough(k, 0)

(* A mark belongs to the call that goes on.                                *)
WorkingOK(k, w) ==
  /\ \A r \in Range(Own(k)) : request[r].marker => w.call # NULL /\ r = w.req /\ w.pc # "return"
  /\ IF k = Dummy THEN DummyWorks(k, w) ELSE SingleWorks(k, w)
RestingOK(k) ==
  /\ \A r \in Range(Own(k)) : ~request[r].marker
  /\ IF k = Dummy THEN DummyRests(k) ELSE SingleRests(k)

OperationOK(i) ==
  /\ op[i].known => i <= mpi_last_request_id
  /\ ~op[i].known => completions[i] = 0 /\ op[i].observed = 0
  /\ Live(i) /\ op[i].key # Dummy => op[i].known
  /\ op[i].key = Dummy => ~op[i].persistent /\ op[i].state \in {"none", "active", "done"}
  /\ op[i].state = "inactive" => op[i].persistent

RecordsOK ==
  /\ errors = {}
  /\ \A i \in Ids : OperationOK(i)
  /\ \A k \in Keys : (\A t \in Threads : ~Idle(th[t]) => th[t].key # k) => RestingOK(k)
  /\ \A t \in Threads, k \in Keys, w \in ThreadRecords : th[t] = w /\ w.key = k /\ ~Idle(w) => WorkingOK(k, w)

(* What a step leaves as it is for the other values.                       *)
OpsKept(key) == \A k \in Keys \ {key} : /\ Of(k)' = Of(k)
                                        /\ \A i \in Of(k) : op'[i] = op[i] /\ completions'[i] = completions[i]

(* A step that changes no link and no entry keeps all lists.               *)
LEMMA OwnSame ==
  ASSUME MpiRequestsAssumption, MpiIInv, request_table' = request_table, payload' = payload,
         \A r \in Requests : request'[r].next = request[r].next /\ request'[r].request = request[r].request
  PROVE  \A k \in Keys : Own(k)' = Own(k)
<1> SUFFICES ASSUME NEW k \in Keys PROVE Own(k)' = Own(k)
  OBVIOUS
<1>1. ListOK(k) /\ Range(Own(k)) \subseteq Requests
  BY OwnElements DEF MpiIInv, ListsOK
<1> QED BY <1>1, OwnKept

(* What is known when t is in a call.                                      *)
LEMMA AtWork ==
  ASSUME MpiRequestsAssumption, MpiIInv, RecordsOK, NEW t \in Threads, ~Idle(th[t])
  PROVE  \E key \in Keys, w \in ThreadRecords :
           /\ th[t] = w /\ w.key = key /\ Knows(w) /\ w.id \in Ids /\ op[w.id].key = key
           /\ WorkingOK(key, w) /\ Range(Own(key)) \subseteq Requests
           /\ \A u \in Threads \ {t} : ~Idle(th[u]) => th[u].key # key
           /\ key # Dummy => \A i \in Ids : Live(i) /\ op[i].key = key => i = w.id
<1>1. PICK w \in ThreadRecords : w = th[t]
  BY ThreadFields DEF MpiIInv
<1>2. PICK key \in Keys : key = w.key
  BY <1>1, ThreadFields DEF MpiIInv
<1>3. Knows(w) /\ w.id \in Ids /\ op[w.id].key = key
  <2>1. ThreadOK(t) /\ th[t].id \in Ids
    BY ThreadFields DEF MpiIInv
  <2> QED BY <1>1, <1>2, <2>1 DEF ThreadOK, Knows
<1>4. WorkingOK(key, w)
  BY <1>1, <1>2 DEF RecordsOK
<1>5. Range(Own(key)) \subseteq Requests
  BY OwnElements DEF MpiIInv, ListsOK
<1>6. \A u \in Threads \ {t} : ~Idle(th[u]) => th[u].key # key
  BY <1>1, <1>2 DEF MpiIInv, ThreadsOK
<1>7. key # Dummy => \A i \in Ids : Live(i) /\ op[i].key = key => i = w.id
  BY <1>1, <1>2 DEF MpiIInv, ThreadsOK
<1> QED BY <1>1, <1>2, <1>3, <1>4, <1>5, <1>6, <1>7

(* A step that leaves what concerns a value as it is.                      *)
SameOf(key) ==
  /\ Own(key)' = Own(key) /\ \A r \in Range(Own(key)) : SameData(r)
  /\ Of(key)' = Of(key) /\ \A i \in Of(key) : op'[i] = op[i] /\ completions'[i] = completions[i]
LEMMA SameView ==
  ASSUME NEW key, SameOf(key)
  PROVE  /\ \A i \in Of(key) : /\ Recorded(i)' <=> Recorded(i)
                               /\ Live(i)' <=> Live(i)
                               /\ Over(i)' <=> Over(i)
                               /\ \A call : (InTime(i, call)' <=> InTime(i, call)) /\ (Drops(i, call)' <=> Drops(i, call))
                               /\ \A r : Keeps(key, i, r)' <=> Keeps(key, i, r)
                               /\ \A r : Keeps(key, i, r) => (Pending(i, r)' <=> Pending(i, r))
         /\ \A i, r : Keeps(key, i, r) => request'[r].flags = request[r].flags
         /\ Unrecorded(key)' = Unrecorded(key) /\ Active(key)' = Active(key)
         /\ \A c : Enough(key, c)' <=> Enough(key, c)
         /\ \A X, Y : Listed(key, X, Y)' <=> Listed(key, X, Y)
<1>1. \A r : Own(key) = <<r>> => r \in Range(Own(key))
  <2> SUFFICES ASSUME NEW r, Own(key) = <<r>> PROVE r \in Range(Own(key))
    OBVIOUS
  <2>1. 1 \in DOMAIN <<r>> /\ <<r>>[1] = r
    OBVIOUS
  <2> QED BY <2>1 DEF Range
<1>2. \A i, r : Keeps(key, i, r) => r \in Range(Own(key)) /\ request'[r].flags = request[r].flags
  BY <1>1 DEF Keeps, SameOf, SameData
<1>3. \A i \in Of(key) : /\ Recorded(i)' <=> Recorded(i)
                         /\ Live(i)' <=> Live(i)
                         /\ Over(i)' <=> Over(i)
                         /\ \A call : (InTime(i, call)' <=> InTime(i, call)) /\ (Drops(i, call)' <=> Drops(i, call))
  BY DEF SameOf, Recorded, Live, Over, InTime, Drops
<1>4. \A i \in Of(key) : \A r : Keeps(key, i, r)' <=> Keeps(key, i, r)
  BY <1>1 DEF SameOf, SameData, Keeps
<1>5. \A i \in Of(key) : \A r : Keeps(key, i, r) => (Pending(i, r)' <=> Pending(i, r))
  BY <1>2 DEF SameOf, Pending
<1>6. Unrecorded(key)' = Unrecorded(key) /\ Active(key)' = Active(key)
  BY DEF SameOf, Unrecorded, Active
<1>7. \A c : Enough(key, c)' <=> Enough(key, c)
  BY <1>6 DEF Enough
<1>8. ASSUME NEW X, NEW Y PROVE Listed(key, X, Y)' <=> Listed(key, X, Y)
  <2>1. (\A i \in Of(key) : completions[i] \in {0, 1} /\ op[i].observed = IF op[i].state = "done" THEN 1 ELSE 0)'
        <=> (\A i \in Of(key) : completions[i] \in {0, 1} /\ op[i].observed = IF op[i].state = "done" THEN 1 ELSE 0)
    BY DEF SameOf
  <2>2. (\A i \in Unrecorded(key) \ X : \E r \in Range(Own(key)) : request[r].id = i)'
        <=> (\A i \in Unrecorded(key) \ X : \E r \in Range(Own(key)) : request[r].id = i)
    BY <1>6 DEF SameOf, SameData
  <2>3. (\A r \in Range(Own(key)) : request[r].id \in Of(key) \ X /\ request[r].flags = {})'
        <=> (\A r \in Range(Own(key)) : request[r].id \in Of(key) \ X /\ request[r].flags = {})
    BY DEF SameOf, SameData
  <2>4. ((\A r \in Range(Own(key)) : request[r].id \in Of(key)) /\ \A r \in Range(Own(key)) \ Y : completions[request[r].id] = 0)'
        <=> ((\A r \in Range(Own(key)) : request[r].id \in Of(key)) /\ \A r \in Range(Own(key)) \ Y : completions[request[r].id] = 0)
    BY DEF SameOf, SameData
  <2>5. (\A r, q \in Range(Own(key)) : request[r].id = request[q].id => r = q)'
        <=> (\A r, q \in Range(Own(key)) : request[r].id = request[q].id => r = q)
    BY DEF SameOf, SameData
  <2> QED BY <2>1, <2>2, <2>3, <2>4, <2>5 DEF Listed
<1> QED BY <1>2, <1>3, <1>4, <1>5, <1>6, <1>7, <1>8

(* It keeps what is known of it, while nobody works with it ...            *)
LEMMA SameRests == ASSUME NEW key, SameOf(key), RestingOK(key) PROVE RestingOK(key)'
<1>1. (\A r \in Range(Own(key)) : ~request[r].marker)'
  BY DEF RestingOK, SameOf, SameData
<1>2. key = Dummy => DummyRests(key)'
  BY SameView DEF RestingOK, DummyRests
<1>3. key # Dummy => SingleRests(key)'
  <2> SUFFICES ASSUME key # Dummy PROVE SingleRests(key)'
    OBVIOUS
  <2>1. SingleRests(key)
    BY DEF RestingOK
  <2>2. ASSUME NEW i \in Of(key)
        PROVE  Recorded(i)' /\ (Live(i)' => \E r \in Requests : Keeps(key, i, r)' /\ Shows(request'[r].flags) = op'[i].state)
    <3>1. op'[i] = op[i] /\ Recorded(i) /\ Recorded(i)' /\ (Live(i)' => Live(i))
      BY <2>1, SameView DEF SingleRests, SameOf
    <3>2. ASSUME Live(i)' PROVE \E r \in Requests : Keeps(key, i, r)' /\ Shows(request'[r].flags) = op'[i].state
      <4>1. PICK r \in Requests : Keeps(key, i, r) /\ Shows(request[r].flags) = op[i].state
        BY <2>1, <3>1, <3>2 DEF SingleRests
      <4> QED BY <3>1, <4>1, SameView
    <3> QED BY <3>1, <3>2
  <2>3. (\A i \in Of(key) : ~Live(i)') => Own(key)' = << >>
    BY <2>1, SameView DEF SingleRests, SameOf
  <2> QED BY <2>2, <2>3 DEF SingleRests, SameOf
<1> QED BY <1>1, <1>2, <1>3 DEF RestingOK

(* ... and while one thread does, whose record becomes v.                  *)
SamePhase(w, v) ==
  /\ v.id = w.id /\ v.call = w.call /\ v.req = w.req
  /\ (Inserting(v) <=> Inserting(w)) /\ (Appending(v) <=> Appending(w)) /\ (Getting(v) <=> Getting(w))
  /\ (Using(v) <=> Using(w)) /\ (Freeing(v) <=> Freeing(w)) /\ (Releasing(v) <=> Releasing(w))
  /\ (Leaving(v) <=> Leaving(w)) /\ (Appended(v) <=> Appended(w))

(* A call is in one phase.                                                 *)
LEMMA OnePhase ==
  ASSUME NEW w
  PROVE  /\ Inserting(w) => ~(Appending(w) \/ Getting(w) \/ Using(w) \/ Freeing(w) \/ Releasing(w) \/ Leaving(w) \/ Appended(w))
         /\ Appending(w) => ~(Getting(w) \/ Using(w) \/ Freeing(w) \/ Releasing(w) \/ Leaving(w) \/ Appended(w))
         /\ Getting(w) => ~(Using(w) \/ Freeing(w) \/ Releasing(w) \/ Leaving(w) \/ Appended(w))
         /\ Using(w) => ~(Freeing(w) \/ Releasing(w) \/ Leaving(w) \/ Appended(w))
         /\ Freeing(w) => ~(Releasing(w) \/ Leaving(w) \/ Appended(w))
         /\ Releasing(w) => ~(Leaving(w) \/ Appended(w))
         /\ Leaving(w) => ~Appended(w)
BY DEF Inserting, Appending, Getting, Using, Freeing, Releasing, Leaving, Appended

LEMMA SameWorks ==
  ASSUME NEW key, NEW w, NEW v, SameOf(key), SamePhase(w, v), WorkingOK(key, w), Knows(w), w.key = key,
         Appending(w) => request'[w.req] = request[w.req],
         \A r \in Range(Own(key)) : request'[r].marker => v.pc # "return"
  PROVE  WorkingOK(key, v)'
<1>1. \A r \in Range(Own(key)') : request'[r].marker => v.call # NULL /\ r = v.req /\ v.pc # "return"
  BY DEF WorkingOK, SameOf, SameData, SamePhase
<1>2. CASE key = Dummy
  <2>1. DummyWorks(key, w)
    BY <1>2 DEF WorkingOK
  <2>2. /\ \A c : Enough(key, c)' <=> Enough(key, c)
        /\ \A X, Y : Listed(key, X, Y)' <=> Listed(key, X, Y)
        /\ Unrecorded(key)' = Unrecorded(key) /\ Own(key)' = Own(key)
    BY SameView DEF SameOf
  <2>3. v.id = w.id /\ v.call = w.call /\ v.req = w.req
    BY DEF SamePhase
  <2>4. ASSUME (Inserting(w) \/ Appending(w)) /\ DummyInserts(key, w) PROVE DummyWorks(key, v)'
    <3>1. DummyInserts(key, v)' /\ (Inserting(v) \/ Appending(v))
      BY <2>2, <2>3, <2>4 DEF DummyInserts, SamePhase
    <3> QED BY <3>1 DEF DummyWorks
  <2>5. ASSUME (Getting(w) \/ Using(w)) /\ DummyUses(key, w) PROVE DummyWorks(key, v)'
    <3>1. DummyUses(key, v)' /\ (Getting(v) \/ Using(v))
      BY <2>2, <2>3, <2>5 DEF DummyUses, SamePhase
    <3> QED BY <3>1 DEF DummyWorks
  <2>6. ASSUME Freeing(w) /\ DummyFrees(key, w) PROVE DummyWorks(key, v)'
    <3>1. w.req \in Range(Own(key))
      BY <2>6 DEF Knows
    <3>2. request'[w.req].id = request[w.req].id /\ request[w.req].id \in Of(key)
      BY <2>6, <3>1 DEF SameOf, SameData, DummyFrees, Listed
    <3>3. completions'[request'[w.req].id] = completions[request[w.req].id]
      BY <3>2 DEF SameOf
    <3>4. DummyFrees(key, v)' /\ Freeing(v)
      BY <2>2, <2>3, <2>6, <3>3 DEF DummyFrees, SamePhase
    <3> QED BY <3>4 DEF DummyWorks
  <2>7. ASSUME (Releasing(w) \/ Leaving(w)) /\ DummyLeaves(key, w) PROVE DummyWorks(key, v)'
    <3>1. DummyLeaves(key, v)' /\ (Releasing(v) \/ Leaving(v))
      BY <2>2, <2>3, <2>7 DEF DummyLeaves, SamePhase
    <3> QED BY <3>1 DEF DummyWorks
  <2>8. ASSUME Appended(w) /\ DummyAppended(key, w) PROVE DummyWorks(key, v)'
    <3>1. DummyAppended(key, v)' /\ Appended(v)
      BY <2>2, <2>3, <2>8 DEF DummyAppended, SamePhase
    <3> QED BY <3>1 DEF DummyWorks
  <2>9. DummyWorks(key, v)'
    BY <2>1, <2>4, <2>5, <2>6, <2>7, <2>8 DEF DummyWorks
  <2> QED BY <1>1, <1>2, <2>9 DEF WorkingOK
<1>3. CASE key # Dummy
  <2>1. SingleWorks(key, w)
    BY <1>3 DEF WorkingOK
  <2>2. v.id = w.id /\ v.call = w.call /\ v.req = w.req /\ Own(key)' = Own(key) /\ Of(key)' = Of(key)
    BY DEF SamePhase, SameOf
  <2>3. PICK i \in Of(key) : i = w.id
    BY <2>1 DEF SingleWorks
  <2>4. /\ op'[i] = op[i] /\ (Recorded(i)' <=> Recorded(i)) /\ (Over(i)' <=> Over(i))
        /\ \A call : (InTime(i, call)' <=> InTime(i, call)) /\ (Drops(i, call)' <=> Drops(i, call))
        /\ \A r : Keeps(key, i, r)' <=> Keeps(key, i, r)
        /\ \A r : Keeps(key, i, r) => (Pending(i, r)' <=> Pending(i, r)) /\ request'[r].flags = request[r].flags
    BY SameView DEF SameOf
  <2>5. \A j \in Of(key)' \ {v.id} : Recorded(j)'
    BY <2>1, <2>2, SameView DEF SingleWorks
  <2>6. ASSUME Inserting(w) /\ InsertsOK(key, w) PROVE SingleWorks(key, v)'
    BY <2>2, <2>3, <2>4, <2>5, <2>6 DEF SingleWorks, InsertsOK, SamePhase
  <2>7. ASSUME (Getting(w) \/ Using(w)) /\ UsesOK(key, w) PROVE SingleWorks(key, v)'
    <3>1. PICK r \in Requests :
            /\ Keeps(key, i, r) /\ (Using(w) => w.req = r)
            /\ IF w.call = "Wait" THEN Over(i) /\ Pending(i, r)
               ELSE Recorded(i) /\ InTime(i, w.call) /\ Shows(request[r].flags) = op[i].state
      BY <2>3, <2>7 DEF UsesOK
    <3>2. UsesOK(key, v)' /\ (Getting(v) \/ Using(v))
      BY <2>2, <2>3, <2>4, <2>7, <3>1 DEF UsesOK, SamePhase
    <3> QED BY <2>2, <2>3, <2>5, <3>2 DEF SingleWorks
  <2>8. ASSUME Freeing(w) /\ FreesOK(key, w) PROVE SingleWorks(key, v)'
    <3>1. FreesOK(key, v)' /\ Freeing(v)
      BY <2>2, <2>3, <2>4, <2>8 DEF FreesOK, SamePhase
    <3> QED BY <2>2, <2>3, <2>5, <3>1 DEF SingleWorks
  <2>9. ASSUME Leaving(w) /\ LeavesOK(key, w) PROVE SingleWorks(key, v)'
    <3>1. LeavesOK(key, v)' /\ Leaving(v)
      BY <2>2, <2>3, <2>4, <2>9 DEF LeavesOK, SamePhase
    <3> QED BY <2>2, <2>3, <2>5, <3>1 DEF SingleWorks
  <2>10. SingleWorks(key, v)'
    BY <2>1, <2>6, <2>7, <2>8, <2>9 DEF SingleWorks
  <2> QED BY <1>1, <1>3, <2>10 DEF WorkingOK
<1> QED BY <1>2, <1>3

(* What is known of the values that t does not work with stays as it is.   *)
LEMMA StepRecords ==
  ASSUME MpiRequestsAssumption, MpiIInv, MpiIInv', RecordsOK, NEW t \in Threads, NEW key \in Keys, NEW w,
         th' = [th EXCEPT ![t] = w], ~Idle(th[t]) => th[t].key = key, ~Idle(w) => w.key = key,
         \A u \in Threads \ {t} : ~Idle(th[u]) => th[u].key # key,
         Idle(th[t]) /\ Idle(w) => request' = request,
         setup' = setup, OthersKept(key), OpsKept(key), errors' = {}, \A i \in Ids : OperationOK(i)',
         Idle(w) => RestingOK(key)', ~Idle(w) => WorkingOK(key, w)'
  PROVE  RecordsOK'
<1>1. th'[t] = w /\ \A u \in Threads \ {t} : th'[u] = th[u]
  BY DEF MpiIInv, MpiTyped
<1>2. \A k \in Keys \ {key} : SameOf(k)
  BY DEF OthersKept, OpsKept, SameOf
<1>3. ASSUME NEW k \in Keys, \A u \in Threads : ~Idle(th'[u]) => th'[u].key # k PROVE RestingOK(k)'
  <2>1. CASE k = key
    <3>1. Idle(w)
      BY <1>1, <1>3, <2>1
    <3> QED BY <2>1, <3>1
  <2>2. CASE k # key
    <3>1. \A u \in Threads : ~Idle(th[u]) => th[u].key # k
      BY <1>1, <1>3, <2>2
    <3>2. RestingOK(k) /\ SameOf(k)
      BY <1>2, <2>2, <3>1 DEF RecordsOK
    <3> QED BY <3>2, SameRests
  <2> QED BY <2>1, <2>2
<1>4. ASSUME NEW u \in Threads, NEW k \in Keys, NEW v \in ThreadRecords, th'[u] = v, v.key = k, ~Idle(v)
      PROVE  WorkingOK(k, v)'
  <2>1. CASE u = t
    <3>1. v = w /\ k = key
      BY <1>1, <1>4, <2>1
    <3> QED BY <1>4, <3>1
  <2>2. CASE u # t
    <3>1. th[u] = v /\ Knows(v) /\ WorkingOK(k, v) /\ Range(Own(k)) \subseteq Requests
      BY <1>1, <1>4, <2>2, AtWork
    <3>2. k # key
      BY <1>1, <1>4, <2>2, <3>1
    <3>3. SameOf(k)
      BY <1>2, <3>2
    <3>4. SamePhase(v, v)
      BY DEF SamePhase
    <3>5. \A r \in Range(Own(k)) : request'[r].marker => v.pc # "return"
      BY <3>1, <3>3 DEF WorkingOK, SameOf, SameData
    <3>6. Appending(v) => request'[v.req] = request[v.req]
      <4> SUFFICES ASSUME Appending(v) PROVE request' = request
        OBVIOUS
      <4>1. k = Dummy
        BY <3>1, OnePhase DEF WorkingOK, SingleWorks
      <4>2. (~Idle(th[t]) => ~Allows("multiple") \/ th[u].key # Dummy) /\ (~Idle(th[t]) => Allows("multiple"))
        BY <1>4, <2>2, <3>1, <3>2 DEF MpiIInv, ThreadsOK
      <4>3. (~Idle(w) => ~Allows("multiple")' \/ th'[u].key # Dummy) /\ (~Idle(w) => Allows("multiple")')
        BY <1>1, <1>4, <2>2, <3>1, <3>2 DEF MpiIInv, ThreadsOK
      <4> QED BY <1>4, <3>1, <3>2, <4>1, <4>2, <4>3
    <3>7. WorkingOK(k, v)'
      BY <1>4, <3>1, <3>3, <3>4, <3>5, <3>6, SameWorks
    <3> QED BY <3>7
  <2> QED BY <2>1, <2>2
<1> QED BY <1>3, <1>4 DEF RecordsOK, Ids

(* A step that leaves the lists, and the requests of other values, as they *)
(* are.                                                                    *)
LEMMA NothingMoves ==
  ASSUME MpiRequestsAssumption, MpiIInv, NEW key \in Keys, request_table' = request_table, payload' = payload,
         \A r \in Requests : request'[r].next = request[r].next /\ request'[r].request = request[r].request,
         \A r \in Requests \ Range(Own(key)) : SameData(r)
  PROVE  OthersKept(key) /\ Own(key)' = Own(key) /\ Range(Own(key)) \subseteq Requests
<1>1. \A k \in Keys : Own(k)' = Own(k)
  BY OwnSame
<1>2. ASSUME NEW k \in Keys \ {key}, NEW r \in Range(Own(k)) PROVE SameData(r)
  <2>1. r \in Requests
    BY OwnElements DEF MpiIInv, ListsOK
  <2>2. r \notin Range(Own(key))
    BY DEF MpiIInv, RequestsApart
  <2> QED BY <2>1, <2>2
<1>3. Range(Own(key)) \subseteq Requests
  BY OwnElements DEF MpiIInv, ListsOK
<1> QED BY <1>1, <1>2, <1>3 DEF OthersKept

(* ... and the operations with other values.                               *)
LEMMA OpsOfOthers ==
  ASSUME NEW key, setup' = setup,
         \A i \in Ids : op'[i].key = op[i].key /\ op'[i].known = op[i].known,
         \A i \in Ids : op[i].key # key => op'[i] = op[i] /\ completions'[i] = completions[i]
  PROVE  OpsKept(key) /\ Of(key)' = Of(key)
<1>1. Ids' = Ids
  BY DEF Ids
<1>2. \A k : Of(k)' = Of(k)
  BY <1>1 DEF Of
<1>3. \A k \in Keys \ {key} : \A i \in Of(k) : i \in Ids /\ op[i].key # key
  BY DEF Of
<1> QED BY <1>2, <1>3 DEF OpsKept

(* Operations that only get recorded.                                      *)
LEMMA OperationsKept ==
  ASSUME RecordsOK, mpi_last_request_id' = mpi_last_request_id, op' = op,
         \A i \in Ids : ~op[i].known => completions'[i] = completions[i]
  PROVE  \A i \in Ids : OperationOK(i)'
BY DEF RecordsOK, OperationOK, Live

(* What a step of a call must show, when the operations stay.              *)
LEMMA CallStep ==
  ASSUME MpiRequestsAssumption, MpiIInv, MpiIInv', RecordsOK, NEW t \in Threads, ~Idle(th[t]),
         NEW key \in Keys, key = th[t].key, NEW w, th' = [th EXCEPT ![t] = w], ~Idle(w) => w.key = key,
         setup' = setup, mpi_last_request_id' = mpi_last_request_id, op' = op, errors' = errors,
         \A i \in Ids : op[i].key # key \/ ~op[i].known => completions'[i] = completions[i],
         OthersKept(key),
         Of(key)' = Of(key) => IF Idle(w) THEN RestingOK(key)' ELSE WorkingOK(key, w)'
  PROVE  RecordsOK'
<1>1. \A u \in Threads \ {t} : ~Idle(th[u]) => th[u].key # key
  BY DEF MpiIInv, ThreadsOK
<1>2. OpsKept(key) /\ Of(key)' = Of(key)
  BY OpsOfOthers
<1>3. \A i \in Ids : OperationOK(i)'
  BY OperationsKept
<1>4. errors' = {}
  BY DEF RecordsOK
<1> QED BY <1>1, <1>2, <1>3, <1>4, StepRecords

(* Steps on the way from one phase of a call to the next.                  *)
LEMMA PhaseStep ==
  ASSUME MpiRequestsAssumption, MpiIInv, MpiIInv', RecordsOK, NEW t \in Threads, ~Idle(th[t]),
         NEW v \in ThreadRecords, v = th[t], NEW w, th' = [th EXCEPT ![t] = w],
         SamePhase(v, w), w.key = v.key, ~Idle(w),
         setup' = setup, mpi_last_request_id' = mpi_last_request_id, op' = op, errors' = errors,
         completions' = completions, request_table' = request_table, payload' = payload,
         \A r \in Requests : request'[r].next = request[r].next /\ request'[r].request = request[r].request /\ SameData(r),
         request' = request \/ ~Appending(v),
         \A r \in Range(Own(v.key)) : request'[r].marker => w.pc # "return"
  PROVE  RecordsOK'
<1>1. PICK key \in Keys : /\ v.key = key /\ Knows(v) /\ WorkingOK(key, v)
  BY AtWork
<1>2. OthersKept(key) /\ Own(key)' = Own(key) /\ Range(Own(key)) \subseteq Requests
  BY NothingMoves
<1>3. ASSUME Of(key)' = Of(key) PROVE WorkingOK(key, w)'
  <2>1. SameOf(key)
    BY <1>2, <1>3 DEF SameOf
  <2>2. Appending(v) => request'[v.req] = request[v.req]
    OBVIOUS
  <2>3. \A r \in Range(Own(key)) : request'[r].marker => w.pc # "return"
    BY <1>1
  <2> QED BY <1>1, <2>1, <2>2, <2>3, SameWorks
<1> QED BY <1>1, <1>2, <1>3, CallStep

(* Lookup, if the value has an entry.                                      *)
LEMMA LookupRecords ==
  ASSUME MpiRequestsAssumption, MpiIInv, RecordsOK, NEW t \in Threads, Lookup(t)
  PROVE  RecordsOK'
<1>1. ~Idle(th[t]) /\ th[t].pc = "lookup" /\ MpiIInv'
  BY LookupKeeps DEF Lookup, ThreadAt, Idle
<1>2. PICK key \in Keys, v \in ThreadRecords :
        /\ th[t] = v /\ v.key = key /\ Knows(v) /\ WorkingOK(key, v) /\ Range(Own(key)) \subseteq Requests
  BY <1>1, AtWork
<1>3. /\ setup' = setup /\ mpi_last_request_id' = mpi_last_request_id /\ op' = op
      /\ completions' = completions /\ request_table' = request_table /\ payload' = payload /\ request' = request
      /\ \A r \in Requests : SameData(r)
  BY DEF Lookup, SameData
<1>4. CASE request_table[key] # NULL
  <2>1. PICK w : w = [v EXCEPT !.pc = "lock", !.value = request_table[key]]
    OBVIOUS
  <2>2. /\ w.pc = "lock" /\ w.id = v.id /\ w.call = v.call /\ w.req = v.req /\ w.key = v.key /\ w.after = v.after
        /\ th' = [th EXCEPT ![t] = w] /\ errors' = errors
    <3>1. /\ w.pc = "lock" /\ w.id = v.id /\ w.call = v.call /\ w.req = v.req /\ w.key = v.key
          /\ w.after = v.after
      BY <2>1 DEF ThreadRecords
    <3>2. /\ th' = [th EXCEPT ![t].pc = "lock", ![t].value = request_table[key]] /\ errors' = errors
      BY <1>2, <1>4 DEF Lookup
    <3>3. th' = [th EXCEPT ![t] = w]
      BY <1>2, <2>1, <3>2
    <3> QED BY <3>1, <3>2, <3>3
  <2>3. ~Appending(v)
    BY <1>1, <1>2 DEF Appending
  <2>4. Getting(v) \/ Freeing(v)
    BY <1>1, <1>2 DEF Knows, Inserting, Appending, Getting, Using, Freeing, Releasing, Leaving, Appended
  <2>5. SamePhase(v, w) /\ ~Idle(w)
    BY <1>1, <1>2, <2>2, <2>4 DEF SamePhase, Idle, Inserting, Appending, Getting, Using, Freeing, Releasing, Leaving, Appended
  <2> QED BY <1>1, <1>2, <1>3, <2>2, <2>5, PhaseStep
<1>5. CASE request_table[key] = NULL
  <2>1. Own(key) = << >> /\ Range(Own(key)) = {}
    BY <1>5, EmptyList DEF Own
  <2>2. Getting(v)
    BY <1>1, <1>2, <2>1 DEF Knows, Inserting, Appending, Getting, Using, Freeing, Releasing, Leaving, Appended
  <2>3. key = Dummy
    <3> SUFFICES ASSUME key # Dummy PROVE FALSE
      OBVIOUS
    <3>1. UsesOK(key, v)
      BY <1>2, <2>2, OnePhase DEF WorkingOK, SingleWorks
    <3>2. \E r : <<r>> = << >>
      BY <2>1, <3>1 DEF UsesOK, Keeps
    <3> QED BY <3>2
  <2>4. DummyUses(key, v)
    BY <1>2, <2>2, <2>3, OnePhase DEF WorkingOK, DummyWorks
  <2>5. PICK w : w = [v EXCEPT !.pc = "use"]
    OBVIOUS
  <2>6. /\ w.pc = "use" /\ w.id = v.id /\ w.call = v.call /\ w.req = v.req /\ w.key = v.key /\ w.after = v.after
        /\ th' = [th EXCEPT ![t] = w] /\ errors' = errors
    BY <1>1, <1>2, <1>5, <2>2, <2>5 DEF ThreadRecords, Lookup, Getting
  <2>7. OthersKept(key) /\ Own(key)' = Own(key)
    BY <1>2, <1>3, NothingMoves
  <2>8. ASSUME Of(key)' = Of(key) PROVE WorkingOK(key, w)'
    <3>1. SameOf(key)
      BY <1>2, <1>3, <2>7, <2>8 DEF SameOf
    <3>2. DummyUses(key, w)'
      BY <2>1, <2>4, <2>6, <2>7, <3>1, SameView DEF DummyUses
    <3>3. DummyWorks(key, w)'
      BY <2>6, <3>2 DEF DummyWorks, Using
    <3> QED BY <2>1, <2>3, <2>7, <3>3 DEF WorkingOK
  <2>9. ~Idle(w)
    BY <2>6 DEF Idle
  <2> QED BY <1>1, <1>2, <1>3, <2>6, <2>7, <2>8, <2>9, CallStep
<1> QED BY <1>4, <1>5

(* The elements of a list of one.                                          *)
LEMMA RangeOfOne == ASSUME NEW r PROVE Range(<<r>>) = {r} /\ <<r>> # << >>
<1>1. DOMAIN <<r>> = {1} /\ <<r>>[1] = r /\ Len(<<r>>) = 1
  OBVIOUS
<1> QED BY <1>1 DEF Range

(* The lock of the entry is taken.                                         *)
LEMMA LockRecords ==
  ASSUME MpiRequestsAssumption, MpiIInv, RecordsOK, NEW t \in Threads, LockEntry(t)
  PROVE  RecordsOK'
<1>1. ~Idle(th[t]) /\ th[t].pc = "lock" /\ MpiIInv'
  BY LockEntryKeeps DEF LockEntry, ThreadAt, Idle
<1>2. PICK key \in Keys, v \in ThreadRecords : th[t] = v /\ v.key = key /\ Knows(v)
  BY <1>1, AtWork
<1>3. /\ setup' = setup /\ mpi_last_request_id' = mpi_last_request_id /\ op' = op /\ errors' = errors
      /\ completions' = completions /\ request_table' = request_table /\ payload' = payload /\ request' = request
      /\ \A r \in Requests : SameData(r)
  BY DEF LockEntry, SameData
<1>4. PICK w : w = [v EXCEPT !.pc = "control"]
  OBVIOUS
<1>5. /\ w.pc = "control" /\ w.id = v.id /\ w.call = v.call /\ w.req = v.req /\ w.key = v.key /\ w.after = v.after
      /\ th' = [th EXCEPT ![t] = w]
  BY <1>2, <1>4 DEF ThreadRecords, LockEntry, MoveTo
<1>6. SamePhase(v, w) /\ ~Idle(w)
  BY <1>1, <1>2, <1>5 DEF SamePhase, Idle, Inserting, Appending, Getting, Using, Freeing, Releasing, Leaving, Appended
<1> QED BY <1>1, <1>2, <1>3, <1>5, <1>6, PhaseStep

(* The second look into the table.                                         *)
LEMMA ControlRecords ==
  ASSUME MpiRequestsAssumption, MpiIInv, RecordsOK, NEW t \in Threads, Control(t)
  PROVE  RecordsOK'
<1>1. ~Idle(th[t]) /\ th[t].pc = "control" /\ MpiIInv'
  BY ControlKeeps DEF Control, ThreadAt, Idle
<1>2. PICK key \in Keys, v \in ThreadRecords : th[t] = v /\ v.key = key /\ Knows(v)
  BY <1>1, AtWork
<1>3. /\ setup' = setup /\ mpi_last_request_id' = mpi_last_request_id /\ op' = op /\ errors' = errors
      /\ completions' = completions /\ request_table' = request_table /\ payload' = payload /\ request' = request
      /\ \A r \in Requests : SameData(r)
  BY DEF Control, SameData
<1>4. request_table[v.key] = v.value
  BY <1>1, <1>2 DEF Knows, AtEntry
<1>5. PICK w : w = [v EXCEPT !.pc = v.after]
  OBVIOUS
<1>6. /\ w.pc = v.after /\ w.id = v.id /\ w.call = v.call /\ w.req = v.req /\ w.key = v.key /\ w.after = v.after
      /\ th' = [th EXCEPT ![t] = w]
  BY <1>2, <1>4, <1>5 DEF ThreadRecords, Control
<1>7. v.after \in {"append", "get", "free"}
  BY <1>1, <1>2 DEF Knows, Inserting, Appending, Getting, Using, Freeing, Releasing, Leaving, Appended
<1>8. SamePhase(v, w) /\ ~Idle(w) /\ w.pc # "return"
  BY <1>1, <1>2, <1>6, <1>7 DEF SamePhase, Idle, Inserting, Appending, Getting, Using, Freeing, Releasing, Leaving, Appended
<1> QED BY <1>1, <1>2, <1>3, <1>6, <1>8, PhaseStep

(* The lock is released; an insertion is over.                             *)
LEMMA UnlockRecords ==
  ASSUME MpiRequestsAssumption, MpiIInv, RecordsOK, NEW t \in Threads, UnlockEntry(t)
  PROVE  RecordsOK'
<1>1. ~Idle(th[t]) /\ th[t].pc = "unlock" /\ MpiIInv'
  BY UnlockKeeps DEF UnlockEntry, ThreadAt, Idle
<1>2. PICK key \in Keys, v \in ThreadRecords :
        th[t] = v /\ v.key = key /\ Knows(v) /\ WorkingOK(key, v) /\ Range(Own(key)) \subseteq Requests
  BY <1>1, AtWork
<1>3. /\ setup' = setup /\ mpi_last_request_id' = mpi_last_request_id /\ op' = op /\ errors' = errors
      /\ completions' = completions /\ request_table' = request_table /\ payload' = payload /\ request' = request
      /\ \A r \in Requests : SameData(r)
  BY DEF UnlockEntry, SameData
<1>4. PICK w : w = [v EXCEPT !.pc = v.after]
  OBVIOUS
<1>5. /\ w.pc = v.after /\ w.id = v.id /\ w.call = v.call /\ w.req = v.req /\ w.key = v.key /\ w.after = v.after
      /\ th' = [th EXCEPT ![t] = w]
  BY <1>2, <1>4 DEF ThreadRecords, UnlockEntry, Knows
<1>6. v.after \in {"use", "release", "unmark", "idle"}
  BY <1>1, <1>2 DEF Knows, Inserting, Appending, Getting, Using, Freeing, Releasing, Leaving, Appended
<1>7. CASE v.after # "idle"
  <2>1. SamePhase(v, w) /\ ~Idle(w) /\ w.pc # "return"
    BY <1>1, <1>2, <1>5, <1>6, <1>7 DEF SamePhase, Idle, Inserting, Appending, Getting, Using, Freeing, Releasing, Leaving, Appended
  <2> QED BY <1>1, <1>2, <1>3, <1>5, <2>1, PhaseStep
<1>8. CASE v.after = "idle"
  <2>1. Appended(v) /\ Idle(w)
    BY <1>1, <1>2, <1>5, <1>8 DEF Appended, Idle
  <2>2. key = Dummy /\ DummyAppended(key, v)
    BY <1>2, <2>1, OnePhase DEF WorkingOK, SingleWorks, DummyWorks
  <2>3. OthersKept(key) /\ Own(key)' = Own(key)
    BY <1>2, <1>3, NothingMoves
  <2>4. ASSUME Of(key)' = Of(key) PROVE RestingOK(key)'
    <3>1. SameOf(key)
      BY <1>2, <1>3, <2>3, <2>4 DEF SameOf
    <3>2. RestingOK(key)
      BY <1>2, <2>2 DEF WorkingOK, RestingOK, DummyAppended, DummyRests
    <3> QED BY <3>1, <3>2, SameRests
  <2> QED BY <1>1, <1>2, <1>3, <1>5, <2>1, <2>3, <2>4, CallStep
<1> QED BY <1>7, <1>8

(* The mark is taken off.                                                  *)
LEMMA UnmarkRecords ==
  ASSUME MpiRequestsAssumption, MpiIInv, RecordsOK, NEW t \in Threads, Unmark(t)
  PROVE  RecordsOK'
<1>1. ~Idle(th[t]) /\ th[t].pc = "unmark" /\ MpiIInv'
  BY UnmarkKeeps DEF Unmark, ThreadAt, Idle
<1>2. PICK key \in Keys, v \in ThreadRecords :
        th[t] = v /\ v.key = key /\ Knows(v) /\ WorkingOK(key, v) /\ Range(Own(key)) \subseteq Requests
  BY <1>1, AtWork
<1>3. /\ setup' = setup /\ mpi_last_request_id' = mpi_last_request_id /\ op' = op /\ errors' = errors
      /\ completions' = completions /\ request_table' = request_table /\ payload' = payload
  BY DEF Unmark
<1>4. /\ \A r \in Requests : request'[r].next = request[r].next /\ request'[r].request = request[r].request /\ SameData(r)
      /\ v.req \in Requests => ~request'[v.req].marker
  <2>1. CASE v.req = NULL
    BY <1>2, <2>1 DEF Unmark, SameData, MpiRequestsAssumption
  <2>2. CASE v.req # NULL
    <3>1. v.req \in Requests /\ request' = [request EXCEPT ![v.req].marker = FALSE]
      BY <1>2, <2>2 DEF Unmark, ThreadRecords
    <3>2. \A r \in Requests :
            /\ request'[r].next = request[r].next /\ request'[r].request = request[r].request
            /\ request'[r].flags = request[r].flags /\ request'[r].id = request[r].id
            /\ r # v.req => request'[r].marker = request[r].marker
            /\ r = v.req => ~request'[r].marker
      BY <3>1, MarkSet DEF MpiIInv
    <3> QED BY <3>1, <3>2 DEF SameData
  <2> QED BY <2>1, <2>2
<1>5. PICK w : w = [v EXCEPT !.pc = "return"]
  OBVIOUS
<1>6. /\ w.pc = "return" /\ w.id = v.id /\ w.call = v.call /\ w.req = v.req /\ w.key = v.key /\ w.after = v.after
      /\ th' = [th EXCEPT ![t] = w]
  BY <1>2, <1>5 DEF ThreadRecords, Unmark, MoveTo
<1>7. SamePhase(v, w) /\ ~Idle(w) /\ ~Appending(v)
  BY <1>1, <1>2, <1>6 DEF SamePhase, Idle, Inserting, Appending, Getting, Using, Freeing, Releasing, Leaving, Appended
<1>8. \A r \in Range(Own(v.key)) : ~request'[r].marker
  BY <1>2, <1>4 DEF WorkingOK, SameData
<1> QED BY <1>1, <1>2, <1>3, <1>4, <1>6, <1>7, <1>8, PhaseStep

(* A request of the value that nobody works on is marked and taken.        *)
LEMMA GetRecords ==
  ASSUME MpiRequestsAssumption, MpiIInv, RecordsOK, NEW t \in Threads, Get(t)
  PROVE  RecordsOK'
<1>1. ~Idle(th[t]) /\ th[t].pc = "get" /\ MpiIInv'
  BY GetKeeps DEF Get, ThreadAt, Idle
<1>2. PICK key \in Keys, v \in ThreadRecords :
        th[t] = v /\ v.key = key /\ Knows(v) /\ WorkingOK(key, v) /\ Range(Own(key)) \subseteq Requests
  BY <1>1, AtWork
<1>3. /\ setup' = setup /\ mpi_last_request_id' = mpi_last_request_id /\ op' = op /\ errors' = errors
      /\ completions' = completions /\ request_table' = request_table /\ payload' = payload
  BY DEF Get
<1>4. Getting(v) /\ v.req = NULL /\ v.call # NULL /\ v.value = request_table[key] /\ v.value # NULL
  BY <1>1, <1>2 DEF Knows, AtEntry, Inserting, Appending, Getting, Using, Freeing, Releasing, Leaving, Appended
<1>5. List(v.value) = Own(key) /\ Own(key) \in Seq(Requests)
  BY <1>4, OwnElements DEF Own, MpiIInv, ListsOK
<1>6. \A q \in Range(Own(key)) : ~request[q].marker
  BY <1>2, <1>4 DEF WorkingOK, MpiRequestsAssumption
<1>7. PICK r : r = FirstUnmarked(Own(key))
  OBVIOUS
<1>8. (r = NULL /\ Own(key) = << >>) \/ r \in Range(Own(key))
  <2>1. (r = NULL /\ \A q \in Range(Own(key)) : request[q].marker) \/ r \in Range(Own(key))
    BY <1>5, <1>7, FirstUnmarkedIsListed
  <2>2. Range(Own(key)) = {} => Own(key) = << >>
    BY OwnElements DEF MpiIInv, ListsOK
  <2> QED BY <1>6, <2>1, <2>2
<1>9. request' = IF r = NULL THEN request ELSE [request EXCEPT ![r].marker = TRUE]
  BY <1>2, <1>5, <1>7 DEF Get
<1>10. PICK w : w = [v EXCEPT !.pc = "unlock", !.after = "use", !.req = r]
  OBVIOUS
<1>11. /\ w.pc = "unlock" /\ w.id = v.id /\ w.call = v.call /\ w.req = r /\ w.key = v.key /\ w.after = "use"
       /\ th' = [th EXCEPT ![t] = w]
  BY <1>2, <1>5, <1>7, <1>10 DEF ThreadRecords, Get
<1>12. /\ \A q \in Requests : /\ request'[q].next = request[q].next /\ request'[q].request = request[q].request
                              /\ request'[q].id = request[q].id /\ request'[q].flags = request[q].flags
                              /\ q # r => request'[q].marker = request[q].marker
  <2>1. CASE r = NULL
    BY <1>9, <2>1
  <2>2. CASE r # NULL
    <3>1. r \in Requests
      BY <1>2, <1>8, <2>2
    <3>2. request' = [request EXCEPT ![r].marker = TRUE]
      BY <1>9, <2>2
    <3> QED BY <3>1, <3>2, MarkSet DEF MpiIInv
  <2> QED BY <2>1, <2>2
<1>13. \A q \in Requests \ Range(Own(key)) : SameData(q)
  BY <1>8, <1>9, <1>12 DEF SameData
<1>14. OthersKept(key) /\ Own(key)' = Own(key)
  BY <1>3, <1>12, <1>13, NothingMoves
<1>15. ~Idle(w) /\ Using(w)
  BY <1>11 DEF Idle, Using
<1>16. ASSUME Of(key)' = Of(key) PROVE WorkingOK(key, w)'
  <2>1. \A q \in Range(Own(key))' : request'[q].marker => w.call # NULL /\ q = w.req /\ w.pc # "return"
    BY <1>2, <1>4, <1>6, <1>11, <1>12, <1>14
  <2>2. CASE key = Dummy
    <3>1. DummyUses(key, v)
      BY <1>2, <1>4, <2>2, OnePhase DEF WorkingOK, DummyWorks
    <3>2. Listed(key, {}, {})' /\ Enough(key, 1)'
      BY <1>2, <1>3, <1>12, <1>14, <1>16, <3>1 DEF DummyUses, Listed, Enough, Unrecorded, Active
    <3>3. DummyUses(key, w)'
      BY <1>2, <1>8, <1>11, <1>14, <3>1, <3>2 DEF DummyUses, MpiRequestsAssumption
    <3>4. DummyWorks(key, w)'
      BY <1>15, <3>3 DEF DummyWorks
    <3> QED BY <2>1, <2>2, <3>4 DEF WorkingOK
  <2>3. CASE key # Dummy
    <3>1. SingleWorks(key, v) /\ UsesOK(key, v)
      BY <1>2, <1>4, <2>3, OnePhase DEF WorkingOK, SingleWorks
    <3>2. PICK q \in Requests :
            /\ Keeps(key, v.id, q)
            /\ IF v.call = "Wait" THEN Over(v.id) /\ Pending(v.id, q)
               ELSE Recorded(v.id) /\ InTime(v.id, v.call) /\ Shows(request[q].flags) = op[v.id].state
      BY <3>1 DEF UsesOK
    <3>3. Range(<<q>>) = {q} /\ <<q>> # << >>
      BY RangeOfOne
    <3>4. r = q
      BY <1>8, <3>2, <3>3 DEF Keeps
    <3>5. Keeps(key, v.id, q)'
      BY <1>3, <1>12, <1>14, <3>2 DEF Keeps
    <3>6. IF v.call = "Wait" THEN Over(v.id)' /\ Pending(v.id, q)'
          ELSE Recorded(v.id)' /\ InTime(v.id, v.call)' /\ Shows(request'[q].flags) = op'[v.id].state
      BY <1>3, <1>12, <3>2 DEF Over, Pending, Recorded, InTime, Live
    <3>7. UsesOK(key, w)'
      BY <1>4, <1>11, <3>4, <3>5, <3>6 DEF UsesOK
    <3>8. SingleWorks(key, w)'
      BY <1>3, <1>11, <1>15, <1>16, <3>1, <3>7 DEF SingleWorks, Recorded
    <3> QED BY <2>1, <2>3, <3>8 DEF WorkingOK
  <2> QED BY <2>2, <2>3
<1> QED BY <1>1, <1>2, <1>3, <1>11, <1>14, <1>15, <1>16, CallStep

(* An operation whose value has no entry is entered.                       *)
LEMMA InsertNewRecords ==
  ASSUME MpiRequestsAssumption, MpiIInv, RecordsOK, NEW t \in Threads, InsertNew(t)
  PROVE  RecordsOK'
<1>1. ~Idle(th[t]) /\ th[t].pc = "insert" /\ MpiIInv'
  BY InsertNewKeeps DEF InsertNew, ThreadAt, Idle
<1>2. PICK key \in Keys, v \in ThreadRecords :
        /\ th[t] = v /\ v.key = key /\ Knows(v) /\ v.id \in Ids /\ WorkingOK(key, v)
        /\ key # Dummy => \A i \in Ids : Live(i) /\ op[i].key = key => i = v.id
  BY <1>1, AtWork
<1>3. PICK r \in Requests : /\ OthersKept(key) /\ Own(key) = << >> /\ Own(key)' = <<r>> /\ Range(Own(key)') = {r}
                            /\ request'[r] = DataOf(v.id)
  BY <1>2, InsertNewKeeps
<1>4. /\ setup' = setup /\ mpi_last_request_id' = mpi_last_request_id /\ op' = op /\ errors' = errors
      /\ completions' = completions /\ th' = [th EXCEPT ![t] = IdleThread]
  BY DEF InsertNew
<1>5. Idle(IdleThread)
  BY IdleRecord
<1>6. v.id \in Nat /\ MpiTyped
  BY <1>2 DEF ThreadRecords, MpiIInv
<1>7. /\ request'[r].id = v.id /\ ~request'[r].marker
      /\ request'[r].flags = IF op[v.id].persistent THEN {"IS_PERSISTENT"} ELSE {}
  BY <1>2, <1>3, <1>6, DataTyped
<1>8. Inserting(v) /\ Range(Own(key)) = {}
  BY <1>1, <1>2, <1>3, EmptyList DEF Inserting
<1>9. ASSUME Of(key)' = Of(key) PROVE RestingOK(key)'
  <2>1. \A q \in Range(Own(key)') : ~request'[q].marker
    BY <1>3, <1>7
  <2>2. CASE key = Dummy
    <3>1. DummyInserts(key, v)
      BY <1>2, <1>8, <2>2, OnePhase DEF WorkingOK, DummyWorks
    <3>2. request'[r].flags = {}
      BY <1>2, <1>7, <2>2, <3>1 DEF RecordsOK, OperationOK, DummyInserts, Unrecorded, Of
    <3>3. Unrecorded(key)' = Unrecorded(key) /\ Active(key)' = Active(key)
      BY <1>4, <1>9 DEF Unrecorded, Active
    <3>4. \A i \in Of(key) : completions[i] \in {0, 1} /\ op[i].observed = IF op[i].state = "done" THEN 1 ELSE 0
      BY <3>1 DEF DummyInserts, Listed
    <3>5. \A i \in Unrecorded(key) : i = v.id
      BY <1>8, <3>1 DEF DummyInserts, Listed
    <3>6. v.id \in Of(key) /\ completions[v.id] = 0
      BY <3>1 DEF DummyInserts, Unrecorded
    <3>7. Listed(key, {}, {})'
      BY <1>3, <1>4, <1>7, <1>9, <3>2, <3>3, <3>4, <3>5, <3>6 DEF Listed
    <3>8. Enough(key, 0)'
      BY <3>1, <3>3 DEF DummyInserts, Enough
    <3>9. DummyRests(key)'
      BY <3>7, <3>8 DEF DummyRests
    <3> QED BY <2>1, <2>2, <3>9 DEF RestingOK
  <2>3. CASE key # Dummy
    <3>1. SingleWorks(key, v) /\ InsertsOK(key, v)
      BY <1>2, <1>8, <2>3, OnePhase DEF WorkingOK, SingleWorks
    <3>2. \A i \in Of(key) : Recorded(i)' /\ i \in Ids /\ op[i].key = key
      BY <1>4, <3>1 DEF SingleWorks, InsertsOK, Recorded, Of
    <3>3. Keeps(key, v.id, r)' /\ Shows(request'[r].flags) = op'[v.id].state
      BY <1>3, <1>4, <1>7, <3>1 DEF Keeps, InsertsOK, Shows
    <3>4. v.id \in Of(key) /\ Live(v.id)'
      BY <1>4, <3>1 DEF SingleWorks, InsertsOK, Live
    <3>5. \A i \in Of(key) : Live(i)' => i = v.id
      BY <1>2, <1>4, <2>3, <3>2 DEF Live
    <3>6. SingleRests(key)'
      BY <1>9, <3>2, <3>3, <3>4, <3>5 DEF SingleRests
    <3> QED BY <2>1, <2>3, <3>6 DEF RestingOK
  <2> QED BY <2>2, <2>3
<1> QED BY <1>1, <1>2, <1>3, <1>4, <1>5, <1>9, CallStep

(* One whose value has an entry, which is the dummy, gets a request ...    *)
LEMMA InsertDuplicateRecords ==
  ASSUME MpiRequestsAssumption, MpiIInv, RecordsOK, NEW t \in Threads, InsertDuplicate(t)
  PROVE  RecordsOK'
<1>1. ~Idle(th[t]) /\ th[t].pc = "insert" /\ MpiIInv'
  BY InsertDuplicateKeeps DEF InsertDuplicate, ThreadAt, Idle
<1>2. PICK key \in Keys, v \in ThreadRecords :
        /\ th[t] = v /\ v.key = key /\ Knows(v) /\ v.id \in Ids /\ WorkingOK(key, v)
  BY <1>1, AtWork
<1>3. PICK r \in Requests : /\ OthersKept(key) /\ Own(key) # << >> /\ Own(key)' = Own(key)
                            /\ th'[t].req = r /\ request'[r] = DataOf(v.id)
                            /\ \A q \in Range(Own(key)) : SameData(q)
  BY <1>2, InsertDuplicateKeeps
<1>4. /\ setup' = setup /\ mpi_last_request_id' = mpi_last_request_id /\ op' = op /\ errors' = errors
      /\ completions' = completions
  BY DEF InsertDuplicate
<1>5. PICK w : w = [v EXCEPT !.pc = "lock", !.value = request_table[key],
                             !.req = NewOf(request_free_list, Requests), !.after = "append"]
  OBVIOUS
<1>6. /\ w.pc = "lock" /\ w.id = v.id /\ w.call = v.call /\ w.key = v.key /\ w.after = "append"
      /\ th' = [th EXCEPT ![t] = w] /\ th'[t] = w /\ w.req = r
  <2>1. th' = [th EXCEPT ![t] = w] /\ DOMAIN th = Threads
    BY <1>2, <1>5 DEF InsertDuplicate, MpiIInv, MpiTyped
  <2> QED BY <1>2, <1>3, <1>5, <2>1 DEF ThreadRecords
<1>7. v.id \in Nat /\ MpiTyped
  BY <1>2 DEF ThreadRecords, MpiIInv
<1>8. /\ request'[r].id = v.id /\ request'[r].marker = FALSE
      /\ request'[r].flags = IF op[v.id].persistent THEN {"IS_PERSISTENT"} ELSE {}
  BY <1>2, <1>3, <1>7, DataTyped
<1>9. Inserting(v) /\ Appending(w) /\ ~Idle(w) /\ v.call = NULL
  BY <1>1, <1>2, <1>6 DEF Inserting, Appending, Idle, Knows
<1>10. key = Dummy /\ DummyInserts(key, v)
  BY <1>2, <1>3, <1>9, OnePhase DEF WorkingOK, DummyWorks, SingleWorks, InsertsOK
<1>11. ASSUME Of(key)' = Of(key) PROVE WorkingOK(key, w)'
  <2>1. SameOf(key)
    BY <1>3, <1>4, <1>11 DEF SameOf
  <2>2. request'[r].flags = {}
    BY <1>2, <1>8, <1>10 DEF RecordsOK, OperationOK, DummyInserts, Unrecorded, Of
  <2>3. Unrecorded(key)' = Unrecorded(key) /\ Listed(key, {v.id}, {})' /\ Enough(key, 0)'
    BY <1>10, <2>1, SameView DEF DummyInserts
  <2>4. DummyInserts(key, w)'
    BY <1>6, <1>8, <1>9, <1>10, <2>2, <2>3 DEF DummyInserts
  <2>5. DummyWorks(key, w)'
    BY <1>9, <2>4 DEF DummyWorks
  <2>6. \A q \in Range(Own(key)') : ~request'[q].marker
    BY <1>2, <1>3, <1>9 DEF WorkingOK, SameData
  <2> QED BY <1>10, <2>5, <2>6 DEF WorkingOK
<1> QED BY <1>1, <1>2, <1>3, <1>4, <1>6, <1>9, <1>11, CallStep

(* ... which is appended.                                                  *)
LEMMA AppendRecords ==
  ASSUME MpiRequestsAssumption, MpiIInv, RecordsOK, NEW t \in Threads, AppendRequest(t)
  PROVE  RecordsOK'
<1>1. ~Idle(th[t]) /\ th[t].pc = "append" /\ MpiIInv'
  BY AppendKeeps DEF AppendRequest, ThreadAt, Idle
<1>2. PICK key \in Keys, v \in ThreadRecords :
        /\ th[t] = v /\ v.key = key /\ Knows(v) /\ v.id \in Ids /\ WorkingOK(key, v)
  BY <1>1, AtWork
<1>3. PICK r \in Requests : /\ OthersKept(key) /\ r = v.req /\ Range(Own(key)') = Range(Own(key)) \cup {r}
                            /\ \A q \in Range(Own(key)) \cup {r} : SameData(q)
  BY <1>2, AppendKeeps
<1>4. /\ setup' = setup /\ mpi_last_request_id' = mpi_last_request_id /\ op' = op /\ errors' = errors
      /\ completions' = completions
  BY DEF AppendRequest
<1>5. PICK w : w = [v EXCEPT !.pc = "unlock", !.after = "idle"]
  OBVIOUS
<1>6. /\ w.pc = "unlock" /\ w.id = v.id /\ w.call = v.call /\ w.key = v.key /\ w.after = "idle" /\ w.req = v.req
      /\ th' = [th EXCEPT ![t] = w]
  BY <1>2, <1>5 DEF ThreadRecords, AppendRequest
<1>7. Appending(v) /\ Appended(w) /\ ~Idle(w) /\ v.call = NULL
  BY <1>1, <1>2, <1>6 DEF Inserting, Appending, Getting, Using, Freeing, Releasing, Leaving, Appended, Idle, Knows
<1>8. key = Dummy /\ DummyInserts(key, v)
  BY <1>2, <1>7, OnePhase DEF WorkingOK, DummyWorks, SingleWorks
<1>9. request'[r].id = v.id /\ request'[r].flags = {} /\ ~request'[r].marker
  BY <1>3, <1>7, <1>8 DEF DummyInserts, SameData
<1>10. ASSUME Of(key)' = Of(key) PROVE WorkingOK(key, w)'
  <2>1. Unrecorded(key)' = Unrecorded(key) /\ Active(key)' = Active(key)
    BY <1>4, <1>10 DEF Unrecorded, Active
  <2>2. Listed(key, {v.id}, {}) /\ v.id \in Unrecorded(key) /\ Enough(key, 0)
    BY <1>8 DEF DummyInserts
  <2>3. v.id \in Of(key) /\ completions[v.id] = 0
    BY <2>2 DEF Unrecorded
  <2>4. \A i \in Of(key) : completions[i] \in {0, 1} /\ op[i].observed = IF op[i].state = "done" THEN 1 ELSE 0
    BY <2>2 DEF Listed
  <2>5. \A i \in Unrecorded(key) : \E q \in Range(Own(key)') : request'[q].id = i
    <3>1. \A i \in Unrecorded(key) \ {v.id} : \E q \in Range(Own(key)) : request[q].id = i
      BY <2>2 DEF Listed
    <3> QED BY <1>3, <1>9, <3>1 DEF SameData
  <2>6. \A q \in Range(Own(key)) : /\ request'[q].id = request[q].id /\ request'[q].id \in Of(key) \ {v.id}
                                   /\ request'[q].flags = {} /\ completions[request'[q].id] = 0
    BY <1>3, <2>2 DEF Listed, SameData
  <2>7. \A q, p \in Range(Own(key)) : request'[q].id = request'[p].id => q = p
    BY <2>2, <2>6 DEF Listed
  <2>8. \A q, p \in Range(Own(key)') : request'[q].id = request'[p].id => q = p
    BY <1>3, <1>9, <2>6, <2>7
  <2>9. Listed(key, {}, {})'
    BY <1>3, <1>4, <1>9, <1>10, <2>1, <2>3, <2>4, <2>5, <2>6, <2>8 DEF Listed
  <2>10. Enough(key, 0)'
    BY <2>1, <2>2 DEF Enough
  <2>11. DummyAppended(key, w)'
    BY <1>6, <1>7, <2>9, <2>10 DEF DummyAppended
  <2>12. DummyWorks(key, w)'
    BY <1>7, <2>11 DEF DummyWorks
  <2>13. \A q \in Range(Own(key)') : ~request'[q].marker
    BY <1>2, <1>3, <1>7, <1>9 DEF WorkingOK, SameData
  <2> QED BY <1>8, <2>12, <2>13 DEF WorkingOK
<1> QED BY <1>1, <1>2, <1>3, <1>4, <1>6, <1>7, <1>10, CallStep

(* One of several requests is unlinked: they have the dummy value.         *)
LEMMA FreeOneRecords ==
  ASSUME MpiRequestsAssumption, MpiIInv, RecordsOK, NEW t \in Threads, FreeOne(t)
  PROVE  RecordsOK'
<1>1. ~Idle(th[t]) /\ th[t].pc = "free" /\ MpiIInv'
  BY FreeOneKeeps DEF FreeOne, ThreadAt, Idle
<1>2. PICK key \in Keys, v \in ThreadRecords :
        /\ th[t] = v /\ v.key = key /\ Knows(v) /\ v.id \in Ids /\ WorkingOK(key, v)
  BY <1>1, AtWork
<1>3. PICK r \in Requests : /\ OthersKept(key) /\ r = v.req /\ Range(Own(key)') = Range(Own(key)) \ {r} /\ Own(key) # <<r>>
                            /\ th'[t].after = "release"
                            /\ \A q \in Range(Own(key)) : SameData(q)
  BY <1>2, FreeOneKeeps
<1>4. Freeing(v) /\ v.call # NULL /\ r \in Range(Own(key)) /\ v.value = request_table[key] /\ v.value # NULL
  BY <1>1, <1>2, <1>3 DEF Knows, AtEntry, Inserting, Appending, Getting, Using, Freeing, Releasing, Leaving, Appended
<1>5. List(v.value) = Own(key)
  BY <1>4 DEF Own
<1>6. /\ setup' = setup /\ mpi_last_request_id' = mpi_last_request_id /\ op' = op /\ errors' = errors
      /\ completions' = completions
  BY <1>2, <1>3, <1>4, <1>5 DEF FreeOne
<1>7. PICK w : w = [v EXCEPT !.pc = "unlock", !.after = "release"]
  OBVIOUS
<1>8. /\ w.pc = "unlock" /\ w.id = v.id /\ w.call = v.call /\ w.key = v.key /\ w.after = "release" /\ w.req = v.req
      /\ th' = [th EXCEPT ![t] = w]
  <2>1. /\ w.pc = "unlock" /\ w.id = v.id /\ w.call = v.call /\ w.key = v.key /\ w.after = "release"
        /\ w.req = v.req
    BY <1>7 DEF ThreadRecords
  <2>2. th[t].req \in Range(List(th[t].value))
    BY <1>2, <1>3, <1>4, <1>5
  <2>3. th' = [th EXCEPT ![t].pc = "unlock", ![t].after = "release"]
    BY <2>2 DEF FreeOne
  <2>4. th' = [th EXCEPT ![t] = w]
    BY <1>2, <1>7, <2>3
  <2> QED BY <2>1, <2>4
<1>9. Releasing(w) /\ ~Idle(w)
  BY <1>8 DEF Releasing, Idle
<1>10. key = Dummy /\ DummyFrees(key, v)
  BY <1>2, <1>3, <1>4, OnePhase DEF WorkingOK, DummyWorks, SingleWorks, FreesOK, Keeps
<1>11. ASSUME Of(key)' = Of(key) PROVE WorkingOK(key, w)'
  <2>1. Unrecorded(key)' = Unrecorded(key) /\ Active(key)' = Active(key)
    BY <1>6, <1>11 DEF Unrecorded, Active
  <2>2. Listed(key, {}, {r}) /\ completions[request[r].id] # 0 /\ Enough(key, 0) /\ v.call = "Wait"
    BY <1>3, <1>10 DEF DummyFrees
  <2>3. \A i \in Of(key) : completions[i] \in {0, 1} /\ op[i].observed = IF op[i].state = "done" THEN 1 ELSE 0
    BY <2>2 DEF Listed
  <2>4. \A q \in Range(Own(key)) : /\ request'[q].id = request[q].id /\ request'[q].id \in Of(key)
                                   /\ request'[q].flags = {} /\ (q # r => completions[request'[q].id] = 0)
    BY <1>3, <2>2 DEF Listed, SameData
  <2>5. \A i \in Unrecorded(key) : \E q \in Range(Own(key)') : request'[q].id = i
    <3>1. \A i \in Unrecorded(key) : \E q \in Range(Own(key)) : request[q].id = i /\ q # r
      BY <2>2 DEF Listed, Unrecorded
    <3> QED BY <1>3, <2>4, <3>1
  <2>6. \A q, p \in Range(Own(key)') : request'[q].id = request'[p].id => q = p
    BY <1>3, <2>2, <2>4 DEF Listed
  <2>7. Listed(key, {}, {})'
    BY <1>3, <1>6, <1>11, <2>1, <2>3, <2>4, <2>5, <2>6 DEF Listed
  <2>8. Enough(key, 0)'
    BY <2>1, <2>2 DEF Enough
  <2>9. DummyLeaves(key, w)'
    BY <1>8, <2>2, <2>7, <2>8 DEF DummyLeaves
  <2>10. DummyWorks(key, w)'
    BY <1>9, <2>9 DEF DummyWorks
  <2>11. \A q \in Range(Own(key)') : ~request'[q].marker
    BY <1>2, <1>3 DEF WorkingOK, SameData
  <2> QED BY <1>10, <2>10, <2>11 DEF WorkingOK
<1> QED BY <1>1, <1>2, <1>3, <1>6, <1>8, <1>9, <1>11, CallStep

(* The only request of its value goes.                                     *)
LEMMA FreeLastRecords ==
  ASSUME MpiRequestsAssumption, MpiIInv, RecordsOK, NEW t \in Threads, FreeLast(t)
  PROVE  RecordsOK'
<1>1. ~Idle(th[t]) /\ th[t].pc = "free" /\ MpiIInv'
  BY FreeLastKeeps DEF FreeLast, ThreadAt, Idle
<1>2. PICK key \in Keys, v \in ThreadRecords :
        /\ th[t] = v /\ v.key = key /\ Knows(v) /\ v.id \in Ids /\ WorkingOK(key, v)
  BY <1>1, AtWork
<1>3. PICK r \in Requests : /\ OthersKept(key) /\ r = v.req /\ Own(key) = <<r>> /\ Range(Own(key)) = {r}
                            /\ Own(key)' = << >> /\ errors' = errors
  BY <1>2, FreeLastKeeps
<1>4. Freeing(v) /\ v.call # NULL
  BY <1>1, <1>2 DEF Knows, Inserting, Appending, Getting, Using, Freeing, Releasing, Leaving, Appended
<1>5. /\ setup' = setup /\ mpi_last_request_id' = mpi_last_request_id /\ op' = op /\ completions' = completions
  BY DEF FreeLast
<1>6. PICK w : w = [v EXCEPT !.pc = "unlock", !.after = "unmark"]
  OBVIOUS
<1>7. /\ w.pc = "unlock" /\ w.id = v.id /\ w.call = v.call /\ w.key = v.key /\ w.after = "unmark" /\ w.req = v.req
      /\ th' = [th EXCEPT ![t] = w]
  BY <1>2, <1>6 DEF ThreadRecords, FreeLast
<1>8. Leaving(w) /\ ~Idle(w)
  BY <1>7 DEF Leaving, Idle
<1>9. Range(Own(key)') = {}
  BY <1>3, EmptyList
<1>10. ASSUME Of(key)' = Of(key) PROVE WorkingOK(key, w)'
  <2>1. CASE key = Dummy
    <3>1. DummyFrees(key, v)
      BY <1>2, <1>4, <2>1, OnePhase DEF WorkingOK, DummyWorks
    <3>2. Unrecorded(key)' = Unrecorded(key) /\ Active(key)' = Active(key)
      BY <1>5, <1>10 DEF Unrecorded, Active
    <3>3. Unrecorded(key) = {}
      BY <1>3, <3>1 DEF DummyFrees, Listed, Unrecorded
    <3>4. \A i \in Of(key) : completions[i] \in {0, 1} /\ op[i].observed = IF op[i].state = "done" THEN 1 ELSE 0
      BY <3>1 DEF DummyFrees, Listed
    <3>5. Listed(key, {}, {})'
      BY <1>5, <1>9, <1>10, <3>2, <3>3, <3>4 DEF Listed
    <3>6. Enough(key, 0)'
      BY <3>1, <3>2 DEF DummyFrees, Enough
    <3>7. DummyLeaves(key, w)'
      BY <1>7, <3>1, <3>5, <3>6 DEF DummyLeaves, DummyFrees
    <3>8. DummyWorks(key, w)'
      BY <1>8, <3>7 DEF DummyWorks
    <3> QED BY <1>9, <2>1, <3>8 DEF WorkingOK
  <2>2. CASE key # Dummy
    <3>1. SingleWorks(key, v) /\ FreesOK(key, v)
      BY <1>2, <1>4, <2>2, OnePhase DEF WorkingOK, SingleWorks
    <3>2. /\ Recorded(v.id)' /\ Drops(v.id, v.call)'
          /\ IF v.call = "Wait" THEN Over(v.id)' ELSE InTime(v.id, v.call)'
      BY <1>5, <3>1 DEF FreesOK, Recorded, Drops, Over, InTime, Live
    <3>3. LeavesOK(key, w)'
      BY <1>3, <1>4, <1>7, <3>2 DEF LeavesOK
    <3>4. SingleWorks(key, w)'
      BY <1>5, <1>7, <1>8, <1>10, <3>1, <3>3 DEF SingleWorks, Recorded
    <3> QED BY <1>9, <2>2, <3>4 DEF WorkingOK
  <2> QED BY <2>1, <2>2
<1> QED BY <1>1, <1>2, <1>3, <1>5, <1>7, <1>8, <1>10, CallStep

(* An unlinked request is released.                                        *)
LEMMA ReleaseRecords ==
  ASSUME MpiRequestsAssumption, MpiIInv, RecordsOK, NEW t \in Threads, ReleaseRequest(t)
  PROVE  RecordsOK'
<1>1. ~Idle(th[t]) /\ th[t].pc = "release" /\ MpiIInv'
  BY ReleaseKeeps DEF ReleaseRequest, ThreadAt, Idle
<1>2. PICK key \in Keys, v \in ThreadRecords :
        /\ th[t] = v /\ v.key = key /\ Knows(v) /\ v.id \in Ids /\ WorkingOK(key, v)
  BY <1>1, AtWork
<1>3. OthersKept(key) /\ Own(key)' = Own(key) /\ \A q \in Range(Own(key)) : SameData(q)
  BY <1>2, ReleaseKeeps
<1>4. Releasing(v) /\ v.call # NULL
  BY <1>1, <1>2 DEF Knows, Inserting, Appending, Getting, Using, Freeing, Releasing, Leaving, Appended
<1>5. /\ setup' = setup /\ mpi_last_request_id' = mpi_last_request_id /\ op' = op /\ completions' = completions
      /\ errors' = errors
  BY DEF ReleaseRequest
<1>6. PICK w : w = [v EXCEPT !.pc = "unmark"]
  OBVIOUS
<1>7. /\ w.pc = "unmark" /\ w.id = v.id /\ w.call = v.call /\ w.key = v.key /\ w.after = v.after /\ w.req = v.req
      /\ th' = [th EXCEPT ![t] = w]
  BY <1>2, <1>4, <1>6 DEF ThreadRecords, ReleaseRequest
<1>8. Leaving(w) /\ ~Idle(w)
  BY <1>7 DEF Leaving, Idle
<1>9. key = Dummy /\ DummyLeaves(key, v)
  BY <1>2, <1>4, OnePhase DEF WorkingOK, DummyWorks, SingleWorks
<1>10. ASSUME Of(key)' = Of(key) PROVE WorkingOK(key, w)'
  <2>1. SameOf(key)
    BY <1>3, <1>5, <1>10 DEF SameOf
  <2>2. DummyLeaves(key, w)'
    BY <1>7, <1>9, <2>1, SameView DEF DummyLeaves
  <2>3. DummyWorks(key, w)'
    BY <1>8, <2>2 DEF DummyWorks
  <2>4. \A q \in Range(Own(key)') : request'[q].marker => w.call # NULL /\ q = w.req /\ w.pc # "return"
    BY <1>2, <1>3, <1>7 DEF WorkingOK, SameData
  <2> QED BY <1>9, <2>3, <2>4 DEF WorkingOK
<1> QED BY <1>1, <1>2, <1>3, <1>5, <1>7, <1>8, <1>10, CallStep

(* Sets of operations are finite.                                          *)
LEMMA ActiveFinite ==
  ASSUME MpiRequestsAssumption, MpiTyped, NEW key
  PROVE  IsFiniteSet(Active(key)) /\ IsFiniteSet(Unrecorded(key)) /\ IsFiniteSet(Ids)
<1>1. setup.operations \in Nat
  BY SetupBounds
<1>2. IsFiniteSet(Ids)
  BY <1>1, FS_Interval DEF Ids
<1>3. Active(key) \subseteq Ids /\ Unrecorded(key) \subseteq Ids
  BY DEF Active, Unrecorded, Of
<1> QED BY <1>2, <1>3, FS_Subset

(* What a wrapper does with its request changes no list.                   *)
LEMMA UseFrame ==
  ASSUME MpiRequestsAssumption, MpiIInv, NEW v \in ThreadRecords, NEW key \in Keys,
         v.req = NULL \/ v.req \in Range(Own(key)),
         request_table' = request_table, payload' = payload,
         request' = request \/ \E flags \in SUBSET FlagNames :
           v.req # NULL /\ request' = [request EXCEPT ![v.req].flags = flags]
  PROVE  /\ OthersKept(key) /\ Own(key)' = Own(key) /\ Range(Own(key)) \subseteq Requests
         /\ \A q \in Requests : /\ request'[q].id = request[q].id /\ request'[q].marker = request[q].marker
                                /\ q # v.req => request'[q].flags = request[q].flags
<1>1. Range(Own(key)) \subseteq Requests
  BY OwnElements DEF MpiIInv, ListsOK
<1>2. \A q \in Requests : /\ request'[q].next = request[q].next /\ request'[q].request = request[q].request
                          /\ request'[q].id = request[q].id /\ request'[q].marker = request[q].marker
                          /\ q # v.req => request'[q].flags = request[q].flags
  <2>1. CASE request' = request
    BY <2>1
  <2>2. CASE request' # request
    <3>1. PICK flags \in SUBSET FlagNames : v.req # NULL /\ request' = [request EXCEPT ![v.req].flags = flags]
      BY <2>2
    <3>2. PICK r \in Requests : r = v.req
      BY <1>1, <3>1
    <3>3. request' = [request EXCEPT ![r].flags = flags]
      BY <3>1, <3>2
    <3> QED BY <3>2, <3>3, FlagUpdates DEF MpiIInv
  <2> QED BY <2>1, <2>2
<1>3. \A q \in Requests \ Range(Own(key)) : SameData(q)
  BY <1>2, MpiRequestsAssumption DEF SameData, MpiRequestsAssumption
<1> QED BY <1>1, <1>2, <1>3, NothingMoves

(* The wrapper goes on to unmark its request, or begins to free it.        *)
Goes(v, w) == w.id = v.id /\ w.key = v.key /\ w.call = v.call /\ w.req = v.req
LEMMA UseGoes ==
  ASSUME MpiRequestsAssumption, MpiIInv, NEW t \in Threads, th[t].pc = "use", NEW v \in ThreadRecords, v = th[t],
         (v.req # NULL /\ ToFree(t)) \/ MoveTo(t, "unmark")
  PROVE  \E w \in ThreadRecords :
           /\ th' = [th EXCEPT ![t] = w] /\ Goes(v, w) /\ ~Idle(w) /\ w.pc # "return"
           /\ \/ Leaving(w) /\ MoveTo(t, "unmark")
              \/ Freeing(w) /\ v.req # NULL /\ ToFree(t)
<1>1. DOMAIN th = Threads
  BY DEF MpiIInv, MpiTyped
<1>2. CASE MoveTo(t, "unmark")
  <2>1. PICK w \in ThreadRecords : w = [v EXCEPT !.pc = "unmark"]
    BY ThreadUpdates DEF Places
  <2>2. th' = [th EXCEPT ![t] = w] /\ Goes(v, w) /\ w.pc = "unmark"
    BY <1>2, <2>1 DEF MoveTo, Goes, ThreadRecords
  <2> QED BY <1>2, <2>2 DEF Idle, Leaving
<1>3. CASE v.req # NULL /\ ToFree(t)
  <2>1. PICK w \in ThreadRecords : th' = [th EXCEPT ![t] = w] /\ w.id = v.id /\ w.key = v.key /\ w.call = v.call
    BY <1>3, StartsToFree
  <2>2. th'[t] = w
    BY <1>1, <2>1
  <2>3. th'[t] = [v EXCEPT !.pc = "lookup", !.after = "free", !.key = request[v.req].request]
    BY <1>1, <1>3 DEF ToFree
  <2>4. w.pc = "lookup" /\ w.after = "free" /\ w.req = v.req
    BY <2>2, <2>3 DEF ThreadRecords
  <2> QED BY <1>3, <2>1, <2>4 DEF Goes, Idle, Freeing
<1> QED BY <1>2, <1>3

(* What is known of the request that a wrapper has found.                  *)
LEMMA UseFound ==
  ASSUME NEW key \in Keys, NEW v, WorkingOK(key, v), v.pc = "use"
  PROVE  /\ key = Dummy => DummyUses(key, v)
         /\ key # Dummy => /\ SingleWorks(key, v) /\ UsesOK(key, v) /\ v.id \in Of(key)
                           /\ Range(Own(key)) = {v.req} /\ v.req \in Requests /\ Keeps(key, v.id, v.req)
                           /\ IF v.call = "Wait" THEN Over(v.id) /\ Pending(v.id, v.req)
                              ELSE Recorded(v.id) /\ InTime(v.id, v.call) /\ Shows(request[v.req].flags) = op[v.id].state
<1>1. Using(v)
  BY DEF Using
<1>2. key = Dummy => DummyUses(key, v)
  BY <1>1, OnePhase DEF WorkingOK, DummyWorks
<1>3. ASSUME key # Dummy
      PROVE  /\ SingleWorks(key, v) /\ UsesOK(key, v) /\ v.id \in Of(key)
             /\ Range(Own(key)) = {v.req} /\ v.req \in Requests /\ Keeps(key, v.id, v.req)
             /\ IF v.call = "Wait" THEN Over(v.id) /\ Pending(v.id, v.req)
                ELSE Recorded(v.id) /\ InTime(v.id, v.call) /\ Shows(request[v.req].flags) = op[v.id].state
  <2>1. SingleWorks(key, v) /\ UsesOK(key, v) /\ v.id \in Of(key)
    BY <1>1, <1>3, OnePhase DEF WorkingOK, SingleWorks
  <2>2. PICK r \in Requests :
          /\ Keeps(key, v.id, r) /\ v.req = r
          /\ IF v.call = "Wait" THEN Over(v.id) /\ Pending(v.id, r)
             ELSE Recorded(v.id) /\ InTime(v.id, v.call) /\ Shows(request[r].flags) = op[v.id].state
    BY <1>1, <2>1 DEF UsesOK
  <2>3. Own(key) = <<v.req>>
    BY <2>2 DEF Keeps
  <2> QED BY <2>1, <2>2, <2>3, RangeOfOne
<1> QED BY <1>2, <1>3

(* The mark stays with the call.                                           *)
LEMMA MarksKept ==
  ASSUME NEW key \in Keys, NEW v, NEW w, WorkingOK(key, v), Goes(v, w), w.pc # "return", Own(key)' = Own(key),
         Range(Own(key)) \subseteq Requests, \A q \in Requests : request'[q].marker = request[q].marker
  PROVE  \A q \in Range(Own(key)') : request'[q].marker => w.call # NULL /\ q = w.req /\ w.pc # "return"
BY DEF WorkingOK, Goes

(* A call that writes nothing.                                             *)
LEMMA UseNothingRecords ==
  ASSUME MpiRequestsAssumption, MpiIInv, RecordsOK, NEW t \in Threads, UseNothing(t)
  PROVE  RecordsOK'
<1>1. ~Idle(th[t]) /\ th[t].pc = "use" /\ MpiIInv'
  BY UseNothingKeeps DEF UseNothing, ThreadAt, Idle
<1>2. PICK key \in Keys, v \in ThreadRecords :
        /\ th[t] = v /\ v.key = key /\ Knows(v) /\ v.id \in Ids /\ WorkingOK(key, v)
  BY <1>1, AtWork
<1>3. /\ setup' = setup /\ mpi_last_request_id' = mpi_last_request_id /\ op' = op /\ completions' = completions
      /\ errors' = errors /\ request' = request /\ request_table' = request_table /\ payload' = payload
      /\ MoveTo(t, "unmark")
  BY DEF UseNothing
<1>4. v.pc = "use" /\ (v.req = NULL \/ v.req \in Range(Own(key)))
  BY <1>1, <1>2 DEF Knows, Using
<1>5. PICK w \in ThreadRecords : th' = [th EXCEPT ![t] = w] /\ Goes(v, w) /\ w.pc = "unmark"
  <2>1. PICK w \in ThreadRecords : w = [v EXCEPT !.pc = "unmark"]
    BY ThreadUpdates DEF Places
  <2> QED BY <1>2, <1>3, <2>1 DEF MoveTo, Goes, ThreadRecords
<1>6. /\ OthersKept(key) /\ Own(key)' = Own(key) /\ Range(Own(key)) \subseteq Requests
  BY <1>3, <1>4, UseFrame
<1>7. Leaving(w) /\ ~Idle(w) /\ w.key = key /\ v.call # NULL
  BY <1>2, <1>4, <1>5 DEF Leaving, Idle, Goes, Knows, Inserting, Appending, Appended
<1>8. ASSUME Of(key)' = Of(key) PROVE WorkingOK(key, w)'
  <2>1. \A q \in Range(Own(key)') : request'[q].marker => w.call # NULL /\ q = w.req /\ w.pc # "return"
    BY <1>2, <1>3, <1>5, <1>6, MarksKept
  <2>2. SameOf(key)
    BY <1>3, <1>6, <1>8 DEF SameOf, SameData
  <2>3. CASE key = Dummy
    <3>1. DummyUses(key, v)
      BY <1>2, <1>4, <2>3, UseFound
    <3>2. v.req = NULL
      BY <1>2, <3>1 DEF UseNothing, DummyUses
    <3>3. Own(key) = << >> /\ Range(Own(key)) = {}
      BY <1>4, <3>1, <3>2, EmptyList DEF DummyUses, Using
    <3>4. Unrecorded(key) = {}
      BY <3>1, <3>3 DEF DummyUses, Listed
    <3>5. Unrecorded(key)' = {} /\ Listed(key, {}, {})'
      BY <2>2, <3>1, <3>4, SameView DEF DummyUses
    <3>6. Enough(key, 0)'
      <4>1. IsFiniteSet(Active(key)) /\ Active(key)' = Active(key)
        BY <2>2, SameView, ActiveFinite DEF MpiIInv
      <4>2. Cardinality(Active(key)) \in Nat /\ Cardinality({}) = 0
        BY <4>1, FS_CardinalityType, FS_EmptySet
      <4> QED BY <3>5, <4>1, <4>2 DEF Enough
    <3>7. DummyLeaves(key, w)'
      BY <1>5, <3>1, <3>5, <3>6 DEF DummyLeaves, DummyUses, Goes
    <3>8. DummyWorks(key, w)'
      BY <1>7, <3>7 DEF DummyWorks
    <3> QED BY <2>1, <2>3, <3>8 DEF WorkingOK
  <2>4. CASE key # Dummy
    <3>1. /\ SingleWorks(key, v) /\ v.req \in Requests /\ Keeps(key, v.id, v.req) /\ v.id \in Of(key)
          /\ v.call # "Wait" => Recorded(v.id) /\ InTime(v.id, v.call) /\ Shows(request[v.req].flags) = op[v.id].state
      BY <1>2, <1>4, <2>4, UseFound
    <3>2. v.call \in {"Test", "Request_get_status"}
      BY <1>2, <3>1 DEF UseNothing, MpiRequestsAssumption
    <3>3. ~Drops(v.id, v.call)'
      BY <3>2 DEF Drops
    <3>4. Keeps(key, v.id, v.req)' /\ Recorded(v.id)' /\ InTime(v.id, v.call)' /\ Shows(request'[v.req].flags) = op'[v.id].state
      BY <1>3, <2>2, <3>1, <3>2, SameView
    <3>5. LeavesOK(key, w)'
      BY <1>5, <1>7, <3>1, <3>2, <3>3, <3>4 DEF LeavesOK, Goes
    <3>6. SingleWorks(key, w)'
      BY <1>3, <1>5, <1>7, <1>8, <3>1, <3>5 DEF SingleWorks, Recorded, Goes
    <3> QED BY <2>1, <2>4, <3>6 DEF WorkingOK
  <2> QED BY <2>3, <2>4
<1> QED BY <1>1, <1>2, <1>3, <1>5, <1>6, <1>7, <1>8, CallStep

(* MPI_Start marks the request active.                                     *)
LEMMA UseStartRecords ==
  ASSUME MpiRequestsAssumption, MpiIInv, RecordsOK, NEW t \in Threads, UseStart(t)
  PROVE  RecordsOK'
<1>1. ~Idle(th[t]) /\ th[t].pc = "use" /\ MpiIInv' /\ th[t].call = "Start"
  BY UseStartKeeps DEF UseStart, ThreadAt, Idle
<1>2. PICK key \in Keys, v \in ThreadRecords :
        /\ th[t] = v /\ v.key = key /\ Knows(v) /\ v.id \in Ids /\ WorkingOK(key, v)
  BY <1>1, AtWork
<1>3. /\ setup' = setup /\ mpi_last_request_id' = mpi_last_request_id /\ op' = op /\ completions' = completions
      /\ errors' = errors /\ request_table' = request_table /\ payload' = payload
      /\ MoveTo(t, "unmark")
  BY DEF UseStart
<1>4. key # Dummy
  <2>1. "Start" # "Wait"
    OBVIOUS
  <2> QED BY <1>1, <1>2, <2>1, UseFound DEF DummyUses
<1>5. /\ SingleWorks(key, v) /\ v.req \in Requests /\ Keeps(key, v.id, v.req) /\ v.id \in Of(key)
      /\ Range(Own(key)) = {v.req}
      /\ Recorded(v.id) /\ InTime(v.id, v.call) /\ Shows(request[v.req].flags) = op[v.id].state
  BY <1>1, <1>2, <1>4, UseFound
<1>6. PICK F, G : F = request[v.req].flags /\ G = F \cup {"IS_ACTIVE"}
  OBVIOUS
<1>7. "IS_PERSISTENT" \in F /\ "IS_COMPLETED" \notin F
  BY <1>1, <1>2, <1>5, <1>6 DEF InTime, Shows
<1>8. G \in SUBSET FlagNames
  BY <1>5, <1>6 DEF MpiIInv, MpiTyped, RequestRecords, FlagNames
<1>9. request' = [request EXCEPT ![v.req].flags = G]
  BY <1>2, <1>6, <1>7 DEF UseStart, Flags
<1>10. v.req # NULL
  BY <1>5 DEF MpiRequestsAssumption
<1>11. /\ OthersKept(key) /\ Own(key)' = Own(key) /\ Range(Own(key)) \subseteq Requests
       /\ \A q \in Requests : request'[q].id = request[q].id /\ request'[q].marker = request[q].marker
  BY <1>3, <1>5, <1>8, <1>9, <1>10, UseFrame
<1>12. request'[v.req].flags = G
  BY <1>5, <1>8, <1>9, FlagUpdates DEF MpiIInv
<1>13. PICK w \in ThreadRecords : th' = [th EXCEPT ![t] = w] /\ Goes(v, w) /\ ~Idle(w) /\ w.pc = "unmark"
  <2>1. PICK w \in ThreadRecords : w = [v EXCEPT !.pc = "unmark"]
    BY ThreadUpdates DEF Places
  <2> QED BY <1>2, <1>3, <2>1 DEF MoveTo, Goes, ThreadRecords, Idle
<1>14. ASSUME Of(key)' = Of(key) PROVE WorkingOK(key, w)'
  <2>1. \A q \in Range(Own(key)') : request'[q].marker => w.call # NULL /\ q = w.req /\ w.pc # "return"
    BY <1>2, <1>11, <1>13, MarksKept
  <2>2. Keeps(key, v.id, v.req)'
    BY <1>3, <1>5, <1>6, <1>7, <1>11, <1>12 DEF Keeps
  <2>3. Shows(request'[v.req].flags) = "active"
    BY <1>6, <1>7, <1>12 DEF Shows
  <2>4. Recorded(v.id)' /\ InTime(v.id, v.call)'
    BY <1>3, <1>5 DEF Recorded, InTime, Live
  <2>5. ~Drops(v.id, v.call)' /\ v.call = "Start" /\ v.call # NULL
    BY <1>1, <1>2 DEF Drops, MpiRequestsAssumption, WithRequest
  <2>6. LeavesOK(key, w)'
    BY <1>5, <1>13, <2>2, <2>3, <2>4, <2>5 DEF LeavesOK, Goes
  <2>7. SingleWorks(key, w)'
    BY <1>3, <1>5, <1>13, <1>14, <2>6 DEF SingleWorks, Recorded, Goes, Leaving
  <2> QED BY <1>4, <2>1, <2>7 DEF WorkingOK
<1> QED BY <1>1, <1>2, <1>3, <1>11, <1>13, <1>14, CallStep DEF Goes

(* MPI_Request_free goes on to free the request.                           *)
LEMMA UseRequestFreeRecords ==
  ASSUME MpiRequestsAssumption, MpiIInv, RecordsOK, NEW t \in Threads, UseRequestFree(t)
  PROVE  RecordsOK'
<1>1. ~Idle(th[t]) /\ th[t].pc = "use" /\ MpiIInv' /\ th[t].call = "Request_free"
  BY UseRequestFreeKeeps DEF UseRequestFree, ThreadAt, Idle
<1>2. PICK key \in Keys, v \in ThreadRecords :
        /\ th[t] = v /\ v.key = key /\ Knows(v) /\ v.id \in Ids /\ WorkingOK(key, v)
  BY <1>1, AtWork
<1>3. /\ setup' = setup /\ mpi_last_request_id' = mpi_last_request_id /\ op' = op /\ completions' = completions
      /\ errors' = errors /\ request_table' = request_table /\ payload' = payload
  BY DEF UseRequestFree
<1>4. key # Dummy
  <2>1. "Request_free" # "Wait"
    OBVIOUS
  <2> QED BY <1>1, <1>2, <2>1, UseFound DEF DummyUses
<1>5. /\ SingleWorks(key, v) /\ v.req \in Requests /\ Keeps(key, v.id, v.req) /\ v.id \in Of(key)
      /\ Recorded(v.id) /\ InTime(v.id, v.call) /\ Shows(request[v.req].flags) = op[v.id].state
  BY <1>1, <1>2, <1>4, UseFound
<1>6. ~({"IS_PERSISTENT", "IS_ACTIVE"} \subseteq request[v.req].flags)
  BY <1>1, <1>2, <1>5 DEF InTime, Shows, Keeps
<1>7. request' = request /\ ToFree(t) /\ v.req # NULL
  BY <1>2, <1>5, <1>6 DEF UseRequestFree, Flags, MpiRequestsAssumption
<1>8. v.req \in Range(Own(key))
  BY <1>1, <1>2, <1>7 DEF Knows, Using
<1>9. OthersKept(key) /\ Own(key)' = Own(key) /\ Range(Own(key)) \subseteq Requests
  BY <1>3, <1>7, <1>8, UseFrame
<1>10. PICK w \in ThreadRecords : th' = [th EXCEPT ![t] = w] /\ Goes(v, w) /\ ~Idle(w) /\ w.pc # "return" /\ Freeing(w)
  <2>1. ~MoveTo(t, "unmark")
    <3>1. DOMAIN th = Threads
      BY DEF MpiIInv, MpiTyped
    <3>2. ToFree(t) => th'[t].pc = "lookup"
      BY <1>2, <3>1 DEF ToFree, ThreadRecords
    <3>3. MoveTo(t, "unmark") => th'[t].pc = "unmark"
      BY <1>2, <3>1 DEF MoveTo, ThreadRecords
    <3> QED BY <1>7, <3>2, <3>3
  <2> QED BY <1>1, <1>2, <1>7, <2>1, UseGoes
<1>11. ASSUME Of(key)' = Of(key) PROVE WorkingOK(key, w)'
  <2>1. \A q \in Range(Own(key)') : request'[q].marker => w.call # NULL /\ q = w.req /\ w.pc # "return"
    BY <1>2, <1>7, <1>9, <1>10, MarksKept
  <2>2. SameOf(key)
    BY <1>3, <1>7, <1>9, <1>11 DEF SameOf, SameData
  <2>3. Keeps(key, v.id, v.req)' /\ Recorded(v.id)' /\ InTime(v.id, v.call)'
    BY <1>5, <2>2, SameView
  <2>4. Drops(v.id, v.call)' /\ v.call # "Wait"
    BY <1>1, <1>2 DEF Drops
  <2>5. FreesOK(key, w)'
    BY <1>10, <2>3, <2>4 DEF FreesOK, Goes
  <2>6. SingleWorks(key, w)'
    BY <1>3, <1>5, <1>10, <1>11, <2>5 DEF SingleWorks, Recorded, Goes
  <2> QED BY <1>4, <2>1, <2>6 DEF WorkingOK
<1> QED BY <1>1, <1>2, <1>3, <1>9, <1>10, <1>11, CallStep DEF Goes

(* MPI_Request_get_status records a completion, once.                      *)
LEMMA UseGetStatusRecords ==
  ASSUME MpiRequestsAssumption, MpiIInv, RecordsOK, NEW t \in Threads, UseGetStatus(t)
  PROVE  RecordsOK'
<1>1. ~Idle(th[t]) /\ th[t].pc = "use" /\ MpiIInv' /\ th[t].call = "Request_get_status"
  BY UseGetStatusKeeps DEF UseGetStatus, ThreadAt, Idle
<1>2. PICK key \in Keys, v \in ThreadRecords :
        /\ th[t] = v /\ v.key = key /\ Knows(v) /\ v.id \in Ids /\ op[v.id].key = key /\ WorkingOK(key, v)
        /\ \A u \in Threads \ {t} : ~Idle(th[u]) => th[u].key # key
  BY <1>1, AtWork
<1>3. /\ setup' = setup /\ mpi_last_request_id' = mpi_last_request_id
      /\ errors' = errors /\ request_table' = request_table /\ payload' = payload
      /\ MoveTo(t, "unmark")
  BY DEF UseGetStatus
<1>4. key # Dummy
  <2>1. "Request_get_status" # "Wait"
    OBVIOUS
  <2> QED BY <1>1, <1>2, <2>1, UseFound DEF DummyUses
<1>5. /\ SingleWorks(key, v) /\ v.req \in Requests /\ Keeps(key, v.id, v.req) /\ v.id \in Of(key)
      /\ Range(Own(key)) = {v.req}
      /\ Recorded(v.id) /\ InTime(v.id, v.call) /\ Shows(request[v.req].flags) = op[v.id].state
  BY <1>1, <1>2, <1>4, UseFound
<1>6. PICK F, G : F = request[v.req].flags /\ G = F \cup {"IS_COMPLETED"}
  OBVIOUS
<1>7. op[v.id].state \in {"active", "complete"} /\ op[v.id].known
  BY <1>1, <1>2, <1>5 DEF InTime, Live, Of
<1>8. G \in SUBSET FlagNames
  BY <1>5, <1>6 DEF MpiIInv, MpiTyped, RequestRecords, FlagNames
<1>9. request' = [request EXCEPT ![v.req].flags = G]
  BY <1>2, <1>6 DEF UseGetStatus
<1>10. v.req # NULL
  BY <1>5 DEF MpiRequestsAssumption
<1>11. /\ OthersKept(key) /\ Own(key)' = Own(key) /\ Range(Own(key)) \subseteq Requests
       /\ \A q \in Requests : request'[q].id = request[q].id /\ request'[q].marker = request[q].marker
  BY <1>3, <1>5, <1>8, <1>9, <1>10, UseFrame
<1>12. request'[v.req].flags = G
  BY <1>5, <1>8, <1>9, FlagUpdates DEF MpiIInv
<1>13. PICK w \in ThreadRecords : th' = [th EXCEPT ![t] = w] /\ Goes(v, w) /\ ~Idle(w) /\ w.pc = "unmark"
  <2>1. PICK w \in ThreadRecords : w = [v EXCEPT !.pc = "unmark"]
    BY ThreadUpdates DEF Places
  <2> QED BY <1>2, <1>3, <2>1 DEF MoveTo, Goes, ThreadRecords, Idle
(* The operation, and what is recorded of it.                              *)
<1>14. PICK o \in Operations : o = op[v.id]
  BY <1>2 DEF MpiIInv, MpiTyped
<1>15. PICK n : /\ op' = [op EXCEPT ![v.id] = n]
                /\ n.key = o.key /\ n.known = o.known /\ n.persistent = o.persistent /\ n.state = "complete"
                /\ n.observed = IF o.state = "active" THEN o.observed + 1 ELSE o.observed
  <2>1. CASE o.state = "active"
    <3>1. PICK n : n = [o EXCEPT !.state = "complete", !.observed = @ + 1]
      OBVIOUS
    <3>2. op' = [op EXCEPT ![v.id] = n]
      BY <1>2, <1>14, <2>1, <3>1 DEF UseGetStatus, MpiIInv, MpiTyped
    <3>3. /\ n.key = o.key /\ n.known = o.known /\ n.persistent = o.persistent /\ n.state = "complete"
          /\ n.observed = o.observed + 1
      BY <3>1 DEF Operations
    <3> QED BY <2>1, <3>2, <3>3
  <2>2. CASE o.state # "active"
    <3>1. op' = op /\ op = [op EXCEPT ![v.id] = o]
      BY <1>2, <1>14, <2>2 DEF UseGetStatus, MpiIInv, MpiTyped
    <3> QED BY <1>7, <1>14, <2>2, <3>1
  <2> QED BY <2>1, <2>2
<1>16. op'[v.id] = n /\ \A i \in Ids \ {v.id} : op'[i] = op[i]
  BY <1>2, <1>15 DEF MpiIInv, MpiTyped
<1>17. /\ completions'[v.id] = IF o.state = "active" THEN completions[v.id] + 1 ELSE completions[v.id]
       /\ \A i \in Ids \ {v.id} : completions'[i] = completions[i]
  <2>1. request[v.req].id = v.id /\ completions \in [Ids -> Nat]
    BY <1>5 DEF Keeps, MpiIInv, MpiTyped
  <2>2. CASE o.state = "active"
    <3>1. completions' = [completions EXCEPT ![v.id] = @ + 1]
      BY <1>2, <1>5, <1>14, <2>1, <2>2 DEF UseGetStatus, Check, Flags, InactivePersistent, Shows
    <3> QED BY <1>2, <2>1, <2>2, <3>1
  <2>3. CASE o.state = "complete"
    <3>1. completions' = completions
      BY <1>2, <1>5, <1>14, <2>3 DEF UseGetStatus, Check, Flags, InactivePersistent, Shows
    <3> QED BY <2>3, <3>1
  <2> QED BY <1>7, <1>14, <2>2, <2>3
<1>18. OpsKept(key) /\ Of(key)' = Of(key)
  <2>1. /\ \A i \in Ids : op'[i].key = op[i].key /\ op'[i].known = op[i].known
        /\ \A i \in Ids : op[i].key # key => op'[i] = op[i] /\ completions'[i] = completions[i]
    BY <1>2, <1>14, <1>15, <1>16, <1>17
  <2> QED BY <1>3, <2>1, OpsOfOthers
<1>19. ASSUME NEW i \in Ids PROVE OperationOK(i)'
  <2>1. OperationOK(i)
    BY DEF RecordsOK
  <2>2. CASE i = v.id
    BY <1>3, <1>4, <1>7, <1>14, <1>15, <1>16, <1>2, <2>1, <2>2 DEF OperationOK, Live
  <2>3. CASE i # v.id
    BY <1>3, <1>16, <1>17, <2>1, <2>3 DEF OperationOK, Live
  <2> QED BY <2>2, <2>3
<1>20. WorkingOK(key, w)'
  <2>1. \A q \in Range(Own(key)') : request'[q].marker => w.call # NULL /\ q = w.req /\ w.pc # "return"
    BY <1>2, <1>11, <1>13, MarksKept
  <2>2. "IS_PERSISTENT" \in G => "IS_ACTIVE" \in G
    BY <1>5, <1>6, <1>7 DEF Keeps, Shows
  <2>3. Keeps(key, v.id, v.req)'
    BY <1>5, <1>6, <1>11, <1>12, <1>14, <1>15, <1>16, <2>2 DEF Keeps
  <2>4. Shows(request'[v.req].flags) = op'[v.id].state
    BY <1>6, <1>12, <1>15, <1>16 DEF Shows
  <2>5. Recorded(v.id)' /\ \A i \in Of(key) \ {v.id} : Recorded(i)'
    BY <1>5, <1>14, <1>15, <1>16, <1>17 DEF Recorded, SingleWorks, Of
  <2>6. InTime(v.id, v.call)' /\ ~Drops(v.id, v.call)' /\ v.call # NULL
    BY <1>1, <1>2, <1>15, <1>16 DEF InTime, Live, Drops, MpiRequestsAssumption, WithRequest
  <2>7. LeavesOK(key, w)'
    BY <1>1, <1>2, <1>5, <1>13, <2>3, <2>4, <2>5, <2>6 DEF LeavesOK, Goes
  <2>8. SingleWorks(key, w)'
    BY <1>5, <1>13, <1>18, <2>5, <2>7 DEF SingleWorks, Goes, Leaving
  <2> QED BY <1>4, <2>1, <2>8 DEF WorkingOK
<1>21. errors' = {} /\ w.key = key /\ (~Idle(th[t]) => th[t].key = key)
  BY <1>2, <1>3, <1>13 DEF RecordsOK, Goes
<1> QED BY <1>1, <1>2, <1>3, <1>11, <1>13, <1>18, <1>19, <1>20, <1>21, StepRecords

(* MPI_Wait and MPI_Test record the completion that they have observed.    *)
LEMMA UseWaitSingle ==
  ASSUME MpiRequestsAssumption, MpiIInv, RecordsOK, NEW t \in Threads, UseWait(t), th[t].key # Dummy
  PROVE  RecordsOK'
<1>1. ~Idle(th[t]) /\ th[t].pc = "use" /\ MpiIInv' /\ th[t].call = "Wait"
  BY UseWaitKeeps DEF UseWait, ThreadAt, Idle
<1>2. PICK key \in Keys, v \in ThreadRecords :
        /\ th[t] = v /\ v.key = key /\ Knows(v) /\ v.id \in Ids /\ WorkingOK(key, v) /\ key # Dummy
  BY <1>1, AtWork
<1>3. /\ setup' = setup /\ mpi_last_request_id' = mpi_last_request_id /\ op' = op
      /\ errors' = errors /\ request_table' = request_table /\ payload' = payload
  BY DEF UseWait
<1>4. /\ SingleWorks(key, v) /\ v.req \in Requests /\ Keeps(key, v.id, v.req) /\ v.id \in Of(key)
      /\ Range(Own(key)) = {v.req} /\ Over(v.id) /\ Pending(v.id, v.req) /\ v.req # NULL
  BY <1>1, <1>2, UseFound DEF MpiRequestsAssumption
<1>5. PICK F, G : F = request[v.req].flags /\ G = F \ {"IS_ACTIVE", "IS_COMPLETED"}
  OBVIOUS
<1>6. G \in SUBSET FlagNames /\ Flags(t) = F /\ "DEALLOCATE" \notin F
      /\ ("IS_PERSISTENT" \in F <=> op[v.id].persistent)
      /\ (op[v.id].persistent /\ "IS_COMPLETED" \in F => "IS_ACTIVE" \in F)
  BY <1>2, <1>4, <1>5 DEF MpiIInv, MpiTyped, RequestRecords, Flags, Keeps
<1>7. completions' = IF Shows(F) = "active" THEN [completions EXCEPT ![v.id] = @ + 1] ELSE completions
  <2>1. request[v.req].id = v.id
    BY <1>4 DEF Keeps
  <2> QED BY <1>2, <1>6, <2>1 DEF UseWait, Check, InactivePersistent, Shows
<1>8. Recorded(v.id)' /\ \A i \in Ids \ {v.id} : completions'[i] = completions[i]
  <2>1. completions \in [Ids -> Nat]
    BY DEF MpiIInv, MpiTyped
  <2>2. CASE Shows(F) = "active"
    BY <1>2, <1>3, <1>4, <1>5, <1>7, <2>1, <2>2 DEF Pending, Recorded
  <2>3. CASE Shows(F) # "active"
    BY <1>2, <1>3, <1>4, <1>5, <1>7, <2>1, <2>3 DEF Pending, Recorded
  <2> QED BY <2>2, <2>3
(* Persistent: it stays in the list, inactive; otherwise it is freed.      *)
<1>9. IF op[v.id].persistent
      THEN /\ MoveTo(t, "unmark")
           /\ \/ request' = request /\ Shows(F) = "inactive"
              \/ request' = [request EXCEPT ![v.req].flags = G]
      ELSE ToFree(t) /\ request' = request
  BY <1>2, <1>5, <1>6 DEF UseWait, InactivePersistent, Shows
<1>10. /\ OthersKept(key) /\ Own(key)' = Own(key) /\ Range(Own(key)) \subseteq Requests
       /\ \A q \in Requests : request'[q].id = request[q].id /\ request'[q].marker = request[q].marker
  BY <1>3, <1>4, <1>6, <1>9, UseFrame
<1>11. op[v.id].persistent => request'[v.req].flags = G \/ (request'[v.req].flags = F /\ Shows(F) = "inactive")
  <2>1. request' = [request EXCEPT ![v.req].flags = G] => request'[v.req].flags = G
    <3> SUFFICES ASSUME request' = [request EXCEPT ![v.req].flags = G] PROVE request'[v.req].flags = G
      OBVIOUS
    <3>1. v.req \in Requests /\ G \in SUBSET FlagNames /\ MpiTyped
      BY <1>4, <1>6 DEF MpiIInv
    <3> QED BY ONLY <3>1, FlagUpdates, request' = [request EXCEPT ![v.req].flags = G]
  <2> QED BY <1>5, <1>9, <2>1
<1>12. PICK w \in ThreadRecords :
         /\ th' = [th EXCEPT ![t] = w] /\ Goes(v, w) /\ ~Idle(w) /\ w.pc # "return"
         /\ IF op[v.id].persistent THEN Leaving(w) ELSE Freeing(w)
  <2>1. ~(MoveTo(t, "unmark") /\ ToFree(t))
    <3>1. DOMAIN th = Threads
      BY DEF MpiIInv, MpiTyped
    <3>2. ToFree(t) => th'[t].pc = "lookup"
      BY <1>2, <3>1 DEF ToFree, ThreadRecords
    <3>3. MoveTo(t, "unmark") => th'[t].pc = "unmark"
      BY <1>2, <3>1 DEF MoveTo, ThreadRecords
    <3> QED BY <3>2, <3>3
  <2> QED BY <1>1, <1>2, <1>4, <1>9, <2>1, UseGoes
<1>13. ASSUME Of(key)' = Of(key) PROVE WorkingOK(key, w)'
  <2>1. \A q \in Range(Own(key)') : request'[q].marker => w.call # NULL /\ q = w.req /\ w.pc # "return"
    BY <1>2, <1>10, <1>12, MarksKept
  <2>2. \A i \in Of(key) \ {v.id} : Recorded(i)'
    BY <1>3, <1>4, <1>8 DEF SingleWorks, Recorded, Of
  <2>3. Over(v.id)' /\ (Drops(v.id, v.call)' <=> ~op[v.id].persistent) /\ v.call = "Wait" /\ v.call # NULL
    BY <1>1, <1>2, <1>3, <1>4 DEF Over, Drops, MpiRequestsAssumption, WithRequest
  <2>4. Keeps(key, v.id, v.req)'
    <3>1. CASE op[v.id].persistent
      BY <1>3, <1>4, <1>5, <1>6, <1>10, <1>11, <3>1 DEF Keeps
    <3>2. CASE ~op[v.id].persistent
      BY <1>3, <1>4, <1>9, <1>10, <3>2 DEF Keeps
    <3> QED BY <3>1, <3>2
  <2>5. CASE op[v.id].persistent
    <3>1. Shows(request'[v.req].flags) = "inactive" /\ op'[v.id].state = "inactive"
      BY <1>3, <1>4, <1>5, <1>6, <1>11, <2>5 DEF Shows, Over
    <3>2. LeavesOK(key, w)'
      BY <1>4, <1>8, <1>12, <2>3, <2>4, <2>5, <3>1 DEF LeavesOK, Goes
    <3>3. SingleWorks(key, w)'
      BY <1>4, <1>12, <1>13, <2>2, <2>5, <3>2 DEF SingleWorks, Goes
    <3> QED BY <1>2, <2>1, <3>3 DEF WorkingOK
  <2>6. CASE ~op[v.id].persistent
    <3>1. FreesOK(key, w)'
      BY <1>8, <1>12, <2>3, <2>4, <2>6 DEF FreesOK, Goes
    <3>2. SingleWorks(key, w)'
      BY <1>4, <1>12, <1>13, <2>2, <2>6, <3>1 DEF SingleWorks, Goes
    <3> QED BY <1>2, <2>1, <3>2 DEF WorkingOK
  <2> QED BY <2>5, <2>6
<1>14. /\ \A i \in Ids : op[i].key # key \/ ~op[i].known => completions'[i] = completions[i]
       /\ w.key = key /\ key = th[t].key
  BY <1>2, <1>4, <1>8, <1>12 DEF Of, Goes
<1> QED BY <1>1, <1>3, <1>10, <1>12, <1>13, <1>14, CallStep

(* With the dummy value, they record one of the operations not recorded.   *)
LEMMA UseWaitDummy ==
  ASSUME MpiRequestsAssumption, MpiIInv, RecordsOK, NEW t \in Threads, UseWait(t), th[t].key = Dummy
  PROVE  RecordsOK'
<1>1. ~Idle(th[t]) /\ th[t].pc = "use" /\ MpiIInv' /\ th[t].call = "Wait" /\ th[t].req # NULL
  BY UseWaitKeeps DEF UseWait, ThreadAt, Idle
<1>2. PICK key \in Keys, v \in ThreadRecords :
        /\ th[t] = v /\ v.key = key /\ Knows(v) /\ v.id \in Ids /\ WorkingOK(key, v) /\ key = Dummy
  BY <1>1, AtWork
<1>3. /\ setup' = setup /\ mpi_last_request_id' = mpi_last_request_id /\ op' = op
      /\ errors' = errors /\ request_table' = request_table /\ payload' = payload
  BY DEF UseWait
<1>4. v.req \in Range(Own(key)) /\ v.req # NULL
  BY <1>1, <1>2 DEF Knows, Using
<1>5. Listed(key, {}, {}) /\ Enough(key, 1) /\ v.call = "Wait"
  BY <1>1, <1>2, UseFound DEF DummyUses
<1>6. PICK i : i = request[v.req].id
  OBVIOUS
<1>7. i \in Of(key) /\ i \in Ids /\ completions[i] = 0 /\ i \in Unrecorded(key) /\ Flags(t) = {}
  BY <1>2, <1>4, <1>5, <1>6 DEF Listed, Unrecorded, Of, Flags
<1>8. /\ completions' = [completions EXCEPT ![i] = @ + 1] /\ ToFree(t) /\ request' = request
  BY <1>2, <1>6, <1>7 DEF UseWait, Check, InactivePersistent
<1>9. completions'[i] = 1 /\ \A j \in Ids \ {i} : completions'[j] = completions[j]
  BY <1>7, <1>8 DEF MpiIInv, MpiTyped
<1>10. OthersKept(key) /\ Own(key)' = Own(key) /\ Range(Own(key)) \subseteq Requests
  BY <1>3, <1>4, <1>8, UseFrame
<1>11. PICK w \in ThreadRecords : /\ th' = [th EXCEPT ![t] = w] /\ Goes(v, w) /\ ~Idle(w) /\ w.pc # "return" /\ Freeing(w)
  <2>1. ~MoveTo(t, "unmark")
    <3>1. DOMAIN th = Threads
      BY DEF MpiIInv, MpiTyped
    <3>2. ToFree(t) => th'[t].pc = "lookup"
      BY <1>2, <3>1 DEF ToFree, ThreadRecords
    <3>3. MoveTo(t, "unmark") => th'[t].pc = "unmark"
      BY <1>2, <3>1 DEF MoveTo, ThreadRecords
    <3> QED BY <1>8, <3>2, <3>3
  <2> QED BY <1>1, <1>2, <1>4, <1>8, <2>1, UseGoes
<1>12. ASSUME Of(key)' = Of(key) PROVE WorkingOK(key, w)'
  <2>1. \A q \in Range(Own(key)') : request'[q].marker => w.call # NULL /\ q = w.req /\ w.pc # "return"
    BY <1>2, <1>8, <1>10, <1>11, MarksKept
  <2>2. \A j \in Of(key) : j \in Ids
    BY DEF Of
  <2>3. Unrecorded(key)' = Unrecorded(key) \ {i} /\ Active(key)' = Active(key)
    BY <1>3, <1>7, <1>9, <1>12, <2>2 DEF Unrecorded, Active
  <2>4. Listed(key, {}, {v.req})'
    <3>1. \A j \in Of(key) : completions'[j] \in {0, 1} /\ op[j].observed = IF op[j].state = "done" THEN 1 ELSE 0
      BY <1>5, <1>9, <2>2 DEF Listed
    <3>2. \A j \in Unrecorded(key)' : \E q \in Range(Own(key)) : request[q].id = j
      BY <1>5, <2>3 DEF Listed
    <3>3. \A q \in Range(Own(key)) \ {v.req} : completions'[request[q].id] = 0
      <4>1. \A q \in Range(Own(key)) \ {v.req} : request[q].id \in Ids \ {i} /\ completions[request[q].id] = 0
        BY <1>4, <1>5, <1>6, <2>2 DEF Listed
      <4> QED BY <1>9, <4>1
    <3>4. /\ \A q \in Range(Own(key)) : request[q].id \in Of(key) /\ request[q].flags = {}
          /\ \A q, p \in Range(Own(key)) : request[q].id = request[p].id => q = p
      BY <1>5 DEF Listed
    <3> QED BY <1>3, <1>8, <1>10, <1>12, <3>1, <3>2, <3>3, <3>4 DEF Listed
  <2>5. Enough(key, 0)'
    <3>1. IsFiniteSet(Active(key)) /\ IsFiniteSet(Unrecorded(key))
      BY ActiveFinite DEF MpiIInv
    <3>2. PICK S, A : S = Unrecorded(key) /\ A = Active(key)
      OBVIOUS
    <3>3. /\ Cardinality(S) \in Nat /\ Cardinality(A) \in Nat
          /\ Cardinality(S \ {i}) = Cardinality(S) - 1
      BY <1>7, <3>1, <3>2, FS_CardinalityType, FS_RemoveElement
    <3>4. Cardinality(S) <= Cardinality(A) + 1
      BY <1>5, <3>2 DEF Enough
    <3> QED BY <2>3, <3>2, <3>3, <3>4 DEF Enough
  <2>6. DummyFrees(key, w)'
    BY <1>5, <1>6, <1>8, <1>9, <1>11, <2>4, <2>5 DEF DummyFrees, Goes
  <2>7. DummyWorks(key, w)'
    BY <1>11, <2>6 DEF DummyWorks
  <2> QED BY <1>2, <2>1, <2>7 DEF WorkingOK
<1>13. /\ \A j \in Ids : op[j].key # key \/ ~op[j].known => completions'[j] = completions[j]
       /\ w.key = key /\ key = th[t].key
  BY <1>2, <1>7, <1>9, <1>11 DEF Of, Goes
<1> QED BY <1>1, <1>3, <1>10, <1>11, <1>12, <1>13, CallStep

(* The wrapper returns: nobody works with the value any more.              *)
LEMMA ReturnRecords ==
  ASSUME MpiRequestsAssumption, MpiIInv, RecordsOK, NEW t \in Threads, ReturnFromMpi(t)
  PROVE  RecordsOK'
<1>1. ~Idle(th[t]) /\ th[t].pc = "return" /\ MpiIInv'
  BY ReturnKeeps DEF ReturnFromMpi, ThreadAt, Idle
<1>2. PICK key \in Keys, v \in ThreadRecords :
        /\ th[t] = v /\ v.key = key /\ Knows(v) /\ v.id \in Ids /\ op[v.id].key = key /\ WorkingOK(key, v)
        /\ \A u \in Threads \ {t} : ~Idle(th[u]) => th[u].key # key
        /\ key # Dummy => \A i \in Ids : Live(i) /\ op[i].key = key => i = v.id
  BY <1>1, AtWork
<1>3. /\ setup' = setup /\ mpi_last_request_id' = mpi_last_request_id /\ completions' = completions
      /\ errors' = errors /\ request_table' = request_table /\ payload' = payload /\ request' = request
      /\ th' = [th EXCEPT ![t] = IdleThread]
  BY DEF ReturnFromMpi
<1>4. Leaving(v) /\ Idle(IdleThread)
  BY <1>1, <1>2, IdleRecord DEF Leaving
<1>5. OthersKept(key) /\ Own(key)' = Own(key) /\ Range(Own(key)) \subseteq Requests
  BY <1>3, NothingMoves DEF SameData
<1>6. \A q \in Range(Own(key)) : ~request[q].marker
  BY <1>1, <1>2 DEF WorkingOK
<1>7. CASE key = Dummy
  <2>1. DummyLeaves(key, v)
    BY <1>2, <1>4, <1>7, OnePhase DEF WorkingOK, DummyWorks
  <2>2. op' = op
    <3>1. "Wait" # "Start" /\ "Wait" # "Request_free"
      OBVIOUS
    <3> QED BY <1>2, <2>1, <3>1 DEF ReturnFromMpi, DummyLeaves
  <2>3. RestingOK(key)
    BY <1>6, <1>7, <2>1 DEF RestingOK, DummyLeaves, DummyRests
  <2>4. ASSUME Of(key)' = Of(key) PROVE RestingOK(key)'
    <3>1. SameOf(key)
      BY <1>3, <1>5, <2>2, <2>4 DEF SameOf, SameData
    <3> QED BY <2>3, <3>1, SameRests
  <2> QED BY <1>1, <1>2, <1>3, <1>4, <1>5, <2>2, <2>4, CallStep
<1>8. CASE key # Dummy
  <2>1. SingleWorks(key, v) /\ LeavesOK(key, v) /\ v.id \in Of(key)
    BY <1>2, <1>4, <1>8, OnePhase DEF WorkingOK, SingleWorks
  <2>2. PICK o \in Operations : o = op[v.id]
    BY <1>2 DEF MpiIInv, MpiTyped
  <2>3. PICK n : /\ op' = [op EXCEPT ![v.id] = n]
                 /\ n.key = o.key /\ n.known = o.known /\ n.persistent = o.persistent /\ n.observed = o.observed
                 /\ n.state = IF v.call = "Start" THEN "active" ELSE IF v.call = "Request_free" THEN "done" ELSE o.state
    <3>1. CASE v.call = "Start"
      <4>1. PICK n : n = [o EXCEPT !.state = "active", !.starts = @ + 1]
        OBVIOUS
      <4>2. op' = [op EXCEPT ![v.id] = n]
        BY <1>2, <2>2, <3>1, <4>1 DEF ReturnFromMpi, MpiIInv, MpiTyped
      <4>3. n.key = o.key /\ n.known = o.known /\ n.persistent = o.persistent /\ n.observed = o.observed /\ n.state = "active"
        BY <4>1 DEF Operations
      <4> QED BY <3>1, <4>2, <4>3
    <3>2. CASE v.call = "Request_free"
      <4>1. PICK n : n = [o EXCEPT !.state = "done"]
        OBVIOUS
      <4>2. op' = [op EXCEPT ![v.id] = n]
        BY <1>2, <2>2, <3>2, <4>1 DEF ReturnFromMpi, MpiIInv, MpiTyped
      <4>3. n.key = o.key /\ n.known = o.known /\ n.persistent = o.persistent /\ n.observed = o.observed /\ n.state = "done"
        BY <4>1 DEF Operations
      <4> QED BY <3>2, <4>2, <4>3
    <3>3. CASE v.call \notin {"Start", "Request_free"}
      <4>1. op' = op /\ op = [op EXCEPT ![v.id] = o]
        BY <1>2, <2>2, <3>3 DEF ReturnFromMpi, MpiIInv, MpiTyped
      <4> QED BY <3>3, <4>1
    <3> QED BY <3>1, <3>2, <3>3
  <2>4. op'[v.id] = n /\ \A i \in Ids \ {v.id} : op'[i] = op[i]
    BY <1>2, <2>3 DEF MpiIInv, MpiTyped
  <2>5. OpsKept(key) /\ Of(key)' = Of(key)
    <3>1. /\ \A i \in Ids : op'[i].key = op[i].key /\ op'[i].known = op[i].known
          /\ \A i \in Ids : op[i].key # key => op'[i] = op[i] /\ completions'[i] = completions[i]
      BY <1>2, <1>3, <2>2, <2>3, <2>4
    <3> QED BY <1>3, <3>1, OpsOfOthers
  <2>6. ASSUME NEW i \in Ids PROVE OperationOK(i)'
    <3>1. OperationOK(i)
      BY DEF RecordsOK
    <3>2. CASE i = v.id
      <4>1. o.known /\ o.key # Dummy
        BY <1>2, <1>8, <2>1, <2>2 DEF Of
      <4>2. n.state = "inactive" => n.persistent
        BY <2>2, <2>3, <3>1, <3>2 DEF OperationOK
      <4>3. n.known => i <= mpi_last_request_id
        BY <2>2, <2>3, <3>1, <3>2 DEF OperationOK
      <4> QED BY <1>3, <2>3, <2>4, <3>2, <4>1, <4>2, <4>3 DEF OperationOK, Live
    <3>3. CASE i # v.id
      BY <1>3, <2>4, <3>1, <3>3 DEF OperationOK, Live
    <3> QED BY <3>2, <3>3
  <2>7. \A i \in Of(key) : Recorded(i)' /\ i \in Ids /\ op[i].key = key
    BY <1>3, <2>1, <2>2, <2>3, <2>4 DEF Recorded, SingleWorks, LeavesOK, Of
  <2>8. \A i \in Of(key) : Live(i)' => i = v.id
    <3>1. \A i \in Of(key) : i \in Ids /\ op[i].key = key
      BY DEF Of
    <3> QED BY <1>2, <1>8, <2>4, <3>1 DEF Live
  <2>9. CASE Drops(v.id, v.call)
    <3>1. Own(key) = << >>
      BY <2>1, <2>9 DEF LeavesOK
    <3>2. ~Live(v.id)'
      <4>1. v.call = "Wait" => Over(v.id)
        BY <2>1 DEF LeavesOK
      <4> QED BY <2>2, <2>3, <2>4, <2>9, <4>1 DEF Drops, Over, Live
    <3>3. SingleRests(key)'
      BY <1>5, <2>5, <2>7, <2>8, <3>1, <3>2 DEF SingleRests
    <3>4. RestingOK(key)'
      BY <1>3, <1>5, <1>6, <1>8, <3>3 DEF RestingOK
    <3>5. errors' = {}
      BY <1>3 DEF RecordsOK
    <3> QED BY <1>1, <1>2, <1>3, <1>4, <1>5, <2>5, <2>6, <3>4, <3>5, StepRecords
  <2>10. CASE ~Drops(v.id, v.call)
    <3>1. PICK r \in Requests : /\ Keeps(key, v.id, r)
                                /\ Shows(request[r].flags) = IF v.call = "Start" THEN "active" ELSE op[v.id].state
      BY <2>1, <2>10 DEF LeavesOK
    <3>2. n.state = IF v.call = "Start" THEN "active" ELSE op[v.id].state
      BY <2>2, <2>3, <2>10 DEF Drops
    <3>3. Live(v.id)'
      <4>1. v.call = "Wait" => n.state = "inactive"
        BY <2>1, <2>2, <2>10, <3>2 DEF LeavesOK, Drops, Over
      <4>2. v.call # "Wait" => Live(v.id)
        BY <2>1 DEF LeavesOK, InTime
      <4> QED BY <2>2, <2>4, <3>2, <4>1, <4>2 DEF Live
    <3>4. Keeps(key, v.id, r)' /\ Shows(request'[r].flags) = op'[v.id].state
      BY <1>3, <1>5, <2>2, <2>3, <2>4, <3>1, <3>2 DEF Keeps
    <3>5. SingleRests(key)'
      BY <2>1, <2>5, <2>7, <2>8, <3>3, <3>4 DEF SingleRests
    <3>6. RestingOK(key)'
      BY <1>3, <1>5, <1>6, <1>8, <3>5 DEF RestingOK
    <3>7. errors' = {}
      BY <1>3 DEF RecordsOK
    <3> QED BY <1>1, <1>2, <1>3, <1>4, <1>5, <2>5, <2>6, <3>6, <3>7, StepRecords
  <2> QED BY <2>9, <2>10
<1> QED BY <1>7, <1>8

(* Programs that make none of the calls after which the wrappers write too *)
(* much or too little, or leave a request behind.                          *)
NoneExcluded ==
  \A s \in MpiSetups : s.features \cap {"status of inactive", "free of active", "calls on dummy"} = {}

(* A call begins to look for the request of its operation; MPI_Wait has    *)
(* observed the completion.                                                *)
LEMMA CallRecords ==
  ASSUME MpiRequestsAssumption, NoneExcluded, MpiIInv, RecordsOK, NEW t \in Threads, NEW id \in Ids,
         NEW call \in WithRequest, CallWithRequest(t, id, call)
  PROVE  RecordsOK'
<1>1. Idle(th[t]) /\ MpiIInv'
  BY CallKeeps DEF CallWithRequest, MayCall, ThreadAt, Idle
<1>2. PICK o \in Operations : o = op[id]
  BY DEF MpiIInv, MpiTyped
<1>3. PICK key \in Keys : key = o.key
  BY <1>2 DEF Operations
<1>4. /\ setup' = setup /\ mpi_last_request_id' = mpi_last_request_id /\ completions' = completions
      /\ errors' = errors /\ request_table' = request_table /\ payload' = payload /\ request' = request
  BY DEF CallWithRequest
<1>5. PICK w : /\ w = [IdleThread EXCEPT !.pc = "lookup", !.call = call, !.id = id, !.key = key, !.after = "get"]
               /\ th' = [th EXCEPT ![t] = w]
  BY <1>2, <1>3 DEF CallWithRequest
<1>6. /\ w.pc = "lookup" /\ w.after = "get" /\ w.call = call /\ w.id = id /\ w.key = key
      /\ ~Idle(w) /\ Getting(w) /\ ~Using(w) /\ call # NULL
  <2>1. w.pc = "lookup" /\ w.after = "get" /\ w.call = call /\ w.id = id /\ w.key = key
    BY <1>5 DEF IdleThread
  <2>2. call # NULL
    BY DEF MpiRequestsAssumption
  <2> QED BY <2>1, <2>2 DEF Idle, Getting, Using
<1>7. \A u \in Threads \ {t} : ~Idle(th[u]) => th[u].key # key
  <2>1. th'[t] = w /\ \A u \in Threads \ {t} : th'[u] = th[u]
    BY <1>5 DEF MpiIInv, MpiTyped
  <2> QED BY <1>1, <1>6, <2>1 DEF MpiIInv, ThreadsOK
<1>8. RestingOK(key) /\ OperationOK(id) /\ errors' = {}
  <2>1. \A u \in Threads : ~Idle(th[u]) => th[u].key # key
    BY <1>1, <1>7
  <2> QED BY <1>4, <2>1 DEF RecordsOK
<1>9. OthersKept(key) /\ Own(key)' = Own(key) /\ Range(Own(key)) \subseteq Requests
  BY <1>4, NothingMoves DEF SameData
<1>10. /\ Live(id) /\ (call = "Start" => o.state = "inactive")
       /\ (call = "Request_get_status" => o.state # "inactive")
       /\ (call = "Request_free" /\ o.persistent => o.state = "inactive")
       /\ (key = Dummy => call = "Wait")
  <2>1. /\ ~Allows("status of inactive") /\ ~Allows("free of active") /\ ~Allows("calls on dummy")
    BY DEF NoneExcluded, Allows, MpiIInv, MpiTyped
  <2> QED BY <1>2, <1>3, <2>1 DEF CallWithRequest, Live
<1>11. PICK n : /\ op' = [op EXCEPT ![id] = n]
                /\ n.key = key /\ n.known = o.known /\ n.persistent = o.persistent
                /\ n.state = IF call = "Wait" THEN (IF o.persistent THEN "inactive" ELSE "done") ELSE o.state
                /\ n.observed = IF call = "Wait" /\ o.state = "active" /\ o.known THEN o.observed + 1 ELSE o.observed
  <2>1. CASE call = "Wait"
    <3>1. PICK n : n = Finish(o)
      OBVIOUS
    <3>2. op' = [op EXCEPT ![id] = n]
      BY <1>2, <2>1, <3>1 DEF CallWithRequest, MpiIInv, MpiTyped
    <3>3. /\ n.key = o.key /\ n.known = o.known /\ n.persistent = o.persistent
          /\ n.state = (IF o.persistent THEN "inactive" ELSE "done")
          /\ n.observed = IF o.state = "active" /\ o.known THEN o.observed + 1 ELSE o.observed
      BY <3>1 DEF Finish, Operations
    <3> QED BY <1>3, <2>1, <3>2, <3>3
  <2>2. CASE call # "Wait"
    <3>1. op' = op /\ op = [op EXCEPT ![id] = o]
      BY <1>2, <2>2 DEF CallWithRequest, MpiIInv, MpiTyped
    <3> QED BY <1>3, <2>2, <3>1
  <2> QED BY <2>1, <2>2
<1>12. op'[id] = n /\ \A i \in Ids \ {id} : op'[i] = op[i]
  BY <1>11 DEF MpiIInv, MpiTyped
<1>13. OpsKept(key) /\ Of(key)' = Of(key)
  <2>1. /\ \A i \in Ids : op'[i].key = op[i].key /\ op'[i].known = op[i].known
        /\ \A i \in Ids : op[i].key # key => op'[i] = op[i] /\ completions'[i] = completions[i]
    BY <1>2, <1>3, <1>4, <1>11, <1>12
  <2> QED BY <1>4, <2>1, OpsOfOthers
<1>14. \A i \in Of(key) : i \in Ids
  BY DEF Of
<1>15. ASSUME NEW i \in Ids PROVE OperationOK(i)'
  <2>1. OperationOK(i)
    BY DEF RecordsOK
  <2>2. CASE i = id
    BY <1>2, <1>3, <1>4, <1>10, <1>11, <1>12, <2>1, <2>2 DEF OperationOK, Live
  <2>3. CASE i # id
    BY <1>4, <1>12, <2>1, <2>3 DEF OperationOK, Live
  <2> QED BY <2>2, <2>3
<1>16. \A q \in Range(Own(key))' : ~request'[q].marker
  BY <1>4, <1>8, <1>9 DEF RestingOK
<1>17. CASE key # Dummy
  <2>1. SingleRests(key) /\ id \in Of(key) /\ o.known
    BY <1>2, <1>3, <1>8, <1>10, <1>17 DEF RestingOK, OperationOK, Of
  <2>2. PICK r \in Requests : Keeps(key, id, r) /\ Shows(request[r].flags) = o.state
    BY <1>2, <1>10, <2>1 DEF SingleRests
  <2>3. completions[id] = o.observed /\ o.observed \in Nat /\ Recorded(id)
    BY <1>2, <2>1 DEF SingleRests, Recorded, Operations
  <2>4. Keeps(key, id, r)'
    BY <1>2, <1>4, <1>9, <1>11, <1>12, <2>2 DEF Keeps
  <2>5. ASSUME UsesOK(key, w)' PROVE RecordsOK'
    <3>1. \A i \in Of(key)' \ {id} : Recorded(i)'
      BY <1>4, <1>12, <1>13, <1>14, <2>1 DEF SingleRests, Recorded
    <3>2. SingleWorks(key, w)'
      BY <1>6, <1>13, <2>1, <2>5, <3>1 DEF SingleWorks
    <3>3. WorkingOK(key, w)'
      BY <1>16, <1>17, <3>2 DEF WorkingOK
    <3> QED BY <1>1, <1>4, <1>5, <1>6, <1>7, <1>8, <1>9, <1>13, <1>15, <3>3, StepRecords
  <2>6. CASE call = "Wait"
    <3>1. Over(id)'
      BY <1>11, <1>12, <2>6 DEF Over
    <3>2. completions[id] + (IF Shows(request[r].flags) = "active" THEN 1 ELSE 0) = n.observed
      BY <1>11, <2>1, <2>2, <2>3, <2>6
    <3>3. Pending(id, r)'
      BY <1>4, <1>12, <3>2 DEF Pending
    <3>4. UsesOK(key, w)'
      BY <1>6, <2>4, <2>6, <3>1, <3>3 DEF UsesOK
    <3> QED BY <2>5, <3>4
  <2>7. CASE call # "Wait"
    <3>1. op'[id] = o
      BY <1>2, <1>11, <1>12, <2>7 DEF CallWithRequest
    <3>2. Recorded(id)' /\ InTime(id, call)' /\ Shows(request'[r].flags) = op'[id].state
      BY <1>2, <1>4, <1>10, <2>2, <2>3, <3>1 DEF Recorded, InTime, Live
    <3>3. UsesOK(key, w)'
      BY <1>6, <2>4, <2>7, <3>2 DEF UsesOK
    <3> QED BY <2>5, <3>3
  <2> QED BY <2>6, <2>7
<1>18. CASE key = Dummy
  <2>1. Listed(key, {}, {}) /\ Enough(key, 0) /\ call = "Wait"
    BY <1>8, <1>10, <1>18 DEF RestingOK, DummyRests
  <2>2. o.state = "active" /\ ~o.persistent
    BY <1>2, <1>3, <1>8, <1>10, <1>18 DEF OperationOK, Live
  <2>3. /\ n.state = "done" /\ n.observed = IF o.known THEN o.observed + 1 ELSE o.observed
        /\ o.known => id \in Of(key)
    BY <1>2, <1>3, <1>11, <2>1, <2>2 DEF Of
  <2>4. Unrecorded(key)' = Unrecorded(key)
    BY <1>4, <1>13 DEF Unrecorded
  <2>5. Listed(key, {}, {})'
    <3>1. ASSUME NEW i \in Of(key)
          PROVE  completions'[i] \in {0, 1} /\ op'[i].observed = IF op'[i].state = "done" THEN 1 ELSE 0
      <4>1. completions[i] \in {0, 1} /\ op[i].observed = IF op[i].state = "done" THEN 1 ELSE 0
        BY <2>1 DEF Listed
      <4>2. CASE i = id
        <5>1. o.known
          BY <1>2, <4>2 DEF Of
        <5> QED BY <1>2, <1>4, <1>12, <2>2, <2>3, <4>1, <4>2, <5>1
      <4>3. CASE i # id
        BY <1>4, <1>12, <1>14, <4>1, <4>3
      <4> QED BY <4>2, <4>3
    <3>2. \A i \in Unrecorded(key) : \E r \in Range(Own(key)) : request[r].id = i
      BY <2>1 DEF Listed
    <3>3. /\ \A r \in Range(Own(key)) : request[r].id \in Of(key) /\ request[r].flags = {}
          /\ \A r \in Range(Own(key)) : completions[request[r].id] = 0
          /\ \A r, q \in Range(Own(key)) : request[r].id = request[q].id => r = q
      BY <2>1 DEF Listed
    <3> QED BY <1>4, <1>9, <1>13, <2>4, <3>1, <3>2, <3>3 DEF Listed
  <2>6. Enough(key, 1)'
    <3>1. IsFiniteSet(Active(key)) /\ IsFiniteSet(Unrecorded(key))
      BY ActiveFinite DEF MpiIInv
    <3>2. PICK S, A : S = Unrecorded(key) /\ A = Active(key)
      OBVIOUS
    <3>3. Cardinality(S) \in Nat /\ Cardinality(A) \in Nat /\ Cardinality(S) <= Cardinality(A)
      <4>1. Cardinality(S) \in Nat /\ Cardinality(A) \in Nat
        BY <3>1, <3>2, FS_CardinalityType
      <4> QED BY <2>1, <3>2, <4>1 DEF Enough
    <3>4. CASE o.known
      <4>1. id \in A /\ Active(key)' = A \ {id}
        <5>1. id \in A
          BY <1>2, <2>2, <2>3, <3>2, <3>4 DEF Active
        <5>2. Active(key)' = A \ {id}
          BY <1>12, <1>13, <1>14, <2>3, <3>2 DEF Active
        <5> QED BY <5>1, <5>2
      <4>2. Cardinality(A \ {id}) = Cardinality(A) - 1
        BY <3>1, <3>2, <4>1, FS_RemoveElement
      <4> QED BY <2>4, <3>2, <3>3, <4>1, <4>2 DEF Enough
    <3>5. CASE ~o.known
      <4>1. id \notin Of(key)
        BY <1>2, <3>5 DEF Of
      <4>2. Active(key)' = A
        BY <1>12, <1>13, <1>14, <3>2, <4>1 DEF Active
      <4> QED BY <2>4, <3>2, <3>3, <4>2 DEF Enough
    <3> QED BY <3>4, <3>5
  <2>7. DummyWorks(key, w)'
    BY <1>6, <2>1, <2>5, <2>6 DEF DummyWorks, DummyUses
  <2>8. WorkingOK(key, w)'
    BY <1>16, <1>18, <2>7 DEF WorkingOK
  <2> QED BY <1>1, <1>4, <1>5, <1>6, <1>7, <1>8, <1>9, <1>13, <1>15, <2>8, StepRecords
<1> QED BY <1>17, <1>18

(* MPI starts an operation; its wrapper will insert a request, if it keeps *)
(* one.                                                                    *)
LEMMA CreateRecords ==
  ASSUME MpiRequestsAssumption, ValuesApart, MpiIInv, RecordsOK, NEW t \in Threads, NEW k \in Keys,
         NEW persistent \in BOOLEAN, NEW known \in BOOLEAN, CreateOperation(t, k, persistent, known)
  PROVE  RecordsOK'
<1>1. Idle(th[t]) /\ MpiIInv' /\ (Allows("multiple") \/ \A u \in Threads : Idle(th[u]))
  BY CreateKeeps DEF CreateOperation, MayCall, ThreadAt, Idle
<1>2. PICK n \in Nat : n = mpi_last_request_id + 1
  BY SetupBounds DEF MpiIInv
<1>3. n \in Ids /\ mpi_last_request_id \in Nat /\ \A i \in Ids : i <= mpi_last_request_id => i <= n /\ i # n
  <2>1. setup.operations \in Nat /\ mpi_last_request_id \in Nat
    BY SetupBounds DEF MpiIInv
  <2>2. PICK m \in Nat, l \in Nat : m = setup.operations /\ l = mpi_last_request_id /\ l < m
    BY <2>1 DEF CreateOperation
  <2>3. n = l + 1 /\ Ids = 1 .. m
    BY <1>2, <2>2 DEF Ids
  <2>4. n \in 1 .. m /\ \A i \in 1 .. m : i <= l => i <= n /\ i # n
    BY <2>2, <2>3
  <2> QED BY <2>1, <2>2, <2>3, <2>4
<1>4. PICK o : /\ op' = [op EXCEPT ![n] = o]
               /\ o.key = k /\ o.state = (IF persistent THEN "inactive" ELSE "active")
               /\ o.persistent = persistent /\ o.known = known /\ o.observed = 0
  <2>1. PICK o : o = [key |-> k, state |-> IF persistent THEN "inactive" ELSE "active",
                      persistent |-> persistent, known |-> known,
                      thread |-> IF Allows("multiple") THEN t ELSE NULL, starts |-> 0, observed |-> 0]
    OBVIOUS
  <2>2. op' = [op EXCEPT ![n] = o]
    BY <1>2, <2>1 DEF CreateOperation
  <2>3. o.key = k /\ o.state = (IF persistent THEN "inactive" ELSE "active") /\ o.observed = 0
    BY <2>1
  <2>4. o.persistent = persistent /\ o.known = known
    BY <2>1, Zenon
  <2> QED BY <2>2, <2>3, <2>4
<1>5. op'[n] = o /\ \A i \in Ids \ {n} : op'[i] = op[i]
  BY <1>3, <1>4 DEF MpiIInv, MpiTyped
<1>6. /\ mpi_last_request_id' = n /\ setup' = setup /\ completions' = completions
      /\ errors' = errors /\ request_table' = request_table /\ payload' = payload /\ request' = request
  BY <1>2 DEF CreateOperation
<1>7. ~op[n].known /\ completions[n] = 0
  <2>1. OperationOK(n)
    BY <1>3 DEF RecordsOK
  <2>2. ~op[n].known
    BY <1>3, <2>1 DEF OperationOK
  <2> QED BY <2>1, <2>2 DEF OperationOK
<1>8. /\ known \/ k = Dummy
      /\ k = Dummy => ~persistent /\ ~Allows("multiple")
      /\ k # Dummy => \A i \in Ids : op[i].key = k => ~Live(i)
  <2>1. Allows("multiple") => ~Allows("early") /\ ~Allows("dummy")
    BY DEF MpiIInv, MpiTyped, ValuesApart, Allows
  <2> QED BY <2>1 DEF CreateOperation, Values, Live
<1>9. OthersKept(k) /\ Own(k)' = Own(k) /\ Range(Own(k)) \subseteq Requests
  BY <1>6, NothingMoves DEF SameData
<1>10. Ids' = Ids /\ \A l : \A i \in Of(l) : i \in Ids /\ i # n
  BY <1>6, <1>7 DEF Ids, Of
<1>11. Of(k)' = IF known THEN Of(k) \cup {n} ELSE Of(k)
  <2>1. \A i \in Ids : (op'[i].key = k /\ op'[i].known) <=> i \in Of(k) \/ (i = n /\ known)
    BY <1>4, <1>5, <1>7 DEF Of
  <2> QED BY <1>3, <1>10, <2>1 DEF Of
<1>12. OpsKept(k)
  <2>1. ASSUME NEW l \in Keys \ {k} PROVE Of(l)' = Of(l)
    <3>1. \A i \in Ids : (op'[i].key = l /\ op'[i].known) <=> i \in Of(l)
      BY <1>4, <1>5, <1>7 DEF Of
    <3> QED BY <1>10, <3>1 DEF Of
  <2> QED BY <1>5, <1>6, <1>10, <2>1 DEF OpsKept
<1>13. ASSUME NEW i \in Ids PROVE OperationOK(i)'
  <2>1. OperationOK(i)
    BY DEF RecordsOK
  <2>2. CASE i = n
    BY <1>3, <1>4, <1>5, <1>6, <1>7, <1>8, <2>2 DEF OperationOK, Live
  <2>3. CASE i # n
    BY <1>3, <1>5, <1>6, <2>1, <2>3 DEF OperationOK, Live
  <2> QED BY <2>2, <2>3
<1>14. errors' = {}
  BY <1>6 DEF RecordsOK
<1>15. CASE known
  <2>1. PICK w : w = [IdleThread EXCEPT !.pc = "insert", !.id = n, !.key = k] /\ th' = [th EXCEPT ![t] = w]
    BY <1>2, <1>15 DEF CreateOperation
  <2>2. /\ w.pc = "insert" /\ w.id = n /\ w.key = k /\ w.call = NULL
        /\ ~Idle(w) /\ Inserting(w) /\ ~Appending(w)
    <3>1. w.pc = "insert" /\ w.id = n /\ w.key = k /\ w.call = NULL
      BY <2>1 DEF IdleThread
    <3> QED BY <3>1 DEF Idle, Inserting, Appending
  <2>3. \A u \in Threads \ {t} : ~Idle(th[u]) => th[u].key # k
    <3>1. th'[t] = w /\ \A u \in Threads \ {t} : th'[u] = th[u]
      BY <2>1 DEF MpiIInv, MpiTyped
    <3> QED BY <1>1, <2>2, <3>1 DEF MpiIInv, ThreadsOK
  <2>4. RestingOK(k)
    BY <1>1, <2>3 DEF RecordsOK
  <2>5. \A q \in Range(Own(k))' : ~request'[q].marker
    BY <1>6, <1>9, <2>4 DEF RestingOK
  <2>6. WorkingOK(k, w)'
    <3>1. CASE k # Dummy
      <4>1. SingleRests(k) /\ Own(k) = << >> /\ \A i \in Of(k) : Recorded(i)
        BY <1>8, <1>10, <2>4, <3>1 DEF RestingOK, SingleRests, Of
      <4>2. InsertsOK(k, w)'
        BY <1>4, <1>5, <1>6, <1>7, <1>9, <2>2, <4>1 DEF InsertsOK, Recorded
      <4>3. n \in Of(k)' /\ \A i \in Of(k)' \ {n} : Recorded(i)'
        BY <1>5, <1>6, <1>10, <1>11, <1>15, <4>1 DEF Recorded
      <4>4. SingleWorks(k, w)'
        BY <2>2, <4>2, <4>3 DEF SingleWorks
      <4> QED BY <2>5, <3>1, <4>4 DEF WorkingOK
    <3>2. CASE k = Dummy
      <4>1. Listed(k, {}, {}) /\ Enough(k, 0) /\ ~persistent
        BY <1>8, <2>4, <3>2 DEF RestingOK, DummyRests
      <4>2. /\ Unrecorded(k)' = Unrecorded(k) \cup {n} /\ n \notin Unrecorded(k)
            /\ Active(k)' = Active(k) \cup {n} /\ n \notin Active(k)
        <5>1. Unrecorded(k)' = Unrecorded(k) \cup {n} /\ n \notin Unrecorded(k)
          BY <1>6, <1>7, <1>10, <1>11, <1>15 DEF Unrecorded
        <5>2. Active(k)' = Active(k) \cup {n} /\ n \notin Active(k)
          BY <1>4, <1>5, <1>10, <1>11, <1>15, <4>1 DEF Active
        <5> QED BY <5>1, <5>2
      <4>3. Enough(k, 0)'
        <5>1. IsFiniteSet(Active(k)) /\ IsFiniteSet(Unrecorded(k))
          BY ActiveFinite DEF MpiIInv
        <5>2. PICK S, A : S = Unrecorded(k) /\ A = Active(k)
          OBVIOUS
        <5>3. /\ Cardinality(S) \in Nat /\ Cardinality(A) \in Nat
              /\ Cardinality(S \cup {n}) = Cardinality(S) + 1 /\ Cardinality(A \cup {n}) = Cardinality(A) + 1
          BY <4>2, <5>1, <5>2, FS_CardinalityType, FS_AddElement
        <5>4. Cardinality(S) <= Cardinality(A)
          BY <4>1, <5>2, <5>3 DEF Enough
        <5> QED BY <4>2, <5>2, <5>3, <5>4 DEF Enough
      <4>4. Listed(k, {n}, {})'
        <5>1. ASSUME NEW i \in Of(k)'
              PROVE  completions'[i] \in {0, 1} /\ op'[i].observed = IF op'[i].state = "done" THEN 1 ELSE 0
          <6>1. CASE i = n
            BY <1>4, <1>5, <1>6, <1>7, <4>1, <6>1
          <6>2. CASE i # n
            BY <1>5, <1>6, <1>10, <1>11, <4>1, <6>2 DEF Listed
          <6> QED BY <6>1, <6>2
        <5>2. \A i \in Unrecorded(k)' \ {n} : \E r \in Range(Own(k)) : request[r].id = i
          BY <4>1, <4>2 DEF Listed
        <5>3. \A r \in Range(Own(k)) : request[r].id \in Of(k)' \ {n} /\ request[r].flags = {}
          BY <1>10, <1>11, <4>1 DEF Listed
        <5>4. /\ \A r \in Range(Own(k)) : completions[request[r].id] = 0
              /\ \A r, q \in Range(Own(k)) : request[r].id = request[q].id => r = q
          BY <4>1 DEF Listed
        <5> QED BY <1>6, <1>9, <5>1, <5>2, <5>3, <5>4 DEF Listed
      <4>5. DummyInserts(k, w)'
        BY <2>2, <4>2, <4>3, <4>4 DEF DummyInserts
      <4>6. DummyWorks(k, w)'
        BY <2>2, <4>5 DEF DummyWorks
      <4> QED BY <2>5, <3>2, <4>6 DEF WorkingOK
    <3> QED BY <3>1, <3>2
  <2> QED BY <1>1, <1>6, <1>9, <1>12, <1>13, <1>14, <2>1, <2>2, <2>3, <2>6, StepRecords
<1>16. CASE ~known
  <2>1. k = Dummy /\ ~persistent /\ \A u \in Threads : Idle(th[u])
    BY <1>1, <1>8, <1>16
  <2>2. PICK w : w = th[t]
    OBVIOUS
  <2>3. th' = [th EXCEPT ![t] = w] /\ Idle(w)
    BY <1>1, <1>16, <2>2 DEF CreateOperation, MpiIInv, MpiTyped
  <2>4. RestingOK(k)
    BY <2>1 DEF RecordsOK
  <2>5. SameOf(k)
    BY <1>5, <1>6, <1>9, <1>10, <1>11, <1>16 DEF SameOf, SameData
  <2>6. RestingOK(k)'
    BY <2>4, <2>5, SameRests
  <2> QED BY <1>1, <1>6, <1>9, <1>12, <1>13, <1>14, <2>1, <2>2, <2>3, <2>6, StepRecords
<1> QED BY <1>15, <1>16

LEMMA InitRecords == ASSUME MpiRequestsAssumption, MpiInit PROVE RecordsOK
<1> USE DEF MpiInit
<1>1. \A t \in Threads : Idle(th[t])
  BY IdleRecord
<1>2. \A i \in Ids : op[i] = NoOp /\ completions[i] = 0
  OBVIOUS
<1>3. \A k \in Keys : Of(k) = {} /\ Unrecorded(k) = {} /\ Active(k) = {}
  BY <1>2 DEF Of, Unrecorded, Active, NoOp
<1>4. \A k \in Keys : Own(k) = << >> /\ Range(Own(k)) = {}
  BY DEF Own, Range
<1>5. \A i \in Ids : OperationOK(i)
  BY <1>2 DEF OperationOK, Live, NoOp
<1>6. ASSUME NEW k \in Keys PROVE RestingOK(k)
  <2>1. SingleRests(k)
    BY <1>3, <1>4 DEF SingleRests
  <2>2. Listed(k, {}, {})
    BY <1>3, <1>4 DEF Listed
  <2>3. Enough(k, 0)
    <3>1. Cardinality({}) = 0
      BY FS_EmptySet
    <3>2. Cardinality(Unrecorded(k)) = 0 /\ Cardinality(Active(k)) = 0
      BY <1>3, <3>1
    <3> QED BY <3>2 DEF Enough
  <2> QED BY <1>4, <2>1, <2>2, <2>3 DEF RestingOK, DummyRests
<1> QED BY <1>1, <1>5, <1>6 DEF RecordsOK

LEMMA StutterRecords == ASSUME MpiRequestsAssumption, MpiIInv, RecordsOK, UNCHANGED mpiVars PROVE RecordsOK'
<1>1. /\ setup' = setup /\ request_table' = request_table /\ payload' = payload /\ request' = request
      /\ mpi_last_request_id' = mpi_last_request_id /\ th' = th /\ op' = op /\ completions' = completions
      /\ errors' = errors
  BY DEF mpiVars
<1>2. Ids' = Ids
  BY <1>1 DEF Ids
<1>3. ASSUME NEW k \in Keys PROVE SameOf(k)
  <2>1. Own(k)' = Own(k) /\ Of(k)' = Of(k)
    BY <1>1, <1>2, OwnSame DEF Of
  <2> QED BY <1>1, <2>1 DEF SameOf, SameData
<1>4. ASSUME NEW k \in Keys, \A t \in Threads : ~Idle(th'[t]) => th'[t].key # k PROVE RestingOK(k)'
  <2>1. RestingOK(k)
    BY <1>1, <1>4 DEF RecordsOK
  <2> QED BY <1>3, <2>1, SameRests
<1>5. ASSUME NEW t \in Threads, NEW k \in Keys, NEW w \in ThreadRecords, th'[t] = w, w.key = k, ~Idle(w)
      PROVE  WorkingOK(k, w)'
  <2>1. th[t] = w /\ Knows(w) /\ WorkingOK(k, w)
    BY <1>1, <1>5, AtWork
  <2>2. SamePhase(w, w)
    BY DEF SamePhase
  <2>3. \A r \in Range(Own(k)) : request'[r].marker => w.pc # "return"
    BY <1>1, <2>1 DEF WorkingOK
  <2> QED BY <1>1, <1>3, <1>5, <2>1, <2>2, <2>3, SameWorks
<1>6. \A i \in Ids : OperationOK(i)'
  BY <1>1 DEF RecordsOK, OperationOK, Live
<1>7. errors' = {}
  BY <1>1 DEF RecordsOK
<1> QED BY <1>2, <1>4, <1>5, <1>6, <1>7 DEF RecordsOK

LEMMA NextRecords ==
  ASSUME MpiRequestsAssumption, ValuesApart, NoneExcluded, MpiIInv, RecordsOK, [MpiNext]_mpiVars
  PROVE  RecordsOK'
<1>1. CASE UNCHANGED mpiVars
  BY <1>1, StutterRecords
<1>2. CASE MpiStop
  BY <1>2, StutterRecords DEF MpiStop
<1>3. ASSUME NEW t \in Threads, WrapperStep(t) PROVE RecordsOK'
  <2>1. CASE UseWait(t)
    BY <2>1, UseWaitSingle, UseWaitDummy
  <2>2. CASE ~UseWait(t)
    BY <1>3, <2>2, NeverChanged, InsertNewRecords, InsertDuplicateRecords, LookupRecords, LockRecords, ControlRecords,
       UnlockRecords, AppendRecords, GetRecords, FreeLastRecords, FreeOneRecords, ReleaseRecords, UseStartRecords,
       UseRequestFreeRecords, UseGetStatusRecords, UseNothingRecords, UnmarkRecords, ReturnRecords DEF WrapperStep
  <2> QED BY <2>1, <2>2
<1>4. ASSUME NEW t \in Threads, NEW k \in Keys, NEW persistent \in BOOLEAN, NEW known \in BOOLEAN,
             CreateOperation(t, k, persistent, known)
      PROVE  RecordsOK'
  BY <1>4, CreateRecords
<1>5. ASSUME NEW t \in Threads, NEW id \in Ids, NEW call \in WithRequest, CallWithRequest(t, id, call)
      PROVE  RecordsOK'
  BY <1>5, CallRecords
<1> QED BY <1>1, <1>2, <1>3, <1>4, <1>5 DEF MpiNext

(* When no wrapper runs, nothing that was observed is still to be recorded. *)
LEMMA RecordedWhenIdle == ASSUME MpiRequestsAssumption, MpiIInv, RecordsOK PROVE CompletionsRecorded
<1> DEFINE dummies == {i \in Ids : op[i].key = Dummy /\ op[i].known}
<1>1. errors = {}
  BY DEF RecordsOK
<1> SUFFICES ASSUME NoWrapper
             PROVE  /\ \A i \in Ids \ dummies : completions[i] = op[i].observed
                    /\ \A i \in dummies : completions[i] <= 1
                    /\ (\A i \in dummies : op[i].state = "done") =>
                         Cardinality({i \in dummies : completions[i] = 1})
                           = Cardinality({i \in dummies : op[i].observed = 1})
  BY <1>1 DEF CompletionsRecorded
<1>2. \A k \in Keys : RestingOK(k)
  BY DEF RecordsOK, NoWrapper, ThreadAt, Idle
<1>3. dummies = Of(Dummy) /\ Dummy \in Keys
  BY DEF Of, MpiRequestsAssumption
<1>4. ASSUME NEW i \in Ids \ dummies PROVE completions[i] = op[i].observed
  <2>1. CASE op[i].known
    <3>1. PICK k \in Keys : k = op[i].key
      BY DEF MpiIInv, MpiTyped, Operations
    <3>2. k # Dummy /\ i \in Of(k)
      BY <2>1, <3>1 DEF Of
    <3> QED BY <1>2, <3>2 DEF RestingOK, SingleRests, Recorded
  <2>2. CASE ~op[i].known
    BY <2>2 DEF RecordsOK, OperationOK
  <2> QED BY <2>1, <2>2
<1>5. Listed(Dummy, {}, {}) /\ Enough(Dummy, 0)
  BY <1>2, <1>3 DEF RestingOK, DummyRests
<1>6. \A i \in dummies : completions[i] \in {0, 1}
  BY <1>3, <1>5 DEF Listed
<1>7. ASSUME \A i \in dummies : op[i].state = "done"
      PROVE  {i \in dummies : completions[i] = 1} = {i \in dummies : op[i].observed = 1}
  <2>1. Active(Dummy) = {}
    BY <1>3, <1>7 DEF Active
  <2>2. IsFiniteSet(Unrecorded(Dummy))
    BY ActiveFinite DEF MpiIInv
  <2>3. Cardinality(Unrecorded(Dummy)) \in Nat /\ Cardinality({}) = 0
    BY <2>2, FS_CardinalityType, FS_EmptySet
  <2>4. Cardinality(Unrecorded(Dummy)) = 0
    BY <1>5, <2>1, <2>3 DEF Enough
  <2>5. Unrecorded(Dummy) = {}
    BY <2>2, <2>4, FS_EmptySet
  <2> QED BY <1>3, <1>5, <1>6, <1>7, <2>5 DEF Unrecorded, Listed
<1>8. (\A i \in dummies : op[i].state = "done") =>
        Cardinality({i \in dummies : completions[i] = 1}) = Cardinality({i \in dummies : op[i].observed = 1})
  BY <1>7
<1>9. \A i \in dummies : completions[i] <= 1
  BY <1>6
<1> QED BY <1>4, <1>8, <1>9

(* Whatever the order in which MPI completes operations and gives their    *)
(* values out again, and wherever the wrappers' looks into the table       *)
(* interleave, a wrapper that has returned has written each completion the *)
(* program observed, once and under the id of its operation, and has not   *)
(* missed a request: the completions of the operations with the dummy      *)
(* value may stand for each other.                                         *)
THEOREM CompletionsAreRecorded == ASSUME ValuesApart, NoneExcluded PROVE MpiSpec => []CompletionsRecorded
<1>1. MpiInit => MpiIInv /\ RecordsOK
  BY MpiRequestsAssumption, MpiInitOK, InitRecords
<1>2. MpiIInv /\ RecordsOK /\ [MpiNext]_mpiVars => (MpiIInv /\ RecordsOK)'
  BY MpiRequestsAssumption, MpiNextKeeps, NextRecords
<1>3. MpiIInv /\ RecordsOK => CompletionsRecorded
  BY MpiRequestsAssumption, RecordedWhenIdle
<1> QED BY <1>1, <1>2, <1>3, PTL DEF MpiSpec
=============================================================================
