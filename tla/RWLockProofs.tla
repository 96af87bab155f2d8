---------------------------- MODULE RWLockProofs ----------------------------
(***************************************************************************)
(* Proofs about RWLock, for every finite set of threads that is no larger  *)
(* than RWLOCK_MAX_READERS.                                                *)
(***************************************************************************)
EXTENDS RWLock, FiniteSetTheorems, TLAPS

(* Moving one thread to another place changes a count by at most one.      *)
LEMMA MoveCount ==
  ASSUME NEW f, NEW t \in Threads, NEW to, NEW S, f \in [Threads -> Location],
         NEW before, before = {u \in Threads : f[u] \in S},
         NEW after, after = {u \in Threads : [f EXCEPT ![t] = to][u] \in S}
  PROVE  /\ Cardinality(before) \in Nat
         /\ Cardinality(after) = Cardinality(before)
              + (IF to \in S THEN 1 ELSE 0) - (IF f[t] \in S THEN 1 ELSE 0)
<1>1. IsFiniteSet(before) /\ Cardinality(before) \in Nat
  BY ThreadsAssumption, FS_Subset, FS_CardinalityType
<1>2. t \in before <=> f[t] \in S
  OBVIOUS
<1>3. CASE to \in S
  <2>1. after = before \cup {t}
    BY <1>3
  <2>2. Cardinality(after) = (IF t \in before THEN Cardinality(before) ELSE Cardinality(before) + 1)
    BY <1>1, <2>1, FS_AddElement
  <2> QED BY <1>1, <1>2, <1>3, <2>2
<1>4. CASE to \notin S
  <2>1. after = before \ {t}
    BY <1>4
  <2>2. Cardinality(after) = (IF t \in before THEN Cardinality(before) - 1 ELSE Cardinality(before))
    BY <1>1, <2>1, FS_RemoveElement
  <2> QED BY <1>1, <1>2, <1>4, <2>2
<1> QED BY <1>1, <1>3, <1>4

(* The counts the invariant is about, before and after a step of thread t. *)
One(place, S) == IF place \in S THEN 1 ELSE 0

LEMMA GotoCounts ==
  ASSUME NEW t \in Threads, NEW from, NEW to,
         pc \in [Threads -> Location], Goto(t, from, to)
  PROVE  \A S : /\ Count(S) \in Nat
                /\ Count(S)' = Count(S) + One(to, S) - One(from, S)
<1> TAKE S
<1>1. pc' = [pc EXCEPT ![t] = to] /\ pc[t] = from
  BY DEF Goto
<1>2. At(S)' = {u \in Threads : [pc EXCEPT ![t] = to][u] \in S}
  BY <1>1 DEF At
<1>3. /\ Cardinality(At(S)) \in Nat
      /\ Cardinality(At(S)') = Cardinality(At(S))
           + (IF to \in S THEN 1 ELSE 0) - (IF pc[t] \in S THEN 1 ELSE 0)
  BY <1>2, MoveCount DEF At
<1> QED BY <1>1, <1>3 DEF Count, One

(* Readers are threads: with a writer about, at least one thread is not    *)
(* among them.                                                             *)
Readers == Spinning \cup {"reading", "r_depart"}
InFlight == Count(Spinning) + Count({"reading"}) + Count({"r_depart"})

LEMMA ReadersBound ==
  /\ Cardinality(Threads) \in Nat
  /\ InFlight <= Cardinality(Threads)
  /\ \A w \in Threads : pc[w] \notin Readers => InFlight < Cardinality(Threads)
<1>1. PICK spin : spin = At(Spinning)
  OBVIOUS
<1>2. PICK read : read = At({"reading"})
  OBVIOUS
<1>3. PICK dep : dep = At({"r_depart"})
  OBVIOUS
<1>4. /\ spin \cap read = {} /\ (spin \cup read) \cap dep = {}
      /\ spin \cup read \cup dep \subseteq Threads
      /\ \A w \in Threads : pc[w] \notin Readers => w \notin spin \cup read \cup dep
  BY <1>1, <1>2, <1>3 DEF At, Spinning, Readers
<1>5. IsFiniteSet(spin) /\ IsFiniteSet(read) /\ IsFiniteSet(dep) /\ IsFiniteSet(spin \cup read)
  BY <1>4, ThreadsAssumption, FS_Subset
<1>6. /\ Cardinality(spin) \in Nat /\ Cardinality(read) \in Nat /\ Cardinality(dep) \in Nat
      /\ Cardinality(Threads) \in Nat
  BY <1>5, ThreadsAssumption, FS_CardinalityType
<1>7. Cardinality(spin \cup read) = Cardinality(spin) + Cardinality(read)
  <2>1. Cardinality(spin \cup read) = Cardinality(spin) + Cardinality(read) - Cardinality(spin \cap read)
    BY <1>5, FS_Union
  <2>2. Cardinality(spin \cap read) = 0
    BY <1>4, FS_EmptySet
  <2> QED BY <1>6, <2>1, <2>2
<1>8. Cardinality(spin \cup read \cup dep) = Cardinality(spin) + Cardinality(read) + Cardinality(dep)
  <2>1. Cardinality(spin \cup read \cup dep)
          = Cardinality(spin \cup read) + Cardinality(dep) - Cardinality((spin \cup read) \cap dep)
    BY <1>5, FS_Union
  <2>2. Cardinality((spin \cup read) \cap dep) = 0
    BY <1>4, FS_EmptySet
  <2> QED BY <1>6, <1>7, <2>1, <2>2
<1>9. InFlight = Cardinality(spin \cup read \cup dep)
  BY <1>1, <1>2, <1>3, <1>8 DEF InFlight, Count
<1>10. Cardinality(spin \cup read \cup dep) <= Cardinality(Threads)
  BY <1>4, ThreadsAssumption, FS_Subset
<1>11. ASSUME NEW w \in Threads, pc[w] \notin Readers
       PROVE  InFlight < Cardinality(Threads)
  <2>1. /\ IsFiniteSet(Threads \ {w})
        /\ Cardinality(Threads \ {w}) = Cardinality(Threads) - 1
    BY ThreadsAssumption, FS_RemoveElement
  <2>2. spin \cup read \cup dep \subseteq Threads \ {w}
    BY <1>4, <1>11
  <2>3. Cardinality(spin \cup read \cup dep) <= Cardinality(Threads \ {w})
    BY <2>1, <2>2, FS_Subset
  <2> QED BY <1>6, <1>8, <1>9, <2>1, <2>3
<1> QED BY <1>6, <1>9, <1>10, <1>11

(* What GotoCounts says of the four counts the invariant mentions.         *)
LEMMA Counts ==
  ASSUME NEW t \in Threads, NEW from, NEW to, TypeOK, Goto(t, from, to)
  PROVE  /\ Count(Spinning) \in Nat /\ Count({"reading"}) \in Nat
         /\ Count({"r_depart"}) \in Nat /\ Count({"r_signal"}) \in Nat
         /\ Count(Spinning)' = Count(Spinning) + One(to, Spinning) - One(from, Spinning)
         /\ Count({"reading"})' = Count({"reading"}) + One(to, {"reading"}) - One(from, {"reading"})
         /\ Count({"r_depart"})' = Count({"r_depart"}) + One(to, {"r_depart"}) - One(from, {"r_depart"})
         /\ Count({"r_signal"})' = Count({"r_signal"}) + One(to, {"r_signal"}) - One(from, {"r_signal"})
         /\ pc' = [pc EXCEPT ![t] = to] /\ pc[t] = from
<1>1. \A S : /\ Count(S) \in Nat
             /\ Count(S)' = Count(S) + One(to, S) - One(from, S)
  BY GotoCounts DEF TypeOK
<1>2. pc' = [pc EXCEPT ![t] = to] /\ pc[t] = from
  BY DEF Goto
<1> QED BY <1>1, <1>2

(* A count is positive exactly if some thread is there.                    *)
LEMMA CountPositive ==
  ASSUME NEW S
  PROVE  /\ Count(S) \in Nat
         /\ \A t \in Threads : pc[t] \in S => Count(S) > 0
         /\ Count(S) > 0 => \E t \in Threads : pc[t] \in S
<1>1. IsFiniteSet(At(S)) /\ Cardinality(At(S)) \in Nat
  BY ThreadsAssumption, FS_Subset, FS_CardinalityType DEF At
<1>2. Cardinality(At(S)) = 0 <=> At(S) = {}
  BY <1>1, FS_EmptySet
<1> QED BY <1>1, <1>2 DEF Count, At

(* Nobody is counted initially.                                            *)
LEMMA InitIInv == Init => IInv
<1> SUFFICES ASSUME Init PROVE IInv
  OBVIOUS
<1>1. \A S : "idle" \notin S => Count(S) = 0
  <2> SUFFICES ASSUME NEW S, "idle" \notin S PROVE At(S) = {}
    BY FS_EmptySet DEF Count
  <2> QED BY DEF Init, At
<1>2. /\ Count(Spinning) = 0 /\ Count({"reading"}) = 0
      /\ Count({"r_depart"}) = 0 /\ Count({"r_signal"}) = 0
  BY <1>1 DEF Spinning
<1>3. 0 \in Int16
  BY MaxReadersAssumption DEF Int16
<1>4. "idle" \in Location
  BY DEF Location
<1>5. TypeOK
  BY <1>3, <1>4 DEF Init, TypeOK
<1> QED
  BY <1>2, <1>5 DEF Init, IInv, MutexInv, PendingInv, TicketInv, TicketsHaveTakers,
     NobodyAnnouncedInv, NobodyAnnounced, WriterInv, Announced, Holding, Spinning

(* What every step of a thread gives the proofs below: its thread is the   *)
(* only one that moves, and what that does to the counts.                  *)
LEMMA StepFacts ==
  ASSUME IInv, NEW t \in Threads, NEW from, NEW to \in Location, Goto(t, from, to)
  PROVE  /\ TypeOK /\ MutexInv /\ PendingInv /\ TicketInv /\ NobodyAnnouncedInv /\ WriterInv
         /\ pc[t] = from
         /\ pc' \in [Threads -> Location]
         /\ \A u \in Threads : pc'[u] = IF u = t THEN to ELSE pc[u]
         /\ Count(Spinning) \in Nat /\ Count({"reading"}) \in Nat
         /\ Count({"r_depart"}) \in Nat /\ Count({"r_signal"}) \in Nat
         /\ Count(Spinning)' = Count(Spinning) + One(to, Spinning) - One(from, Spinning)
         /\ Count({"reading"})' = Count({"reading"}) + One(to, {"reading"}) - One(from, {"reading"})
         /\ Count({"r_depart"})' = Count({"r_depart"}) + One(to, {"r_depart"}) - One(from, {"r_depart"})
         /\ Count({"r_signal"})' = Count({"r_signal"}) + One(to, {"r_signal"}) - One(from, {"r_signal"})
         /\ Count(Spinning) + Count({"reading"}) + Count({"r_depart"}) < RWLOCK_MAX_READERS
         /\ from \notin Readers =>
              Count(Spinning) + Count({"reading"}) + Count({"r_depart"}) + 1 < RWLOCK_MAX_READERS
<1>1. TypeOK /\ MutexInv /\ PendingInv /\ TicketInv /\ NobodyAnnouncedInv /\ WriterInv
  BY DEF IInv
<1>2. pc[t] = from /\ pc' = [pc EXCEPT ![t] = to] /\ pc \in [Threads -> Location]
  BY <1>1 DEF Goto, TypeOK
<1>3. pc' \in [Threads -> Location] /\ \A u \in Threads : pc'[u] = IF u = t THEN to ELSE pc[u]
  BY <1>2
<1>4. RWLOCK_MAX_READERS \in Nat /\ Cardinality(Threads) < RWLOCK_MAX_READERS
  BY MaxReadersAssumption
<1>5. Count(Spinning) + Count({"reading"}) + Count({"r_depart"}) <= Cardinality(Threads)
  BY ReadersBound DEF InFlight
<1>6. from \notin Readers =>
        Count(Spinning) + Count({"reading"}) + Count({"r_depart"}) < Cardinality(Threads)
  BY <1>2, ReadersBound DEF InFlight
<1>7. /\ Count(Spinning) \in Nat /\ Count({"reading"}) \in Nat
      /\ Count({"r_depart"}) \in Nat /\ Count({"r_signal"}) \in Nat
      /\ Count(Spinning)' = Count(Spinning) + One(to, Spinning) - One(from, Spinning)
      /\ Count({"reading"})' = Count({"reading"}) + One(to, {"reading"}) - One(from, {"reading"})
      /\ Count({"r_depart"})' = Count({"r_depart"}) + One(to, {"r_depart"}) - One(from, {"r_depart"})
      /\ Count({"r_signal"})' = Count({"r_signal"}) + One(to, {"r_signal"}) - One(from, {"r_signal"})
  BY <1>1, Counts
<1>8. Cardinality(Threads) \in Nat
  BY ReadersBound
<1> QED BY <1>1, <1>2, <1>3, <1>4, <1>5, <1>6, <1>7, <1>8

(* An arriving reader sees a negative `pending' exactly if a writer is     *)
(* announced, and then spins: the readers to depart stay the same.         *)
LEMMA ReaderArriveIInv ==
  ASSUME IInv, NEW t \in Threads, ReaderArrive(t) PROVE IInv'
<1> DEFINE to == IF pending' < 0 THEN "r_poll" ELSE "reading"
<1>0. Goto(t, "idle", to) /\ to \in Location
  BY DEF ReaderArrive, Branch, Location
<1>1. /\ TypeOK /\ MutexInv /\ PendingInv /\ TicketInv /\ NobodyAnnouncedInv /\ WriterInv
      /\ pc[t] = "idle" /\ pc' \in [Threads -> Location]
      /\ \A u \in Threads : pc'[u] = IF u = t THEN to ELSE pc[u]
  BY <1>0, StepFacts
<1>2. /\ Count(Spinning) \in Nat /\ Count({"reading"}) \in Nat
      /\ Count({"r_depart"}) \in Nat /\ Count({"r_signal"}) \in Nat
      /\ pending' < 0 => Count(Spinning)' = Count(Spinning) + 1 /\ Count({"reading"})' = Count({"reading"})
      /\ ~(pending' < 0) => Count(Spinning)' = Count(Spinning) /\ Count({"reading"})' = Count({"reading"}) + 1
      /\ Count({"r_depart"})' = Count({"r_depart"}) /\ Count({"r_signal"})' = Count({"r_signal"})
      /\ Count(Spinning) + Count({"reading"}) + Count({"r_depart"}) + 1 < RWLOCK_MAX_READERS
  BY <1>0, StepFacts DEF One, Spinning, Readers
<1>3. /\ pending' = pending + 1
      /\ UNCHANGED <<departing, release_n_readers, release_writer, writer_mutex, local>>
  BY DEF ReaderArrive
<1>4. NobodyAnnounced' <=> NobodyAnnounced
  BY <1>1 DEF NobodyAnnounced, Announced
<1>5. /\ pending \in Int /\ departing \in Int /\ release_n_readers \in Int /\ release_writer \in Int
      /\ local \in [Threads -> Int] /\ RWLOCK_MAX_READERS \in Nat
  BY <1>1, MaxReadersAssumption DEF TypeOK, Int16
<1>6. ~NobodyAnnounced => pending' < 0
  <2>1. ~NobodyAnnounced => pending = Count(Spinning) + Count({"reading"}) - RWLOCK_MAX_READERS
    BY <1>1 DEF PendingInv
  <2> QED BY <1>2, <1>3, <1>5, <2>1
<1>7. /\ pending <= Count(Spinning) + Count({"reading"})
      /\ pending >= Count(Spinning) + Count({"reading"}) - RWLOCK_MAX_READERS
  BY <1>1, <1>2, <1>5 DEF PendingInv
<1>8. TypeOK'
  <2>1. pending' \in Int16
    BY <1>2, <1>3, <1>5, <1>7 DEF Int16
  <2> QED BY <1>1, <1>3, <2>1 DEF TypeOK
<1>9. MutexInv'
  BY <1>1, <1>3 DEF MutexInv, Holding, Announced
<1>10. PendingInv'
  BY <1>1, <1>2, <1>3, <1>4, <1>5 DEF PendingInv
<1>11. TicketInv'
  <2>1. TicketsHaveTakers'
    BY <1>1, <1>2, <1>3, <1>5 DEF TicketInv, TicketsHaveTakers, Spinning
  <2> QED BY <1>1, <1>2, <1>3, <2>1 DEF TicketInv
<1>12. NobodyAnnouncedInv'
  BY <1>1, <1>2, <1>3, <1>4 DEF NobodyAnnouncedInv, PendingInv
<1>13. WriterInv'
  <2>2. ~NobodyAnnounced => ToDepart' = ToDepart
    BY <1>2, <1>3, <1>5, <1>6 DEF ToDepart
  <2>3. ASSUME NEW u \in Threads, u = t PROVE WriterInv!(u)'
    BY <1>1, <2>3
  <2>4. ASSUME NEW u \in Threads, u # t PROVE WriterInv!(u)'
    <3>1. pc'[u] = pc[u] /\ WriterInv!(u)
      BY <1>1, <2>4 DEF WriterInv
    <3>2. CASE pc[u] \in Announced
      <4>1. ToDepart' = ToDepart
        BY <2>2, <3>2 DEF NobodyAnnounced
      <4> QED BY <1>2, <1>3, <3>1, <3>2, <4>1 DEF Announced
    <3>3. CASE pc[u] = "w_release"
      <4>1. NobodyAnnounced
        BY <1>1, <3>3 DEF MutexInv, Holding, Announced, NobodyAnnounced
      <4>2. ~(pending' < 0)
        BY <1>1, <1>2, <1>3, <1>5, <4>1 DEF PendingInv
      <4> QED BY <1>2, <1>3, <3>1, <3>3, <4>2
    <3>4. CASE pc[u] \notin Announced \cup {"w_release"}
      BY <3>1, <3>4 DEF Announced
    <3> QED BY <3>2, <3>3, <3>4
  <2> QED BY <2>3, <2>4 DEF WriterInv
<1> QED BY <1>8, <1>9, <1>10, <1>11, <1>12, <1>13 DEF IInv
(* A spinning reader that saw a ticket has seen a positive number of them. *)
LEMMA ReaderPollIInv ==
  ASSUME IInv, NEW t \in Threads, ReaderPoll(t) PROVE IInv'
<1> DEFINE to == IF release_n_readers = 0 THEN "r_poll" ELSE "r_cas"
<1>0. Goto(t, "r_poll", to) /\ to \in Location
  BY DEF ReaderPoll, Branch, Location
<1>1. /\ TypeOK /\ MutexInv /\ PendingInv /\ TicketInv /\ NobodyAnnouncedInv /\ WriterInv
      /\ pc[t] = "r_poll" /\ pc' \in [Threads -> Location]
      /\ \A u \in Threads : pc'[u] = IF u = t THEN to ELSE pc[u]
  BY <1>0, StepFacts
<1>2. /\ Count(Spinning) \in Nat /\ Count({"reading"}) \in Nat
      /\ Count({"r_depart"}) \in Nat /\ Count({"r_signal"}) \in Nat
      /\ Count(Spinning)' = Count(Spinning)
      /\ Count({"reading"})' = Count({"reading"})
      /\ Count({"r_depart"})' = Count({"r_depart"})
      /\ Count({"r_signal"})' = Count({"r_signal"})
      /\ Count(Spinning) + Count({"reading"}) + Count({"r_depart"}) < RWLOCK_MAX_READERS
  BY <1>0, StepFacts DEF One, Spinning, Readers
<1>3. /\ local' = [local EXCEPT ![t] = release_n_readers]
      /\ UNCHANGED <<pending, departing, release_n_readers, release_writer, writer_mutex>>
  BY <1>1 DEF ReaderPoll, shared, Keep, TypeOK, Branch
<1>4. NobodyAnnounced' <=> NobodyAnnounced
  BY <1>1 DEF NobodyAnnounced, Announced
<1>5. /\ pending \in Int /\ departing \in Int /\ release_n_readers \in Int /\ release_writer \in {0, 1}
      /\ local \in [Threads -> Int16] /\ local[t] \in Int /\ RWLOCK_MAX_READERS \in Nat
  BY <1>1, MaxReadersAssumption DEF TypeOK, Int16
<1>8. TypeOK'
  BY <1>1, <1>3 DEF TypeOK
<1>9. MutexInv'
  BY <1>1, <1>3 DEF MutexInv, Holding, Announced
<1>10. PendingInv'
  BY <1>1, <1>2, <1>3, <1>4, <1>5 DEF PendingInv
<1>11. TicketInv'
  <2>1. TicketsHaveTakers'
    BY <1>1, <1>2, <1>3, <1>5 DEF TicketInv, TicketsHaveTakers, Spinning
  <2>2. local'[t] = release_n_readers /\ (release_n_readers = 0 \/ release_n_readers > 0)
    BY <1>1, <1>3, <1>5 DEF TicketInv, TicketsHaveTakers
  <2> QED BY <1>1, <1>3, <2>1, <2>2 DEF TicketInv
<1>12. NobodyAnnouncedInv'
  BY <1>1, <1>2, <1>3, <1>4 DEF NobodyAnnouncedInv, PendingInv
<1>13. WriterInv'
  <2>1. ASSUME NEW u \in Threads, u # t PROVE WriterInv!(u)'
    BY <1>1, <1>2, <1>3, <2>1 DEF WriterInv, ToDepart
  <2> QED BY <1>1, <1>2, <1>3, <2>1 DEF WriterInv, ToDepart
<1> QED BY <1>8, <1>9, <1>10, <1>11, <1>12, <1>13 DEF IInv

(* A reader with a ticket counts among those that must depart, as its      *)
(* ticket did.                                                             *)
LEMMA ReaderTakeTicketIInv ==
  ASSUME IInv, NEW t \in Threads, ReaderTakeTicket(t) PROVE IInv'
<1>0. Goto(t, "r_cas", "reading") /\ "reading" \in Location
  BY DEF ReaderTakeTicket, Location
<1>1. /\ TypeOK /\ MutexInv /\ PendingInv /\ TicketInv /\ NobodyAnnouncedInv /\ WriterInv
      /\ pc[t] = "r_cas" /\ pc' \in [Threads -> Location]
      /\ \A u \in Threads : pc'[u] = IF u = t THEN "reading" ELSE pc[u]
  BY <1>0, StepFacts
<1>2. /\ Count(Spinning) \in Nat /\ Count({"reading"}) \in Nat
      /\ Count({"r_depart"}) \in Nat /\ Count({"r_signal"}) \in Nat
      /\ Count(Spinning)' = Count(Spinning) - 1
      /\ Count({"reading"})' = Count({"reading"}) + 1
      /\ Count({"r_depart"})' = Count({"r_depart"})
      /\ Count({"r_signal"})' = Count({"r_signal"})
      /\ Count(Spinning) + Count({"reading"}) + Count({"r_depart"}) < RWLOCK_MAX_READERS
  BY <1>0, StepFacts DEF One, Spinning, Readers
<1>3. /\ release_n_readers = local[t]
      /\ release_n_readers' = local[t] - 1
      /\ UNCHANGED <<pending, departing, release_writer, writer_mutex, local>>
  BY <1>1 DEF ReaderTakeTicket, shared, Keep, TypeOK
<1>4. NobodyAnnounced' <=> NobodyAnnounced
  BY <1>1 DEF NobodyAnnounced, Announced
<1>5. /\ pending \in Int /\ departing \in Int /\ release_n_readers \in Int /\ release_writer \in {0, 1}
      /\ local \in [Threads -> Int16] /\ local[t] \in Int /\ RWLOCK_MAX_READERS \in Nat
  BY <1>1, MaxReadersAssumption DEF TypeOK, Int16
<1>6. release_n_readers > 0
  BY <1>1, <1>3 DEF TicketInv
<1>7. ToDepart' = ToDepart /\ ToDepart # 0 /\ release_n_readers # 0
  BY <1>2, <1>3, <1>5, <1>6 DEF ToDepart
<1>8. TypeOK'
  <2>1. release_n_readers' \in Int16
    BY <1>1, <1>3, <1>5, <1>6 DEF TypeOK, Int16
  <2> QED BY <1>1, <1>3, <2>1 DEF TypeOK
<1>9. MutexInv'
  BY <1>1, <1>3 DEF MutexInv, Holding, Announced
<1>10. PendingInv'
  BY <1>1, <1>2, <1>3, <1>4, <1>5 DEF PendingInv
<1>11. TicketInv'
  <2>1. TicketsHaveTakers'
    BY <1>1, <1>2, <1>3, <1>5 DEF TicketInv, TicketsHaveTakers, Spinning
  <2> QED BY <1>1, <1>2, <1>3, <2>1 DEF TicketInv
<1>12. NobodyAnnouncedInv'
  BY <1>1, <1>2, <1>3, <1>4 DEF NobodyAnnouncedInv, PendingInv
<1>13. WriterInv'
  <2>1. ASSUME NEW u \in Threads, u # t PROVE WriterInv!(u)'
    <3>1. pc'[u] = pc[u] /\ WriterInv!(u)
      BY <1>1, <2>1 DEF WriterInv
    <3> QED BY <1>2, <1>3, <1>7, <3>1
  <2> QED BY <1>1, <2>1 DEF WriterInv
<1> QED BY <1>8, <1>9, <1>10, <1>11, <1>12, <1>13 DEF IInv

(* A failed exchange changes nothing that is counted.                      *)
LEMMA ReaderCasFailsIInv ==
  ASSUME IInv, NEW t \in Threads, ReaderCasFails(t) PROVE IInv'
<1>0. Goto(t, "r_cas", "r_poll") /\ "r_poll" \in Location
  BY DEF ReaderCasFails, Location
<1>1. /\ TypeOK /\ MutexInv /\ PendingInv /\ TicketInv /\ NobodyAnnouncedInv /\ WriterInv
      /\ pc[t] = "r_cas" /\ pc' \in [Threads -> Location]
      /\ \A u \in Threads : pc'[u] = IF u = t THEN "r_poll" ELSE pc[u]
  BY <1>0, StepFacts
<1>2. /\ Count(Spinning) \in Nat /\ Count({"reading"}) \in Nat
      /\ Count({"r_depart"}) \in Nat /\ Count({"r_signal"}) \in Nat
      /\ Count(Spinning)' = Count(Spinning)
      /\ Count({"reading"})' = Count({"reading"})
      /\ Count({"r_depart"})' = Count({"r_depart"})
      /\ Count({"r_signal"})' = Count({"r_signal"})
      /\ Count(Spinning) + Count({"reading"}) + Count({"r_depart"}) < RWLOCK_MAX_READERS
  BY <1>0, StepFacts DEF One, Spinning, Readers
<1>3. /\ UNCHANGED <<pending, departing, release_n_readers, release_writer, writer_mutex, local>>
  BY <1>1 DEF ReaderCasFails, shared, Keep, TypeOK
<1>4. NobodyAnnounced' <=> NobodyAnnounced
  BY <1>1 DEF NobodyAnnounced, Announced
<1>5. /\ pending \in Int /\ departing \in Int /\ release_n_readers \in Int /\ release_writer \in {0, 1}
      /\ local \in [Threads -> Int16] /\ local[t] \in Int /\ RWLOCK_MAX_READERS \in Nat
  BY <1>1, MaxReadersAssumption DEF TypeOK, Int16
<1>8. TypeOK'
  BY <1>1, <1>3 DEF TypeOK
<1>9. MutexInv'
  BY <1>1, <1>3 DEF MutexInv, Holding, Announced
<1>10. PendingInv'
  BY <1>1, <1>2, <1>3, <1>4, <1>5 DEF PendingInv
<1>11. TicketInv'
  <2>1. TicketsHaveTakers'
    BY <1>1, <1>2, <1>3, <1>5 DEF TicketInv, TicketsHaveTakers, Spinning
  <2> QED BY <1>1, <1>2, <1>3, <2>1 DEF TicketInv
<1>12. NobodyAnnouncedInv'
  BY <1>1, <1>2, <1>3, <1>4 DEF NobodyAnnouncedInv, PendingInv
<1>13. WriterInv'
  <2>1. ASSUME NEW u \in Threads, u # t PROVE WriterInv!(u)'
    BY <1>1, <1>2, <1>3, <2>1 DEF WriterInv, ToDepart
  <2> QED BY <1>1, <1>2, <1>3, <2>1 DEF WriterInv, ToDepart
<1> QED BY <1>8, <1>9, <1>10, <1>11, <1>12, <1>13 DEF IInv

(* A leaving reader sees a negative `pending' exactly if a writer is       *)
(* announced, and then still counts as departing.                          *)
LEMMA ReaderLeaveIInv ==
  ASSUME IInv, NEW t \in Threads, ReaderLeave(t) PROVE IInv'
<1> DEFINE to == IF pending' < 0 THEN "r_depart" ELSE "idle"
<1>0. Goto(t, "reading", to) /\ to \in Location
  BY DEF ReaderLeave, Branch, Location
<1>1. /\ TypeOK /\ MutexInv /\ PendingInv /\ TicketInv /\ NobodyAnnouncedInv /\ WriterInv
      /\ pc[t] = "reading" /\ pc' \in [Threads -> Location]
      /\ \A u \in Threads : pc'[u] = IF u = t THEN to ELSE pc[u]
  BY <1>0, StepFacts
<1>2. /\ Count(Spinning) \in Nat /\ Count({"reading"}) \in Nat
      /\ Count({"r_depart"}) \in Nat /\ Count({"r_signal"}) \in Nat
      /\ Count(Spinning)' = Count(Spinning)
      /\ Count({"reading"})' = Count({"reading"}) - 1
      /\ pending' < 0 => Count({"r_depart"})' = Count({"r_depart"}) + 1
      /\ ~(pending' < 0) => Count({"r_depart"})' = Count({"r_depart"})
      /\ Count({"r_signal"})' = Count({"r_signal"})
      /\ Count(Spinning) + Count({"reading"}) + Count({"r_depart"}) < RWLOCK_MAX_READERS
  BY <1>0, StepFacts DEF One, Spinning, Readers
<1>3. /\ pending' = pending - 1
      /\ UNCHANGED <<departing, release_n_readers, release_writer, writer_mutex, local>>
  BY <1>1 DEF ReaderLeave, shared, Keep, TypeOK, Branch
<1>4. NobodyAnnounced' <=> NobodyAnnounced
  BY <1>1 DEF NobodyAnnounced, Announced
<1>5. /\ pending \in Int /\ departing \in Int /\ release_n_readers \in Int /\ release_writer \in {0, 1}
      /\ local \in [Threads -> Int16] /\ local[t] \in Int /\ RWLOCK_MAX_READERS \in Nat
  BY <1>1, MaxReadersAssumption DEF TypeOK, Int16
<1>6. Count({"reading"}) > 0
  BY <1>1, CountPositive
<1>7. NobodyAnnounced <=> ~(pending' < 0)
  <2>1. CASE NobodyAnnounced
    BY <1>1, <1>2, <1>3, <1>6, <2>1 DEF PendingInv
  <2>2. CASE ~NobodyAnnounced
    BY <1>1, <1>2, <1>3, <1>5, <2>2 DEF PendingInv
  <2> QED BY <2>1, <2>2
<1>8. TypeOK'
  <2>1. pending <= Count(Spinning) + Count({"reading"})
        /\ pending >= Count(Spinning) + Count({"reading"}) - RWLOCK_MAX_READERS
    BY <1>1, <1>2, <1>5 DEF PendingInv
  <2>2. pending' \in Int16
    BY <1>2, <1>3, <1>5, <2>1 DEF Int16
  <2> QED BY <1>1, <1>3, <2>2 DEF TypeOK
<1>9. MutexInv'
  BY <1>1, <1>3 DEF MutexInv, Holding, Announced
<1>10. PendingInv'
  BY <1>1, <1>2, <1>3, <1>4, <1>5 DEF PendingInv
<1>11. TicketInv'
  <2>1. TicketsHaveTakers'
    BY <1>1, <1>2, <1>3, <1>5 DEF TicketInv, TicketsHaveTakers, Spinning
  <2> QED BY <1>1, <1>2, <1>3, <2>1 DEF TicketInv
<1>12. NobodyAnnouncedInv'
  BY <1>1, <1>2, <1>3, <1>4, <1>7 DEF NobodyAnnouncedInv
<1>13. WriterInv'
  <2>1. ASSUME NEW u \in Threads, u # t PROVE WriterInv!(u)'
    <3>1. pc'[u] = pc[u] /\ WriterInv!(u)
      BY <1>1, <2>1 DEF WriterInv
    <3>2. CASE pc[u] \in Announced
      <4>1. ToDepart' = ToDepart
        BY <1>2, <1>3, <1>5, <1>7, <3>2 DEF ToDepart, NobodyAnnounced
      <4> QED BY <1>2, <1>3, <3>1, <3>2, <4>1 DEF Announced
    <3>3. CASE pc[u] \notin Announced
      BY <1>2, <1>3, <3>1, <3>3 DEF Announced
    <3> QED BY <3>2, <3>3
  <2> QED BY <1>1, <2>1 DEF WriterInv
<1> QED BY <1>8, <1>9, <1>10, <1>11, <1>12, <1>13 DEF IInv

(* Only with an announced writer is there a reader to depart, and only the *)
(* last one has to signal.                                                 *)
LEMMA ReaderDepartIInv ==
  ASSUME IInv, NEW t \in Threads, ReaderDepart(t) PROVE IInv'
<1> DEFINE to == IF departing' = 0 THEN "r_signal" ELSE "idle"
<1>0. Goto(t, "r_depart", to) /\ to \in Location
  BY DEF ReaderDepart, Branch, Location
<1>1. /\ TypeOK /\ MutexInv /\ PendingInv /\ TicketInv /\ NobodyAnnouncedInv /\ WriterInv
      /\ pc[t] = "r_depart" /\ pc' \in [Threads -> Location]
      /\ \A u \in Threads : pc'[u] = IF u = t THEN to ELSE pc[u]
  BY <1>0, StepFacts
<1>2. /\ Count(Spinning) \in Nat /\ Count({"reading"}) \in Nat
      /\ Count({"r_depart"}) \in Nat /\ Count({"r_signal"}) \in Nat
      /\ Count(Spinning)' = Count(Spinning)
      /\ Count({"reading"})' = Count({"reading"})
      /\ Count({"r_depart"})' = Count({"r_depart"}) - 1
      /\ departing' = 0 => Count({"r_signal"})' = Count({"r_signal"}) + 1
      /\ ~(departing' = 0) => Count({"r_signal"})' = Count({"r_signal"})
      /\ Count(Spinning) + Count({"reading"}) + Count({"r_depart"}) < RWLOCK_MAX_READERS
  BY <1>0, StepFacts DEF One, Spinning, Readers
<1>3. /\ departing' = departing - 1
      /\ UNCHANGED <<pending, release_n_readers, release_writer, writer_mutex, local>>
  BY <1>1 DEF ReaderDepart, shared, Keep, TypeOK, Branch
<1>4. NobodyAnnounced' <=> NobodyAnnounced
  BY <1>1 DEF NobodyAnnounced, Announced
<1>5. /\ pending \in Int /\ departing \in Int /\ release_n_readers \in Int /\ release_writer \in {0, 1}
      /\ local \in [Threads -> Int16] /\ local[t] \in Int /\ RWLOCK_MAX_READERS \in Nat
  BY <1>1, MaxReadersAssumption DEF TypeOK, Int16
<1>6. PICK w \in Threads : pc[w] \in {"w_register", "w_poll"}
  <2>1. Count({"r_depart"}) > 0
    BY <1>1, CountPositive
  <2>2. PICK w \in Threads : pc[w] \in Announced
    BY <1>1, <2>1 DEF NobodyAnnouncedInv, NobodyAnnounced
  <2>3. release_n_readers >= 0 /\ ToDepart > 0
    BY <1>1, <1>2, <1>5, <2>1 DEF TicketInv, TicketsHaveTakers, ToDepart
  <2>4. WriterInv!(w)
    BY <1>1 DEF WriterInv
  <2> QED BY <1>2, <1>5, <2>2, <2>3, <2>4 DEF Announced
<1>7. /\ ToDepart \in Int /\ ToDepart > 0 /\ ToDepart' = ToDepart - 1
      /\ \A u \in Threads : u # w => pc[u] \notin Announced \cup {"w_release"}
      /\ ~NobodyAnnounced /\ WriterInv!(w) /\ w # t /\ pc'[w] = pc[w] /\ local[w] \in Int16
  <2>1. Count({"r_depart"}) > 0
    BY <1>1, CountPositive
  <2>2. release_n_readers >= 0
    BY <1>1 DEF TicketInv, TicketsHaveTakers
  <2>3. ToDepart \in Int /\ ToDepart > 0 /\ ToDepart' = ToDepart - 1
    BY <1>2, <1>3, <1>5, <2>1, <2>2 DEF ToDepart
  <2> QED BY <1>1, <1>5, <1>6, <2>3 DEF MutexInv, Holding, Announced, NobodyAnnounced, WriterInv
<1>8. TypeOK'
  <2>1. departing' \in Int16
    BY <1>1, <1>3, <1>5, <1>6, <1>7 DEF Int16, TypeOK
  <2> QED BY <1>1, <1>3, <2>1 DEF TypeOK
<1>9. MutexInv'
  BY <1>1, <1>3 DEF MutexInv, Holding, Announced
<1>10. PendingInv'
  BY <1>1, <1>2, <1>3, <1>4, <1>5 DEF PendingInv
<1>11. TicketInv'
  <2>1. TicketsHaveTakers'
    BY <1>1, <1>2, <1>3, <1>5 DEF TicketInv, TicketsHaveTakers, Spinning
  <2> QED BY <1>1, <1>2, <1>3, <2>1 DEF TicketInv
<1>12. NobodyAnnouncedInv'
  BY <1>4, <1>7 DEF NobodyAnnouncedInv
<1>13. WriterInv'
  <2>1. ASSUME pc[w] = "w_register" PROVE WriterInv!(w)'
    <3>1. local[w] + departing = ToDepart /\ departing <= 0 /\ Count({"r_signal"}) = 0 /\ release_writer = 0
      BY <1>7, <2>1
    <3>2. departing' < 0 /\ local[w] \in Int
      BY <1>3, <1>5, <1>7, <3>1 DEF Int16
    <3> QED BY <1>2, <1>3, <1>5, <1>7, <2>1, <3>1, <3>2
  <2>3. ASSUME pc[w] = "w_poll" PROVE WriterInv!(w)'
    <3>1. departing = ToDepart /\ Count({"r_signal"}) = 0 /\ release_writer = 0
      BY <1>2, <1>5, <1>7, <2>3
    <3> QED BY <1>2, <1>3, <1>5, <1>7, <2>3, <3>1
  <2>2. ASSUME NEW u \in Threads, u # w PROVE WriterInv!(u)'
    BY <1>1, <1>7, <2>2 DEF Announced
  <2>4. WriterInv!(w)'
    BY <1>6, <2>1, <2>3
  <2> QED BY <2>2, <2>4 DEF WriterInv
<1> QED BY <1>8, <1>9, <1>10, <1>11, <1>12, <1>13 DEF IInv

(* The signal is raised for the one writer that waits for it.              *)
LEMMA ReaderSignalIInv ==
  ASSUME IInv, NEW t \in Threads, ReaderSignal(t) PROVE IInv'
<1>0. Goto(t, "r_signal", "idle") /\ "idle" \in Location
  BY DEF ReaderSignal, Location
<1>1. /\ TypeOK /\ MutexInv /\ PendingInv /\ TicketInv /\ NobodyAnnouncedInv /\ WriterInv
      /\ pc[t] = "r_signal" /\ pc' \in [Threads -> Location]
      /\ \A u \in Threads : pc'[u] = IF u = t THEN "idle" ELSE pc[u]
  BY <1>0, StepFacts
<1>2. /\ Count(Spinning) \in Nat /\ Count({"reading"}) \in Nat
      /\ Count({"r_depart"}) \in Nat /\ Count({"r_signal"}) \in Nat
      /\ Count(Spinning)' = Count(Spinning)
      /\ Count({"reading"})' = Count({"reading"})
      /\ Count({"r_depart"})' = Count({"r_depart"})
      /\ Count({"r_signal"})' = Count({"r_signal"}) - 1
      /\ Count(Spinning) + Count({"reading"}) + Count({"r_depart"}) + 1 < RWLOCK_MAX_READERS
  BY <1>0, StepFacts DEF One, Spinning, Readers
<1>3. /\ release_writer' = 1
      /\ UNCHANGED <<pending, departing, release_n_readers, writer_mutex, local>>
  BY <1>1 DEF ReaderSignal, shared, Keep, TypeOK
<1>4. NobodyAnnounced' <=> NobodyAnnounced
  BY <1>1 DEF NobodyAnnounced, Announced
<1>5. /\ pending \in Int /\ departing \in Int /\ release_n_readers \in Int /\ release_writer \in {0, 1}
      /\ local \in [Threads -> Int16] /\ local[t] \in Int /\ RWLOCK_MAX_READERS \in Nat
  BY <1>1, MaxReadersAssumption DEF TypeOK, Int16
<1>6. Count({"r_signal"}) > 0 /\ ~NobodyAnnounced
  BY <1>1, CountPositive DEF NobodyAnnouncedInv
<1>7. ToDepart' = ToDepart
  BY <1>2, <1>3 DEF ToDepart
<1>8. TypeOK'
  BY <1>1, <1>3 DEF TypeOK
<1>9. MutexInv'
  BY <1>1, <1>3 DEF MutexInv, Holding, Announced
<1>10. PendingInv'
  BY <1>1, <1>2, <1>3, <1>4, <1>5 DEF PendingInv
<1>11. TicketInv'
  <2>1. TicketsHaveTakers'
    BY <1>1, <1>2, <1>3, <1>5 DEF TicketInv, TicketsHaveTakers, Spinning
  <2> QED BY <1>1, <1>2, <1>3, <2>1 DEF TicketInv
<1>12. NobodyAnnouncedInv'
  BY <1>4, <1>6 DEF NobodyAnnouncedInv
<1>13. WriterInv'
  <2>1. ASSUME NEW u \in Threads, u # t PROVE WriterInv!(u)'
    <3>1. pc'[u] = pc[u] /\ WriterInv!(u)
      BY <1>1, <2>1 DEF WriterInv
    <3>2. CASE pc[u] \in Announced
      <4>1. pc[u] = "w_poll" /\ Count({"r_signal"}) = 1 /\ departing = 0
        BY <1>2, <1>5, <1>6, <3>1, <3>2 DEF Announced
      <4> QED BY <1>2, <1>3, <1>7, <3>1, <4>1
    <3>3. CASE pc[u] \notin Announced
      BY <1>2, <1>3, <3>1, <3>3 DEF Announced
    <3> QED BY <3>2, <3>3
  <2> QED BY <1>1, <2>1 DEF WriterInv
<1> QED BY <1>8, <1>9, <1>10, <1>11, <1>12, <1>13 DEF IInv

(* Waiting for the mutex is not counted.                                   *)
LEMMA WriterArriveIInv ==
  ASSUME IInv, NEW t \in Threads, WriterArrive(t) PROVE IInv'
<1>0. Goto(t, "idle", "w_mutex") /\ "w_mutex" \in Location
  BY DEF WriterArrive, Location
<1>1. /\ TypeOK /\ MutexInv /\ PendingInv /\ TicketInv /\ NobodyAnnouncedInv /\ WriterInv
      /\ pc[t] = "idle" /\ pc' \in [Threads -> Location]
      /\ \A u \in Threads : pc'[u] = IF u = t THEN "w_mutex" ELSE pc[u]
  BY <1>0, StepFacts
<1>2. /\ Count(Spinning) \in Nat /\ Count({"reading"}) \in Nat
      /\ Count({"r_depart"}) \in Nat /\ Count({"r_signal"}) \in Nat
      /\ Count(Spinning)' = Count(Spinning)
      /\ Count({"reading"})' = Count({"reading"})
      /\ Count({"r_depart"})' = Count({"r_depart"})
      /\ Count({"r_signal"})' = Count({"r_signal"})
      /\ Count(Spinning) + Count({"reading"}) + Count({"r_depart"}) + 1 < RWLOCK_MAX_READERS
  BY <1>0, StepFacts DEF One, Spinning, Readers
<1>3. /\ UNCHANGED <<pending, departing, release_n_readers, release_writer, writer_mutex, local>>
  BY <1>1 DEF WriterArrive, shared, Keep, TypeOK
<1>4. NobodyAnnounced' <=> NobodyAnnounced
  BY <1>1 DEF NobodyAnnounced, Announced
<1>5. /\ pending \in Int /\ departing \in Int /\ release_n_readers \in Int /\ release_writer \in {0, 1}
      /\ local \in [Threads -> Int16] /\ local[t] \in Int /\ RWLOCK_MAX_READERS \in Nat
  BY <1>1, MaxReadersAssumption DEF TypeOK, Int16
<1>8. TypeOK'
  BY <1>1, <1>3 DEF TypeOK
<1>9. MutexInv'
  BY <1>1, <1>3 DEF MutexInv, Holding, Announced
<1>10. PendingInv'
  BY <1>1, <1>2, <1>3, <1>4, <1>5 DEF PendingInv
<1>11. TicketInv'
  <2>1. TicketsHaveTakers'
    BY <1>1, <1>2, <1>3, <1>5 DEF TicketInv, TicketsHaveTakers, Spinning
  <2> QED BY <1>1, <1>2, <1>3, <2>1 DEF TicketInv
<1>12. NobodyAnnouncedInv'
  BY <1>1, <1>2, <1>3, <1>4 DEF NobodyAnnouncedInv, PendingInv
<1>13. WriterInv'
  <2>1. ASSUME NEW u \in Threads, u # t PROVE WriterInv!(u)'
    BY <1>1, <1>2, <1>3, <2>1 DEF WriterInv, ToDepart
  <2> QED BY <1>1, <1>2, <1>3, <2>1 DEF WriterInv, ToDepart
<1> QED BY <1>8, <1>9, <1>10, <1>11, <1>12, <1>13 DEF IInv

(* The mutex lets one writer at a time on.                                 *)
LEMMA WriterMutexLockIInv ==
  ASSUME IInv, NEW t \in Threads, WriterMutexLock(t) PROVE IInv'
<1>0. Goto(t, "w_mutex", "w_announce") /\ "w_announce" \in Location
  BY DEF WriterMutexLock, Location
<1>1. /\ TypeOK /\ MutexInv /\ PendingInv /\ TicketInv /\ NobodyAnnouncedInv /\ WriterInv
      /\ pc[t] = "w_mutex" /\ pc' \in [Threads -> Location]
      /\ \A u \in Threads : pc'[u] = IF u = t THEN "w_announce" ELSE pc[u]
  BY <1>0, StepFacts
<1>2. /\ Count(Spinning) \in Nat /\ Count({"reading"}) \in Nat
      /\ Count({"r_depart"}) \in Nat /\ Count({"r_signal"}) \in Nat
      /\ Count(Spinning)' = Count(Spinning)
      /\ Count({"reading"})' = Count({"reading"})
      /\ Count({"r_depart"})' = Count({"r_depart"})
      /\ Count({"r_signal"})' = Count({"r_signal"})
      /\ Count(Spinning) + Count({"reading"}) + Count({"r_depart"}) + 1 < RWLOCK_MAX_READERS
  BY <1>0, StepFacts DEF One, Spinning, Readers
<1>3. /\ ~writer_mutex
      /\ writer_mutex'
      /\ UNCHANGED <<pending, departing, release_n_readers, release_writer, local>>
  BY <1>1 DEF WriterMutexLock, shared, Keep, TypeOK
<1>4. NobodyAnnounced' <=> NobodyAnnounced
  BY <1>1 DEF NobodyAnnounced, Announced
<1>5. /\ pending \in Int /\ departing \in Int /\ release_n_readers \in Int /\ release_writer \in {0, 1}
      /\ local \in [Threads -> Int16] /\ local[t] \in Int /\ RWLOCK_MAX_READERS \in Nat
  BY <1>1, MaxReadersAssumption DEF TypeOK, Int16
<1>8. TypeOK'
  BY <1>1, <1>3 DEF TypeOK
<1>9. MutexInv'
  BY <1>1, <1>3 DEF MutexInv, Holding, Announced
<1>10. PendingInv'
  BY <1>1, <1>2, <1>3, <1>4, <1>5 DEF PendingInv
<1>11. TicketInv'
  <2>1. TicketsHaveTakers'
    BY <1>1, <1>2, <1>3, <1>5 DEF TicketInv, TicketsHaveTakers, Spinning
  <2> QED BY <1>1, <1>2, <1>3, <2>1 DEF TicketInv
<1>12. NobodyAnnouncedInv'
  BY <1>1, <1>2, <1>3, <1>4 DEF NobodyAnnouncedInv, PendingInv
<1>13. WriterInv'
  <2>1. ASSUME NEW u \in Threads, u # t PROVE WriterInv!(u)'
    BY <1>1, <1>2, <1>3, <2>1 DEF WriterInv, ToDepart
  <2> QED BY <1>1, <1>2, <1>3, <2>1 DEF WriterInv, ToDepart
<1> QED BY <1>8, <1>9, <1>10, <1>11, <1>12, <1>13 DEF IInv

(* The writer learns how many readers it has to wait for.                  *)
LEMMA WriterAnnounceIInv ==
  ASSUME IInv, NEW t \in Threads, WriterAnnounce(t) PROVE IInv'
<1> DEFINE to == IF local'[t] # 0 THEN "w_register" ELSE "writing"
<1>0. Goto(t, "w_announce", to) /\ to \in Location
  BY DEF WriterAnnounce, Branch, Location
<1>1. /\ TypeOK /\ MutexInv /\ PendingInv /\ TicketInv /\ NobodyAnnouncedInv /\ WriterInv
      /\ pc[t] = "w_announce" /\ pc' \in [Threads -> Location]
      /\ \A u \in Threads : pc'[u] = IF u = t THEN to ELSE pc[u]
  BY <1>0, StepFacts
<1>2. /\ Count(Spinning) \in Nat /\ Count({"reading"}) \in Nat
      /\ Count({"r_depart"}) \in Nat /\ Count({"r_signal"}) \in Nat
      /\ Count(Spinning)' = Count(Spinning)
      /\ Count({"reading"})' = Count({"reading"})
      /\ Count({"r_depart"})' = Count({"r_depart"})
      /\ Count({"r_signal"})' = Count({"r_signal"})
      /\ Count(Spinning) + Count({"reading"}) + Count({"r_depart"}) + 1 < RWLOCK_MAX_READERS
  BY <1>0, StepFacts DEF One, Spinning, Readers
<1>3. /\ pending' = pending - RWLOCK_MAX_READERS
      /\ local' = [local EXCEPT ![t] = pending' + RWLOCK_MAX_READERS]
      /\ UNCHANGED <<departing, release_n_readers, release_writer, writer_mutex>>
  BY <1>1 DEF WriterAnnounce, shared, Keep, TypeOK, Branch
<1>4. NobodyAnnounced /\ ~NobodyAnnounced'
  BY <1>1 DEF NobodyAnnounced, Announced, MutexInv, Holding
<1>5. /\ pending \in Int /\ departing \in Int /\ release_n_readers \in Int /\ release_writer \in {0, 1}
      /\ local \in [Threads -> Int16] /\ local[t] \in Int /\ RWLOCK_MAX_READERS \in Nat
  BY <1>1, MaxReadersAssumption DEF TypeOK, Int16
<1>6. /\ pending = Count(Spinning) + Count({"reading"})
      /\ departing = 0 /\ release_writer = 0 /\ release_n_readers = Count(Spinning)
      /\ Count({"r_depart"}) = 0 /\ Count({"r_signal"}) = 0
  <2>1. \A u \in Threads : pc[u] # "w_release"
    BY <1>1 DEF MutexInv, Holding
  <2> QED BY <1>1, <1>4, <2>1 DEF PendingInv, NobodyAnnouncedInv
<1>7. local'[t] = pending /\ \A u \in Threads : u # t => local'[u] = local[u]
  BY <1>3, <1>5
<1>8. TypeOK'
  <2>1. pending' \in Int16 /\ pending' + RWLOCK_MAX_READERS \in Int16
    BY <1>2, <1>3, <1>5, <1>6 DEF Int16
  <2> QED BY <1>1, <1>3, <2>1 DEF TypeOK
<1>9. MutexInv'
  BY <1>1, <1>3 DEF MutexInv, Holding, Announced
<1>10. PendingInv'
  BY <1>1, <1>2, <1>3, <1>4, <1>5 DEF PendingInv
<1>11. TicketInv'
  <2>1. TicketsHaveTakers'
    BY <1>1, <1>2, <1>3, <1>5 DEF TicketInv, TicketsHaveTakers, Spinning
  <2> QED BY <1>1, <1>2, <1>3, <2>1 DEF TicketInv
<1>12. NobodyAnnouncedInv'
  BY <1>1, <1>2, <1>3, <1>4 DEF NobodyAnnouncedInv, PendingInv
<1>13. WriterInv'
  <2>1. ASSUME NEW u \in Threads, u # t PROVE WriterInv!(u)'
    BY <1>1, <2>1 DEF MutexInv, Holding, Announced
  <2>2. ToDepart' = pending
    BY <1>2, <1>3, <1>5, <1>6 DEF ToDepart
  <2>3. pending # 0 => WriterInv!(t)'
    BY <1>1, <1>2, <1>3, <1>5, <1>6, <1>7, <2>2
  <2>4. pending = 0 => WriterInv!(t)'
    BY <1>1, <1>2, <1>3, <1>6, <1>7, <2>2
  <2> QED BY <2>1, <2>3, <2>4 DEF WriterInv
<1> QED BY <1>8, <1>9, <1>10, <1>11, <1>12, <1>13 DEF IInv

(* Readers that left before the registration have already been deducted.   *)
LEMMA WriterRegisterIInv ==
  ASSUME IInv, NEW t \in Threads, WriterRegister(t) PROVE IInv'
<1> DEFINE to == IF departing' # 0 THEN "w_poll" ELSE "writing"
<1>0. Goto(t, "w_register", to) /\ to \in Location
  BY DEF WriterRegister, Branch, Location
<1>1. /\ TypeOK /\ MutexInv /\ PendingInv /\ TicketInv /\ NobodyAnnouncedInv /\ WriterInv
      /\ pc[t] = "w_register" /\ pc' \in [Threads -> Location]
      /\ \A u \in Threads : pc'[u] = IF u = t THEN to ELSE pc[u]
  BY <1>0, StepFacts
<1>2. /\ Count(Spinning) \in Nat /\ Count({"reading"}) \in Nat
      /\ Count({"r_depart"}) \in Nat /\ Count({"r_signal"}) \in Nat
      /\ Count(Spinning)' = Count(Spinning)
      /\ Count({"reading"})' = Count({"reading"})
      /\ Count({"r_depart"})' = Count({"r_depart"})
      /\ Count({"r_signal"})' = Count({"r_signal"})
      /\ Count(Spinning) + Count({"reading"}) + Count({"r_depart"}) + 1 < RWLOCK_MAX_READERS
  BY <1>0, StepFacts DEF One, Spinning, Readers
<1>3. /\ departing' = departing + local[t]
      /\ UNCHANGED <<pending, release_n_readers, release_writer, writer_mutex, local>>
  BY <1>1 DEF WriterRegister, shared, Keep, TypeOK, Branch
<1>4. NobodyAnnounced' <=> NobodyAnnounced
  BY <1>1 DEF NobodyAnnounced, Announced
<1>5. /\ pending \in Int /\ departing \in Int /\ release_n_readers \in Int /\ release_writer \in {0, 1}
      /\ local \in [Threads -> Int16] /\ local[t] \in Int /\ RWLOCK_MAX_READERS \in Nat
  BY <1>1, MaxReadersAssumption DEF TypeOK, Int16
<1>6. ~NobodyAnnounced
  BY <1>1 DEF NobodyAnnounced, Announced
<1>7. /\ departing' = ToDepart /\ ToDepart' = ToDepart /\ ToDepart \in Nat /\ ToDepart < RWLOCK_MAX_READERS
      /\ Count({"r_signal"}) = 0 /\ release_writer = 0
  <2>1. release_n_readers >= 0 /\ release_n_readers <= Count(Spinning)
    BY <1>1 DEF TicketInv, TicketsHaveTakers, Spinning
  <2>2. ToDepart \in Nat /\ ToDepart' = ToDepart /\ ToDepart < RWLOCK_MAX_READERS
    BY <1>2, <1>3, <1>5, <2>1 DEF ToDepart
  <2>3. local[t] + departing = ToDepart /\ Count({"r_signal"}) = 0 /\ release_writer = 0
    BY <1>1 DEF WriterInv
  <2> QED BY <1>3, <1>5, <2>2, <2>3
<1>8. TypeOK'
  <2>1. departing' \in Int16
    BY <1>5, <1>7 DEF Int16
  <2> QED BY <1>1, <1>3, <2>1 DEF TypeOK
<1>9. MutexInv'
  BY <1>1, <1>3 DEF MutexInv, Holding, Announced
<1>10. PendingInv'
  BY <1>1, <1>2, <1>3, <1>4, <1>5 DEF PendingInv
<1>11. TicketInv'
  <2>1. TicketsHaveTakers'
    BY <1>1, <1>2, <1>3, <1>5 DEF TicketInv, TicketsHaveTakers, Spinning
  <2> QED BY <1>1, <1>2, <1>3, <2>1 DEF TicketInv
<1>12. NobodyAnnouncedInv'
  BY <1>4, <1>6 DEF NobodyAnnouncedInv
<1>13. WriterInv'
  <2>1. ASSUME NEW u \in Threads, u # t PROVE WriterInv!(u)'
    BY <1>1, <2>1 DEF MutexInv, Holding, Announced
  <2>2. WriterInv!(t)'
    BY <1>1, <1>2, <1>3, <1>7
  <2> QED BY <2>1, <2>2 DEF WriterInv
<1> QED BY <1>8, <1>9, <1>10, <1>11, <1>12, <1>13 DEF IInv

(* A waiting writer that saw the signal has seen a one.                    *)
LEMMA WriterPollIInv ==
  ASSUME IInv, NEW t \in Threads, WriterPoll(t) PROVE IInv'
<1> DEFINE to == IF release_writer = 0 THEN "w_poll" ELSE "w_cas"
<1>0. Goto(t, "w_poll", to) /\ to \in Location
  BY DEF WriterPoll, Branch, Location
<1>1. /\ TypeOK /\ MutexInv /\ PendingInv /\ TicketInv /\ NobodyAnnouncedInv /\ WriterInv
      /\ pc[t] = "w_poll" /\ pc' \in [Threads -> Location]
      /\ \A u \in Threads : pc'[u] = IF u = t THEN to ELSE pc[u]
  BY <1>0, StepFacts
<1>2. /\ Count(Spinning) \in Nat /\ Count({"reading"}) \in Nat
      /\ Count({"r_depart"}) \in Nat /\ Count({"r_signal"}) \in Nat
      /\ Count(Spinning)' = Count(Spinning)
      /\ Count({"reading"})' = Count({"reading"})
      /\ Count({"r_depart"})' = Count({"r_depart"})
      /\ Count({"r_signal"})' = Count({"r_signal"})
      /\ Count(Spinning) + Count({"reading"}) + Count({"r_depart"}) + 1 < RWLOCK_MAX_READERS
  BY <1>0, StepFacts DEF One, Spinning, Readers
<1>3. /\ local' = [local EXCEPT ![t] = release_writer]
      /\ UNCHANGED <<pending, departing, release_n_readers, release_writer, writer_mutex>>
  BY <1>1 DEF WriterPoll, shared, Keep, TypeOK, Branch
<1>4. NobodyAnnounced' <=> NobodyAnnounced
  BY <1>1 DEF NobodyAnnounced, Announced
<1>5. /\ pending \in Int /\ departing \in Int /\ release_n_readers \in Int /\ release_writer \in {0, 1}
      /\ local \in [Threads -> Int16] /\ local[t] \in Int /\ RWLOCK_MAX_READERS \in Nat
  BY <1>1, MaxReadersAssumption DEF TypeOK, Int16
<1>6. ToDepart' = ToDepart /\ local'[t] = release_writer
  BY <1>2, <1>3, <1>5 DEF ToDepart
<1>8. TypeOK'
  <2>1. release_writer \in Int16
    BY <1>5, MaxReadersAssumption DEF Int16
  <2> QED BY <1>1, <1>3, <2>1 DEF TypeOK
<1>9. MutexInv'
  BY <1>1, <1>3 DEF MutexInv, Holding, Announced
<1>10. PendingInv'
  BY <1>1, <1>2, <1>3, <1>4, <1>5 DEF PendingInv
<1>11. TicketInv'
  <2>1. TicketsHaveTakers'
    BY <1>1, <1>2, <1>3, <1>5 DEF TicketInv, TicketsHaveTakers, Spinning
  <2> QED BY <1>1, <1>2, <1>3, <2>1 DEF TicketInv
<1>12. NobodyAnnouncedInv'
  BY <1>1, <1>2, <1>3, <1>4 DEF NobodyAnnouncedInv, PendingInv
<1>13. WriterInv'
  <2>1. ASSUME NEW u \in Threads, u # t PROVE WriterInv!(u)'
    BY <1>1, <2>1 DEF MutexInv, Holding, Announced
  <2>2. WriterInv!(t)
    BY <1>1 DEF WriterInv
  <2>3. WriterInv!(t)'
    BY <1>1, <1>2, <1>3, <1>5, <1>6, <2>2
  <2> QED BY <2>1, <2>3 DEF WriterInv
<1> QED BY <1>8, <1>9, <1>10, <1>11, <1>12, <1>13 DEF IInv

(* The signal is consumed when nobody is left to depart.                   *)
LEMMA WriterReleasedIInv ==
  ASSUME IInv, NEW t \in Threads, WriterReleased(t) PROVE IInv'
<1>0. Goto(t, "w_cas", "writing") /\ "writing" \in Location
  BY DEF WriterReleased, Location
<1>1. /\ TypeOK /\ MutexInv /\ PendingInv /\ TicketInv /\ NobodyAnnouncedInv /\ WriterInv
      /\ pc[t] = "w_cas" /\ pc' \in [Threads -> Location]
      /\ \A u \in Threads : pc'[u] = IF u = t THEN "writing" ELSE pc[u]
  BY <1>0, StepFacts
<1>2. /\ Count(Spinning) \in Nat /\ Count({"reading"}) \in Nat
      /\ Count({"r_depart"}) \in Nat /\ Count({"r_signal"}) \in Nat
      /\ Count(Spinning)' = Count(Spinning)
      /\ Count({"reading"})' = Count({"reading"})
      /\ Count({"r_depart"})' = Count({"r_depart"})
      /\ Count({"r_signal"})' = Count({"r_signal"})
      /\ Count(Spinning) + Count({"reading"}) + Count({"r_depart"}) + 1 < RWLOCK_MAX_READERS
  BY <1>0, StepFacts DEF One, Spinning, Readers
<1>3. /\ release_writer = local[t]
      /\ release_writer' = local[t] - 1
      /\ UNCHANGED <<pending, departing, release_n_readers, writer_mutex, local>>
  BY <1>1 DEF WriterReleased, shared, Keep, TypeOK
<1>4. NobodyAnnounced' <=> NobodyAnnounced
  BY <1>1 DEF NobodyAnnounced, Announced
<1>5. /\ pending \in Int /\ departing \in Int /\ release_n_readers \in Int /\ release_writer \in {0, 1}
      /\ local \in [Threads -> Int16] /\ local[t] \in Int /\ RWLOCK_MAX_READERS \in Nat
  BY <1>1, MaxReadersAssumption DEF TypeOK, Int16
<1>6. ~NobodyAnnounced
  BY <1>1 DEF NobodyAnnounced, Announced
<1>7. /\ release_writer = 1 /\ release_writer' = 0 /\ departing = 0
      /\ ToDepart' = 0 /\ Count({"r_signal"}) = 0
  <2>1. WriterInv!(t)
    BY <1>1 DEF WriterInv
  <2>2. /\ release_writer = 1 /\ departing = ToDepart
        /\ departing = 0 => Count({"r_signal"}) + 1 = 1
        /\ departing # 0 => release_writer = 0
    BY <1>1, <2>1
  <2>3. release_writer' = 0 /\ departing = 0 /\ Count({"r_signal"}) = 0
    BY <1>2, <1>3, <1>5, <2>2
  <2>4. ToDepart' = ToDepart
    BY <1>2, <1>3, <1>5 DEF ToDepart
  <2> QED BY <2>2, <2>3, <2>4
<1>8. TypeOK'
  BY <1>1, <1>3, <1>7 DEF TypeOK
<1>9. MutexInv'
  BY <1>1, <1>3 DEF MutexInv, Holding, Announced
<1>10. PendingInv'
  BY <1>1, <1>2, <1>3, <1>4, <1>5 DEF PendingInv
<1>11. TicketInv'
  <2>1. TicketsHaveTakers'
    BY <1>1, <1>2, <1>3, <1>5 DEF TicketInv, TicketsHaveTakers, Spinning
  <2> QED BY <1>1, <1>2, <1>3, <2>1 DEF TicketInv
<1>12. NobodyAnnouncedInv'
  BY <1>4, <1>6 DEF NobodyAnnouncedInv
<1>13. WriterInv'
  <2>1. ASSUME NEW u \in Threads, u # t PROVE WriterInv!(u)'
    BY <1>1, <2>1 DEF MutexInv, Holding, Announced
  <2>2. WriterInv!(t)'
    BY <1>1, <1>2, <1>3, <1>7
  <2> QED BY <2>1, <2>2 DEF WriterInv
<1> QED BY <1>8, <1>9, <1>10, <1>11, <1>12, <1>13 DEF IInv

(* A failed exchange changes nothing that is counted.                      *)
LEMMA WriterCasFailsIInv ==
  ASSUME IInv, NEW t \in Threads, WriterCasFails(t) PROVE IInv'
<1>0. Goto(t, "w_cas", "w_poll") /\ "w_poll" \in Location
  BY DEF WriterCasFails, Location
<1>1. /\ TypeOK /\ MutexInv /\ PendingInv /\ TicketInv /\ NobodyAnnouncedInv /\ WriterInv
      /\ pc[t] = "w_cas" /\ pc' \in [Threads -> Location]
      /\ \A u \in Threads : pc'[u] = IF u = t THEN "w_poll" ELSE pc[u]
  BY <1>0, StepFacts
<1>2. /\ Count(Spinning) \in Nat /\ Count({"reading"}) \in Nat
      /\ Count({"r_depart"}) \in Nat /\ Count({"r_signal"}) \in Nat
      /\ Count(Spinning)' = Count(Spinning)
      /\ Count({"reading"})' = Count({"reading"})
      /\ Count({"r_depart"})' = Count({"r_depart"})
      /\ Count({"r_signal"})' = Count({"r_signal"})
      /\ Count(Spinning) + Count({"reading"}) + Count({"r_depart"}) + 1 < RWLOCK_MAX_READERS
  BY <1>0, StepFacts DEF One, Spinning, Readers
<1>3. /\ UNCHANGED <<pending, departing, release_n_readers, release_writer, writer_mutex, local>>
  BY <1>1 DEF WriterCasFails, shared, Keep, TypeOK
<1>4. NobodyAnnounced' <=> NobodyAnnounced
  BY <1>1 DEF NobodyAnnounced, Announced
<1>5. /\ pending \in Int /\ departing \in Int /\ release_n_readers \in Int /\ release_writer \in {0, 1}
      /\ local \in [Threads -> Int16] /\ local[t] \in Int /\ RWLOCK_MAX_READERS \in Nat
  BY <1>1, MaxReadersAssumption DEF TypeOK, Int16
<1>8. TypeOK'
  BY <1>1, <1>3 DEF TypeOK
<1>9. MutexInv'
  BY <1>1, <1>3 DEF MutexInv, Holding, Announced
<1>10. PendingInv'
  BY <1>1, <1>2, <1>3, <1>4, <1>5 DEF PendingInv
<1>11. TicketInv'
  <2>1. TicketsHaveTakers'
    BY <1>1, <1>2, <1>3, <1>5 DEF TicketInv, TicketsHaveTakers, Spinning
  <2> QED BY <1>1, <1>2, <1>3, <2>1 DEF TicketInv
<1>12. NobodyAnnouncedInv'
  BY <1>1, <1>2, <1>3, <1>4 DEF NobodyAnnouncedInv, PendingInv
<1>13. WriterInv'
  <2>1. ASSUME NEW u \in Threads, u # t PROVE WriterInv!(u)'
    BY <1>1, <1>2, <1>3, <2>1 DEF WriterInv, ToDepart
  <2> QED BY <1>1, <1>2, <1>3, <2>1 DEF WriterInv, ToDepart
<1> QED BY <1>8, <1>9, <1>10, <1>11, <1>12, <1>13 DEF IInv

(* All readers in flight are spinning now: the writer releases them all.   *)
LEMMA WriterRestoreIInv ==
  ASSUME IInv, NEW t \in Threads, WriterRestore(t) PROVE IInv'
<1> DEFINE to == IF pending' > 0 THEN "w_release" ELSE "w_unlock"
<1>0. Goto(t, "writing", to) /\ to \in Location
  BY DEF WriterRestore, Branch, Location
<1>1. /\ TypeOK /\ MutexInv /\ PendingInv /\ TicketInv /\ NobodyAnnouncedInv /\ WriterInv
      /\ pc[t] = "writing" /\ pc' \in [Threads -> Location]
      /\ \A u \in Threads : pc'[u] = IF u = t THEN to ELSE pc[u]
  BY <1>0, StepFacts
<1>2. /\ Count(Spinning) \in Nat /\ Count({"reading"}) \in Nat
      /\ Count({"r_depart"}) \in Nat /\ Count({"r_signal"}) \in Nat
      /\ Count(Spinning)' = Count(Spinning)
      /\ Count({"reading"})' = Count({"reading"})
      /\ Count({"r_depart"})' = Count({"r_depart"})
      /\ Count({"r_signal"})' = Count({"r_signal"})
      /\ Count(Spinning) + Count({"reading"}) + Count({"r_depart"}) + 1 < RWLOCK_MAX_READERS
  BY <1>0, StepFacts DEF One, Spinning, Readers
<1>3. /\ pending' = pending + RWLOCK_MAX_READERS
      /\ local' = [local EXCEPT ![t] = pending']
      /\ UNCHANGED <<departing, release_n_readers, release_writer, writer_mutex>>
  BY <1>1 DEF WriterRestore, shared, Keep, TypeOK, Branch
<1>4. ~NobodyAnnounced /\ NobodyAnnounced'
  BY <1>1 DEF NobodyAnnounced, Announced, MutexInv, Holding
<1>5. /\ pending \in Int /\ departing \in Int /\ release_n_readers \in Int /\ release_writer \in {0, 1}
      /\ local \in [Threads -> Int16] /\ local[t] \in Int /\ RWLOCK_MAX_READERS \in Nat
  BY <1>1, MaxReadersAssumption DEF TypeOK, Int16
<1>6. /\ pending' = Count(Spinning) /\ local'[t] = pending'
      /\ departing = 0 /\ release_writer = 0 /\ release_n_readers = 0
      /\ Count({"reading"}) = 0 /\ Count({"r_depart"}) = 0 /\ Count({"r_signal"}) = 0
  <2>1. pending = Count(Spinning) + Count({"reading"}) - RWLOCK_MAX_READERS
    BY <1>1, <1>4 DEF PendingInv
  <2>2. WriterInv!(t) /\ release_n_readers >= 0
    BY <1>1 DEF WriterInv, TicketInv, TicketsHaveTakers
  <2>3. release_n_readers = 0 /\ Count({"reading"}) = 0 /\ Count({"r_depart"}) = 0
    BY <1>1, <1>2, <1>5, <2>2 DEF ToDepart
  <2> QED BY <1>1, <1>2, <1>3, <1>5, <2>1, <2>2, <2>3
<1>8. TypeOK'
  <2>1. pending' \in Int16
    BY <1>2, <1>5, <1>6 DEF Int16
  <2> QED BY <1>1, <1>3, <2>1 DEF TypeOK
<1>9. MutexInv'
  BY <1>1, <1>3 DEF MutexInv, Holding, Announced
<1>10. PendingInv'
  BY <1>2, <1>3, <1>4, <1>6 DEF PendingInv
<1>11. TicketInv'
  <2>1. TicketsHaveTakers'
    BY <1>1, <1>2, <1>3, <1>5 DEF TicketInv, TicketsHaveTakers, Spinning
  <2> QED BY <1>1, <1>2, <1>3, <2>1 DEF TicketInv
<1>12. NobodyAnnouncedInv'
  <2>1. pc'[t] # "w_release" => Count(Spinning) = 0
    BY <1>1, <1>2, <1>6
  <2> QED BY <1>1, <1>2, <1>3, <1>6, <2>1 DEF NobodyAnnouncedInv
<1>13. WriterInv'
  <2>1. ASSUME NEW u \in Threads, u # t PROVE WriterInv!(u)'
    BY <1>1, <2>1 DEF MutexInv, Holding, Announced
  <2>2. WriterInv!(t)'
    BY <1>1, <1>2, <1>3, <1>6
  <2> QED BY <2>1, <2>2 DEF WriterInv
<1> QED BY <1>8, <1>9, <1>10, <1>11, <1>12, <1>13 DEF IInv

(* As many tickets as spinning readers.                                    *)
LEMMA WriterReleaseReadersIInv ==
  ASSUME IInv, NEW t \in Threads, WriterReleaseReaders(t) PROVE IInv'
<1>0. Goto(t, "w_release", "w_unlock") /\ "w_unlock" \in Location
  BY DEF WriterReleaseReaders, Location
<1>1. /\ TypeOK /\ MutexInv /\ PendingInv /\ TicketInv /\ NobodyAnnouncedInv /\ WriterInv
      /\ pc[t] = "w_release" /\ pc' \in [Threads -> Location]
      /\ \A u \in Threads : pc'[u] = IF u = t THEN "w_unlock" ELSE pc[u]
  BY <1>0, StepFacts
<1>2. /\ Count(Spinning) \in Nat /\ Count({"reading"}) \in Nat
      /\ Count({"r_depart"}) \in Nat /\ Count({"r_signal"}) \in Nat
      /\ Count(Spinning)' = Count(Spinning)
      /\ Count({"reading"})' = Count({"reading"})
      /\ Count({"r_depart"})' = Count({"r_depart"})
      /\ Count({"r_signal"})' = Count({"r_signal"})
      /\ Count(Spinning) + Count({"reading"}) + Count({"r_depart"}) + 1 < RWLOCK_MAX_READERS
  BY <1>0, StepFacts DEF One, Spinning, Readers
<1>3. /\ release_n_readers' = local[t]
      /\ UNCHANGED <<pending, departing, release_writer, writer_mutex, local>>
  BY <1>1 DEF WriterReleaseReaders, shared, Keep, TypeOK
<1>4. NobodyAnnounced' <=> NobodyAnnounced
  BY <1>1 DEF NobodyAnnounced, Announced
<1>5. /\ pending \in Int /\ departing \in Int /\ release_n_readers \in Int /\ release_writer \in {0, 1}
      /\ local \in [Threads -> Int16] /\ local[t] \in Int /\ RWLOCK_MAX_READERS \in Nat
  BY <1>1, MaxReadersAssumption DEF TypeOK, Int16
<1>6. release_n_readers' = Count(Spinning)
  BY <1>1, <1>3 DEF WriterInv
<1>7. NobodyAnnounced
  BY <1>1 DEF NobodyAnnounced, MutexInv, Holding, Announced
<1>8. TypeOK'
  BY <1>1, <1>3 DEF TypeOK
<1>9. MutexInv'
  BY <1>1, <1>3 DEF MutexInv, Holding, Announced
<1>10. PendingInv'
  BY <1>1, <1>2, <1>3, <1>4, <1>5 DEF PendingInv
<1>11. TicketInv'
  <2>1. TicketsHaveTakers'
    BY <1>2, <1>6 DEF TicketsHaveTakers, Spinning
  <2> QED BY <1>1, <1>2, <1>3, <2>1 DEF TicketInv
<1>12. NobodyAnnouncedInv'
  BY <1>1, <1>2, <1>3, <1>6, <1>7 DEF NobodyAnnouncedInv
<1>13. WriterInv'
  <2>1. ASSUME NEW u \in Threads, u # t PROVE WriterInv!(u)'
    BY <1>1, <2>1 DEF MutexInv, Holding, Announced
  <2>2. WriterInv!(t)'
    BY <1>1
  <2> QED BY <2>1, <2>2 DEF WriterInv
<1> QED BY <1>8, <1>9, <1>10, <1>11, <1>12, <1>13 DEF IInv

(* The next writer starts from a lock without a writer.                    *)
LEMMA WriterMutexUnlockIInv ==
  ASSUME IInv, NEW t \in Threads, WriterMutexUnlock(t) PROVE IInv'
<1>0. Goto(t, "w_unlock", "idle") /\ "idle" \in Location
  BY DEF WriterMutexUnlock, Location
<1>1. /\ TypeOK /\ MutexInv /\ PendingInv /\ TicketInv /\ NobodyAnnouncedInv /\ WriterInv
      /\ pc[t] = "w_unlock" /\ pc' \in [Threads -> Location]
      /\ \A u \in Threads : pc'[u] = IF u = t THEN "idle" ELSE pc[u]
  BY <1>0, StepFacts
<1>2. /\ Count(Spinning) \in Nat /\ Count({"reading"}) \in Nat
      /\ Count({"r_depart"}) \in Nat /\ Count({"r_signal"}) \in Nat
      /\ Count(Spinning)' = Count(Spinning)
      /\ Count({"reading"})' = Count({"reading"})
      /\ Count({"r_depart"})' = Count({"r_depart"})
      /\ Count({"r_signal"})' = Count({"r_signal"})
      /\ Count(Spinning) + Count({"reading"}) + Count({"r_depart"}) + 1 < RWLOCK_MAX_READERS
  BY <1>0, StepFacts DEF One, Spinning, Readers
<1>3. /\ writer_mutex' = FALSE
      /\ UNCHANGED <<pending, departing, release_n_readers, release_writer, local>>
  BY <1>1 DEF WriterMutexUnlock, shared, Keep, TypeOK
<1>4. NobodyAnnounced' <=> NobodyAnnounced
  BY <1>1 DEF NobodyAnnounced, Announced
<1>5. /\ pending \in Int /\ departing \in Int /\ release_n_readers \in Int /\ release_writer \in {0, 1}
      /\ local \in [Threads -> Int16] /\ local[t] \in Int /\ RWLOCK_MAX_READERS \in Nat
  BY <1>1, MaxReadersAssumption DEF TypeOK, Int16
<1>8. TypeOK'
  BY <1>1, <1>3 DEF TypeOK
<1>9. MutexInv'
  BY <1>1, <1>3 DEF MutexInv, Holding, Announced
<1>10. PendingInv'
  BY <1>1, <1>2, <1>3, <1>4, <1>5 DEF PendingInv
<1>11. TicketInv'
  <2>1. TicketsHaveTakers'
    BY <1>1, <1>2, <1>3, <1>5 DEF TicketInv, TicketsHaveTakers, Spinning
  <2> QED BY <1>1, <1>2, <1>3, <2>1 DEF TicketInv
<1>12. NobodyAnnouncedInv'
  BY <1>1, <1>2, <1>3, <1>4 DEF NobodyAnnouncedInv, PendingInv
<1>13. WriterInv'
  <2>1. ASSUME NEW u \in Threads, u # t PROVE WriterInv!(u)'
    BY <1>1, <1>2, <1>3, <2>1 DEF WriterInv, ToDepart
  <2> QED BY <1>1, <1>2, <1>3, <2>1 DEF WriterInv, ToDepart
<1> QED BY <1>8, <1>9, <1>10, <1>11, <1>12, <1>13 DEF IInv

(* The invariant holds for every number of threads below the limit.        *)
THEOREM RWLockInvariant == Spec => []IInv
<1>1. IInv /\ UNCHANGED vars => IInv'
  <2> SUFFICES ASSUME IInv, UNCHANGED vars PROVE IInv'
    OBVIOUS
  <2>1. \A S : Count(S)' = Count(S)
    BY DEF vars, Count, At
  <2>2. ToDepart' = ToDepart /\ (NobodyAnnounced' <=> NobodyAnnounced)
    BY <2>1 DEF vars, ToDepart, NobodyAnnounced
  <2>3. TypeOK' /\ MutexInv'
    BY DEF vars, IInv, TypeOK, MutexInv
  <2>4. PendingInv' /\ NobodyAnnouncedInv'
    BY <2>1, <2>2 DEF vars, IInv, PendingInv, NobodyAnnouncedInv
  <2>5. TicketInv'
    BY <2>1 DEF vars, IInv, TicketInv, TicketsHaveTakers
  <2>6. WriterInv'
    BY <2>1, <2>2 DEF vars, IInv, WriterInv
  <2> QED BY <2>3, <2>4, <2>5, <2>6 DEF IInv
<1>2. IInv /\ Next => IInv'
  BY ReaderArriveIInv, ReaderPollIInv, ReaderTakeTicketIInv, ReaderCasFailsIInv,
     ReaderLeaveIInv, ReaderDepartIInv, ReaderSignalIInv,
     WriterArriveIInv, WriterMutexLockIInv, WriterAnnounceIInv, WriterRegisterIInv,
     WriterPollIInv, WriterReleasedIInv, WriterCasFailsIInv,
     WriterRestoreIInv, WriterReleaseReadersIInv, WriterMutexUnlockIInv
     DEF Next, ReaderLock, ReaderUnlock, WriterLock, WriterUnlock
<1> QED BY InitIInv, <1>1, <1>2, PTL DEF Spec

(* int16_t is wide enough: no fetch-and-add of the lock wraps around.      *)
THEOREM TypeCorrect == Spec => []TypeOK
BY RWLockInvariant, PTL DEF IInv

(* A writer inside leaves no reader that could be inside.                  *)
LEMMA InvariantExcludes == IInv => Exclusion
<1> SUFFICES ASSUME IInv, NEW t \in Threads, NEW u \in Threads, pc[t] = "writing", u # t
             PROVE  pc[u] \notin {"reading", "writing"}
  BY DEF Exclusion
<1>1. pc[u] # "writing"
  BY DEF IInv, MutexInv, Holding, Announced
<1>2. ToDepart = 0 /\ release_n_readers \in Int /\ release_n_readers >= 0
  BY DEF IInv, WriterInv, TicketInv, TicketsHaveTakers, TypeOK, Int16
<1>3. Count({"reading"}) \in Nat /\ Count({"r_depart"}) \in Nat
  BY CountPositive
<1>4. Count({"reading"}) = 0
  BY <1>2, <1>3 DEF ToDepart
<1> QED BY <1>1, <1>4, CountPositive

(* A writer inside excludes readers and writers.  `departing' reaches zero *)
(* only when no reader is inside, and no reader can get a ticket while a   *)
(* writer is announced and nobody is left to depart.                       *)
THEOREM ReadersAndWritersExclude == Spec => []Exclusion
BY RWLockInvariant, InvariantExcludes, PTL

(* UTILS_BUG_ON( swapped != 0 ) is unreachable in both unlock functions.   *)
THEOREM BugOnNeverFires == Spec => []NoBug
<1>1. IInv => NoBug
  <2> SUFFICES ASSUME IInv, NEW t \in Threads
               PROVE  /\ pc[t] = "r_signal" => release_writer = 0
                      /\ pc[t] = "w_release" => release_n_readers = 0
    BY DEF NoBug
  <2>1. pc[t] = "w_release" => release_n_readers = 0
    BY DEF IInv, WriterInv
  <2>2. ASSUME pc[t] = "r_signal" PROVE release_writer = 0
    <3>1. Count({"r_signal"}) \in Nat /\ Count({"r_signal"}) > 0
      BY <2>2, CountPositive
    <3>2. PICK w \in Threads : pc[w] \in Announced
      BY <3>1 DEF IInv, NobodyAnnouncedInv, NobodyAnnounced
    <3>3. WriterInv!(w) /\ release_writer \in {0, 1}
      BY DEF IInv, WriterInv, TypeOK
    <3> QED BY <3>1, <3>2, <3>3 DEF Announced
  <2> QED BY <2>1, <2>2
<1> QED BY RWLockInvariant, <1>1, PTL

(* Every ticket of a release is for a reader that is still spinning.       *)
THEOREM TicketsNeverLeak == Spec => []TicketsHaveTakers
BY RWLockInvariant, PTL DEF IInv, TicketInv

(* Once every thread has left, the lock is as good as new.                 *)
THEOREM LockIsReusable == Spec => []QuiescentIsClean
<1>1. IInv => QuiescentIsClean
  <2> SUFFICES ASSUME IInv, At({"idle"}) = Threads
               PROVE  /\ pending = 0 /\ departing = 0 /\ release_n_readers = 0
                      /\ release_writer = 0 /\ ~writer_mutex
    BY DEF QuiescentIsClean
  <2>1. \A t \in Threads : pc[t] = "idle"
    BY DEF At
  <2>2. NobodyAnnounced /\ ~writer_mutex /\ \A t \in Threads : pc[t] # "w_release"
    BY <2>1 DEF NobodyAnnounced, Announced, IInv, MutexInv, Holding
  <2>3. Count(Spinning) = 0 /\ Count({"reading"}) = 0
    <3>1. ~(Count(Spinning) > 0) /\ ~(Count({"reading"}) > 0)
      BY <2>1, CountPositive DEF Spinning
    <3> QED BY <3>1, CountPositive
  <2> QED BY <2>2, <2>3 DEF IInv, PendingInv, NobodyAnnouncedInv
<1> QED BY RWLockInvariant, <1>1, PTL

(* Where a step can lead to: out of a critical section, or into one.       *)
LEMMA Moves ==
  ASSUME NEW t \in Threads, ReaderLock(t) \/ ReaderUnlock(t) \/ WriterLock(t) \/ WriterUnlock(t)
  PROVE  \E from, to : /\ Goto(t, from, to)
                       /\ from \in {"reading", "writing"} => to \notin {"reading", "writing"}
<1>1. CASE ReaderLock(t)
  BY <1>1 DEF ReaderLock, ReaderArrive, ReaderPoll, ReaderTakeTicket, ReaderCasFails, Branch
<1>2. CASE ReaderUnlock(t)
  BY <1>2 DEF ReaderUnlock, ReaderLeave, ReaderDepart, ReaderSignal, Branch
<1>3. CASE WriterLock(t)
  <2>1. CASE WriterArrive(t) \/ WriterMutexLock(t) \/ WriterReleased(t) \/ WriterCasFails(t)
    BY <2>1 DEF WriterArrive, WriterMutexLock, WriterReleased, WriterCasFails
  <2>2. CASE WriterAnnounce(t) \/ WriterRegister(t) \/ WriterPoll(t)
    BY <2>2 DEF WriterAnnounce, WriterRegister, WriterPoll, Branch
  <2> QED BY <1>3, <2>1, <2>2 DEF WriterLock
<1>4. CASE WriterUnlock(t)
  BY <1>4 DEF WriterUnlock, WriterRestore, WriterReleaseReaders, WriterMutexUnlock, Branch
<1> QED BY <1>1, <1>2, <1>3, <1>4

(* The lock implements AbstractRWLock: a reader or a writer becomes active *)
(* only when the abstract lock allows it.                                  *)
THEOREM LockRefinesAbstractLock == Spec => Implements
<1>1. Init => Abstract!Init
  BY DEF Init, Abstract!Init, mode
<1>2. (IInv => Exclusion) /\ (IInv' => Exclusion')
  BY InvariantExcludes, PTL
<1>3. IInv /\ IInv' /\ [Next]_vars => [Abstract!Next]_mode
  <2> SUFFICES ASSUME IInv, IInv', [Next]_vars, mode' # mode PROVE Abstract!Next
    OBVIOUS
  <2>1. PICK t \in Threads : ReaderLock(t) \/ ReaderUnlock(t) \/ WriterLock(t) \/ WriterUnlock(t)
    BY DEF vars, mode, Next
  <2>2. PICK from, to : /\ Goto(t, from, to)
                        /\ from \in {"reading", "writing"} => to \notin {"reading", "writing"}
    BY <2>1, Moves
  <2>3. pc[t] = from /\ pc' = [pc EXCEPT ![t] = to] /\ pc \in [Threads -> Location]
    BY <2>2 DEF Goto, IInv, TypeOK
  <2> DEFINE View(place) == IF place = "reading" THEN "read"
                            ELSE IF place = "writing" THEN "write" ELSE "out"
  <2>4. mode = [u \in Threads |-> View(pc[u])] /\ mode' = [mode EXCEPT ![t] = View(to)]
    BY <2>3 DEF mode
  <2>5. Exclusion'
    BY <1>2
  <2>6. CASE from \in {"reading", "writing"}
    <3>1. Abstract!End(t)
      BY <2>2, <2>3, <2>4, <2>6 DEF Abstract!End, Abstract!Outside
    <3> QED BY <3>1 DEF Abstract!Next
  <2>7. CASE from \notin {"reading", "writing"} /\ to = "reading"
    <3>1. \A u \in Threads : pc[u] # "writing"
      BY <2>3, <2>5, <2>7 DEF Exclusion
    <3>2. Abstract!BeginRead(t)
      BY <2>3, <2>4, <2>7, <3>1 DEF Abstract!BeginRead, Abstract!Outside, Abstract!NoWriter
    <3> QED BY <3>2 DEF Abstract!Next
  <2>8. CASE from \notin {"reading", "writing"} /\ to = "writing"
    <3>1. \A u \in Threads : pc[u] \notin {"reading", "writing"}
      BY <2>3, <2>5, <2>8 DEF Exclusion
    <3>2. Abstract!BeginWrite(t)
      BY <2>3, <2>4, <2>8, <3>1 DEF Abstract!BeginWrite, Abstract!Outside
    <3> QED BY <3>2 DEF Abstract!Next
  <2>9. CASE from \notin {"reading", "writing"} /\ to \notin {"reading", "writing"}
    <3>1. mode' = mode
      BY <2>3, <2>4, <2>9
    <3> QED BY <3>1
  <2> QED BY <2>6, <2>7, <2>8, <2>9
<1> QED BY RWLockInvariant, <1>1, <1>3, PTL DEF Spec, Implements, Abstract!Spec
=============================================================================
