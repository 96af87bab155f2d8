------------------------------- MODULE RWLock -------------------------------
(***************************************************************************)
(* The writer-preferring reader/writer spin lock that Score-P places in    *)
(* every bucket of its removable hash tables and around the list of        *)
(* run-time objects of the addr2line service                               *)
(* (src/utils/include/SCOREP_ReaderWriterLock.h).                          *)
(*                                                                         *)
(* Every atomic operation of the four functions is one action.  A thread   *)
(* may take the lock again and again, as a reader or as a writer.  The     *)
(* spin loops appear as a load (Poll) followed by a weak compare-and-      *)
(* exchange that may fail (the value moved, or spuriously).                *)
(***************************************************************************)
EXTENDS Integers, FiniteSets

CONSTANTS
  Threads,              (* the threads that may use one lock object        *)
  RWLOCK_MAX_READERS    (* what an announced writer subtracts from pending *)

ASSUME ThreadsAssumption == IsFiniteSet(Threads)

(* INT16_C( 1 ) << 14, "some value large enough": as long as there are      *)
(* fewer threads, an announced writer makes `pending' negative.             *)
ASSUME MaxReadersAssumption ==
  /\ RWLOCK_MAX_READERS \in Nat \ {0}
  /\ Cardinality(Threads) < RWLOCK_MAX_READERS

VARIABLES
  pending,              (* readers in flight, minus RWLOCK_MAX_READERS     *)
  departing,            (* readers the announced writer still waits for    *)
  release_n_readers,    (* tickets for readers spinning in ReaderLock      *)
  release_writer,       (* 1 when the last departing reader has signalled  *)
  writer_mutex,         (* UTILS_Mutex serialising the writers             *)
  pc,                   (* where each thread is                            *)
  local                 (* the int16_t a thread loaded last                *)

shared == <<pending, departing, release_n_readers, release_writer, writer_mutex>>
vars == <<pending, departing, release_n_readers, release_writer, writer_mutex,
          pc, local>>

(* int16_t: with RWLOCK_MAX_READERS = 2^14, from -2^15 to 2^15 - 1. *)
Int16 == {n \in Int : -2 * RWLOCK_MAX_READERS <= n /\ n < 2 * RWLOCK_MAX_READERS}

Location == {"idle",
             "r_poll", "r_cas", "reading", "r_depart", "r_signal",
             "w_mutex", "w_announce", "w_register", "w_poll", "w_cas",
             "writing", "w_release", "w_unlock"}

Goto(t, from, to) == pc[t] = from /\ pc' = [pc EXCEPT ![t] = to]
Branch(t, from, cond, to1, to2) == Goto(t, from, IF cond THEN to1 ELSE to2)
Keep(t, value) == local' = [local EXCEPT ![t] = value]

Init ==
  /\ pending = 0
  /\ departing = 0
  /\ release_n_readers = 0
  /\ release_writer = 0
  /\ writer_mutex = FALSE
  /\ pc = [t \in Threads |-> "idle"]
  /\ local = [t \in Threads |-> 0]

-----------------------------------------------------------------------------
(* SCOREP_RWLock_ReaderLock *)

ReaderArrive(t) ==
  /\ pending' = pending + 1
  /\ Branch(t, "idle", pending' < 0, "r_poll", "reading")
  /\ UNCHANGED <<departing, release_n_readers, release_writer, writer_mutex, local>>

ReaderPoll(t) ==
  /\ Keep(t, release_n_readers)
  /\ Branch(t, "r_poll", release_n_readers = 0, "r_poll", "r_cas")
  /\ UNCHANGED shared

ReaderTakeTicket(t) ==
  /\ release_n_readers = local[t]
  /\ release_n_readers' = local[t] - 1
  /\ Goto(t, "r_cas", "reading")
  /\ UNCHANGED <<pending, departing, release_writer, writer_mutex, local>>

ReaderCasFails(t) ==
  /\ Goto(t, "r_cas", "r_poll")
  /\ UNCHANGED <<shared, local>>

(* SCOREP_RWLock_ReaderUnlock *)

ReaderLeave(t) ==
  /\ pending' = pending - 1
  /\ Branch(t, "reading", pending' < 0, "r_depart", "idle")
  /\ UNCHANGED <<departing, release_n_readers, release_writer, writer_mutex, local>>

(* Mutant: signals one reader too early. *)
ReaderDepartSignalsEarly(t) ==
  /\ departing' = departing - 1
  /\ Branch(t, "r_depart", departing' = 1, "r_signal", "idle")
  /\ UNCHANGED <<pending, release_n_readers, release_writer, writer_mutex, local>>

(* Mutant: signals although the writer has not registered yet. *)
ReaderDepartSignalsBelowZero(t) ==
  /\ departing' = departing - 1
  /\ Branch(t, "r_depart", departing' <= 0, "r_signal", "idle")
  /\ UNCHANGED <<pending, release_n_readers, release_writer, writer_mutex, local>>

ReaderDepart(t) ==
  /\ departing' = departing - 1
  /\ Branch(t, "r_depart", departing' = 0, "r_signal", "idle")
  /\ UNCHANGED <<pending, release_n_readers, release_writer, writer_mutex, local>>

ReaderSignal(t) ==
  /\ release_writer' = 1
  /\ Goto(t, "r_signal", "idle")
  /\ UNCHANGED <<pending, departing, release_n_readers, writer_mutex, local>>

-----------------------------------------------------------------------------
(* SCOREP_RWLock_WriterLock *)

WriterArrive(t) ==
  /\ Goto(t, "idle", "w_mutex")
  /\ UNCHANGED <<shared, local>>

(* Mutant: writers are not serialised. *)
WriterMutexLockAlways(t) ==
  /\ writer_mutex' = TRUE
  /\ Goto(t, "w_mutex", "w_announce")
  /\ UNCHANGED <<pending, departing, release_n_readers, release_writer, local>>

WriterMutexLock(t) ==
  /\ ~writer_mutex
  /\ writer_mutex' = TRUE
  /\ Goto(t, "w_mutex", "w_announce")
  /\ UNCHANGED <<pending, departing, release_n_readers, release_writer, local>>

(* Mutant: does not wait for a single reader. *)
WriterAnnounceIgnoresOne(t) ==
  /\ pending' = pending - RWLOCK_MAX_READERS
  /\ Keep(t, pending' + RWLOCK_MAX_READERS)
  /\ Branch(t, "w_announce", local'[t] > 1, "w_register", "writing")
  /\ UNCHANGED <<departing, release_n_readers, release_writer, writer_mutex>>

WriterAnnounce(t) ==
  /\ pending' = pending - RWLOCK_MAX_READERS
  /\ Keep(t, pending' + RWLOCK_MAX_READERS)
  /\ Branch(t, "w_announce", local'[t] # 0, "w_register", "writing")
  /\ UNCHANGED <<departing, release_n_readers, release_writer, writer_mutex>>

WriterRegister(t) ==
  /\ departing' = departing + local[t]
  /\ Branch(t, "w_register", departing' # 0, "w_poll", "writing")
  /\ UNCHANGED <<pending, release_n_readers, release_writer, writer_mutex, local>>

WriterPoll(t) ==
  /\ Keep(t, release_writer)
  /\ Branch(t, "w_poll", release_writer = 0, "w_poll", "w_cas")
  /\ UNCHANGED shared

(* Mutant: leaves the signal up. *)
WriterReleasedKeepsSignal(t) ==
  /\ release_writer = local[t]
  /\ Goto(t, "w_cas", "writing")
  /\ UNCHANGED <<shared, local>>

WriterReleased(t) ==
  /\ release_writer = local[t]
  /\ release_writer' = local[t] - 1
  /\ Goto(t, "w_cas", "writing")
  /\ UNCHANGED <<pending, departing, release_n_readers, writer_mutex, local>>

WriterCasFails(t) ==
  /\ Goto(t, "w_cas", "w_poll")
  /\ UNCHANGED <<shared, local>>

(* SCOREP_RWLock_WriterUnlock *)

(* Mutant: forgets a single waiting reader. *)
WriterRestoreIgnoresOne(t) ==
  /\ pending' = pending + RWLOCK_MAX_READERS
  /\ Keep(t, pending')
  /\ Branch(t, "writing", pending' > 1, "w_release", "w_unlock")
  /\ UNCHANGED <<departing, release_n_readers, release_writer, writer_mutex>>

WriterRestore(t) ==
  /\ pending' = pending + RWLOCK_MAX_READERS
  /\ Keep(t, pending')
  /\ Branch(t, "writing", pending' > 0, "w_release", "w_unlock")
  /\ UNCHANGED <<departing, release_n_readers, release_writer, writer_mutex>>

(* Mutant: one ticket too many. *)
WriterReleaseOneMore(t) ==
  /\ release_n_readers' = local[t] + 1
  /\ Goto(t, "w_release", "w_unlock")
  /\ UNCHANGED <<pending, departing, release_writer, writer_mutex, local>>

WriterReleaseReaders(t) ==
  /\ release_n_readers' = local[t]
  /\ Goto(t, "w_release", "w_unlock")
  /\ UNCHANGED <<pending, departing, release_writer, writer_mutex, local>>

WriterMutexUnlock(t) ==
  /\ writer_mutex' = FALSE
  /\ Goto(t, "w_unlock", "idle")
  /\ UNCHANGED <<pending, departing, release_n_readers, release_writer, local>>

-----------------------------------------------------------------------------
ReaderLock(t) == ReaderArrive(t) \/ ReaderPoll(t) \/ ReaderTakeTicket(t) \/ ReaderCasFails(t)
ReaderUnlock(t) == ReaderLeave(t) \/ ReaderDepart(t) \/ ReaderSignal(t)
WriterLock(t) == \/ WriterArrive(t) \/ WriterMutexLock(t) \/ WriterAnnounce(t)
                 \/ WriterRegister(t) \/ WriterPoll(t) \/ WriterReleased(t) \/ WriterCasFails(t)
WriterUnlock(t) == WriterRestore(t) \/ WriterReleaseReaders(t) \/ WriterMutexUnlock(t)

Next == \E t \in Threads :
          ReaderLock(t) \/ ReaderUnlock(t) \/ WriterLock(t) \/ WriterUnlock(t)

Spec == Init /\ [][Next]_vars

(***************************************************************************)
(* Scheduling: a thread inside one of the four functions, or in a critical *)
(* section, keeps taking steps.  A compare-and-exchange that could succeed *)
(* again and again does not fail spuriously forever, hence strong fairness *)
(* of the two successful exchanges.  Nothing obliges an idle thread to ask *)
(* for the lock, and the mutex is not fair between writers.                *)
(***************************************************************************)
Fairness ==
  \A t \in Threads :
    /\ WF_vars(ReaderPoll(t)) /\ SF_vars(ReaderTakeTicket(t)) /\ WF_vars(ReaderCasFails(t))
    /\ WF_vars(ReaderUnlock(t))
    /\ WF_vars(WriterMutexLock(t))
    /\ WF_vars(WriterAnnounce(t) \/ WriterRegister(t) \/ WriterPoll(t) \/ WriterCasFails(t))
    /\ SF_vars(WriterReleased(t))
    /\ WF_vars(WriterUnlock(t))

FairSpec == Spec /\ Fairness

-----------------------------------------------------------------------------
At(locations) == {t \in Threads : pc[t] \in locations}
Count(locations) == Cardinality(At(locations))

(* Type invariant.  `pending' and `departing' never leave int16_t: none of *)
(* the fetch-and-adds above wraps around.                                  *)
TypeOK ==
  /\ pending \in Int16
  /\ departing \in Int16
  /\ release_n_readers \in Int16
  /\ release_writer \in {0, 1}
  /\ writer_mutex \in BOOLEAN
  /\ pc \in [Threads -> Location]
  /\ local \in [Threads -> Int16]

(* The promise of the header, as a refinement: entering and leaving the     *)
(* critical sections are the only steps a user of the lock can observe.    *)
mode == [t \in Threads |-> IF pc[t] = "reading" THEN "read"
                           ELSE IF pc[t] = "writing" THEN "write" ELSE "out"]
Abstract == INSTANCE AbstractRWLock
Implements == Abstract!Spec

(* A writer inside its critical section excludes every reader and every    *)
(* other writer: what the hash table and the addr2line list rely on.       *)
Exclusion ==
  \A t, u \in Threads :
    pc[t] = "writing" /\ u # t => pc[u] \notin {"reading", "writing"}

(* The two UTILS_BUG_ON( swapped != 0 ) checks never fire: when the last   *)
(* departing reader signals, no earlier signal is pending, and when a      *)
(* writer releases the waiting readers, all earlier tickets are used up.   *)
NoBug ==
  \A t \in Threads :
    /\ pc[t] = "r_signal" => release_writer = 0
    /\ pc[t] = "w_release" => release_n_readers = 0

(* Tickets never outnumber the spinning readers, so none survives that a   *)
(* later reader could use to enter past an announced writer.               *)
TicketsHaveTakers ==
  /\ release_n_readers >= 0
  /\ release_n_readers <= Count({"r_poll", "r_cas"})

(***************************************************************************)
(* The inductive invariant.  With an announced writer, `departing' counts  *)
(* the readers that still have to leave: those inside, those on their way  *)
(* out, and those that hold (or will take) a ticket of the last release.   *)
(***************************************************************************)
Spinning == {"r_poll", "r_cas"}
Announced == {"w_register", "w_poll", "w_cas", "writing"}
Holding == Announced \cup {"w_announce", "w_release", "w_unlock"}

ToDepart == release_n_readers + Count({"reading"}) + Count({"r_depart"})
NobodyAnnounced == \A t \in Threads : pc[t] \notin Announced

MutexInv ==
  /\ \A t, u \in Threads : pc[t] \in Holding /\ pc[u] \in Holding => t = u
  /\ (\E t \in Threads : pc[t] \in Holding) => writer_mutex
  /\ writer_mutex => \E t \in Threads : pc[t] \in Holding

PendingInv ==
  /\ NobodyAnnounced => pending = Count(Spinning) + Count({"reading"})
  /\ ~NobodyAnnounced => pending = Count(Spinning) + Count({"reading"}) - RWLOCK_MAX_READERS

TicketInv ==
  /\ TicketsHaveTakers
  /\ \A t \in Threads : pc[t] = "r_cas" => local[t] > 0

NobodyAnnouncedInv ==
  NobodyAnnounced =>
    /\ departing = 0 /\ release_writer = 0
    /\ Count({"r_depart"}) = 0 /\ Count({"r_signal"}) = 0
    /\ (\A t \in Threads : pc[t] # "w_release") => release_n_readers = Count(Spinning)

WriterInv ==
  \A t \in Threads :
    /\ pc[t] = "w_register" =>
         /\ local[t] + departing = ToDepart /\ departing <= 0
         /\ Count({"r_signal"}) = 0 /\ release_writer = 0
    /\ pc[t] \in {"w_poll", "w_cas"} =>
         /\ departing = ToDepart
         /\ departing = 0 => Count({"r_signal"}) + release_writer = 1
         /\ departing # 0 => Count({"r_signal"}) = 0 /\ release_writer = 0
    /\ pc[t] = "w_cas" => local[t] = 1 /\ release_writer = 1
    /\ pc[t] = "writing" =>
         /\ departing = 0 /\ ToDepart = 0
         /\ Count({"r_signal"}) = 0 /\ release_writer = 0
    /\ pc[t] = "w_release" => release_n_readers = 0 /\ local[t] = Count(Spinning)

(* The counting argument behind the lock, for one step of any thread.      *)
IInv == TypeOK /\ MutexInv /\ PendingInv /\ TicketInv /\ NobodyAnnouncedInv /\ WriterInv

(* With no thread inside the lock every word is back at its initial value: *)
(* no reader count, ticket or signal leaks into the next use.              *)
QuiescentIsClean ==
  At({"idle"}) = Threads =>
    /\ pending = 0
    /\ departing = 0
    /\ release_n_readers = 0
    /\ release_writer = 0
    /\ ~writer_mutex

(* Writer preference: once a writer has announced itself it enters, even   *)
(* if readers keep arriving.                                               *)
AnnouncedWriterEnters ==
  \A t \in Threads : pc[t] \in {"w_register", "w_poll", "w_cas"} ~> pc[t] = "writing"

(* No reader is left behind: once writers stop coming, every reader that   *)
(* waits is released, although later readers may take its ticket.          *)
NoReaderLeftBehind ==
  <>[](\A t \in Threads : pc[t] \notin {"w_mutex"} \cup Holding) =>
    \A t \in Threads : pc[t] \in Spinning ~> pc[t] = "reading"
=============================================================================
