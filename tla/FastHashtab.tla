---------------------------- MODULE FastHashtab ----------------------------
(***************************************************************************)
(* The concurrent hash table template of Score-P                           *)
(* (src/utils/include/SCOREP_FastHashtab.h), in its removable variant      *)
(* SCOREP_HASH_TABLE_NON_MONOTONIC.  A table without remove operations     *)
(* (the MONOTONIC variant) is this one with Calls = {"get", "insert"}: the *)
(* bucket locks then never block and the free list stays empty.            *)
(*                                                                         *)
(* A bucket is a chain of chunks of NPairsPerChunk pairs.  Getters and     *)
(* inserters hold the bucket's reader/writer lock as readers, removers as  *)
(* writers; the lock is used through its specification, AbstractRWLock.    *)
(* Inserters are serialised by insert_lock and make a pair visible by      *)
(* storing the bucket's size.  Every load or store that another thread can *)
(* observe is a step of its own.  Code that runs under the writer lock is  *)
(* observable in the free list only, and takes one step per removed pair.  *)
(***************************************************************************)
EXTENDS Integers, Sequences, FiniteSets, Functions

CONSTANTS
  Threads, Keys, Values,
  Calls,                (* the operations the user calls                   *)
  HashTableSize,        (* buckets are 1 .. HashTableSize                  *)
  BucketIdx,            (* the user's <prefix>_bucket_idx                  *)
  NPairsPerChunk,
  UINT32,               (* 2^32, or anything larger than the table         *)
  Chunks,               (* bound: the addresses allocate_chunk can return  *)
  NULL

ASSUME TableAssumption ==
  /\ Calls \subseteq {"get", "insert", "remove", "remove_if"}
  /\ HashTableSize \in Nat \ {0}
  /\ IsFiniteSet(Keys) /\ IsFiniteSet(Chunks)
  /\ BucketIdx \in [Keys -> 1 .. HashTableSize]
  /\ NPairsPerChunk \in Nat \ {0}
  /\ UINT32 \in Nat /\ UINT32 > Cardinality(Keys) + NPairsPerChunk
  /\ NULL \notin Chunks \cup Values \cup Keys

VARIABLES
  size, head, insert_lock,      (* the fields of each bucket               *)
  mode,                         (* each bucket's reader/writer lock        *)
  keys, values, next,           (* the fields of each chunk                *)
  allocated,                    (* chunks obtained from allocate_chunk     *)
  free_list,                    (* first chunk of the table's free list    *)
  pc, call, self,               (* each thread: place, call and locals     *)
  result                        (* what its last call returned             *)

bucketVars == <<size, head, insert_lock, mode>>
chunkVars == <<keys, values, next, allocated, free_list>>
vars == <<bucketVars, chunkVars, pc, call, self, result>>

Buckets == 1 .. HashTableSize
Slots == 0 .. NPairsPerChunk - 1

(* The locals of the table functions: the bucket, position i of the scan,  *)
(* slot j of the current chunk, and the last size read.  `link' is the     *)
(* pointer-to-pointer `chunk': NULL stands for &bucket->chunk, c for       *)
(* &c->next; in remove_if it is outer_chunk.                               *)
NoLocals == [b |-> 1, i |-> 0, j |-> 0, link |-> NULL, current |-> 0]

NoCall == [op |-> "none"]

(* A result: the value, and whether the call found, inserted or removed.   *)
Result(value, flag) == [value |-> value, flag |-> flag]

Init ==
  /\ size = [b \in Buckets |-> 0]
  /\ head = [b \in Buckets |-> NULL]
  /\ insert_lock = [b \in Buckets |-> FALSE]
  /\ mode = [b \in Buckets |-> [t \in Threads |-> "out"]]
  /\ keys = [c \in Chunks |-> [j \in Slots |-> NULL]]
  /\ values = [c \in Chunks |-> [j \in Slots |-> NULL]]
  /\ next = [c \in Chunks |-> NULL]
  /\ allocated = {}
  /\ free_list = NULL
  /\ pc = [t \in Threads |-> "idle"]
  /\ call = [t \in Threads |-> NoCall]
  /\ self = [t \in Threads |-> NoLocals]
  /\ result = [t \in Threads |-> Result(NULL, FALSE)]

-----------------------------------------------------------------------------
Goto(t, from, to) == pc[t] = from /\ pc' = [pc EXCEPT ![t] = to]
Set(t, locals) == self' = [self EXCEPT ![t] = locals]
Return(t, r) == result' = [result EXCEPT ![t] = r]
Lock(t, m) == mode' = [mode EXCEPT ![self[t].b][t] = m]

(* *chunk *)
Deref(t) == IF self[t].link = NULL THEN head[self[t].b] ELSE next[self[t].link]

(* A new call.  remove_if carries the set of keys its condition accepts,   *)
(* and visits all buckets.                                                 *)
InvokeOnKey(t) ==
  \E op \in Calls \ {"remove_if"}, k \in Keys :
    /\ Goto(t, "idle", IF op = "remove" THEN "w_lock" ELSE "r_lock")
    /\ call' = [call EXCEPT ![t] = [op |-> op, key |-> k]]
    /\ Set(t, [NoLocals EXCEPT !.b = BucketIdx[k]])
    /\ Return(t, Result(NULL, FALSE))
    /\ UNCHANGED <<bucketVars, chunkVars>>

InvokeRemoveIf(t) ==
  \E op \in Calls \cap {"remove_if"}, S \in SUBSET Keys :
    /\ Goto(t, "idle", "w_lock")
    /\ call' = [call EXCEPT ![t] = [op |-> op, accepts |-> S]]
    /\ Set(t, NoLocals)
    /\ Return(t, Result(NULL, FALSE))
    /\ UNCHANGED <<bucketVars, chunkVars>>

Leave(t, from) ==
  /\ Goto(t, from, "idle")
  /\ Set(t, NoLocals)
  /\ call' = [call EXCEPT ![t] = NoCall]

(* (mutant: getters do not take the bucket's lock) *)
ReaderLockIgnoresWriter(t) ==
  /\ Goto(t, "r_lock", "load")
  /\ Lock(t, "read")
  /\ UNCHANGED <<size, head, insert_lock, chunkVars, call, self, result>>

ReaderLock(t) ==
  /\ Goto(t, "r_lock", "load")
  /\ \A u \in Threads : mode[self[t].b][u] # "write"
  /\ Lock(t, "read")
  /\ UNCHANGED <<size, head, insert_lock, chunkVars, call, self, result>>

ReaderUnlock(t) ==
  /\ Leave(t, "r_unlock")
  /\ Lock(t, "out")
  /\ UNCHANGED <<size, head, insert_lock, chunkVars, result>>

-----------------------------------------------------------------------------
(* SCOREP_HASH_TABLE_GET and the searches of SCOREP_HASH_TABLE_INSERT_1 *)

(* One round of a search loop: the slot after those seen so far.           *)
Compare(t, from, found) ==
  LET s == self[t]
      wrap == s.j = NPairsPerChunk
      link == IF wrap THEN Deref(t) ELSE s.link
      j == IF wrap THEN 0 ELSE s.j
      chunk == IF wrap THEN next[link] ELSE Deref(t)
  IN  /\ pc[t] = from /\ s.i < s.current
      /\ IF keys[chunk][j] = call[t].key
           THEN Goto(t, from, found) /\ Set(t, [s EXCEPT !.link = link, !.j = j])
           ELSE Goto(t, from, from) /\ Set(t, [s EXCEPT !.link = link, !.j = j + 1, !.i = s.i + 1])
      /\ UNCHANGED <<bucketVars, chunkVars, call, result>>

LoadSize(t, from, to) ==
  /\ Goto(t, from, to)
  /\ Set(t, [self[t] EXCEPT !.current = size[self[t].b]])
  /\ UNCHANGED <<bucketVars, chunkVars, call, result>>

Load(t) == LoadSize(t, "load", "scan")

Scan(t) == Compare(t, "scan", "fetch")

(* Searched all pairs of the last size read: only a larger size is a       *)
(* reason to go on.                                                        *)
Reload(t) ==
  LET more == size[self[t].b] > self[t].current
  IN  /\ pc[t] = "scan" /\ self[t].i = self[t].current
      /\ LoadSize(t, "scan", IF more THEN "scan"
                             ELSE IF call[t].op = "get" THEN "r_unlock" ELSE "try_lock")

Trylock(t) ==
  LET b == self[t].b
  IN  /\ Goto(t, "try_lock", IF insert_lock[b] THEN "spin_load" ELSE "locked_load")
      /\ insert_lock' = [insert_lock EXCEPT ![b] = TRUE]
      /\ UNCHANGED <<size, head, mode, chunkVars, call, self, result>>

SpinLoad(t) ==
  LoadSize(t, "spin_load", IF size[self[t].b] > self[t].current THEN "spin_scan" ELSE "try_lock")

SpinScan(t) == Compare(t, "spin_scan", "fetch")

SpinAgain(t) ==
  /\ Goto(t, "spin_scan", "try_lock")
  /\ self[t].i = self[t].current
  /\ UNCHANGED <<bucketVars, chunkVars, call, self, result>>

LockedLoad(t) == LoadSize(t, "locked_load", "locked_scan")

LockedScan(t) == Compare(t, "locked_scan", "found_unlock")

LockedScanEnd(t) ==
  LET s == self[t]
  IN  /\ Goto(t, "locked_scan",
              IF s.current = 0 \/ s.j = NPairsPerChunk THEN "new_chunk" ELSE "write")
      /\ s.i = s.current
      /\ UNCHANGED <<bucketVars, chunkVars, call, self, result>>

InsertUnlock(t, from, to) ==
  /\ Goto(t, from, to)
  /\ insert_lock' = [insert_lock EXCEPT ![self[t].b] = FALSE]
  /\ UNCHANGED <<size, head, mode, chunkVars, call, self, result>>

(* (mutant: the early return keeps the lock) *)
FoundKeepsLock(t) ==
  /\ Goto(t, "found_unlock", "fetch")
  /\ UNCHANGED <<bucketVars, chunkVars, call, self, result>>

FoundUnlock(t) == InsertUnlock(t, "found_unlock", "fetch")

(* *value = ( *chunk )->values[ j ], of a pair that was there ...          *)
Fetch(t) ==
  /\ Goto(t, "fetch", "r_unlock")
  /\ Return(t, Result(values[Deref(t)][self[t].j], call[t].op = "get"))
  /\ UNCHANGED <<bucketVars, chunkVars, call, self>>

-----------------------------------------------------------------------------
(* SCOREP_HASH_TABLE_NEW_CHUNK_NON_MONOTONIC and SCOREP_HASH_TABLE_INSERT_2 *)

(* A bucket keeps its own chunk when it becomes empty. *)
ReuseBucketChunk(t) ==
  LET b == self[t].b
  IN  /\ Goto(t, "new_chunk", "write")
      /\ self[t].current = 0 /\ head[b] # NULL
      /\ next' = [next EXCEPT ![head[b]] = NULL]
      /\ Set(t, [self[t] EXCEPT !.link = NULL])
      /\ UNCHANGED <<bucketVars, keys, values, allocated, free_list, call, result>>

FreeListPopped == IF free_list # NULL THEN next[free_list] ELSE NULL

(* A chunk of the free list, else a fresh one, becomes the bucket's first  *)
(* or the last of its chain.                                               *)
NewChunk(t) ==
  LET s == self[t]
      last == IF s.current = 0 THEN NULL ELSE Deref(t)
      chunk == IF free_list # NULL THEN free_list ELSE CHOOSE c \in Chunks \ allocated : TRUE
  IN  /\ Goto(t, "new_chunk", "write")
      /\ s.current = 0 => head[s.b] = NULL
      /\ free_list # NULL \/ allocated # Chunks
      /\ free_list' = FreeListPopped
      /\ allocated' = allocated \cup {chunk}
      /\ IF last = NULL
           THEN head' = [head EXCEPT ![s.b] = chunk] /\ next' = [next EXCEPT ![chunk] = NULL]
           ELSE head' = head /\ next' = [next EXCEPT ![last] = chunk, ![chunk] = NULL]
      /\ Set(t, [s EXCEPT !.link = last, !.j = 0])
      /\ UNCHANGED <<size, insert_lock, mode, keys, values, call, result>>

(* The key, and the value its constructor makes. *)
Write(t) ==
  /\ Goto(t, "write", "publish")
  /\ keys' = [keys EXCEPT ![Deref(t)][self[t].j] = call[t].key]
  /\ \E v \in Values : values' = [values EXCEPT ![Deref(t)][self[t].j] = v]
  /\ UNCHANGED <<bucketVars, next, allocated, free_list, call, self, result>>

Publish(t) ==
  /\ Goto(t, "publish", "inserted_unlock")
  /\ size' = [size EXCEPT ![self[t].b] = self[t].current + 1]
  /\ UNCHANGED <<head, insert_lock, mode, chunkVars, call, self, result>>

InsertedUnlock(t) == InsertUnlock(t, "inserted_unlock", "fetch_own")

(* ... and of the pair just inserted.                                      *)
FetchOwn(t) ==
  /\ Goto(t, "fetch_own", "r_unlock")
  /\ Return(t, Result(values[Deref(t)][self[t].j], TRUE))
  /\ UNCHANGED <<bucketVars, chunkVars, call, self>>

-----------------------------------------------------------------------------
(* The remove operations *)

(* The chunks from the first one to the end of its chain. *)
ChainFrom(first, links) ==
  LET chunk[n \in Nat] == IF n = 0 THEN first
                          ELSE IF chunk[n - 1] \in Chunks THEN links[chunk[n - 1]] ELSE NULL
      length == Cardinality({n \in 0 .. Cardinality(Chunks) : chunk[n] \in Chunks})
  IN  [n \in 1 .. length |-> chunk[n - 1]]
Chain(c) == ChainFrom(c, next)

(* Where the n-th pair of bucket b is (n = 0, 1, ...). *)
ChunkOf(b, n) == Chain(head[b])[(n \div NPairsPerChunk) + 1]
SlotOf(n) == n % NPairsPerChunk
KeyAt(b, n) == keys[ChunkOf(b, n)][SlotOf(n)]
ValueAt(b, n) == values[ChunkOf(b, n)][SlotOf(n)]

(* (mutant: i stays behind on the way to the last chunk) *)
LastSlotWithoutWalk(chunk, i, j, current) == (current - (i - j) - 1) % UINT32

(* SCOREP_HASH_TABLE_MOVE_LAST_TO_REMOVED: the last pair of the chain      *)
(* moves to slot j of chunk, whose first pair is number i - j.  A last     *)
(* chunk that becomes empty goes to the free list unless, for all the      *)
(* caller told us, it is the bucket's own.  An index outside the chunk is  *)
(* undefined behaviour, which is not modelled (see LastPairFound).         *)
LastSlot(chunk, i, j, current) ==
  (current - (i - j + NPairsPerChunk * (Len(Chain(chunk)) - 1)) - 1) % UINT32

(* Takes the last chunk out of the chain.                                  *)
(* (mutants: not at all; without storing it)                               *)
FreeLastNever(before, last) == UNCHANGED <<next, free_list>>
FreeLastLeaks(before, last) ==
  next' = [next EXCEPT ![before] = NULL] /\ UNCHANGED free_list

FreeLast(before, last) ==
  next' = [next EXCEPT ![before] = NULL, ![last] = free_list] /\ free_list' = last

(* (mutant: the value stays behind) *)
MovedValuesForgotten(chunk, j, last, slot) == values
MovedValues(chunk, j, last, slot) == [values EXCEPT ![chunk][j] = values[last][slot]]

MoveLastToRemoved(b, chunk, previous, i, j, current) ==
  LET rest == Chain(chunk)
      last == rest[Len(rest)]
      before == IF Len(rest) = 1 THEN previous ELSE rest[Len(rest) - 1]
      slot == LastSlot(chunk, i, j, current)
  IN  /\ slot \in Slots
      /\ keys' = [keys EXCEPT ![chunk][j] = keys[last][slot]]
      /\ values' = MovedValues(chunk, j, last, slot)
      /\ IF slot = 0 /\ before # NULL THEN FreeLast(before, last)
                                     ELSE UNCHANGED <<next, free_list>>
      /\ size' = [size EXCEPT ![b] = current - 1]

WriterLock(t) ==
  /\ Goto(t, "w_lock", IF call[t].op = "remove" THEN "remove" ELSE "visit")
  /\ \A u \in Threads : mode[self[t].b][u] = "out"
  /\ Lock(t, "write")
  /\ Set(t, IF call[t].op = "remove" THEN self[t]
            ELSE [self[t] EXCEPT !.link = head[self[t].b], !.current = size[self[t].b]])
  /\ UNCHANGED <<size, head, insert_lock, chunkVars, call, result>>

(* <prefix>_get_and_remove_impl *)
Remove(t) ==
  LET b == self[t].b
  IN  /\ Goto(t, "remove", "w_unlock")
      /\ \E n \in 0 .. size[b] - 1 :
           /\ KeyAt(b, n) = call[t].key
           /\ \A m \in 0 .. n - 1 : KeyAt(b, m) # call[t].key
           /\ Return(t, Result(ValueAt(b, n), TRUE))
           /\ MoveLastToRemoved(b, ChunkOf(b, n),
                IF n < NPairsPerChunk THEN NULL ELSE ChunkOf(b, n - NPairsPerChunk),
                n, SlotOf(n), size[b])
      /\ UNCHANGED <<head, insert_lock, mode, allocated, call, self>>

RemoveNothing(t) ==
  LET b == self[t].b
  IN  /\ Goto(t, "remove", "w_unlock")
      /\ \A n \in 0 .. size[b] - 1 : KeyAt(b, n) # call[t].key
      /\ UNCHANGED <<bucketVars, chunkVars, call, self, result>>

(* <prefix>_remove_if, one round of its inner loop.  The pair moved into   *)
(* the place of a removed one is looked at next.                           *)
Visiting(t) ==
  /\ pc[t] = "visit" /\ self[t].link # NULL
  /\ self[t].i < self[t].current /\ self[t].j < NPairsPerChunk

(* (mutant: goes on with the next slot, --outer_i and --outer_j are lost)   *)
VisitRemoveAdvances(t) ==
  LET s == self[t]
  IN  /\ Visiting(t)
      /\ keys[s.link][s.j] \in call[t].accepts
      /\ MoveLastToRemoved(s.b, s.link, NULL, s.i, s.j, s.current)
      /\ Set(t, [s EXCEPT !.i = s.i + 1, !.j = s.j + 1, !.current = s.current - 1])
      /\ UNCHANGED <<head, insert_lock, mode, allocated, pc, call, result>>

VisitRemove(t) ==
  LET s == self[t]
  IN  /\ Visiting(t)
      /\ keys[s.link][s.j] \in call[t].accepts
      /\ MoveLastToRemoved(s.b, s.link, NULL, s.i, s.j, s.current)
      /\ Set(t, [s EXCEPT !.current = s.current - 1])
      /\ UNCHANGED <<head, insert_lock, mode, allocated, pc, call, result>>

VisitKeep(t) ==
  LET s == self[t]
  IN  /\ Visiting(t)
      /\ keys[s.link][s.j] \notin call[t].accepts
      /\ Set(t, [s EXCEPT !.i = s.i + 1, !.j = s.j + 1])
      /\ UNCHANGED <<bucketVars, chunkVars, pc, call, result>>

VisitNextChunk(t) ==
  /\ pc[t] = "visit" /\ ~Visiting(t) /\ self[t].link # NULL
  /\ Set(t, [self[t] EXCEPT !.link = next[self[t].link], !.j = 0])
  /\ UNCHANGED <<bucketVars, chunkVars, pc, call, result>>

VisitEnd(t) ==
  /\ Goto(t, "visit", "w_unlock")
  /\ self[t].link = NULL
  /\ UNCHANGED <<bucketVars, chunkVars, call, self, result>>

WriterUnlock(t) ==
  /\ Leave(t, "w_unlock")
  /\ call[t].op = "remove_if" => self[t].b = HashTableSize
  /\ Lock(t, "out")
  /\ UNCHANGED <<size, head, insert_lock, chunkVars, result>>

NextBucket(t) ==
  /\ Goto(t, "w_unlock", "w_lock")
  /\ call[t].op = "remove_if" /\ self[t].b < HashTableSize
  /\ Lock(t, "out")
  /\ Set(t, [NoLocals EXCEPT !.b = self[t].b + 1])
  /\ UNCHANGED <<size, head, insert_lock, chunkVars, call, result>>

-----------------------------------------------------------------------------
InChains == UNION {Range(Chain(head[b])) : b \in Buckets}
InFreeList == Range(Chain(free_list))

(* <prefix>_free_chunks, in a serial context. *)
FreeChunks ==
  /\ \A t \in Threads : pc[t] = "idle"
  /\ allocated' = allocated \ (InChains \cup InFreeList)
  /\ size' = [b \in Buckets |-> 0]
  /\ head' = [b \in Buckets |-> NULL]
  /\ free_list' = NULL
  /\ keys' = [c \in Chunks |-> [j \in Slots |-> NULL]]
  /\ values' = [c \in Chunks |-> [j \in Slots |-> NULL]]
  /\ next' = [c \in Chunks |-> NULL]
  /\ UNCHANGED <<insert_lock, mode, pc, call, self, result>>

Reading(t) == \/ Load(t) \/ Scan(t) \/ Reload(t) \/ Fetch(t) \/ ReaderUnlock(t)
Inserting(t) == \/ Trylock(t) \/ SpinLoad(t) \/ SpinScan(t) \/ SpinAgain(t)
                \/ LockedLoad(t) \/ LockedScan(t) \/ LockedScanEnd(t) \/ FoundUnlock(t)
                \/ ReuseBucketChunk(t) \/ NewChunk(t) \/ Write(t) \/ Publish(t)
                \/ InsertedUnlock(t) \/ FetchOwn(t)
Removing(t) == \/ Remove(t) \/ RemoveNothing(t)
               \/ VisitRemove(t) \/ VisitKeep(t) \/ VisitNextChunk(t) \/ VisitEnd(t)
               \/ WriterUnlock(t) \/ NextBucket(t)

Next == FreeChunks \/ \E t \in Threads :
          \/ InvokeOnKey(t) \/ InvokeRemoveIf(t) \/ ReaderLock(t) \/ WriterLock(t)
          \/ Reading(t) \/ Inserting(t) \/ Removing(t)

Spec == Init /\ [][Next]_vars

(* A thread that holds a bucket's reader/writer lock keeps running.        *)
Fairness == \A t \in Threads : WF_vars(Reading(t) \/ Inserting(t) \/ Removing(t))

FairSpec == Spec /\ Fairness

-----------------------------------------------------------------------------
Location == {"idle", "r_lock", "load", "scan", "try_lock", "spin_load", "spin_scan",
             "locked_load", "locked_scan", "found_unlock", "fetch", "new_chunk", "write",
             "publish", "inserted_unlock", "fetch_own", "r_unlock",
             "w_lock", "remove", "visit", "w_unlock"}
CountRange == 0 .. Cardinality(Keys) + 1

(* Type invariant.  No count exceeds the number of keys by more than one:  *)
(* a chunk index that wrapped around below zero would.                     *)
TypeOK ==
  /\ size \in [Buckets -> CountRange]
  /\ head \in [Buckets -> Chunks \cup {NULL}]
  /\ insert_lock \in [Buckets -> BOOLEAN]
  /\ mode \in [Buckets -> [Threads -> {"out", "read", "write"}]]
  /\ keys \in [Chunks -> [Slots -> Keys \cup {NULL}]]
  /\ values \in [Chunks -> [Slots -> Values \cup {NULL}]]
  /\ next \in [Chunks -> Chunks \cup {NULL}]
  /\ allocated \subseteq Chunks
  /\ free_list \in Chunks \cup {NULL}
  /\ pc \in [Threads -> Location]
  /\ self \in [Threads -> [b : Buckets, i : CountRange, j : 0 .. NPairsPerChunk,
                           link : Chunks \cup {NULL}, current : CountRange]]
  /\ result \in [Threads -> [value : Values \cup {NULL}, flag : BOOLEAN]]

Pairs(b) == [n \in 0 .. size[b] - 1 |-> <<KeyAt(b, n), ValueAt(b, n)>>]

(* No chunk is lost, freed twice or shared: each one obtained from the     *)
(* user is in the chain of one bucket or in the free list.                 *)
ChunksConserved ==
  /\ InChains \cup InFreeList = allocated
  /\ InChains \cap InFreeList = {}
  /\ \A b, d \in Buckets : b # d => Range(Chain(head[b])) \cap Range(Chain(head[d])) = {}

(* Counts, slots and chunks fit together in every state between two steps  *)
(* of the calls (SCOREP_HASH_TABLE_NEW_CHUNK_NON_MONOTONIC,                *)
(* SCOREP_HASH_TABLE_MOVE_LAST_TO_REMOVED).                                *)
Conserved == TypeOK /\ ChunksConserved

(* "When a remove operation leads to an empty chunk, store this chunk in a *)
(* hash table specific free-list for later reuse": a chain has no empty    *)
(* chunk but the bucket's own, and the one an insert is about to fill.     *)
EmptyChunksAreFreed ==
  \A b \in Buckets :
    LET filling == \E t \in Threads : self[t].b = b /\ pc[t] \in {"write", "publish"}
    IN  head[b] # NULL =>
          Len(Chain(head[b])) <=
            (IF size[b] <= NPairsPerChunk /\ ~(filling /\ size[b] = NPairsPerChunk)
               THEN 1
               ELSE (size[b] + (IF filling THEN 1 ELSE 0) + NPairsPerChunk - 1) \div NPairsPerChunk)

(* What a removal relies on: from whichever pair of the bucket it starts,  *)
(* in whichever chunk, the walk to the end of the chain ends in the chunk  *)
(* of the last pair, and the unsigned difference of the count and the      *)
(* first index of that chunk is the slot of the last pair.  An empty chunk *)
(* that an earlier removal left in the chain would make it wrap around     *)
(* (SCOREP_HASH_TABLE_MOVE_LAST_TO_REMOVED).                               *)
LastPairFound ==
  \A b \in Buckets : (\E t \in Threads : mode[b][t] = "write") =>
    \A n \in 0 .. size[b] - 1 :
      LET rest == Chain(ChunkOf(b, n))
      IN  /\ rest[Len(rest)] = ChunkOf(b, size[b] - 1)
          /\ LastSlot(ChunkOf(b, n), n, SlotOf(n), size[b]) = SlotOf(size[b] - 1)

(* remove_if leaves no accepted pair behind in a bucket, although it moves *)
(* pairs it has not looked at yet while it goes through the bucket.        *)
RemoveIfRemovesAll ==
  \A t \in Threads : pc[t] = "w_unlock" /\ call[t].op = "remove_if" =>
    \A n \in 0 .. size[self[t].b] - 1 : KeyAt(self[t].b, n) \notin call[t].accepts

(* What lets readers search without the insert lock: while one is inside,  *)
(* published pairs stay where and what they are, and their number grows.   *)
PairsStableWhileRead ==
  [][\A b \in Buckets : (\E t \in Threads : mode[b][t] = "read") =>
       /\ size'[b] >= size[b]
       /\ \A n \in 0 .. size[b] - 1 : Pairs(b)'[n] = Pairs(b)[n]]_vars

(* The table implements AbstractMap.  An insert takes effect when it       *)
(* publishes the size, a search that found its key when it reads the       *)
(* value, and one that did not when the size has not grown.                *)
map == [k \in Keys |->
          LET places == {n \in 0 .. size[BucketIdx[k]] - 1 : KeyAt(BucketIdx[k], n) = k}
          IN  IF places = {} THEN NULL ELSE ValueAt(BucketIdx[k], CHOOSE n \in places : TRUE)]
done == [t \in Threads |->
           \/ pc[t] \in {"inserted_unlock", "fetch_own", "r_unlock"}
           \/ pc[t] = "w_unlock" /\ call[t].op = "remove"]
answer == [t \in Threads |->
             IF pc[t] \in {"inserted_unlock", "fetch_own"}
               THEN Result(values[Deref(t)][self[t].j], TRUE) ELSE result[t]]
Abstract == INSTANCE AbstractMap WITH result <- answer
Implements == Abstract!Spec

(* A call that got the bucket's reader/writer lock returns: nobody keeps   *)
(* insert_lock, and the searches catch up with the inserters.              *)
CallsReturn ==
  \A t \in Threads : pc[t] \notin {"idle", "r_lock", "w_lock"} ~> pc[t] \in {"idle", "w_lock"}
=============================================================================
