--------------------------- MODULE ChunkedStorage ---------------------------
(***************************************************************************)
(* The storage of the concurrent arena (src/src/chunked_storage.rs).       *)
(* Slots live in chunks of doubling size, allocated by the first thread    *)
(* that writes into them.  Chunks and slots are OnceLocks: a second thread *)
(* that wants an uninitialized chunk waits for the first one, and becomes  *)
(* the initializer itself when that one panics.  `set` runs on any number  *)
(* of threads; `take` needs exclusive access.                              *)
(***************************************************************************)
EXTENDS Integers, FiniteSets

CONSTANTS
    Threads,
    NoThread,
    BITS,           \* usize::BITS, which is also the number of chunks
    Empty,          \* an empty slot
    Unallocated,    \* a chunk nobody has written to
    Allocatable,    \* chunks below this one fit in memory: the size of a
                    \* larger one overflows, and its allocation panics
    Indices,        \* bound: the slots clients write to
    MaxValues       \* bound: values written in the whole run

ASSUME StorageAssumption ==
    /\ BITS \in Nat \ {0} /\ Allocatable \in 0 .. BITS /\ MaxValues \in Nat
    /\ NoThread \notin Threads
    /\ Empty \notin Nat
    /\ \A k \in 0 .. BITS - 1 : Unallocated \notin [0 .. 2 ^ k - 1 -> Nat \cup {Empty}]

MaxUsize == 2 ^ BITS - 1
Slots == 0 .. MaxUsize - 1
Chunks == 0 .. BITS - 1

ASSUME IndicesAssumption == Indices \subseteq Slots

(* usize::leading_zeros.                                                   *)
LeadingZeros(n) ==
    CHOOSE z \in 0 .. BITS :
        /\ n < 2 ^ (BITS - z)
        /\ z < BITS => n >= 2 ^ (BITS - z - 1)

(* Faulty variant: the slot itself is split, not its successor.            *)
SplitIndexUnshifted(index) ==
    LET chunk == BITS - LeadingZeros(index) - 1
    IN  <<IF index = 0 THEN 0 ELSE chunk, IF index = 0 THEN 0 ELSE index - 2 ^ chunk>>

(* Where a slot lives.  usize::MAX has no successor: it is not a slot.     *)
SplitIndex(index) ==
    LET n     == index + 1
        chunk == BITS - LeadingZeros(n) - 1
    IN  <<chunk, n - 2 ^ chunk>>

Cell == [index \in Slots |-> SplitIndex(index)]
ChunkOf(index) == Cell[index][1]
OffsetOf(index) == Cell[index][2]

(* Faulty variant: the chunk is one slot short.                            *)
EmptyChunkShort(k) == [o \in 0 .. 2 ^ k - 2 |-> Empty]

(* alloc_chunk.                                                            *)
EmptyChunk(k) == [o \in 0 .. 2 ^ k - 1 |-> Empty]

-----------------------------------------------------------------------------

VARIABLES
    chunks,         \* chunks[k]: its slots, or Unallocated
    initializer,    \* initializer[k]: the thread inside get_or_init's closure
    pc, job,        \* the `set` each thread is in
    serial,         \* values written or rejected so far
    held            \* history: <<index, value>> of every set that returned true

vars == <<chunks, initializer, pc, job, serial, held>>

NoJob == [index |-> 0, value |-> 0]

Init ==
    /\ chunks = [k \in Chunks |-> Unallocated]
    /\ initializer = [k \in Chunks |-> NoThread]
    /\ pc = [t \in Threads |-> "idle"]
    /\ job = [t \in Threads |-> NoJob]
    /\ serial = 0
    /\ held = {}

Goto(t, l) == pc' = [pc EXCEPT ![t] = l]

(* is_set and try_get.                                                     *)
Content(index) ==
    IF chunks[ChunkOf(index)] = Unallocated THEN Empty
    ELSE chunks[ChunkOf(index)][OffsetOf(index)]

StartSet(t, index) ==
    /\ pc[t] = "idle" /\ serial < MaxValues
    /\ serial' = serial + 1
    /\ job' = [job EXCEPT ![t] = [index |-> index, value |-> serial + 1]]
    /\ Goto(t, "chunk")
    /\ UNCHANGED <<chunks, initializer, held>>

MyChunk(t) == ChunkOf(job[t].index)

(* get_or_init finds the chunk.                                            *)
FindChunk(t) ==
    /\ pc[t] = "chunk" /\ chunks[MyChunk(t)] # Unallocated
    /\ Goto(t, "slot")
    /\ UNCHANGED <<chunks, initializer, job, serial, held>>

(* Faulty variant: get, then set, instead of get_or_init.                  *)
ClaimChunkUnlocked(t) ==
    /\ pc[t] = "chunk" /\ chunks[MyChunk(t)] = Unallocated
    /\ initializer' = [initializer EXCEPT ![MyChunk(t)] = t]
    /\ Goto(t, "init")
    /\ UNCHANGED <<chunks, job, serial, held>>

(* get_or_init finds none, and no thread at work on it.  A thread that     *)
(* finds one at work waits.                                                *)
ClaimChunk(t) ==
    /\ pc[t] = "chunk" /\ chunks[MyChunk(t)] = Unallocated
    /\ initializer[MyChunk(t)] = NoThread
    /\ initializer' = [initializer EXCEPT ![MyChunk(t)] = t]
    /\ Goto(t, "init")
    /\ UNCHANGED <<chunks, job, serial, held>>

AllocChunk(t) ==
    /\ pc[t] = "init" /\ MyChunk(t) < Allocatable
    /\ chunks' = [chunks EXCEPT ![MyChunk(t)] = EmptyChunk(MyChunk(t))]
    /\ initializer' = [initializer EXCEPT ![MyChunk(t)] = NoThread]
    /\ Goto(t, "slot")
    /\ UNCHANGED <<job, serial, held>>

(* Faulty variant: the panic leaves the OnceLock claimed.                  *)
AllocChunkPanicsLocked(t) ==
    /\ pc[t] = "init" /\ MyChunk(t) >= Allocatable
    /\ job' = [job EXCEPT ![t] = NoJob]
    /\ Goto(t, "idle")
    /\ UNCHANGED <<chunks, initializer, serial, held>>

(* The collect panics with a capacity overflow: the OnceLock stays         *)
(* uninitialized and free, and `set` unwinds.                              *)
AllocChunkPanics(t) ==
    /\ pc[t] = "init" /\ MyChunk(t) >= Allocatable
    /\ initializer' = [initializer EXCEPT ![MyChunk(t)] = NoThread]
    /\ job' = [job EXCEPT ![t] = NoJob]
    /\ Goto(t, "idle")
    /\ UNCHANGED <<chunks, serial, held>>

Write(t) ==
    chunks' = [chunks EXCEPT ![MyChunk(t)][OffsetOf(job[t].index)] = job[t].value]

(* Faulty variant: an occupied slot is overwritten.                        *)
FillOccupied(t) ==
    /\ pc[t] = "slot"
    /\ Write(t)
    /\ held' = { h \in held : h[1] # job[t].index } \cup {<<job[t].index, job[t].value>>}
    /\ job' = [job EXCEPT ![t] = NoJob]
    /\ Goto(t, "idle")
    /\ UNCHANGED <<initializer, serial>>

(* OnceLock::set on an empty slot: `set` returns true.                     *)
Fill(t) ==
    /\ pc[t] = "slot" /\ Content(job[t].index) = Empty
    /\ Write(t)
    /\ held' = held \cup {<<job[t].index, job[t].value>>}
    /\ job' = [job EXCEPT ![t] = NoJob]
    /\ Goto(t, "idle")
    /\ UNCHANGED <<initializer, serial>>

(* On an occupied one: `set` returns false, the value is dropped.          *)
Reject(t) ==
    /\ pc[t] = "slot" /\ Content(job[t].index) # Empty
    /\ job' = [job EXCEPT ![t] = NoJob]
    /\ Goto(t, "idle")
    /\ UNCHANGED <<chunks, initializer, serial, held>>

(* take on an occupied slot.  On an empty one it returns None.             *)
Take(index) ==
    /\ \A t \in Threads : pc[t] = "idle"
    /\ Content(index) # Empty
    /\ chunks' = [chunks EXCEPT ![ChunkOf(index)][OffsetOf(index)] = Empty]
    /\ held' = { h \in held : h[1] # index }
    /\ UNCHANGED <<initializer, pc, job, serial>>

Step(t) ==
    \/ FindChunk(t) \/ ClaimChunk(t) \/ AllocChunk(t) \/ AllocChunkPanics(t)
    \/ Fill(t) \/ Reject(t)

Next ==
    \/ \E t \in Threads :
         \/ \E index \in Indices : StartSet(t, index)
         \/ Step(t)
    \/ \E index \in Indices : Take(index)

(* The scheduler runs every thread inside `set`; a thread that waits for a *)
(* chunk is woken when its initializer is done, and does not lose the race *)
(* to claim it to newcomers for ever.                                      *)
Fairness == \A t \in Threads : WF_vars(Step(t)) /\ SF_vars(ClaimChunk(t))

Spec == Init /\ [][Next]_vars /\ Fairness

-----------------------------------------------------------------------------
(***************************************************************************)
(* Properties.                                                             *)
(***************************************************************************)

TypeOK ==
    /\ \A k \in Chunks : chunks[k] \in {Unallocated} \cup [0 .. 2 ^ k - 1 -> Nat \cup {Empty}]
    /\ initializer \in [Chunks -> Threads \cup {NoThread}]
    /\ pc \in [Threads -> {"idle", "chunk", "init", "slot"}]
    /\ job \in [Threads -> [index : Slots, value : Nat]]
    /\ serial \in 0 .. MaxValues

(* Every slot up to the top of usize has a cell inside its chunk, chunk k  *)
(* covers the slots from 2^k - 1 in order, as its comment says, so no two  *)
(* slots share a cell; and a chunk is allocated with every cell that can   *)
(* be asked of it (split_index, alloc_chunk).                              *)
LayoutExact ==
    \A s \in Slots :
        /\ ChunkOf(s) \in Chunks
        /\ OffsetOf(s) \in 0 .. 2 ^ ChunkOf(s) - 1
        /\ s = 2 ^ ChunkOf(s) - 1 + OffsetOf(s)
        /\ chunks[ChunkOf(s)] = Unallocated \/ OffsetOf(s) \in DOMAIN chunks[ChunkOf(s)]

(* A value that `set` accepted stays in its slot until it is taken, and    *)
(* nothing else is in any slot: no chunk is allocated twice and no slot    *)
(* written twice, whichever threads race for them (get_or_init, set).      *)
AcceptedKept ==
    /\ \A h \in held : Content(h[1]) = h[2]
    /\ \A s \in Slots : Content(s) # Empty => <<s, Content(s)>> \in held

(* Every `set` returns or panics: a thread that waits for a chunk does not *)
(* wait for ever, also when the thread that allocates it panics.           *)
SetsReturn ==
    \A t \in Threads : pc[t] # "idle" ~> pc[t] = "idle"

(* Seen through split_index the chunks are one array of slots.             *)
Array == INSTANCE SlotArray WITH
    Value <- 1 .. MaxValues, slots <- [s \in Slots |-> Content(s)]

ImplementsArray == Array!Spec
=============================================================================
