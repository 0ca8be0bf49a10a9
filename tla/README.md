# A verification project for safe-bump

TLA+ models of the `safe-bump` crate, the runs that check them with TLC, and
theorems about them checked by TLAPS. Paths are relative to the repository
(`src/README.md`, `src/src/arena.rs`).

## 1. The system

`safe-bump` is a typed bump arena without unsafe code. An arena hands out
*capabilities*: an `Idx` (stamp, slot) that names one value, a `Block` of
consecutive ones, a `Checkpoint` (owner, length, tail stamp) that names a
prefix. Capabilities are plain `Copy` data: they outlive rollbacks, resets,
drains and the arena itself, so every use is validated. The correctness of the
crate is the exactness of that validation.

| part | source | state | operations | interacts with |
|---|---|---|---|---|
| stamps | `stamp.rs` | `NEXT_STAMP`, one `StampPool` per thread | `Stamp::fresh` | drawn from by every arena of the process |
| segments | `segments.rs` | `birth`, `current`, `current_start`, `prefix_tail`, `table` | `stamp_of`, `matches`, `commit`, `assign` | owned by one arena; draws stamps |
| arena | `arena.rs` | `items`, `identity`, the mirror `current` | `alloc`, `alloc_block`, `checkpoint`, `try_rollback`, `reset`, `drain`, `iter_indexed`, `into_iter`, validation | runs destructors of the values it drops |
| shared arena | `shared_arena.rs` | `identity` (atomics), `storage`, `reserved`, `published` | the same; allocation, `checkpoint` and validation through `&self` | threads meet in its atomics |
| chunked storage | `chunked_storage.rs` | `OnceLock` chunks of `OnceLock` slots | `set`, `get`, `is_set`, `take` | used by the shared arena |
| block | `block.rs` | start, length, stamp | `get`, `contains`, `indices` | built by `alloc_block` |
| checkpoint, index | `checkpoint.rs`, `idx.rs` | none of their own | comparison, formatting | |
| iterators | `iter.rs` | a position | `next` | re-issue indices from an identity |
| tests, benchmarks, tooling | `src/tests`, `benches`, `benchmarks` | | | not part of the program |

What makes each part correct, and what is hard about it:

* **stamps.** No stamp is drawn twice in the process. Threads race in
  `fetch_update`, exit with part of a range unused, and the counter ends.
* **segments.** Every slot is answered with the stamp it was filled under until
  a commit passes below it. The lookup has three paths (current, cached,
  binary search), the table is compacted, and a commit can unwind half way.
* **arena.** An index is accepted exactly until an operation revokes it. A
  destructor may panic in the middle of a rollback and the arena be used again;
  slots and lengths recur (ABA); two caches must follow the identity; several
  arenas share nothing but the stamps.
* **shared arena.** The same, while threads allocate: the identity is assigned
  by a race over two atomics, ranges are reserved before they are filled, any
  thread advances the prefix over the slots of others, and a call waits for
  slots it does not own.

`PROJECT.json` lists the hazards line by line, with the properties that watch
each of them.

## 2. Modules

| module | models | how it corresponds to the code |
|---|---|---|
| `Segments` | `Identity` | pure operators over one record; `Commit` is `Identity::commit`, `Archive` its table part, `PrefixTail` its `match`, `StampOf` and `MatchesArchived` the lookups |
| `Arena` | `Arena<T>` | one action per operation; extends `Segments`; any number of arenas over one set of stamps |
| `CapabilityLog` | the promise of `Arena<T>` | abstract: a log in which every entry carries a tag of its own, and a cut retags the entries it leaves above |
| `StampPool` | `Stamp::fresh` | the load and the CAS of `fetch_update` are two steps; a relaxed load may be stale |
| `StampSequence` | the promise of `Stamp::fresh` | abstract: every draw returns a stamp never drawn |
| `SharedArena` | `SharedArena<T>`, `SharedIdentity` | one action per atomic access of a `&self` call; extends `Segments`; exclusive operations are one step |
| `SharedLog` | the promise of `SharedArena<T>` | abstract: whole blocks are added to one log, everybody sees the same growing prefix, indices come back once their block can be seen |
| `ChunkedStorage` | `ChunkedStorage<T>` | `split_index` as an operator; a chunk is a `OnceLock` that threads race to initialize, or whose initialization panics |
| `SlotArray` | the promise of `ChunkedStorage<T>` | abstract: one array of slots, each filled at most once between two `take`s |
| `Block` | `Block`, `BlockIndices` | the derivations as operators; `next` and `next_back` as actions on two offsets |
| `SegmentsProof`, `ArenaProof`, `ArenaLogProof`, `StampPoolProof`, `BlockProof`, `SharedArenaProof`, `SharedLogProof`, `ChunkedStorageProof` | | inductive invariants, theorems and proofs |
| `ArenaClaims`, `SharedClaims` | | sentences of the repository that the code does not keep |
| `MCArena`, `MCSharedArena` | | symmetry for TLC |

The modules stand on one another's promises. `Arena` and `SharedArena` draw
stamps as `StampSequence` says (`Stamp \ used`); `StampPool` implements it
(`ImplementsSequence`). `SharedArena` writes its storage as
`SlotArray` says; `ChunkedStorage` implements it (`ImplementsArray`). `Arena`
implements `CapabilityLog` (`ImplementsLog`) and, where every slot can be
addressed, `SharedArena` implements `SharedLog` (`ImplementsSharedLog`). All four
refinements are checked and proved. A definition marked *Faulty
variant* is a plausible bug; each property is confirmed to fail under one of them
(`mutants` in `PROJECT.json`).

### Abstractions

* A value is a serial number. Two values are never equal, so a slot that holds
  "the same value" holds the very value stored for that index.
* `iter_indexed` loads its length once and yields the slots below it from 0 up. One
  turn of it is one action (`IterIndexed`) that may yield any slot below the length
  loaded, so an iterator may stop or be left at any point while others allocate.
* **Validation** (`is_valid`, `validate_checkpoint`) is a predicate on one state in
  both arenas. In `SharedArena` its several loads are not interleaved: an index or
  checkpoint handed to a thread brings the values the loads need with it, and
  nothing they read changes an answer before the next exclusive operation, except
  that the prefix grows.
* `SharedArena` is modelled alone: a client passes it only capabilities it issued
  itself. That an arena rejects those of another is checked and proved for `Arena`
  only (`ForeignRejected`).
* History variables (`live`, `stale`, `saved`, `spoiled`) record each
  capability handed out and whether an operation has revoked it since. Guards
  read them only to choose the checkpoint a client passes, so the client may
  pass any checkpoint it was ever given, to any arena. What a capability
  records beyond the code's fields (`arena`, `value`, `prefix`) is history too
  and is read by properties only.
* **Destructor panics.** The drop loop runs from the highest slot down and may
  stop after any drop: the model keeps any prefix at least as long as the
  target (`DropSuffix`, `Unpublish`). In the shared arena both counters are on
  that prefix when a destructor runs, because they are lowered before the slot
  is taken.
* **Stamp exhaustion.** A draw may panic in any state, since another thread's
  pool may still hold stamps after one thread has run out. In a commit the
  draw comes after the table was rewritten (`CommitUnwound`); elsewhere it
  comes before any change.
* An input iterator that panics changes nothing (the input is collected first),
  and an iterator that re-enters a shared arena is an earlier call of the same
  thread. Both are behaviours of the model without an action of their own.
* **Memory order** (`SharedArena`, `StampPool`). A relaxed or acquire load may
  return any value the variable had since the thread last saw a newer one
  (`view`, `seen`). Having seen a published slot implies having seen the
  identity, by the release of `published` and the acquire that read it.
  Exclusive access synchronizes every thread.
* `Arena` is `Sync`, so threads that share one may call `checkpoint(&self)` at
  once. `EnsureIdentity` is one step all the same: `OnceLock::get_or_init` draws
  one stamp, stores the mirror inside the initialization, and gives every caller
  that stamp.
* **Chunks that cannot be allocated.** A chunk whose size in bytes overflows
  makes `set` panic (capacity overflow) instead of aborting the process, within
  reach of 32-bit targets and very large values. `Addressable` is the first slot
  of such a chunk (2^k - 1 for chunk k), or `MaxSlots` where every chunk can be
  allocated. `alloc_block` then unwinds with its range reserved and partly filled
  (`SetPanics`).
* Capacity (`reserve`, `shrink_to_fit`, `with_capacity`), in-place mutation of
  values, formatting, ordering and hashing are left out: no validation depends
  on them. Running out of memory aborts the process and is no behaviour.

## 3. Runs

| run | instance | states | shows |
|---|---|---|---|
| `arenas` | 2 arenas, 4 stamps, 3 values | 117,633 | exact, unique and foreign-proof capabilities over every order of operations; `CapabilityLog` implemented; the invariant of the proofs, `IInv` |
| `pool` | 3 threads, ranges of 2, raw values up to 8, 5 draws | 25,314 | no stamp drawn twice, ranges disjoint, exhaustion final, `StampSequence` implemented, every reservation ends; the invariant of the proofs, `IInv` |
| `shared_race` | 3 threads, 2 slots, 3 values, 2 stamps | 803,661 | the identity race, reservation up to the limit, publication, panics and exhaustion |
| `shared_reuse` | 2 threads, 3 slots, 3 values, 3 stamps | 296,426 | exact capabilities when rollbacks recycle slots between concurrent phases; `SharedLog` implemented |
| `shared_holes` | 2 threads, 5 slots of which 3 can be allocated, 6 values, 2 stamps, 1 checkpoint | 3,796,720 | indices stay exact, and no call waits in vain, after blocks that panicked half way |
| `shared_live` | 2 threads, 3 slots, 2 values | 38,155 | every concurrent call returns or panics |
| `storage_race` | 3 threads, 4-bit usize, 3 chunks of 4, 4 slots written | 14,700 | cells are one per slot, a value is kept by exactly the `set` that reported success, `SlotArray` implemented, every `set` ends |
| `block_ends` | every block of a usize up to 6 | 782 | each index comes out once; membership is exact up to the top of usize |
| `claim_*` | as `arenas` with 1 arena and 4 values; `claim_occupied`: 1 thread, 4 slots of which 3 can be allocated | | the divergences of section 6 |

**Bounds.** `Stamp` bounds the number of commits, `MaxValues` the values stored,
`MaxBlock` a block. Four stamps over two arenas give one arena a birth segment
and up to two commits beside the other's birth, or three beside none: the first
commit archives nothing, the second pushes the first entry of the table, the
third compacts it, so each case of `commit` and each path of `stamp_of` occurs,
over boundaries 0 to 3. Two arenas are enough for "foreign" since arenas share
only stamps; the theorems lift all of these bounds for `Arena`. In the shared
arena three threads give the identity race a winner, a loser and an exhausted
draw, and let one thread fill, one wait and one advance; `MaxSlots` stands for
`usize::MAX` and is reached in `shared_race` (not in `shared_live`, whose two values
fit). In `shared_holes` six values are the fewest with which a block leaves a value
behind, an exclusive operation takes the rest, and then one thread waits for a slot
that the other is filling below the value left over. The price is the constraint
`OneCheckpoint`: clients are given one checkpoint in the whole run, of any length;
`shared_reuse` has no such bound. A waiting thread beside a slot that an earlier call
abandoned needs a third thread and is left to the theorem. An abandoned slot that is
still empty with a usable empty slot above it is not a behaviour of the code at all:
a call stops at the first slot out of reach, or at a value left over, and above
such a value every slot within reach is filled. That is what `Served` says (section 4).
`LOCAL_RESERVATION_LEN` is 2 (256 in the code) and
`MaxRaw` a handful: the pool sees a fresh range, a partly used one, an abandoned
one, and a last range that does not fit. In the storage the four slots lie on both
sides of two chunk boundaries, the last of them in the chunk that cannot be
allocated; the layout itself (`LayoutExact`) is checked over the whole 4-bit
range. `Block` runs over every start and length up to the last representable slot.

Deadlock is not checked: a bounded model stops when its values and stamps are
spent, and a client may stop at any time. What must not stop is covered by
`CallsReturn`, `WaitsServed`, `ReserveReturns` and `SetsReturn`.

**Fairness.** `FairSpec` in `SharedArena` asks that a thread inside a call keeps
running (weak fairness of `Step`), that a thread that loads `published` again and
again eventually sees its latest value, that a set slot eventually becomes
visible, and that a weak CAS does not fail spuriously for ever (strong fairness
of `LoadPublished`, `Probe`, `Advance`). The first is the operating system's
scheduling, the next two are what Rust's memory model recommends of atomic
stores, the last is why the code may loop on `compare_exchange_weak`. No client
operation is fair: nobody has to call anything.

`StampPool` assumes the same of a thread inside `fetch_update`: `RetryLatest` and
`Reserve` are strongly fair, `Exhausted` weakly. `fetch_update` is lock-free and
not wait-free, so this alone would not make every reservation end. What does is
that the counter is finite and only grows: competitors can win only so often
before the next range is out of reach and the loop ends in the exhaustion panic.

`ChunkedStorage` assumes that a thread inside `set` keeps running (weak fairness
of `Step`) and that a thread that waits for a chunk nobody is initializing any
more gets its turn (strong fairness of `ClaimChunk`): `OnceLock::get_or_init`
wakes its waiters when an initializer panics, and each of them panics in turn.

## 4. Theorems

`ArenaProof` proves, for any sets of arenas and stamps and any bounds:
`TypeCorrect`, `IndicesAreExact`, `CheckpointsAreExact`, `ForeignAreRejected`,
`CachesStayCoherent` and `RejectionIsFinal`. The only assumptions are that raw
zero is not a stamp (`StampAssumption`) and that the bounds are naturals (`MaxBlock` at least 1).

None of these properties is inductive: `IndicesExact` says what validation
answers now, but not why a commit at some boundary keeps the answer right for
slots below it. The invariant `IInv` adds why:

* `IdentitiesSound`: an identity is well formed (sorted table, exact
  `prefix_tail`, birth segment never archived), and below `current_start` no
  slot is answered with the current stamp. This is what lets the code compare
  stamps before slots;
* `MirrorsIdentity`: the mirror follows the identity, and an arena without
  identity is empty;
* `StampsApart` and `IndicesKnown`: arenas own disjoint sets of drawn stamps, and
  every index carries a stamp no other arena owns;
* `LiveCovered`, `StaleUncovered`, `SavedCovered`, `SpoiledUncovered`: live
  capabilities are covered by their stamp, revoked ones are not.

The step that matters is the commit. `SegmentsProof` proves it apart, as
`CommitFacts`: on a well-formed identity a commit with a fresh stamp answers
`fresh` from the boundary up and exactly what it answered before below it,
through compaction and whatever the boundary; and `CommitUnwoundFacts`: a
commit that unwinds at the draw changes no answer. They rest on `PartitionPointType`
and its companions: on a sorted table the binary search returns the unique
split point. `ArenaProof` then takes the actions one by one.

`ArenaLogProof` builds on it. `ArenaImplementsLog` shows that every step of `Arena`
is a step of `CapabilityLog` or changes nothing of it: the tag of slot k is
`StampOf(identity, k)`, and `CommitFacts` says precisely that a commit retags the
slots from the boundary up. `ValidationIsTagComparison` shows that the reordered
validation, current stamp first, answers as a look at that tag would.
`EqualMeansSame` shows that capabilities that compare equal are one capability: a
new one is live, and a live one differs from every other by `IInv`; of two
revoked ones both were there before the step.

`BlockProof` proves, for any width of `usize` and any block that fits it,
`EveryIndexOnce` and `MembershipIsExact`. The invariant adds that the two offsets
are where the two histories say.

`StampPoolProof` proves, for any threads, range length, limit and number of
draws (`PoolAssumption`): `TypeCorrect`, `DrawsAreUnique`, `RangesAreDisjoint`,
`ExhaustionIsFinal` and `PoolsImplementSequence`. `DrawsUnique` is not inductive: a
draw is new because the range it comes from was never dispensed elsewhere
(`RangesDisjoint`), and a range is new because the CAS compared the whole counter
with a value no newer than it, in a thread with nothing left to dispense
(`ReservationsKnown`). `IInv` is the conjunction of these with `TypeOK`.
`PoolsImplementSequence` is what entitles `Arena` and `SharedArena` to draw from
`Stamp \ used`.

`SharedArenaProof` proves, for any number of threads, slots, stamps and values, and
wherever the first chunk lies that cannot be allocated (`SharedAssumption`):
`TypeCorrect`, `IndicesAreExact`, `CheckpointsAreExact`, `IdentityIsAgreed`,
`WaitsAreServed` and `PublishedIsStable`; and, where every slot can be addressed,
`NoSlotLost` (`PublishedFilled`) and `AssertionsNeverFire` (`NoSlotOccupied`). That
condition, `Addressable = MaxSlots`, no real target meets to the letter, since the last
chunks of a 64-bit or 32-bit `usize` are always too large. What it stands for is the
runs in which no call ever reserves past the first slot that cannot be allocated;
on a 64-bit target memory ends long before that slot. Without it the two are false
(`ReservedNeverOccupied`, section 6). Two invariants carry the theorems.

`IInv` says why the steps of one thread cannot harm another:

* `IdentitySound` and `IdentityClaimed`: the identity is absent, or claimed by the
  one thread that will store it, or complete and well formed. `ViewFollows`: a
  thread that may still read 0 is in the phase in which the identity was
  assigned, so whatever stamp it ends up with is the birth stamp too;
* `RangeSound` and `RangesApart`: a call that has reserved holds the current stamp
  and a range of its own below `reserved`, and the values stored so far are in
  place. `CountersSound`: every published slot is filled;
* `MarkSound`: the checkpoint a thread is building names a prefix that is in
  place, although the stamp of its tail was read earlier;
* `LiveCovered`, `StaleUncovered`, `IndicesKnown`, `SavedCovered`,
  `SpoiledUncovered`, `CheckpointsKnown`: as in `ArenaProof`.

A step of one thread fills slots and moves counters up, and leaves the other
threads' locals alone (`SharedKept`). `ThreadStep` proves once that this keeps
everybody's part of the invariant, so that each action has to establish only its
own (`Established`). The exclusive operations are one lemma, `ExclusiveCut`, with
`CommitFacts` at its heart.

`Served` says what calls that panicked leave behind. Such a call stopped at a
slot that cannot be addressed, or at a value left over by an earlier one; so a
value left over has no empty slot between it and the first slot out of reach,
and a slot that somebody may wait for is still being filled by a call that
meets no obstacle before it. No leftover ever arises where every slot can be
addressed, which is why the assertions hold there. TLC found `IInv` and `Served`
true on the instances of the `shared_*` runs before they were proved.

`SharedLogProof` proves `SharedArenaImplementsLog`: where every slot can be addressed,
each step of each thread is a step of `SharedLog` or changes nothing of it. In the
log an entry has its value as soon as its slot is reserved, in the program only
when its thread gets round to storing it; so the mapping (`ValueAt`) looks the value
up in the call that will store it, and the proof is about that promise being
kept:

* `Supplied`: the values of a call are new, and within the bound;
* `ValuesSound`: a reserved slot holds its value or lies in the range of exactly one
  call, and a value already stored is the one the call had for that slot. It
  follows from `IInv` and `Served` (`ValuesFollow`): `RangesApart` makes the call
  unique, and no leftover stands where its value should go.

`ValuesKept` then says that a step which only fills slots changes no entry, and
`LogKept` that it changes nothing of the log. With these, `Reserve` is `Add`
(`ReserveLog`), the CAS on `published` is `Reveal`, the load that lets a call return
is `Return`, the load that ends `checkpoint` is `Mark`, the winning CAS of the identity
race is `Open` and a losing one `Waste`; the exclusive operations are `Cut` (`CutLog`,
by `CommitFacts`, on counters that agree by `PublishedFilled`), and everything else is a
stutter. Where some slot cannot be addressed a block may panic half way, which
`SharedLog` has no step for.

`ChunkedStorageProof` proves, for any width of `usize`, any number of threads, and
wherever the first chunk lies that cannot be allocated: `TypeCorrect`,
`LayoutIsExact`, `AcceptedValuesAreKept` and `StorageImplementsArray`. What
`StorageAssumption` adds for it is only that the marks for an empty slot and for an
absent chunk differ from a value and from a chunk.

* The layout first. `LeadingZeros` is characterized by powers of two, and the prover
  knows nothing of 2^k beyond its definition in the library as the number of
  subsets of a set of k elements (`FS_SUBSET`). So `PowerDoubles` counts: the subsets of
  1 .. n + 1 without n + 1 and those with it are equally many, hence
  2^(n+1) = 2 * 2^n. That `LeadingZeros(n)` exists is the least k with n < 2^k
  (`LeastElement`). `CellFacts` then gives every slot its cell, by the equation of
  the code's comment, and `CellsApart` makes cells distinct.
* The invariant `IInv` adds to `AcceptedKept` that a chunk with an initializer is
  still unallocated, that a thread inside the closure of `get_or_init` is the
  initializer of its chunk (`ClaimsSound`), and that a thread about to fill a slot has
  seen its chunk allocated and carries a value drawn before (`JobsSound`). `AllocChunk`
  is the step that matters: it must not wipe out a filled slot, and cannot, since the
  chunk it replaces was still unallocated. TLC found `IInv` true on the instance of
  `storage_race`.
* `CellWritten` and `AllocKeepsContent` say what a step does to the array seen through
  `split_index`: writing a cell changes one slot, allocating a chunk none. That is
  the refinement of `SlotArray`.

Only model-checked: liveness (`CallsReturn`, `ReserveReturns`, `SetsReturn`), which is out
of this prover's reach. Every other property of every run is a theorem.

## 5. Not modelled

* The borrow checker: that `&mut self` excludes `&self` is the language's
  guarantee, and is the guard `Exclusive` here.
* Exhaustion of memory, and the contents of destructors beyond "may panic".
* The crate root (re-exports), the tests, benchmarks and tooling: they hold none
  of the program's logic.

## 6. Where the documents and the code differ

None of these affects the safety of a capability. The first three are sentences of
the documentation, the last is a panic the code calls impossible.

* `GrowsOnlyForward`: a comment in `commit` and the README say the archive grows
  only at a commit past the previous boundary. The second reset of an arena
  makes it grow too.
* `ArchiveBelowBoundary`: the README says a commit drops the archived entries at
  or after the *new* boundary; the code drops those at or after the *old* one.
* `DivergedMeansReplaced`: `DivergedPrefix` is documented as "discarded and later
  replaced"; after a panicking destructor it is also returned for a checkpoint
  whose values are all still in place.
* `ReservedNeverOccupied`: `alloc` and `alloc_block` assert that a slot they
  reserved is empty. After a block panicked half way (a chunk that cannot be
  allocated), `reset` and `try_rollback` lower `reserved` below the slots it had
  filled but not published; the next allocation that reaches one panics, and so
  does every later one.

## 7. Plan

Done, in this order: `Segments`, `Arena`, their proofs, `StampPool`, `SharedArena`,
the proof of `StampPool`; then `ChunkedStorage` and `SlotArray`, `Block`, the
abstract specifications `CapabilityLog` and `SharedLog` and the refinements to
them, stale slots after a half-filled block, the proofs of `Block` and of the
refinement of `Arena`, the proofs of `SharedArena`, the proof of `ChunkedStorage` and
of its refinement of `SlotArray`, and the proof that `SharedArena` implements
`SharedLog`.

Next, to prove: a `SharedLog` with abandoned blocks, whose entries may stay empty, and
that `SharedArena` implements it wherever the first slot lies that cannot be
addressed. `Served` is the invariant it needs.
