------------------------------ MODULE Segments ------------------------------
(***************************************************************************)
(* Per-arena identity bookkeeping (src/src/segments.rs): which stamp       *)
(* covers which slot of an arena.  An identity is the permanent `birth`    *)
(* stamp, the `current` stamp every new slot receives, the slot at which   *)
(* the current segment starts, a cache of the stamp just below that slot,  *)
(* and a table of archived segments sorted by their first slot.            *)
(*                                                                         *)
(* The module is a library of pure operators.  `Identity` (single thread)  *)
(* and `SharedIdentity` (concurrent) run the same algorithm over the same  *)
(* fields, so both Arena and SharedArena extend it.  Slots are numbered    *)
(* from 0, as in the code; sequences from 1, as in TLA+.                   *)
(***************************************************************************)
EXTENDS Integers, Sequences

CONSTANTS
    Stamp,      \* the stamps the process may ever draw
    NoStamp     \* raw value 0: "not yet assigned", and Option::None of a tail

ASSUME StampAssumption == NoStamp \notin Stamp

Segment == [start : Nat, stamp : Stamp]

(* The cache has no meaning, and no stamp in SharedIdentity, until the     *)
(* first commit above slot 0.                                              *)
Identity ==
    [birth : Stamp, current : Stamp, current_start : Nat,
     prefix_tail : Stamp \cup {NoStamp}, table : Seq(Segment)]

(* An arena that never issued a capability: an empty OnceLock in Arena,    *)
(* raw zeros in SharedIdentity.                                            *)
Unassigned ==
    [birth |-> NoStamp, current |-> NoStamp, current_start |-> 0,
     prefix_tail |-> NoStamp, table |-> << >>]

NewIdentity(stamp) ==
    [birth |-> stamp, current |-> stamp, current_start |-> 0,
     prefix_tail |-> stamp, table |-> << >>]

-----------------------------------------------------------------------------
(***************************************************************************)
(* The lookup.                                                             *)
(***************************************************************************)

(* slice::partition_point over the table with the predicate                *)
(* `start < bound`: the number of leading entries that satisfy it.         *)
PartitionPoint(table, bound) ==
    CHOOSE k \in 0 .. Len(table) :
        /\ k = 0 \/ table[k].start < bound
        /\ \A i \in k + 1 .. Len(table) : table[i].start >= bound

(* The archived segment covering `slot` is the rightmost one that starts   *)
(* at or below it; when there is none, the birth segment covers it.        *)
StampOfCold(birth, table, slot) ==
    LET covering == PartitionPoint(table, slot + 1)
    IN  IF covering = 0 THEN birth ELSE table[covering].stamp

StampOf(id, slot) ==
    IF slot >= id.current_start THEN id.current
    ELSE IF slot + 1 = id.current_start THEN id.prefix_tail
    ELSE StampOfCold(id.birth, id.table, slot)

(* Faulty variant: any slot may carry an archived stamp.                   *)
MatchesArchivedAnywhere(id, slot, stamp) ==
    StampOfCold(id.birth, id.table, slot) = stamp

(* The fallback of the reordered validation: `stamp` is not the current    *)
(* one, so only a slot below the current segment can still carry it.       *)
MatchesArchived(id, slot, stamp) ==
    /\ slot < id.current_start
    /\ StampOfCold(id.birth, id.table, slot) = stamp

-----------------------------------------------------------------------------
(***************************************************************************)
(* The commit of a new boundary.                                           *)
(***************************************************************************)

(* Faulty variant: the table is not compacted before the push.             *)
ArchiveUncompacted(id) ==
    IF id.current = id.birth
    THEN id.table
    ELSE Append(id.table, [start |-> id.current_start, stamp |-> id.current])

(* The table once the segment current so far has become history.  The      *)
(* birth segment is never archived: the lookup falls back to it.           *)
Archive(id) ==
    IF id.current = id.birth
    THEN id.table
    ELSE Append(SubSeq(id.table, 1, PartitionPoint(id.table, id.current_start)),
                [start |-> id.current_start, stamp |-> id.current])

(* Faulty variant: the cache always takes the segment just archived.       *)
PrefixTailAlwaysArchived(id, new_len) ==
    IF new_len = 0 THEN id.prefix_tail ELSE id.current

(* The cached stamp of slot new_len - 1, by the four cases of the code.    *)
PrefixTail(id, new_len) ==
    IF new_len = 0 THEN id.prefix_tail
    ELSE IF id.current = id.birth THEN id.birth
    ELSE IF new_len > id.current_start THEN id.current
    ELSE StampOfCold(id.birth, Archive(id), new_len - 1)

(* From here on every slot >= new_len belongs to the stamp `fresh`.        *)
Commit(id, new_len, fresh) ==
    [id EXCEPT !.table = Archive(id),
               !.current = fresh,
               !.current_start = new_len,
               !.prefix_tail = PrefixTail(id, new_len)]

(* Stamp::fresh unwound in the middle of a commit: the table is already    *)
(* rewritten, nothing else is.                                             *)
CommitUnwound(id) == [id EXCEPT !.table = Archive(id)]

-----------------------------------------------------------------------------
(***************************************************************************)
(* What a well-formed identity is.                                         *)
(***************************************************************************)

(* One entry per start, in ascending order: what the binary search needs,  *)
(* and what the compaction promises.                                       *)
Sorted(table) ==
    \A i, j \in DOMAIN table : i < j => table[i].start < table[j].start

(* The cache holds what the search would return for the slot just below    *)
(* the current segment.                                                    *)
TailCached(id) ==
    id.current_start > 0 =>
        id.prefix_tail = StampOfCold(id.birth, id.table, id.current_start - 1)

(* While the current segment is the birth segment, no commit happened.     *)
BirthUncommitted(id) ==
    id.current = id.birth => id.current_start = 0 /\ id.table = << >>

WellFormed(id) ==
    /\ Sorted(id.table)
    /\ TailCached(id)
    /\ BirthUncommitted(id)

(* The stamps a lookup can answer with.                                    *)
OwnStamps(id) ==
    {id.birth, id.current} \cup { id.table[i].stamp : i \in DOMAIN id.table }
=============================================================================
