------------------------------- MODULE Block --------------------------------
(***************************************************************************)
(* The capability of a batch, and the two-ended iterator over its indices  *)
(* (src/src/block.rs).  A block is plain data; the iterator is a pair of   *)
(* offsets that `next` and `next_back` move towards each other.            *)
(***************************************************************************)
EXTENDS Integers, Sequences

CONSTANTS
    Stamp,
    NoStamp,        \* Option::None of a block's stamp
    None,           \* Option::None of an index
    MaxUsize        \* usize::MAX

ASSUME BlockAssumption ==
    /\ NoStamp \notin Stamp
    /\ MaxUsize \in Nat
    /\ None \notin [stamp : Stamp, slot : 0 .. MaxUsize]

Usize == 0 .. MaxUsize
Idx == [stamp : Stamp, slot : Usize]

EmptyBlock == [stamp |-> NoStamp, start |-> 0, len |-> 0]

(* Block::new panics unless the last slot is representable.                *)
Blocks ==
    {EmptyBlock} \cup
    { b \in [stamp : Stamp, start : Usize, len : Usize \ {0}] :
        b.start + (b.len - 1) <= MaxUsize }

(* Faulty variant: the bound of the block is included.                     *)
GetInclusive(b, offset) ==
    IF offset <= b.len /\ b.stamp # NoStamp /\ b.start + offset <= MaxUsize
    THEN [stamp |-> b.stamp, slot |-> b.start + offset] ELSE None

Get(b, offset) ==
    IF offset < b.len /\ b.stamp # NoStamp /\ b.start + offset <= MaxUsize
    THEN [stamp |-> b.stamp, slot |-> b.start + offset] ELSE None

First(b) ==
    IF b.stamp # NoStamp THEN [stamp |-> b.stamp, slot |-> b.start] ELSE None

Last(b) == Get(b, IF b.len = 0 THEN 0 ELSE b.len - 1)

Contains(b, idx) ==
    /\ b.stamp # NoStamp
    /\ idx.stamp = b.stamp /\ idx.slot >= b.start /\ idx.slot - b.start < b.len

-----------------------------------------------------------------------------

VARIABLES
    block,          \* the block iterated over
    front, back,    \* BlockIndices: offsets [front, back) are still to come
    ahead, behind,  \* history: what next and next_back returned, in order
    ended           \* history: some call returned None

vars == <<block, front, back, ahead, behind, ended>>

(* Block::indices, on any block an arena can hand out.                     *)
Init ==
    /\ block \in Blocks
    /\ front = 0 /\ back = block.len
    /\ ahead = << >> /\ behind = << >>
    /\ ended = FALSE

(* BlockIndices::next.                                                     *)
NextFront ==
    /\ front # back
    /\ front' = front + 1
    /\ ahead' = Append(ahead, Get(block, front))
    /\ UNCHANGED <<block, back, behind, ended>>

(* Faulty variant: the offset is read before it is moved.                  *)
NextBackLate ==
    /\ front # back
    /\ back' = back - 1
    /\ behind' = Append(behind, Get(block, back))
    /\ UNCHANGED <<block, front, ahead, ended>>

(* BlockIndices::next_back.                                                *)
NextBack ==
    /\ front # back
    /\ back' = back - 1
    /\ behind' = Append(behind, Get(block, back'))
    /\ UNCHANGED <<block, front, ahead, ended>>

(* Either end, with nothing left: None, now and on every later call.       *)
NextNone ==
    /\ front = back
    /\ ended' = TRUE
    /\ UNCHANGED <<block, front, back, ahead, behind>>

Next == NextFront \/ NextBack \/ NextNone

Spec == Init /\ [][Next]_vars

SizeHint == back - front

-----------------------------------------------------------------------------
(***************************************************************************)
(* Properties.                                                             *)
(***************************************************************************)

TypeOK ==
    /\ block \in Blocks
    /\ front \in Usize /\ back \in Usize
    /\ ahead \in Seq(Idx) /\ behind \in Seq(Idx)
    /\ ended \in BOOLEAN

(* Whatever the mix of next and next_back, the two ends meet: together     *)
(* they return every index of the block once, in slot order from the front *)
(* and in reverse from the back, None only when all have been returned,    *)
(* and size_hint tells exactly how many are left (BlockIndices).           *)
EachIndexOnce ==
    /\ \A k \in DOMAIN ahead :
         ahead[k] = [stamp |-> block.stamp, slot |-> block.start + (k - 1)]
    /\ \A k \in DOMAIN behind :
         behind[k] = [stamp |-> block.stamp, slot |-> block.start + (block.len - k)]
    /\ Len(ahead) + Len(behind) + SizeHint = block.len
    /\ ended => SizeHint = 0

(* A block contains exactly the indices that can be derived from it, its   *)
(* first and last among them, up to the top of usize (Block::get,          *)
(* contains, first, last).                                                 *)
MembershipExact ==
    /\ \A idx \in Idx :
         Contains(block, idx) <=> \E k \in Usize : Get(block, k) = idx
    /\ \A k \in Usize : k < block.len <=> Get(block, k) # None
    /\ First(block) = Get(block, 0)
    /\ Last(block) # None =>
         \A idx \in Idx : Contains(block, idx) => idx.slot <= Last(block).slot

(* The inductive invariant: the offsets are where the histories say.       *)
IInv ==
    /\ TypeOK
    /\ front = Len(ahead) /\ back = block.len - Len(behind)
    /\ front <= back
    /\ EachIndexOnce
=============================================================================
