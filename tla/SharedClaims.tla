---------------------------- MODULE SharedClaims ----------------------------
(***************************************************************************)
(* A sentence of the repository about SharedArena that the code does not   *)
(* keep when a chunk is too large to be allocated.                         *)
(***************************************************************************)
EXTENDS MCSharedArena

(* alloc and alloc_block: assert!(inserted, "reserved slot {slot} was      *)
(* already occupied"), which their documentation calls an internal         *)
(* invariant.                                                              *)
ReservedNeverOccupied ==
    \A t \in Threads :
        pc[t] = "set" /\ NextSlot(t) < Addressable => storage[NextSlot(t)] = Empty
=============================================================================
