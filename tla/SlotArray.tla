----------------------------- MODULE SlotArray ------------------------------
(***************************************************************************)
(* What ChunkedStorage promises SharedArena: an array of slots, each of    *)
(* which is filled at most once between two `take`s and never moves.       *)
(* SharedArena uses its storage this way (`storage[slot]`, a write to an   *)
(* empty slot, a `take` under exclusive access).                           *)
(***************************************************************************)

CONSTANTS Slots, Value, Empty

VARIABLE slots

Init == slots = [s \in Slots |-> Empty]

Set(s, v) == slots[s] = Empty /\ slots' = [slots EXCEPT ![s] = v]

Take(s) == slots[s] # Empty /\ slots' = [slots EXCEPT ![s] = Empty]

Next ==
    \E s \in Slots : Take(s) \/ \E v \in Value : Set(s, v)

Spec == Init /\ [][Next]_slots
=============================================================================
