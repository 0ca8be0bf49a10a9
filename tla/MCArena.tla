------------------------------ MODULE MCArena -------------------------------
(***************************************************************************)
(* Instances of Arena for TLC.  Stamps are only compared for equality and  *)
(* arenas are interchangeable, so both are symmetry sets.                  *)
(***************************************************************************)
EXTENDS Arena, TLC

Symmetry == Permutations(Stamp) \cup Permutations(Arenas)
=============================================================================
