--------------------------- MODULE MCSharedArena ----------------------------
(***************************************************************************)
(* Instances of SharedArena for TLC.  Stamps and threads are symmetry      *)
(* sets; the liveness instance uses no symmetry.                           *)
(***************************************************************************)
EXTENDS SharedArena, TLC

Symmetry == Permutations(Stamp) \cup Permutations(Threads)

(* Bound of the instance with half-filled blocks: clients are given one    *)
(* checkpoint, of any length and at any time, in the whole run.            *)
OneCheckpoint == Cardinality(saved \cup spoiled) <= 1
=============================================================================
