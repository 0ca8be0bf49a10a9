--------------------------- MODULE StampSequence ----------------------------
(***************************************************************************)
(* What Stamp::fresh promises its callers: every draw returns a stamp that *)
(* no draw of the process ever returned.  Arena and SharedArena draw their *)
(* stamps this way; StampPool shows that the per-thread reservations of    *)
(* src/src/stamp.rs keep the promise.                                      *)
(***************************************************************************)
EXTENDS Naturals, Sequences

CONSTANT Stamp

VARIABLE draws      \* the stamps returned so far, in the order of the draws

Drawn == { draws[i] : i \in DOMAIN draws }

Init == draws = << >>

Next == \E s \in Stamp \ Drawn : draws' = Append(draws, s)

Spec == Init /\ [][Next]_draws
=============================================================================
