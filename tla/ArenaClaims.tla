---------------------------- MODULE ArenaClaims -----------------------------
(***************************************************************************)
(* Sentences of the repository about Arena that the code does not keep.    *)
(* Each is stated as written; the run that checks it shows the behaviour   *)
(* that contradicts it.  None of them touches the safety of a capability.  *)
(***************************************************************************)
EXTENDS MCArena

(* A rollback, reset or drain of `a` that completed its commit.            *)
Committed(a) ==
    /\ identity[a] # Unassigned /\ identity'[a] # Unassigned
    /\ identity'[a].current # identity[a].current

(* Identity::commit: "This is also the only way the table ever grows: each *)
(* commit that extends it targets a `new_len` strictly past the segment it *)
(* just archived ... a commit that instead reaches back past `old_start`   *)
(* never adds a new distinct entry".                                       *)
GrowsOnlyForward ==
    [][\A a \in Arenas :
          Committed(a) /\ Len(identity'[a].table) > Len(identity[a].table) =>
              identity'[a].current_start > identity[a].current_start]_vars

(* README, cost of validation: "committing a segment drops the archived    *)
(* entries that start at or after the new boundary".                       *)
ArchiveBelowBoundary ==
    [][\A a \in Arenas :
          Committed(a) =>
              \A i \in DOMAIN identity'[a].table :
                  identity'[a].table[i].start < identity'[a].current_start]_vars

(* CheckpointError::DivergedPrefix: "The slot at the saved boundary was    *)
(* discarded and later replaced".                                          *)
DivergedMeansReplaced ==
    \A a \in Arenas : \A cp \in Checkpoints :
        cp.arena = a /\ ValidateCheckpoint(a, cp) = "DivergedPrefix" =>
            items[a][cp.len] # cp.prefix[cp.len]
=============================================================================
