----------------------------- MODULE ArenaProof -----------------------------
(***************************************************************************)
(* Proofs about Arena, for any set of arenas, any set of stamps and any    *)
(* bounds: the inductive invariant IInv, and from it that an index or a    *)
(* checkpoint is accepted exactly as long as nothing revoked it.           *)
(***************************************************************************)
EXTENDS Arena, SegmentsProof

-----------------------------------------------------------------------------
(***************************************************************************)
(* Reading the invariant.                                                  *)
(***************************************************************************)

LEMMA UnassignedNotIdentity == Unassigned \notin Identity
<1>1. Unassigned.birth \notin Stamp
  BY StampAssumption DEF Unassigned
<1>2. \A id \in Identity : id.birth \in Stamp
  BY DEF Identity
<1> QED
  BY <1>1, <1>2

LEMMA IndexFields ==
    ASSUME NEW i \in IndexSet
    PROVE  i.arena \in Arenas /\ i.stamp \in Stamp /\ i.slot \in Nat /\ i.value \in Nat
BY DEF IndexSet

LEMMA CheckpointFields ==
    ASSUME NEW cp \in CheckpointSet
    PROVE  /\ cp.arena \in Arenas /\ cp.owner \in Stamp /\ cp.len \in Nat
           /\ cp.tail \in Stamp \cup {NoStamp} /\ cp.prefix \in Seq(Nat)
BY DEF CheckpointSet

LEMMA AssignedIdentity ==
    ASSUME IInv, NEW a \in Arenas, Assigned(a)
    PROVE  /\ identity[a] \in Identity
           /\ WellFormed(identity[a])
           /\ identity[a].birth \in Stamp /\ identity[a].current \in Stamp
           /\ identity[a].current_start \in Nat
           /\ identity[a].current_start <= Size(a)
           /\ Size(a) \in Nat
           /\ identity[a].birth \in OwnStamps(identity[a])
           /\ identity[a].current \in OwnStamps(identity[a])
           /\ OwnStamps(identity[a]) \subseteq used
<1>1. identity[a] \in Identity
  BY DEF IInv, TypeOK, Assigned
<1>2. items[a] \in Seq(Nat)
  BY DEF IInv, TypeOK
<1>3. /\ WellFormed(identity[a])
      /\ identity[a].current_start <= Size(a)
      /\ OwnStamps(identity[a]) \subseteq used
  BY DEF IInv, IdentitiesSound
<1>4. /\ identity[a].birth \in Stamp /\ identity[a].current \in Stamp
      /\ identity[a].current_start \in Nat
  BY <1>1 DEF Identity
<1> QED
  BY <1>1, <1>2, <1>3, <1>4 DEF Size, OwnStamps

(* Sequences that agree up to position n have the same prefix of length n. *)
LEMMA PrefixEqual ==
    ASSUME NEW p, NEW q, NEW n \in Nat, \A k \in 1 .. n : p[k] = q[k]
    PROVE  SubSeq(p, 1, n) = SubSeq(q, 1, n)
OBVIOUS

(* The fast path of the validation is exact: an arena accepts an index     *)
(* precisely when the index is its own and the stamp covering the slot is  *)
(* the index's stamp.                                                      *)
LEMMA ValidIffCovered ==
    ASSUME IInv, NEW a \in Arenas, NEW i \in Indices
    PROVE  IsValid(a, i) <=>
             /\ Assigned(a)
             /\ i.arena = a
             /\ i.slot < Size(a)
             /\ StampOf(identity[a], i.slot) = i.stamp
<1>1. i.arena \in Arenas /\ i.stamp \in Stamp /\ i.slot \in Nat
  BY IndexFields DEF IInv, TypeOK, Indices
<1>2. CASE ~Assigned(a)
  <2>1. Size(a) = 0
    BY <1>2 DEF IInv, MirrorsIdentity, Size
  <2> QED
    BY <1>1, <1>2, <2>1 DEF IsValid
<1>3. CASE Assigned(a)
  <2> DEFINE id == identity[a]
  <2>1. /\ id \in Identity /\ WellFormed(id) /\ id.current_start \in Nat
        /\ id.current \in OwnStamps(id)
    BY <1>3, AssignedIdentity
  <2>2. mirror[a] = id.current
    BY DEF IInv, MirrorsIdentity
  <2>3. StampOfCold(id.birth, id.table, i.slot) \in OwnStamps(id)
    BY <1>1, <2>1, ColdOwn
  <2>4. /\ i.arena # a => i.stamp \notin OwnStamps(id)
        /\ i.stamp = identity[i.arena].current => i.slot >= identity[i.arena].current_start
    BY <1>3 DEF IInv, IndicesKnown
  <2>5. StampOf(id, i.slot) =
           IF i.slot >= id.current_start
           THEN id.current
           ELSE StampOfCold(id.birth, id.table, i.slot)
    BY <1>1, <2>1, StampOfSearch, ArchiveFacts DEF WellFormed
  <2>6. IsValid(a, i) <=>
          /\ i.slot < Size(a)
          /\ \/ i.stamp = id.current
             \/ i.slot < id.current_start /\ StampOfCold(id.birth, id.table, i.slot) = i.stamp
    BY <1>3, <2>2 DEF IsValid, MatchesArchived, Assigned
  <2>7. CASE i.arena # a
    BY <2>1, <2>3, <2>4, <2>6, <2>7
  <2>8. CASE i.arena = a
    BY <1>1, <1>3, <2>1, <2>4, <2>5, <2>6, <2>8
  <2> QED
    BY <2>7, <2>8
<1> QED
  BY <1>2, <1>3

LEMMA IndicesExactFromIInv == IInv => IndicesExact
<1> SUFFICES ASSUME IInv
             PROVE  IndicesExact
  OBVIOUS
<1>1. \A i \in Indices : i.arena \in Arenas
  BY IndexFields DEF IInv, TypeOK, Indices
<1>2. ASSUME NEW i \in live
      PROVE  IsValid(i.arena, i) /\ items[i.arena][i.slot + 1] = i.value
  <2>1. i \in Indices
    BY DEF Indices
  <2>2. /\ Assigned(i.arena)
        /\ i.slot < Size(i.arena)
        /\ StampOf(identity[i.arena], i.slot) = i.stamp
        /\ items[i.arena][i.slot + 1] = i.value
    BY DEF IInv, LiveCovered
  <2> QED
    BY <1>1, <2>1, <2>2, ValidIffCovered
<1>3. ASSUME NEW i \in stale
      PROVE  ~IsValid(i.arena, i)
  <2>1. i \in Indices
    BY DEF Indices
  <2>2. Assigned(i.arena) => StampOf(identity[i.arena], i.slot) # i.stamp
    BY DEF IInv, StaleUncovered
  <2> QED
    BY <1>1, <2>1, <2>2, ValidIffCovered
<1> QED
  BY <1>2, <1>3 DEF IndicesExact

LEMMA ForeignRejectedFromIInv == IInv => ForeignRejected
<1> SUFFICES ASSUME IInv, NEW a \in Arenas
             PROVE  /\ \A i \in Indices : i.arena # a => ~IsValid(a, i)
                    /\ \A cp \in Checkpoints :
                         cp.arena # a => ValidateCheckpoint(a, cp) = "ForeignArena"
  BY DEF ForeignRejected
<1>1. ASSUME NEW cp \in Checkpoints, cp.arena # a
      PROVE  ValidateCheckpoint(a, cp) = "ForeignArena"
  <2>1. CASE ~Assigned(a)
    BY <2>1 DEF ValidateCheckpoint, Assigned
  <2>2. CASE Assigned(a)
    <3>1. cp.owner \notin OwnStamps(identity[a])
      BY <1>1, <2>2 DEF IInv, CheckpointsKnown
    <3>2. identity[a].birth # cp.owner
      BY <3>1 DEF OwnStamps
    <3> QED
      BY <3>2 DEF ValidateCheckpoint
  <2> QED
    BY <2>1, <2>2
<1> QED
  BY <1>1, ValidIffCovered

LEMMA CheckpointsExactFromIInv == IInv => CheckpointsExact
<1> SUFFICES ASSUME IInv
             PROVE  CheckpointsExact
  OBVIOUS
<1>1. \A cp \in Checkpoints : cp \in CheckpointSet
  BY DEF IInv, TypeOK, Checkpoints
<1>2. ASSUME NEW cp \in saved
      PROVE  /\ ValidateCheckpoint(cp.arena, cp) = "Ok"
             /\ SubSeq(items[cp.arena], 1, cp.len) = cp.prefix
  <2>1. /\ Assigned(cp.arena)
        /\ cp.owner = identity[cp.arena].birth
        /\ cp.len <= Size(cp.arena)
        /\ cp.tail = TailStamp(identity[cp.arena], cp.len)
        /\ cp.prefix = SubSeq(items[cp.arena], 1, cp.len)
    BY DEF IInv, SavedCovered
  <2>2. cp.arena \in Arenas /\ cp.len \in Nat
    BY <1>1, CheckpointFields DEF Checkpoints
  <2>3. Size(cp.arena) \in Nat
    BY <2>1, <2>2, AssignedIdentity
  <2> QED
    BY <2>1, <2>2, <2>3 DEF ValidateCheckpoint, Assigned
<1>3. ASSUME NEW cp \in spoiled
      PROVE  ValidateCheckpoint(cp.arena, cp) # "Ok"
  <2>1. Assigned(cp.arena) /\ cp.owner = identity[cp.arena].birth =>
          cp.len > 0 /\ StampOf(identity[cp.arena], cp.len - 1) # cp.tail
    BY DEF IInv, SpoiledUncovered
  <2>2. cp.len \in Nat
    BY <1>1, CheckpointFields DEF Checkpoints
  <2> QED
    BY <2>1, <2>2 DEF ValidateCheckpoint, Assigned, TailStamp
<1> QED
  BY <1>2, <1>3 DEF CheckpointsExact

LEMMA CachesCoherentFromIInv == IInv => CachesCoherent
BY DEF IInv, CachesCoherent, MirrorsIdentity, IdentitiesSound, Assigned

-----------------------------------------------------------------------------
(***************************************************************************)
(* The first capability an arena issues.                                   *)
(***************************************************************************)

(* A new identity is sound wherever it is assigned.                        *)
LEMMA NewIdentityFacts ==
    ASSUME NEW s \in Stamp
    PROVE  /\ NewIdentity(s) \in Identity
           /\ NewIdentity(s) # Unassigned
           /\ WellFormed(NewIdentity(s))
           /\ OwnStamps(NewIdentity(s)) = {s}
           /\ NewIdentity(s).birth = s /\ NewIdentity(s).current = s
           /\ NewIdentity(s).current_start = 0
           /\ \A slot \in Nat : StampOf(NewIdentity(s), slot) = s
<1>1. NewIdentity(s) \in Identity
  BY DEF NewIdentity, Identity
<1>2. /\ NewIdentity(s).birth = s /\ NewIdentity(s).current = s
      /\ NewIdentity(s).current_start = 0
      /\ NewIdentity(s).table = << >>
  BY DEF NewIdentity
<1>3. WellFormed(NewIdentity(s))
  BY <1>2 DEF WellFormed, Sorted, TailCached, BirthUncommitted
<1>4. OwnStamps(NewIdentity(s)) = {s}
  BY <1>2 DEF OwnStamps
<1>5. \A slot \in Nat : StampOf(NewIdentity(s), slot) = s
  BY <1>2 DEF StampOf
<1> QED
  BY <1>1, <1>2, <1>3, <1>4, <1>5, UnassignedNotIdentity

(* What EnsureIdentity leaves true of everything issued before: the arena  *)
(* has a sound identity, and no answer given earlier changes.              *)
LEMMA EnsureIdentityFacts ==
    ASSUME IInv, NEW a \in Arenas, EnsureIdentity(a)
    PROVE  /\ identity' \in [Arenas -> Identity \cup {Unassigned}]
           /\ mirror' \in [Arenas -> Stamp \cup {NoStamp}]
           /\ used' \subseteq Stamp /\ used \subseteq used'
           /\ Assigned(a)' /\ mirror'[a] = identity'[a].current
           /\ \A b \in Arenas : b # a => identity'[b] = identity[b] /\ mirror'[b] = mirror[b]
           /\ identity'[a].current \in OwnStamps(identity'[a])
           /\ \/ /\ Assigned(a)
                 /\ identity' = identity /\ used' = used
              \/ /\ ~Assigned(a)
                 /\ \E s \in Stamp \ used :
                       identity'[a] = NewIdentity(s) /\ used' = used \cup {s}
<1>1. /\ identity \in [Arenas -> Identity \cup {Unassigned}]
      /\ mirror \in [Arenas -> Stamp \cup {NoStamp}]
      /\ used \subseteq Stamp
  BY DEF IInv, TypeOK
<1>2. CASE Assigned(a)
  <2>1. UNCHANGED <<identity, mirror, used>>
    BY <1>2 DEF EnsureIdentity, Assigned
  <2>2. mirror[a] = identity[a].current
    BY DEF IInv, MirrorsIdentity
  <2> QED
    BY <1>1, <1>2, <2>1, <2>2 DEF Assigned, OwnStamps
<1>3. CASE ~Assigned(a)
  <2>1. PICK s \in Stamp \ used :
          /\ identity' = [identity EXCEPT ![a] = NewIdentity(s)]
          /\ mirror' = [mirror EXCEPT ![a] = s]
          /\ used' = used \cup {s}
    BY <1>3 DEF EnsureIdentity, Assigned
  <2>2. /\ NewIdentity(s) \in Identity
        /\ NewIdentity(s) # Unassigned
        /\ NewIdentity(s).current = s
        /\ OwnStamps(NewIdentity(s)) = {s}
    BY NewIdentityFacts
  <2>3. identity'[a] = NewIdentity(s) /\ mirror'[a] = s
    BY <1>1, <2>1
  <2> QED
    BY <1>1, <1>3, <2>1, <2>2, <2>3 DEF Assigned
<1> QED
  BY <1>2, <1>3

(* Every part of the invariant that does not speak of what the step adds   *)
(* survives EnsureIdentity: stated over the new identities and the values  *)
(* and capabilities there were before.                                     *)
LEMMA EnsureIdentityKeeps ==
    ASSUME IInv, NEW a \in Arenas, EnsureIdentity(a)
    PROVE  /\ \A b \in Arenas : identity'[b] # Unassigned =>
                /\ WellFormed(identity'[b])
                /\ identity'[b].current_start <= Size(b)
                /\ \A slot \in 0 .. identity'[b].current_start - 1 :
                      StampOf(identity'[b], slot) # identity'[b].current
                /\ OwnStamps(identity'[b]) \subseteq used'
           /\ \A b \in Arenas : mirror'[b] = identity'[b].current
           /\ \A b, c \in Arenas :
                b # c /\ identity'[b] # Unassigned /\ identity'[c] # Unassigned =>
                   OwnStamps(identity'[b]) \cap OwnStamps(identity'[c]) = {}
           /\ \A i \in Indices :
                /\ i.stamp \in used'
                /\ \A b \in Arenas : b # i.arena /\ identity'[b] # Unassigned =>
                      i.stamp \notin OwnStamps(identity'[b])
                /\ i.stamp = identity'[i.arena].current =>
                      i.slot >= identity'[i.arena].current_start
           /\ \A i \in live :
                /\ identity'[i.arena] # Unassigned
                /\ StampOf(identity'[i.arena], i.slot) = i.stamp
           /\ \A i \in stale : identity'[i.arena] # Unassigned =>
                StampOf(identity'[i.arena], i.slot) # i.stamp
           /\ \A cp \in Checkpoints :
                /\ cp.owner \in used' /\ cp.tail \in used' \cup {NoStamp}
                /\ \A b \in Arenas : b # cp.arena /\ identity'[b] # Unassigned =>
                      cp.owner \notin OwnStamps(identity'[b])
           /\ \A cp \in saved :
                /\ identity'[cp.arena] # Unassigned
                /\ cp.owner = identity'[cp.arena].birth
                /\ cp.tail = TailStamp(identity'[cp.arena], cp.len)
           /\ \A cp \in spoiled :
                identity'[cp.arena] # Unassigned /\ cp.owner = identity'[cp.arena].birth =>
                   cp.len > 0 /\ StampOf(identity'[cp.arena], cp.len - 1) # cp.tail
<1>1. CASE Assigned(a)
  <2>1. UNCHANGED <<identity, mirror, used>>
    BY <1>1 DEF EnsureIdentity, Assigned
  <2> QED
    BY <2>1 DEF IInv, IdentitiesSound, MirrorsIdentity, StampsApart, IndicesKnown,
          LiveCovered, StaleUncovered, CheckpointsKnown, SavedCovered, SpoiledUncovered, Assigned
<1>2. CASE ~Assigned(a)
  <2>1. PICK s \in Stamp \ used :
          /\ identity' = [identity EXCEPT ![a] = NewIdentity(s)]
          /\ mirror' = [mirror EXCEPT ![a] = s]
          /\ used' = used \cup {s}
    BY <1>2 DEF EnsureIdentity, Assigned
  <2>2. /\ identity'[a] = NewIdentity(s) /\ mirror'[a] = s
        /\ \A b \in Arenas : b # a => identity'[b] = identity[b] /\ mirror'[b] = mirror[b]
    BY <2>1 DEF IInv, TypeOK
  <2>3. /\ WellFormed(NewIdentity(s))
        /\ OwnStamps(NewIdentity(s)) = {s}
        /\ NewIdentity(s).birth = s /\ NewIdentity(s).current = s
        /\ NewIdentity(s).current_start = 0
        /\ \A slot \in Nat : StampOf(NewIdentity(s), slot) = s
    BY NewIdentityFacts
  <2>4. \A b \in Arenas : Size(b) \in Nat
    BY DEF IInv, TypeOK, Size
  <2>5. /\ \A i \in Indices : i \in IndexSet /\ i.stamp \in used
        /\ \A i \in Indices : i.arena \in Arenas /\ i.slot \in Nat
    BY IndexFields DEF IInv, TypeOK, Indices, IndicesKnown
  <2>6. /\ \A cp \in Checkpoints : cp \in CheckpointSet /\ cp.owner \in used
        /\ \A cp \in Checkpoints : cp.arena \in Arenas /\ cp.len \in Nat
        /\ \A cp \in Checkpoints : cp.tail \in used \cup {NoStamp}
    BY CheckpointFields DEF IInv, TypeOK, Checkpoints, CheckpointsKnown
  <2>7. \A b \in Arenas : Assigned(b) => OwnStamps(identity[b]) \subseteq used
    BY DEF IInv, IdentitiesSound
  <2>8. ASSUME NEW b \in Arenas, identity'[b] # Unassigned
        PROVE  /\ WellFormed(identity'[b])
               /\ identity'[b].current_start <= Size(b)
               /\ \A slot \in 0 .. identity'[b].current_start - 1 :
                     StampOf(identity'[b], slot) # identity'[b].current
               /\ OwnStamps(identity'[b]) \subseteq used'
    <3>1. CASE b = a
      BY <2>1, <2>2, <2>3, <2>4, <3>1
    <3>2. CASE b # a
      BY <2>1, <2>2, <2>8, <3>2 DEF IInv, IdentitiesSound, Assigned
    <3> QED
      BY <3>1, <3>2
  <2>9. \A b \in Arenas : mirror'[b] = identity'[b].current
    BY <2>2, <2>3 DEF IInv, MirrorsIdentity
  <2>10. ASSUME NEW b \in Arenas, NEW c \in Arenas, b # c,
                identity'[b] # Unassigned, identity'[c] # Unassigned
         PROVE  OwnStamps(identity'[b]) \cap OwnStamps(identity'[c]) = {}
    BY <2>2, <2>3, <2>7, <2>10 DEF IInv, StampsApart, Assigned
  <2>11. ASSUME NEW i \in Indices
         PROVE  /\ i.stamp \in used'
                /\ \A b \in Arenas : b # i.arena /\ identity'[b] # Unassigned =>
                      i.stamp \notin OwnStamps(identity'[b])
                /\ i.stamp = identity'[i.arena].current =>
                      i.slot >= identity'[i.arena].current_start
    BY <2>1, <2>2, <2>3, <2>5 DEF IInv, IndicesKnown, Assigned
  <2>12. ASSUME NEW i \in live
         PROVE  /\ identity'[i.arena] # Unassigned
                /\ StampOf(identity'[i.arena], i.slot) = i.stamp
    BY <1>2, <2>2, <2>5 DEF IInv, LiveCovered, Indices, Assigned
  <2>13. ASSUME NEW i \in stale, identity'[i.arena] # Unassigned
         PROVE  StampOf(identity'[i.arena], i.slot) # i.stamp
    BY <2>2, <2>3, <2>5, <2>13 DEF IInv, StaleUncovered, Indices, Assigned
  <2>14. ASSUME NEW cp \in Checkpoints
         PROVE  /\ cp.owner \in used' /\ cp.tail \in used' \cup {NoStamp}
                /\ \A b \in Arenas : b # cp.arena /\ identity'[b] # Unassigned =>
                      cp.owner \notin OwnStamps(identity'[b])
    BY <2>1, <2>2, <2>3, <2>6 DEF IInv, CheckpointsKnown, Assigned
  <2>15. ASSUME NEW cp \in saved
         PROVE  /\ identity'[cp.arena] # Unassigned
                /\ cp.owner = identity'[cp.arena].birth
                /\ cp.tail = TailStamp(identity'[cp.arena], cp.len)
    BY <1>2, <2>2, <2>6 DEF IInv, SavedCovered, Checkpoints, Assigned
  <2>16. ASSUME NEW cp \in spoiled, identity'[cp.arena] # Unassigned,
                cp.owner = identity'[cp.arena].birth
         PROVE  cp.len > 0 /\ StampOf(identity'[cp.arena], cp.len - 1) # cp.tail
    <3>1. cp.arena # a
      BY <2>2, <2>3, <2>6, <2>16 DEF Checkpoints
    <3> QED
      BY <2>2, <2>6, <2>16, <3>1 DEF IInv, SpoiledUncovered, Checkpoints, Assigned
  <2> QED
    BY <2>8, <2>9, <2>10, <2>11, <2>12, <2>13, <2>14, <2>15, <2>16
<1> QED
  BY <1>1, <1>2

-----------------------------------------------------------------------------
(***************************************************************************)
(* One lemma per operation: the step preserves IInv.                       *)
(***************************************************************************)

(* alloc and alloc_block.                                                  *)
LEMMA StoreStep ==
    ASSUME IInv, NEW a \in Arenas, NEW n \in Nat, n > 0, EnsureIdentity(a), Store(a, n)
    PROVE  IInv'
<1> DEFINE block == [k \in 1 .. n |-> serial + k]
           fresh == { Index(a, mirror'[a], Size(a) + k - 1, serial + k) : k \in 1 .. n }
<1>1. /\ items \in [Arenas -> Seq(Nat)] /\ serial \in Nat
      /\ live \subseteq IndexSet /\ stale \subseteq IndexSet
      /\ saved \subseteq CheckpointSet /\ spoiled \subseteq CheckpointSet
      /\ \A b \in Arenas : Size(b) \in Nat
  BY DEF IInv, TypeOK, Size
<1>2. /\ items' = [items EXCEPT ![a] = @ \o block]
      /\ serial' = serial + n
      /\ live' = live \cup fresh
      /\ stale' = stale /\ saved' = saved /\ spoiled' = spoiled
  BY DEF Store
<1>3. block \in Seq(Nat) /\ Len(block) = n
  BY <1>1
<1>4. /\ items[a] \in Seq(Nat)
      /\ items'[a] = items[a] \o block
      /\ \A b \in Arenas : b # a => items'[b] = items[b]
  BY <1>1, <1>2
<1>5. /\ items'[a] \in Seq(Nat)
      /\ Len(items'[a]) = Size(a) + n
      /\ \A k \in 1 .. Size(a) : items'[a][k] = items[a][k]
      /\ \A k \in 1 .. n : items'[a][Size(a) + k] = serial + k
  <2>1. \A k \in 1 .. n : (items[a] \o block)[Size(a) + k] = block[k]
    BY <1>3, <1>4 DEF Size
  <2> QED
    BY <1>1, <1>3, <1>4, <2>1 DEF Size
<1>6. ASSUME NEW b \in Arenas
      PROVE  Size(b)' >= Size(b)
  <2>1. CASE b = a
    <3>1. Size(b)' = Size(b) + n
      BY <1>5, <2>1 DEF Size
    <3> QED
      BY <1>1, <3>1
  <2>2. CASE b # a
    <3>1. Size(b)' = Size(b)
      BY <1>4, <2>2 DEF Size
    <3> QED
      BY <1>1, <3>1
  <2> QED
    BY <2>1, <2>2
<1>7. /\ identity' \in [Arenas -> Identity \cup {Unassigned}]
      /\ mirror' \in [Arenas -> Stamp \cup {NoStamp}]
      /\ used' \subseteq Stamp
      /\ Assigned(a)'
      /\ mirror'[a] = identity'[a].current
      /\ identity'[a].current \in OwnStamps(identity'[a])
  BY EnsureIdentityFacts
<1>8. /\ identity'[a] \in Identity
      /\ WellFormed(identity'[a])
      /\ identity'[a].current \in used' /\ identity'[a].current \in Stamp
      /\ identity'[a].current_start \in Nat
      /\ identity'[a].current_start <= Size(a)
  <2>1. identity'[a] \in Identity
    BY <1>7 DEF Assigned
  <2>2. identity'[a].current_start \in Nat
    BY <2>1 DEF Identity
  <2> QED
    BY <1>7, <2>1, <2>2, EnsureIdentityKeeps DEF Assigned
<1>9. ASSUME NEW i \in fresh
      PROVE  /\ i \in IndexSet
             /\ i.arena = a /\ i.stamp = identity'[a].current
             /\ i.slot \in Nat /\ i.slot >= Size(a) /\ i.slot < Size(a) + n
             /\ items'[a][i.slot + 1] = i.value
  <2>1. PICK k \in 1 .. n : i = Index(a, mirror'[a], Size(a) + k - 1, serial + k)
    OBVIOUS
  <2>2. /\ i.arena = a /\ i.stamp = identity'[a].current
        /\ i.slot = Size(a) + k - 1 /\ i.value = serial + k
    BY <1>7, <2>1 DEF Index
  <2>3. Size(a) \in Nat /\ serial \in Nat
    BY <1>1
  <2>4. i \in IndexSet
    BY <1>7, <1>8, <2>1, <2>3 DEF Index, IndexSet
  <2> HIDE DEF fresh, block
  <2>5. /\ i.slot + 1 = Size(a) + k
        /\ i.slot \in Nat /\ i.slot >= Size(a) /\ i.slot < Size(a) + n
    BY <2>2, <2>3
  <2>6. items'[a][i.slot + 1] = i.value
    BY <1>5, <2>2, <2>5
  <2> QED
    BY <2>2, <2>4, <2>5, <2>6
<1> HIDE DEF fresh, block
<1>10. TypeOK'
  <2>1. items' \in [Arenas -> Seq(Nat)]
    BY <1>1, <1>2, <1>3, <1>4, <1>5
  <2>2. live' \subseteq IndexSet
    BY <1>1, <1>2, <1>9
  <2> QED
    BY <1>1, <1>2, <1>7, <2>1, <2>2 DEF TypeOK
<1>11. IdentitiesSound'
  <2> SUFFICES ASSUME NEW b \in Arenas, Assigned(b)'
               PROVE  /\ WellFormed(identity'[b])
                      /\ identity'[b].current_start <= Size(b)'
                      /\ \A slot \in 0 .. identity'[b].current_start - 1 :
                            StampOf(identity'[b], slot) # identity'[b].current
                      /\ OwnStamps(identity'[b]) \subseteq used'
    BY DEF IdentitiesSound
  <2>1. identity'[b] # Unassigned
    BY DEF Assigned
  <2>2. identity'[b].current_start \in Nat /\ Size(b)' \in Nat
    BY <1>7, <1>10, <2>1 DEF Identity, TypeOK, Size
  <2>3. identity'[b].current_start <= Size(b)
    BY <2>1, EnsureIdentityKeeps
  <2>4. identity'[b].current_start <= Size(b)'
    BY <1>1, <1>6, <2>2, <2>3
  <2> QED
    BY <2>1, <2>4, EnsureIdentityKeeps
<1>12. MirrorsIdentity'
  <2>1. ASSUME NEW b \in Arenas, ~Assigned(b)'
        PROVE  items'[b] = << >>
    <3>1. b # a
      BY <1>7, <2>1
    <3>2. ~Assigned(b)
      BY <2>1, <3>1, EnsureIdentityFacts DEF Assigned
    <3> QED
      BY <1>4, <3>1, <3>2 DEF IInv, MirrorsIdentity
  <2> QED
    BY <2>1, EnsureIdentityKeeps DEF MirrorsIdentity, Assigned
<1>13. StampsApart'
  BY EnsureIdentityKeeps DEF StampsApart, Assigned
<1>14. IndicesKnown'
  <2> SUFFICES ASSUME NEW i \in Indices'
               PROVE  /\ i.stamp \in used'
                      /\ \A b \in Arenas : b # i.arena /\ identity'[b] # Unassigned =>
                            i.stamp \notin OwnStamps(identity'[b])
                      /\ i.stamp = identity'[i.arena].current =>
                            i.slot >= identity'[i.arena].current_start
    BY DEF IndicesKnown, Assigned
  <2>1. CASE i \in Indices
    BY <2>1, EnsureIdentityKeeps
  <2>2. CASE i \in fresh
    <3>1. /\ i.arena = a /\ i.stamp = identity'[a].current
          /\ i.slot \in Nat /\ i.slot >= Size(a)
      BY <1>9, <2>2
    <3>2. i.slot >= identity'[a].current_start
      BY <1>1, <1>8, <3>1
    <3>3. ASSUME NEW b \in Arenas, b # a, identity'[b] # Unassigned
          PROVE  i.stamp \notin OwnStamps(identity'[b])
      <4>1. OwnStamps(identity'[a]) \cap OwnStamps(identity'[b]) = {}
        BY <1>7, <3>3, EnsureIdentityKeeps DEF Assigned
      <4> QED
        BY <1>7, <3>1, <4>1
    <3> QED
      BY <1>8, <3>1, <3>2, <3>3
  <2> QED
    BY <1>2, <2>1, <2>2 DEF Indices
<1>15. LiveCovered'
  <2> SUFFICES ASSUME NEW i \in live'
               PROVE  /\ identity'[i.arena] # Unassigned
                      /\ i.slot < Len(items'[i.arena])
                      /\ StampOf(identity'[i.arena], i.slot) = i.stamp
                      /\ items'[i.arena][i.slot + 1] = i.value
    BY DEF LiveCovered, Assigned, Size
  <2>1. CASE i \in live
    <3>1. i.arena \in Arenas /\ i.slot \in Nat
      BY <1>1, <2>1, IndexFields
    <3>2. i.slot < Size(i.arena) /\ items[i.arena][i.slot + 1] = i.value
      BY <2>1 DEF IInv, LiveCovered
    <3>3. i.slot < Len(items'[i.arena]) /\ items'[i.arena][i.slot + 1] = i.value
      <4>1. CASE i.arena = a
        <5>1. i.slot + 1 \in 1 .. Size(a)
          BY <1>1, <3>1, <3>2, <4>1
        <5>2. items'[a][i.slot + 1] = items[a][i.slot + 1]
          BY <1>5, <5>1
        <5>3. Size(a) \in Nat /\ i.slot < Size(a)
          BY <1>1, <3>2, <4>1
        <5>4. i.slot < Len(items'[a])
          BY <1>5, <3>1, <5>3
        <5> QED
          BY <3>2, <4>1, <5>2, <5>4
      <4>2. CASE i.arena # a
        BY <1>4, <3>1, <3>2, <4>2 DEF Size
      <4> QED
        BY <4>1, <4>2
    <3> QED
      BY <2>1, <3>3, EnsureIdentityKeeps
  <2>2. CASE i \in fresh
    <3>1. /\ i.arena = a /\ i.stamp = identity'[a].current
          /\ i.slot \in Nat /\ i.slot >= Size(a) /\ i.slot < Size(a) + n
          /\ items'[a][i.slot + 1] = i.value
      BY <1>9, <2>2
    <3>2. i.slot >= identity'[a].current_start
      BY <1>1, <1>8, <3>1
    <3>3. StampOf(identity'[a], i.slot) = identity'[a].current
      BY <3>2 DEF StampOf
    <3> QED
      BY <1>5, <1>7, <3>1, <3>3 DEF Assigned
  <2> QED
    BY <1>2, <2>1, <2>2
<1>16. StaleUncovered'
  BY <1>2, EnsureIdentityKeeps DEF StaleUncovered, Assigned
<1>17. CheckpointsKnown'
  BY <1>2, EnsureIdentityKeeps DEF CheckpointsKnown, Checkpoints, Assigned
<1>18. SavedCovered'
  <2> SUFFICES ASSUME NEW cp \in saved
               PROVE  /\ identity'[cp.arena] # Unassigned
                      /\ cp.owner = identity'[cp.arena].birth
                      /\ cp.len <= Len(items'[cp.arena])
                      /\ cp.tail = TailStamp(identity'[cp.arena], cp.len)
                      /\ cp.prefix = SubSeq(items'[cp.arena], 1, cp.len)
    BY <1>2 DEF SavedCovered, Assigned, Size
  <2>1. cp.arena \in Arenas /\ cp.len \in Nat
    BY <1>1, CheckpointFields
  <2>2. cp.len <= Size(cp.arena) /\ cp.prefix = SubSeq(items[cp.arena], 1, cp.len)
    BY DEF IInv, SavedCovered
  <2>3. /\ cp.len <= Len(items'[cp.arena])
        /\ SubSeq(items'[cp.arena], 1, cp.len) = SubSeq(items[cp.arena], 1, cp.len)
    <3>1. CASE cp.arena = a
      <4>1. Size(a) \in Nat /\ cp.len <= Size(a)
        BY <1>1, <2>2, <3>1
      <4>2. cp.len <= Len(items'[a])
        BY <1>5, <2>1, <4>1
      <4>3. SubSeq(items'[a], 1, cp.len) = SubSeq(items[a], 1, cp.len)
        BY <1>5, <2>1, <4>1, <4>2, PrefixEqual DEF Size
      <4> QED
        BY <3>1, <4>2, <4>3
    <3>2. CASE cp.arena # a
      BY <1>4, <2>1, <2>2, <3>2 DEF Size
    <3> QED
      BY <3>1, <3>2
  <2> QED
    BY <2>2, <2>3, EnsureIdentityKeeps
<1>19. SpoiledUncovered'
  BY <1>2, EnsureIdentityKeeps DEF SpoiledUncovered, Assigned
<1> QED
  BY <1>10, <1>11, <1>12, <1>13, <1>14, <1>15, <1>16, <1>17, <1>18, <1>19 DEF IInv

(* checkpoint.                                                             *)
LEMMA TakeCheckpointStep ==
    ASSUME IInv, NEW a \in Arenas, TakeCheckpoint(a)
    PROVE  IInv'
<1> DEFINE taken == [arena |-> a, owner |-> identity'[a].birth, len |-> Size(a),
                     tail |-> TailStamp(identity'[a], Size(a)), prefix |-> items[a]]
<1>1. EnsureIdentity(a)
  BY DEF TakeCheckpoint
<1>2. /\ saved' = saved \cup {taken}
      /\ items' = items /\ serial' = serial
      /\ live' = live /\ stale' = stale /\ spoiled' = spoiled
  BY DEF TakeCheckpoint
<1>3. /\ items \in [Arenas -> Seq(Nat)] /\ serial \in Nat
      /\ live \subseteq IndexSet /\ stale \subseteq IndexSet
      /\ saved \subseteq CheckpointSet /\ spoiled \subseteq CheckpointSet
      /\ Size(a) \in Nat /\ items[a] \in Seq(Nat)
  BY DEF IInv, TypeOK, Size
<1>4. /\ identity' \in [Arenas -> Identity \cup {Unassigned}]
      /\ mirror' \in [Arenas -> Stamp \cup {NoStamp}]
      /\ used' \subseteq Stamp
      /\ identity'[a] # Unassigned
      /\ identity'[a] \in Identity
      /\ WellFormed(identity'[a])
      /\ OwnStamps(identity'[a]) \subseteq used'
  BY <1>1, EnsureIdentityFacts, EnsureIdentityKeeps DEF Assigned
<1>5. /\ identity'[a].birth \in OwnStamps(identity'[a])
      /\ identity'[a].birth \in used'
      /\ identity'[a].birth \in Stamp
  BY <1>4 DEF OwnStamps, Identity
<1>6. TailStamp(identity'[a], Size(a)) \in used' \cup {NoStamp}
  <2>1. CASE Size(a) = 0
    BY <2>1 DEF TailStamp
  <2>2. CASE Size(a) # 0
    <3>1. Size(a) - 1 \in Nat
      BY <1>3, <2>2
    <3> QED
      BY <1>4, <2>2, <3>1, StampOfOwn DEF TailStamp
  <2> QED
    BY <2>1, <2>2
<1>7. /\ taken.arena = a /\ taken.owner = identity'[a].birth /\ taken.len = Size(a)
      /\ taken.tail = TailStamp(identity'[a], Size(a)) /\ taken.prefix = items[a]
      /\ taken \in CheckpointSet
  BY <1>3, <1>4, <1>5, <1>6 DEF CheckpointSet
<1> HIDE DEF taken
<1>8. TypeOK'
  BY <1>2, <1>3, <1>4, <1>7 DEF TypeOK
<1>9. IdentitiesSound' /\ StampsApart' /\ IndicesKnown' /\ StaleUncovered' /\ SpoiledUncovered'
  BY <1>1, <1>2, EnsureIdentityKeeps
     DEF IdentitiesSound, StampsApart, IndicesKnown, StaleUncovered, SpoiledUncovered,
         Indices, Assigned, Size
<1>10. MirrorsIdentity'
  <2>1. ASSUME NEW b \in Arenas, ~Assigned(b)'
        PROVE  items'[b] = << >>
    <3>1. ~Assigned(b)
      BY <1>1, <1>4, <2>1, EnsureIdentityFacts DEF Assigned
    <3> QED
      BY <1>2, <3>1 DEF IInv, MirrorsIdentity
  <2> QED
    BY <1>1, <2>1, EnsureIdentityKeeps DEF MirrorsIdentity, Assigned
<1>11. LiveCovered'
  BY <1>1, <1>2, EnsureIdentityKeeps DEF IInv, LiveCovered, Assigned, Size
<1>12. CheckpointsKnown'
  <2> SUFFICES ASSUME NEW cp \in Checkpoints'
               PROVE  /\ cp.owner \in used' /\ cp.tail \in used' \cup {NoStamp}
                      /\ \A b \in Arenas : b # cp.arena /\ identity'[b] # Unassigned =>
                            cp.owner \notin OwnStamps(identity'[b])
    BY DEF CheckpointsKnown, Assigned
  <2>1. CASE cp \in Checkpoints
    BY <1>1, <2>1, EnsureIdentityKeeps
  <2>2. CASE cp = taken
    <3>1. ASSUME NEW b \in Arenas, b # a, identity'[b] # Unassigned
          PROVE  identity'[a].birth \notin OwnStamps(identity'[b])
      BY <1>1, <1>4, <1>5, <3>1, EnsureIdentityKeeps
    <3> QED
      BY <1>5, <1>6, <1>7, <2>2, <3>1
  <2> QED
    BY <1>2, <2>1, <2>2 DEF Checkpoints
<1>13. SavedCovered'
  <2> SUFFICES ASSUME NEW cp \in saved'
               PROVE  /\ identity'[cp.arena] # Unassigned
                      /\ cp.owner = identity'[cp.arena].birth
                      /\ cp.len <= Len(items'[cp.arena])
                      /\ cp.tail = TailStamp(identity'[cp.arena], cp.len)
                      /\ cp.prefix = SubSeq(items'[cp.arena], 1, cp.len)
    BY DEF SavedCovered, Assigned, Size
  <2>1. CASE cp \in saved
    BY <1>1, <1>2, <2>1, EnsureIdentityKeeps DEF IInv, SavedCovered, Size
  <2>2. CASE cp = taken
    <3>1. SubSeq(items[a], 1, Len(items[a])) = items[a]
      BY <1>3
    <3> QED
      BY <1>2, <1>3, <1>4, <1>7, <2>2, <3>1 DEF Size
  <2> QED
    BY <1>2, <2>1, <2>2
<1> QED
  BY <1>8, <1>9, <1>10, <1>11, <1>12, <1>13 DEF IInv

(* try_rollback, reset and drain: a commit at n, a drop loop that leaves   *)
(* `keep` values, and the capabilities this revokes.                       *)
LEMMA InvalidateStep ==
    ASSUME IInv, NEW a \in Arenas, Assigned(a),
           NEW n \in Nat, n <= Size(a), NEW keep \in n .. Size(a),
           CommitBoundary(a, n),
           items' = [items EXCEPT ![a] = SubSeq(@, 1, keep)],
           Revoke(a, n), serial' = serial
    PROVE  IInv'
<1> DEFINE id == identity[a]
<1>1. /\ items \in [Arenas -> Seq(Nat)] /\ serial \in Nat
      /\ identity \in [Arenas -> Identity \cup {Unassigned}]
      /\ mirror \in [Arenas -> Stamp \cup {NoStamp}]
      /\ used \subseteq Stamp
      /\ live \subseteq IndexSet /\ stale \subseteq IndexSet
      /\ saved \subseteq CheckpointSet /\ spoiled \subseteq CheckpointSet
  BY DEF IInv, TypeOK
<1>2. PICK s \in Stamp \ used :
        /\ identity' = [identity EXCEPT ![a] = Commit(@, n, s)]
        /\ used' = used \cup {s}
        /\ mirror' = [mirror EXCEPT ![a] = s]
  BY DEF CommitBoundary
<1>3. /\ identity'[a] = Commit(id, n, s) /\ mirror'[a] = s
      /\ \A b \in Arenas : b # a => identity'[b] = identity[b] /\ mirror'[b] = mirror[b]
  BY <1>1, <1>2
<1>4. /\ id \in Identity /\ WellFormed(id) /\ id.current_start \in Nat
      /\ id.birth \in Stamp /\ id.birth \in used /\ OwnStamps(id) \subseteq used
      /\ Size(a) \in Nat
  BY AssignedIdentity
<1>5. /\ Commit(id, n, s) \in Identity
      /\ WellFormed(Commit(id, n, s))
      /\ \A slot \in Nat : StampOf(Commit(id, n, s), slot) =
             IF slot >= n THEN s ELSE StampOf(id, slot)
      /\ OwnStamps(Commit(id, n, s)) \subseteq OwnStamps(id) \cup {s}
  BY <1>2, <1>4, CommitFacts
<1>6. /\ Commit(id, n, s).current = s
      /\ Commit(id, n, s).current_start = n
      /\ Commit(id, n, s).birth = id.birth
  BY <1>4 DEF Commit, Identity
<1>7. identity'[a] # Unassigned
  BY <1>3, <1>5, UnassignedNotIdentity
<1>8. /\ items'[a] = SubSeq(items[a], 1, keep)
      /\ items'[a] \in Seq(Nat) /\ Len(items'[a]) = keep
      /\ \A k \in 1 .. keep : items'[a][k] = items[a][k]
      /\ \A b \in Arenas : b # a => items'[b] = items[b]
  <2>1. items[a] \in Seq(Nat) /\ keep \in 0 .. Len(items[a])
    BY <1>1, <1>4 DEF Size
  <2> QED
    BY <1>1, <2>1
<1>9. /\ live' \subseteq live /\ stale \subseteq stale'
      /\ saved' \subseteq saved /\ spoiled \subseteq spoiled'
      /\ \A i \in live' : ~(i.arena = a /\ i.slot >= n)
      /\ \A i \in stale' : i \in stale \/ (i \in live /\ i.arena = a /\ i.slot >= n)
      /\ \A cp \in saved' : ~(cp.arena = a /\ cp.len > n)
      /\ \A cp \in spoiled' : cp \in spoiled \/ (cp \in saved /\ cp.arena = a /\ cp.len > n)
  BY DEF Revoke
<1>10. \A i \in Indices : i.arena \in Arenas /\ i.slot \in Nat /\ i.stamp \in used
  BY <1>1, IndexFields DEF Indices, IInv, IndicesKnown
<1>11. \A cp \in Checkpoints : /\ cp.arena \in Arenas /\ cp.len \in Nat
                               /\ cp.owner \in used /\ cp.tail \in used \cup {NoStamp}
  BY <1>1, CheckpointFields DEF Checkpoints, IInv, CheckpointsKnown
<1>12. Indices' \subseteq Indices /\ Checkpoints' \subseteq Checkpoints
  BY <1>9 DEF Indices, Checkpoints
<1> HIDE DEF id
<1>13. TypeOK'
  <2>1. items' \in [Arenas -> Seq(Nat)]
    BY <1>1, <1>8
  <2>2. identity' \in [Arenas -> Identity \cup {Unassigned}]
    BY <1>1, <1>2, <1>3, <1>5
  <2>3. mirror' \in [Arenas -> Stamp \cup {NoStamp}] /\ used' \subseteq Stamp
    BY <1>1, <1>2
  <2>4. /\ live' \subseteq IndexSet /\ stale' \subseteq IndexSet
        /\ saved' \subseteq CheckpointSet /\ spoiled' \subseteq CheckpointSet
    BY <1>1, <1>9
  <2> QED
    BY <1>1, <2>1, <2>2, <2>3, <2>4 DEF TypeOK
<1>14. IdentitiesSound'
  <2> SUFFICES ASSUME NEW b \in Arenas, identity'[b] # Unassigned
               PROVE  /\ WellFormed(identity'[b])
                      /\ identity'[b].current_start <= Len(items'[b])
                      /\ \A slot \in 0 .. identity'[b].current_start - 1 :
                            StampOf(identity'[b], slot) # identity'[b].current
                      /\ OwnStamps(identity'[b]) \subseteq used'
    BY DEF IdentitiesSound, Assigned, Size
  <2>1. CASE b = a
    <3>1. ASSUME NEW slot \in 0 .. n - 1
          PROVE  StampOf(identity'[a], slot) # s
      <4>1. StampOf(identity'[a], slot) = StampOf(id, slot)
        BY <1>3, <1>5
      <4>2. StampOf(id, slot) \in used
        BY <1>4, StampOfOwn
      <4> QED
        BY <1>2, <4>1, <4>2
    <3>2. identity'[a].current = s /\ identity'[a].current_start = n
      BY <1>3, <1>6
    <3>3. WellFormed(identity'[a])
      BY <1>3, <1>5
    <3>4. identity'[a].current_start <= Len(items'[a])
      BY <1>8, <3>2
    <3>5. OwnStamps(identity'[a]) \subseteq used'
      BY <1>2, <1>3, <1>4, <1>5
    <3> QED
      BY <2>1, <3>1, <3>2, <3>3, <3>4, <3>5
  <2>2. CASE b # a
    BY <1>2, <1>3, <1>8, <2>2 DEF IInv, IdentitiesSound, Assigned, Size
  <2> QED
    BY <2>1, <2>2
<1>15. MirrorsIdentity'
  BY <1>3, <1>6, <1>7, <1>8 DEF IInv, MirrorsIdentity, Assigned
<1>16. ASSUME NEW b \in Arenas, b # a, Assigned(b)
       PROVE  OwnStamps(identity'[a]) \cap OwnStamps(identity[b]) = {}
  <2>1. OwnStamps(id) \cap OwnStamps(identity[b]) = {}
    BY <1>16 DEF IInv, StampsApart, id
  <2>2. OwnStamps(identity[b]) \subseteq used
    BY <1>16, AssignedIdentity
  <2> QED
    BY <1>2, <1>3, <1>5, <2>1, <2>2
<1>17. StampsApart'
  BY <1>3, <1>16 DEF IInv, StampsApart, Assigned
<1>18. IndicesKnown'
  <2> SUFFICES ASSUME NEW i \in Indices
               PROVE  /\ i.stamp \in used'
                      /\ \A b \in Arenas : b # i.arena /\ identity'[b] # Unassigned =>
                            i.stamp \notin OwnStamps(identity'[b])
                      /\ i.stamp = identity'[i.arena].current =>
                            i.slot >= identity'[i.arena].current_start
    BY <1>12 DEF IndicesKnown, Assigned
  <2>1. ASSUME NEW b \in Arenas, b # i.arena, identity'[b] # Unassigned
        PROVE  i.stamp \notin OwnStamps(identity'[b])
    BY <1>2, <1>3, <1>5, <1>10, <2>1 DEF IInv, IndicesKnown, Assigned, id
  <2>2. ASSUME i.stamp = identity'[i.arena].current
        PROVE  i.slot >= identity'[i.arena].current_start
    BY <1>2, <1>3, <1>6, <1>10, <2>2 DEF IInv, IndicesKnown
  <2> QED
    BY <1>2, <1>10, <2>1, <2>2
<1>19. LiveCovered'
  <2> SUFFICES ASSUME NEW i \in live'
               PROVE  /\ identity'[i.arena] # Unassigned
                      /\ i.slot < Len(items'[i.arena])
                      /\ StampOf(identity'[i.arena], i.slot) = i.stamp
                      /\ items'[i.arena][i.slot + 1] = i.value
    BY DEF LiveCovered, Assigned, Size
  <2>1. /\ i \in live /\ i \in Indices
        /\ i.arena \in Arenas /\ i.slot \in Nat
        /\ ~(i.arena = a /\ i.slot >= n)
    BY <1>9, <1>10 DEF Indices
  <2>2. /\ Assigned(i.arena)
        /\ i.slot < Len(items[i.arena])
        /\ StampOf(identity[i.arena], i.slot) = i.stamp
        /\ items[i.arena][i.slot + 1] = i.value
    BY <2>1 DEF IInv, LiveCovered, Size
  <2>3. CASE i.arena = a
    <3>1. i.slot < n /\ i.slot < keep /\ i.slot + 1 \in 1 .. keep
      BY <1>4, <2>1, <2>3
    <3>2. StampOf(identity'[a], i.slot) = StampOf(id, i.slot)
      BY <1>3, <1>5, <2>1, <3>1
    <3> QED
      BY <1>7, <1>8, <2>2, <2>3, <3>1, <3>2 DEF id
  <2>4. CASE i.arena # a
    BY <1>3, <1>8, <2>1, <2>2, <2>4 DEF Assigned
  <2> QED
    BY <2>3, <2>4
<1>20. StaleUncovered'
  <2> SUFFICES ASSUME NEW i \in stale', identity'[i.arena] # Unassigned
               PROVE  StampOf(identity'[i.arena], i.slot) # i.stamp
    BY DEF StaleUncovered, Assigned
  <2>1. i \in Indices /\ i.arena \in Arenas /\ i.slot \in Nat /\ i.stamp \in used
    BY <1>9, <1>10 DEF Indices
  <2>2. CASE i.arena = a /\ i.slot >= n
    BY <1>2, <1>3, <1>5, <2>1, <2>2
  <2>3. CASE i.arena = a /\ ~(i.slot >= n)
    <3>1. StampOf(identity'[a], i.slot) = StampOf(id, i.slot)
      BY <1>3, <1>5, <2>1, <2>3
    <3> QED
      BY <1>9, <2>3, <3>1 DEF IInv, StaleUncovered, id
  <2>4. CASE i.arena # a
    BY <1>3, <1>9, <2>1, <2>4 DEF IInv, StaleUncovered, Assigned
  <2> QED
    BY <2>2, <2>3, <2>4
<1>21. CheckpointsKnown'
  <2> SUFFICES ASSUME NEW cp \in Checkpoints
               PROVE  /\ cp.owner \in used' /\ cp.tail \in used' \cup {NoStamp}
                      /\ \A b \in Arenas : b # cp.arena /\ identity'[b] # Unassigned =>
                            cp.owner \notin OwnStamps(identity'[b])
    BY <1>12 DEF CheckpointsKnown, Assigned
  <2>1. ASSUME NEW b \in Arenas, b # cp.arena, identity'[b] # Unassigned
        PROVE  cp.owner \notin OwnStamps(identity'[b])
    BY <1>2, <1>3, <1>5, <1>11, <2>1 DEF IInv, CheckpointsKnown, Assigned, id
  <2> QED
    BY <1>2, <1>11, <2>1
<1>22. SavedCovered'
  <2> SUFFICES ASSUME NEW cp \in saved'
               PROVE  /\ identity'[cp.arena] # Unassigned
                      /\ cp.owner = identity'[cp.arena].birth
                      /\ cp.len <= Len(items'[cp.arena])
                      /\ cp.tail = TailStamp(identity'[cp.arena], cp.len)
                      /\ cp.prefix = SubSeq(items'[cp.arena], 1, cp.len)
    BY DEF SavedCovered, Assigned, Size
  <2>1. /\ cp \in saved /\ cp \in Checkpoints
        /\ cp.arena \in Arenas /\ cp.len \in Nat
        /\ ~(cp.arena = a /\ cp.len > n)
    BY <1>9, <1>11 DEF Checkpoints
  <2>2. /\ Assigned(cp.arena)
        /\ cp.owner = identity[cp.arena].birth
        /\ cp.len <= Len(items[cp.arena])
        /\ cp.tail = TailStamp(identity[cp.arena], cp.len)
        /\ cp.prefix = SubSeq(items[cp.arena], 1, cp.len)
    BY <2>1 DEF IInv, SavedCovered, Size
  <2>3. CASE cp.arena = a
    <3>1. cp.len <= n /\ cp.len <= keep
      BY <1>4, <2>1, <2>3
    <3>2. TailStamp(identity'[a], cp.len) = TailStamp(id, cp.len)
      <4>1. CASE cp.len = 0
        BY <4>1 DEF TailStamp
      <4>2. CASE cp.len # 0
        <5>1. cp.len - 1 \in Nat /\ ~(cp.len - 1 >= n)
          BY <2>1, <3>1, <4>2
        <5> QED
          BY <1>3, <1>5, <4>2, <5>1 DEF TailStamp
      <4> QED
        BY <4>1, <4>2
    <3>3. SubSeq(items'[a], 1, cp.len) = SubSeq(items[a], 1, cp.len)
      BY <1>8, <2>1, <3>1, PrefixEqual
    <3> QED
      BY <1>3, <1>6, <1>7, <1>8, <2>2, <2>3, <3>1, <3>2, <3>3 DEF id
  <2>4. CASE cp.arena # a
    BY <1>3, <1>8, <2>1, <2>2, <2>4 DEF Assigned
  <2> QED
    BY <2>3, <2>4
<1>23. SpoiledUncovered'
  <2> SUFFICES ASSUME NEW cp \in spoiled', identity'[cp.arena] # Unassigned,
                      cp.owner = identity'[cp.arena].birth
               PROVE  cp.len > 0 /\ StampOf(identity'[cp.arena], cp.len - 1) # cp.tail
    BY DEF SpoiledUncovered, Assigned
  <2>1. /\ cp \in Checkpoints /\ cp.arena \in Arenas /\ cp.len \in Nat
        /\ cp.tail \in used \cup {NoStamp}
        /\ cp \in spoiled \/ (cp.arena = a /\ cp.len > n)
    BY <1>9, <1>11 DEF Checkpoints
  <2>2. CASE cp.arena = a /\ cp.len > n
    <3>1. cp.len - 1 \in Nat /\ cp.len - 1 >= n /\ cp.len > 0
      BY <2>1, <2>2
    <3>2. StampOf(identity'[a], cp.len - 1) = s
      BY <1>3, <1>5, <3>1
    <3> QED
      BY <1>2, <2>1, <2>2, <3>1, <3>2, StampAssumption
  <2>3. CASE cp.arena = a /\ ~(cp.len > n)
    <3>1. cp.len > 0 /\ StampOf(id, cp.len - 1) # cp.tail
      BY <1>3, <1>6, <2>1, <2>3 DEF IInv, SpoiledUncovered, id
    <3>2. cp.len - 1 \in Nat /\ ~(cp.len - 1 >= n)
      BY <2>1, <2>3, <3>1
    <3> QED
      BY <1>3, <1>5, <2>3, <3>1, <3>2
  <2>4. CASE cp.arena # a
    BY <1>3, <2>1, <2>4 DEF IInv, SpoiledUncovered, Assigned
  <2> QED
    BY <2>2, <2>3, <2>4
<1> QED
  BY <1>13, <1>14, <1>15, <1>17, <1>18, <1>19, <1>20, <1>21, <1>22, <1>23 DEF IInv

(* A commit that finds no stamp left.                                      *)
LEMMA CommitExhaustedStep ==
    ASSUME IInv, NEW a \in Arenas, CommitExhausted(a)
    PROVE  IInv'
<1> DEFINE id == identity[a]
           after == CommitUnwound(id)
<1>1. /\ Assigned(a)
      /\ identity' = [identity EXCEPT ![a] = after]
      /\ UNCHANGED <<items, mirror, used, serial, live, stale, saved, spoiled>>
  BY DEF CommitExhausted, Assigned, history
<1>2. /\ identity \in [Arenas -> Identity \cup {Unassigned}]
      /\ live \subseteq IndexSet /\ stale \subseteq IndexSet
      /\ saved \subseteq CheckpointSet /\ spoiled \subseteq CheckpointSet
  BY DEF IInv, TypeOK
<1>3. /\ identity'[a] = after
      /\ \A b \in Arenas : b # a => identity'[b] = identity[b]
  BY <1>1, <1>2
<1>4. /\ id \in Identity /\ WellFormed(id) /\ id.current_start \in Nat
  BY <1>1, AssignedIdentity
<1>5. /\ after \in Identity
      /\ WellFormed(after)
      /\ \A slot \in Nat : StampOf(after, slot) = StampOf(id, slot)
      /\ OwnStamps(after) \subseteq OwnStamps(id)
  BY <1>4, CommitUnwoundFacts
<1>6. /\ after.birth = id.birth /\ after.current = id.current
      /\ after.current_start = id.current_start
  BY <1>4 DEF CommitUnwound, Identity
<1>7. after # Unassigned /\ id # Unassigned
  BY <1>1, <1>5, UnassignedNotIdentity DEF Assigned
<1> HIDE DEF after
<1>8. \A b \in Arenas :
        /\ identity'[b] # Unassigned <=> identity[b] # Unassigned
        /\ identity'[b].birth = identity[b].birth
        /\ identity'[b].current = identity[b].current
        /\ identity'[b].current_start = identity[b].current_start
        /\ OwnStamps(identity'[b]) \subseteq OwnStamps(identity[b])
        /\ \A slot \in Nat : StampOf(identity'[b], slot) = StampOf(identity[b], slot)
  BY <1>3, <1>5, <1>6, <1>7
<1>9. /\ \A i \in Indices : i.arena \in Arenas /\ i.slot \in Nat
      /\ \A cp \in Checkpoints : cp.arena \in Arenas /\ cp.len \in Nat
  BY <1>2, IndexFields, CheckpointFields DEF Indices, Checkpoints
<1>10. TypeOK'
  BY <1>1, <1>2, <1>3, <1>5 DEF IInv, TypeOK
<1>11. IdentitiesSound'
  <2> SUFFICES ASSUME NEW b \in Arenas, identity'[b] # Unassigned
               PROVE  /\ WellFormed(identity'[b])
                      /\ identity'[b].current_start <= Len(items'[b])
                      /\ \A slot \in 0 .. identity'[b].current_start - 1 :
                            StampOf(identity'[b], slot) # identity'[b].current
                      /\ OwnStamps(identity'[b]) \subseteq used'
    BY DEF IdentitiesSound, Assigned, Size
  <2>1. WellFormed(identity'[b])
    BY <1>3, <1>5, <1>8 DEF IInv, IdentitiesSound, Assigned
  <2>2. /\ identity[b].current_start <= Len(items[b])
        /\ \A slot \in 0 .. identity[b].current_start - 1 :
              StampOf(identity[b], slot) # identity[b].current
        /\ OwnStamps(identity[b]) \subseteq used
    BY <1>8 DEF IInv, IdentitiesSound, Assigned, Size
  <2>3. \A slot \in 0 .. identity[b].current_start - 1 : slot \in Nat
    OBVIOUS
  <2> QED
    BY <1>1, <1>8, <2>1, <2>2, <2>3
<1>12. MirrorsIdentity' /\ StampsApart'
  BY <1>1, <1>8 DEF IInv, MirrorsIdentity, StampsApart, Assigned
<1>13. IndicesKnown'
  BY <1>1, <1>8, <1>9 DEF IInv, IndicesKnown, Indices, Assigned
<1>14. LiveCovered' /\ StaleUncovered'
  BY <1>1, <1>8, <1>9 DEF IInv, LiveCovered, StaleUncovered, Indices, Assigned, Size
<1>15. CheckpointsKnown'
  BY <1>1, <1>8, <1>9 DEF IInv, CheckpointsKnown, Checkpoints, Assigned
<1>16. \A b \in Arenas : \A len \in Nat : TailStamp(identity'[b], len) = TailStamp(identity[b], len)
  <2> SUFFICES ASSUME NEW b \in Arenas, NEW len \in Nat, len # 0
               PROVE  StampOf(identity'[b], len - 1) = StampOf(identity[b], len - 1)
    BY DEF TailStamp
  <2>1. len - 1 \in Nat
    OBVIOUS
  <2> QED
    BY <1>8, <2>1
<1>17. SavedCovered'
  BY <1>1, <1>8, <1>9, <1>16 DEF IInv, SavedCovered, Checkpoints, Assigned, Size
<1>18. SpoiledUncovered'
  <2> SUFFICES ASSUME NEW cp \in spoiled, identity'[cp.arena] # Unassigned,
                      cp.owner = identity'[cp.arena].birth
               PROVE  cp.len > 0 /\ StampOf(identity'[cp.arena], cp.len - 1) # cp.tail
    BY <1>1 DEF SpoiledUncovered, Assigned
  <2>1. cp.arena \in Arenas /\ cp.len \in Nat
    BY <1>9 DEF Checkpoints
  <2>2. cp.len > 0 /\ StampOf(identity[cp.arena], cp.len - 1) # cp.tail
    BY <1>8, <2>1 DEF IInv, SpoiledUncovered, Assigned
  <2>3. cp.len - 1 \in Nat
    BY <2>1, <2>2
  <2> QED
    BY <1>8, <2>1, <2>2, <2>3
<1> QED
  BY <1>10, <1>11, <1>12, <1>13, <1>14, <1>15, <1>17, <1>18 DEF IInv

(* iter_indexed and iter_indexed_mut.                                      *)
LEMMA IterIndexedStep ==
    ASSUME IInv, NEW a \in Arenas, IterIndexed(a)
    PROVE  IInv'
<1> DEFINE id == identity[a]
           yielded == { Index(a, StampOf(id, slot), slot, items[a][slot + 1]) :
                          slot \in 0 .. Size(a) - 1 }
<1>1. /\ Size(a) > 0
      /\ live' = live \cup yielded
      /\ UNCHANGED <<items, identity, mirror, used, serial, stale, saved, spoiled>>
  BY DEF IterIndexed
<1>2. /\ items[a] \in Seq(Nat) /\ Size(a) \in Nat
      /\ live \subseteq IndexSet
  BY DEF IInv, TypeOK, Size
<1>3. Assigned(a)
  <2>1. items[a] = << >> => Size(a) = 0
    BY DEF Size
  <2> QED
    BY <1>1, <2>1 DEF IInv, MirrorsIdentity
<1>4. /\ id \in Identity /\ WellFormed(id) /\ id.current_start \in Nat
      /\ OwnStamps(id) \subseteq used /\ used \subseteq Stamp
  BY <1>3, AssignedIdentity DEF IInv, TypeOK
<1>5. ASSUME NEW i \in yielded
      PROVE  /\ i \in IndexSet /\ i.arena = a
             /\ i.slot \in Nat /\ i.slot < Size(a)
             /\ i.stamp = StampOf(id, i.slot) /\ i.stamp \in OwnStamps(id)
             /\ i.value = items[a][i.slot + 1]
  <2>1. PICK slot \in 0 .. Size(a) - 1 :
          i = Index(a, StampOf(id, slot), slot, items[a][slot + 1])
    OBVIOUS
  <2>2. /\ i.arena = a /\ i.stamp = StampOf(id, slot)
        /\ i.slot = slot /\ i.value = items[a][slot + 1]
    BY <2>1 DEF Index
  <2>3. slot \in Nat /\ slot < Size(a) /\ slot + 1 \in 1 .. Len(items[a])
    BY <1>2 DEF Size
  <2>4. StampOf(id, slot) \in OwnStamps(id)
    BY <1>4, <2>3, StampOfOwn
  <2>5. items[a][slot + 1] \in Nat
    BY <1>2, <2>3
  <2>6. i \in IndexSet
    BY <1>4, <2>1, <2>3, <2>4, <2>5 DEF Index, IndexSet
  <2> QED
    BY <2>2, <2>3, <2>4, <2>6
<1> HIDE DEF id, yielded
<1>6. TypeOK'
  BY <1>1, <1>2, <1>5 DEF IInv, TypeOK
<1>7. IndicesKnown'
  <2> SUFFICES ASSUME NEW i \in yielded
               PROVE  /\ i.stamp \in used
                      /\ \A b \in Arenas :
                            b # i.arena /\ Assigned(b) => i.stamp \notin OwnStamps(identity[b])
                      /\ i.stamp = identity[i.arena].current =>
                            i.slot >= identity[i.arena].current_start
    BY <1>1 DEF IInv, IndicesKnown, Indices, Assigned
  <2>1. i.stamp \in used
    BY <1>4, <1>5
  <2>2. ASSUME NEW b \in Arenas, b # a, Assigned(b)
        PROVE  i.stamp \notin OwnStamps(identity[b])
    <3>1. OwnStamps(id) \cap OwnStamps(identity[b]) = {}
      BY <1>3, <2>2 DEF IInv, StampsApart, id
    <3> QED
      BY <1>5, <3>1
  <2>3. ASSUME ~(i.slot >= id.current_start)
        PROVE  i.stamp # id.current
    <3>1. i.slot \in 0 .. id.current_start - 1
      BY <1>4, <1>5, <2>3
    <3> QED
      BY <1>3, <1>5, <3>1 DEF IInv, IdentitiesSound, id
  <2> QED
    BY <1>5, <2>1, <2>2, <2>3 DEF id
<1>8. LiveCovered'
  BY <1>1, <1>3, <1>5 DEF IInv, LiveCovered, Assigned, Size, id
<1>9. /\ IdentitiesSound' /\ MirrorsIdentity' /\ StampsApart' /\ StaleUncovered'
      /\ CheckpointsKnown' /\ SavedCovered' /\ SpoiledUncovered'
  BY <1>1 DEF IInv, IdentitiesSound, MirrorsIdentity, StampsApart, StaleUncovered,
        CheckpointsKnown, SavedCovered, SpoiledUncovered, Checkpoints, Assigned, Size
<1> QED
  BY <1>6, <1>7, <1>8, <1>9 DEF IInv

(* Dropping an arena and building a new one in its place.                  *)
LEMMA ReplaceStep ==
    ASSUME IInv, NEW a \in Arenas, Replace(a)
    PROVE  IInv'
<1>1. /\ items' = [items EXCEPT ![a] = << >>]
      /\ identity' = [identity EXCEPT ![a] = Unassigned]
      /\ mirror' = [mirror EXCEPT ![a] = NoStamp]
      /\ used' = used /\ serial' = serial
      /\ live' \subseteq live /\ stale \subseteq stale'
      /\ saved' \subseteq saved /\ spoiled \subseteq spoiled'
      /\ \A i \in live' : i.arena # a
      /\ \A i \in stale' : i \in stale \/ (i \in live /\ i.arena = a)
      /\ \A cp \in saved' : cp.arena # a
      /\ \A cp \in spoiled' : cp \in spoiled \/ (cp \in saved /\ cp.arena = a)
  BY DEF Replace
<1>2. /\ items \in [Arenas -> Seq(Nat)]
      /\ identity \in [Arenas -> Identity \cup {Unassigned}]
      /\ mirror \in [Arenas -> Stamp \cup {NoStamp}]
      /\ live \subseteq IndexSet /\ stale \subseteq IndexSet
      /\ saved \subseteq CheckpointSet /\ spoiled \subseteq CheckpointSet
  BY DEF IInv, TypeOK
<1>3. /\ items'[a] = << >> /\ identity'[a] = Unassigned /\ mirror'[a] = NoStamp
      /\ \A b \in Arenas : b # a =>
            items'[b] = items[b] /\ identity'[b] = identity[b] /\ mirror'[b] = mirror[b]
  BY <1>1, <1>2
<1>4. /\ Indices' \subseteq Indices /\ Checkpoints' \subseteq Checkpoints
      /\ \A i \in Indices : i.arena \in Arenas /\ i.stamp \in Stamp
      /\ \A cp \in Checkpoints : cp.arena \in Arenas
  BY <1>1, <1>2, IndexFields, CheckpointFields DEF Indices, Checkpoints
<1>5. Unassigned.current = NoStamp
  BY DEF Unassigned
<1>6. TypeOK'
  BY <1>1, <1>2 DEF IInv, TypeOK
<1>7. IdentitiesSound' /\ MirrorsIdentity' /\ StampsApart'
  <2>1. IdentitiesSound'
    BY <1>1, <1>3 DEF IInv, IdentitiesSound, Assigned, Size
  <2>2. MirrorsIdentity'
    BY <1>3, <1>5 DEF IInv, MirrorsIdentity, Assigned
  <2>3. StampsApart'
    BY <1>3 DEF IInv, StampsApart, Assigned
  <2> QED
    BY <2>1, <2>2, <2>3
<1>8. IndicesKnown'
  BY <1>1, <1>3, <1>4, <1>5, StampAssumption DEF IInv, IndicesKnown, Assigned
<1>9. LiveCovered' /\ StaleUncovered'
  BY <1>1, <1>3, <1>4 DEF IInv, LiveCovered, StaleUncovered, Indices, Assigned, Size
<1>10. CheckpointsKnown'
  BY <1>1, <1>3, <1>4 DEF IInv, CheckpointsKnown, Assigned
<1>11. SavedCovered' /\ SpoiledUncovered'
  BY <1>1, <1>3, <1>4 DEF IInv, SavedCovered, SpoiledUncovered, Checkpoints, Assigned, Size
<1> QED
  BY <1>6, <1>7, <1>8, <1>9, <1>10, <1>11 DEF IInv

-----------------------------------------------------------------------------
(***************************************************************************)
(* The theorems.                                                           *)
(***************************************************************************)

(* A checkpoint that validates saves no more values than the arena holds.  *)
LEMMA ValidatedBounds ==
    ASSUME IInv, NEW a \in Arenas, NEW cp \in Checkpoints, ValidateCheckpoint(a, cp) = "Ok"
    PROVE  Assigned(a) /\ cp.len \in Nat /\ cp.len <= Size(a)
<1>1. cp.len \in Nat
  BY CheckpointFields DEF IInv, TypeOK, Checkpoints
<1>2. Assigned(a) /\ ~(cp.len > Size(a))
  BY DEF ValidateCheckpoint, Assigned
<1>3. Size(a) \in Nat
  BY DEF IInv, TypeOK, Size
<1> QED
  BY <1>1, <1>2, <1>3

LEMMA InitInv == Init => IInv
<1> SUFFICES ASSUME Init
             PROVE  IInv
  OBVIOUS
<1>1. Unassigned.current = NoStamp
  BY DEF Unassigned
<1>2. TypeOK
  BY DEF Init, TypeOK
<1>3. \A a \in Arenas : identity[a] = Unassigned /\ mirror[a] = NoStamp /\ items[a] = << >>
  BY DEF Init
<1>4. IdentitiesSound /\ MirrorsIdentity /\ StampsApart
  BY <1>1, <1>3 DEF IdentitiesSound, MirrorsIdentity, StampsApart, Assigned
<1>5. IndicesKnown /\ LiveCovered /\ StaleUncovered
  BY DEF Init, IndicesKnown, LiveCovered, StaleUncovered, Indices
<1>6. CheckpointsKnown /\ SavedCovered /\ SpoiledUncovered
  BY DEF Init, CheckpointsKnown, SavedCovered, SpoiledUncovered, Checkpoints
<1> QED
  BY <1>2, <1>4, <1>5, <1>6 DEF IInv

LEMMA NextInv == IInv /\ [Next]_vars => IInv'
<1> SUFFICES ASSUME IInv, [Next]_vars
             PROVE  IInv'
  OBVIOUS
<1>1. CASE UNCHANGED vars
  BY <1>1 DEF vars, IInv, TypeOK, IdentitiesSound, MirrorsIdentity, StampsApart, IndicesKnown,
        LiveCovered, StaleUncovered, CheckpointsKnown, SavedCovered, SpoiledUncovered,
        Indices, Checkpoints, Assigned, Size
<1>2. ASSUME NEW a \in Arenas, Alloc(a)
      PROVE  IInv'
  BY <1>2, StoreStep DEF Alloc
<1>3. ASSUME NEW a \in Arenas, NEW n \in 2 .. MaxBlock, AllocBlock(a, n)
      PROVE  IInv'
  BY <1>3, StoreStep, ArenaAssumption DEF AllocBlock
<1>4. ASSUME NEW a \in Arenas, TakeCheckpoint(a)
      PROVE  IInv'
  BY <1>4, TakeCheckpointStep
<1>5. ASSUME NEW a \in Arenas, NEW cp \in Checkpoints, TryRollback(a, cp)
      PROVE  IInv'
  <2>1. Assigned(a) /\ cp.len \in Nat /\ cp.len <= Size(a)
    BY <1>5, ValidatedBounds DEF TryRollback
  <2>2. PICK keep \in cp.len .. Size(a) : items' = [items EXCEPT ![a] = SubSeq(@, 1, keep)]
    BY <1>5 DEF TryRollback, DropSuffix
  <2> QED
    BY <1>5, <2>1, <2>2, InvalidateStep DEF TryRollback
<1>6. ASSUME NEW a \in Arenas, Reset(a)
      PROVE  IInv'
  <2>1. Assigned(a) /\ Size(a) \in Nat
    BY <1>6 DEF Reset, Assigned, IInv, TypeOK, Size
  <2>2. PICK keep \in 0 .. Size(a) : items' = [items EXCEPT ![a] = SubSeq(@, 1, keep)]
    BY <1>6 DEF Reset, DropSuffix
  <2>3. 0 \in Nat /\ 0 <= Size(a)
    BY <2>1
  <2>4. CommitBoundary(a, 0) /\ Revoke(a, 0) /\ serial' = serial
    BY <1>6 DEF Reset
  <2> QED
    BY <2>1, <2>2, <2>3, <2>4, InvalidateStep
<1>7. ASSUME NEW a \in Arenas, Drain(a)
      PROVE  IInv'
  <2>1. Assigned(a) /\ Size(a) \in Nat /\ items[a] \in Seq(Nat)
    BY <1>7 DEF Drain, Assigned, IInv, TypeOK, Size
  <2>2. items' = [items EXCEPT ![a] = SubSeq(@, 1, 0)]
    <3>1. SubSeq(items[a], 1, 0) = << >>
      BY <2>1
    <3> QED
      BY <1>7, <3>1 DEF Drain
  <2>3. 0 \in Nat /\ 0 <= Size(a) /\ 0 \in 0 .. Size(a)
    BY <2>1
  <2>4. CommitBoundary(a, 0) /\ Revoke(a, 0) /\ serial' = serial
    BY <1>7 DEF Drain
  <2> QED
    BY <2>1, <2>2, <2>3, <2>4, InvalidateStep
<1>8. ASSUME NEW a \in Arenas, CommitExhausted(a)
      PROVE  IInv'
  BY <1>8, CommitExhaustedStep
<1>9. ASSUME NEW a \in Arenas, IterIndexed(a)
      PROVE  IInv'
  BY <1>9, IterIndexedStep
<1>10. ASSUME NEW a \in Arenas, Replace(a)
       PROVE  IInv'
  BY <1>10, ReplaceStep
<1> QED
  BY <1>1, <1>2, <1>3, <1>4, <1>5, <1>6, <1>7, <1>8, <1>9, <1>10 DEF Next

(* Every reachable state satisfies the inductive invariant: the identities *)
(* of all arenas are well formed, own disjoint sets of stamps, and cover   *)
(* exactly the slots of the capabilities still live.                       *)
THEOREM Inductive == Spec => []IInv
<1>1. Init => IInv
  BY InitInv
<1>2. IInv /\ [Next]_vars => IInv'
  BY NextInv
<1> QED
  BY <1>1, <1>2, PTL DEF Spec

(* Type correctness.                                                       *)
THEOREM TypeCorrect == Spec => []TypeOK
<1>1. IInv => TypeOK
  BY DEF IInv
<1> QED
  BY <1>1, Inductive, PTL

(* No ABA: an index is accepted exactly until it is revoked, and names the *)
(* value it was issued for (Arena::is_valid, Arena::try_get).              *)
THEOREM IndicesAreExact == Spec => []IndicesExact
  BY Inductive, IndicesExactFromIInv, PTL

(* A checkpoint validates exactly until an operation cuts below its        *)
(* length; until then its prefix is the arena's, value for value           *)
(* (Arena::validate_checkpoint).                                           *)
THEOREM CheckpointsAreExact == Spec => []CheckpointsExact
  BY Inductive, CheckpointsExactFromIInv, PTL

(* No arena accepts a capability another arena issued.                     *)
THEOREM ForeignAreRejected == Spec => []ForeignRejected
  BY Inductive, ForeignRejectedFromIInv, PTL

(* The inline mirror and the cached prefix tail never go stale, and the    *)
(* table stays sorted with one entry per start.                            *)
THEOREM CachesStayCoherent == Spec => []CachesCoherent
  BY Inductive, CachesCoherentFromIInv, PTL

(* Nothing ever issued is forgotten, and nothing revoked is reinstated.    *)
LEMMA RevocationIsFinal == [Next]_vars => Indices \subseteq Indices' /\ stale \subseteq stale'
  BY DEF Next, vars, Alloc, AllocBlock, Store, TakeCheckpoint, TryRollback, Reset, Drain,
        Revoke, CommitExhausted, history, IterIndexed, Replace, Indices

(* An index once rejected is rejected for ever, by every arena.            *)
THEOREM RejectionIsFinal == Spec => RejectedForever
<1>1. IInv /\ IInv' /\ [Next]_vars =>
        [\A a \in Arenas : \A i \in Indices : ~IsValid(a, i) => ~IsValid(a, i)']_vars
  <2> SUFFICES ASSUME IInv, IInv', [Next]_vars, NEW a \in Arenas, NEW i \in Indices,
                      ~IsValid(a, i)
               PROVE  ~IsValid(a, i)'
    OBVIOUS
  <2>1. i \in Indices' /\ (i \in stale => i \in stale')
    BY RevocationIsFinal
  <2>2. IndicesExact /\ IndicesExact' /\ ForeignRejected'
    BY IndicesExactFromIInv, ForeignRejectedFromIInv, PTL
  <2>3. CASE i.arena # a
    BY <2>1, <2>2, <2>3 DEF ForeignRejected
  <2>4. CASE i.arena = a
    <3>1. i \in stale
      BY <2>2, <2>4 DEF IndicesExact, Indices
    <3> QED
      BY <2>1, <2>2, <2>4, <3>1 DEF IndicesExact
  <2> QED
    BY <2>3, <2>4
<1> QED
  BY <1>1, Inductive, PTL DEF Spec, RejectedForever
=============================================================================
