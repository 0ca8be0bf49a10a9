--------------------------- MODULE ArenaLogProof ----------------------------
(***************************************************************************)
(* Proofs that the arenas are a log of tagged entries: equal capabilities  *)
(* are the same capability, validation compares the tag of one entry, and  *)
(* Arena implements CapabilityLog.  All of it for any arenas, stamps and   *)
(* bounds, from the invariant of ArenaProof.                               *)
(***************************************************************************)
EXTENDS ArenaProof, SequenceTheorems

-----------------------------------------------------------------------------
(***************************************************************************)
(* Equal capabilities.                                                     *)
(***************************************************************************)

LEMMA IndexEqual ==
    ASSUME NEW i \in IndexSet, NEW j \in IndexSet,
           i.arena = j.arena, SameIdx(i, j), i.value = j.value
    PROVE  i = j
BY DEF IndexSet, SameIdx

LEMMA CheckpointEqual ==
    ASSUME NEW c \in CheckpointSet, NEW d \in CheckpointSet,
           c.arena = d.arena, SameCheckpoint(c, d), c.prefix = d.prefix
    PROVE  c = d
BY DEF CheckpointSet, SameCheckpoint

LiveUnique ==
    \A i \in live : \A j \in Indices : SameIdx(i, j) => i = j
SavedUnique ==
    \A c \in saved : \A d \in Checkpoints : SameCheckpoint(c, d) => c = d

(* No index, revoked or not, equals an index that is still valid.          *)
LEMMA LiveIndexUnique == IInv => LiveUnique
<1> SUFFICES ASSUME IInv, NEW i \in live, NEW j \in Indices, SameIdx(i, j)
             PROVE  i = j
  BY DEF LiveUnique
<1>1. i \in Indices /\ i \in IndexSet /\ j \in IndexSet
  BY DEF IInv, TypeOK, Indices
<1>2. i.arena \in Arenas /\ j.arena \in Arenas /\ i.slot \in Nat
  BY <1>1, IndexFields
<1>3. i.stamp = j.stamp /\ i.slot = j.slot
  BY DEF SameIdx
<1>4. /\ Assigned(i.arena)
      /\ StampOf(identity[i.arena], i.slot) = i.stamp
      /\ items[i.arena][i.slot + 1] = i.value
  BY DEF IInv, LiveCovered
<1>5. j.arena = i.arena
  <2>1. i.stamp \in OwnStamps(identity[i.arena])
    BY <1>2, <1>4, AssignedIdentity, StampOfOwn
  <2> QED
    BY <1>2, <1>3, <1>4, <2>1 DEF IInv, IndicesKnown
<1>6. j \in live
  BY <1>3, <1>4, <1>5 DEF IInv, StaleUncovered, Indices
<1>7. items[j.arena][j.slot + 1] = j.value
  BY <1>6 DEF IInv, LiveCovered
<1> QED
  BY <1>1, <1>3, <1>4, <1>5, <1>7, IndexEqual

(* No checkpoint, spoiled or not, equals one that is still valid.          *)
LEMMA SavedCheckpointUnique == IInv => SavedUnique
<1> SUFFICES ASSUME IInv, NEW c \in saved, NEW d \in Checkpoints, SameCheckpoint(c, d)
             PROVE  c = d
  BY DEF SavedUnique
<1>1. c \in CheckpointSet /\ d \in CheckpointSet
  BY DEF IInv, TypeOK, Checkpoints
<1>2. c.arena \in Arenas /\ d.arena \in Arenas /\ c.len \in Nat
  BY <1>1, CheckpointFields
<1>3. c.owner = d.owner /\ c.len = d.len /\ c.tail = d.tail
  BY DEF SameCheckpoint
<1>4. /\ Assigned(c.arena)
      /\ c.owner = identity[c.arena].birth
      /\ c.tail = TailStamp(identity[c.arena], c.len)
      /\ c.prefix = SubSeq(items[c.arena], 1, c.len)
  BY DEF IInv, SavedCovered
<1>5. d.arena = c.arena
  <2>1. d.owner \in OwnStamps(identity[c.arena])
    BY <1>2, <1>3, <1>4, AssignedIdentity
  <2> QED
    BY <1>2, <1>4, <2>1 DEF IInv, CheckpointsKnown
<1>6. d \in saved
  <2>1. ASSUME d \in spoiled
        PROVE  FALSE
    <3>1. d.len > 0 /\ StampOf(identity[d.arena], d.len - 1) # d.tail
      BY <1>3, <1>4, <1>5, <2>1 DEF IInv, SpoiledUncovered
    <3> QED
      BY <1>2, <1>3, <1>4, <1>5, <3>1 DEF TailStamp
  <2> QED
    BY <2>1 DEF Checkpoints
<1>7. d.prefix = SubSeq(items[d.arena], 1, d.len)
  BY <1>6 DEF IInv, SavedCovered
<1> QED
  BY <1>1, <1>3, <1>4, <1>5, <1>7, CheckpointEqual

(* What a step revokes had been issued before it.                          *)
LEMMA RevokedWasIssued ==
    [Next]_vars => stale' \subseteq Indices /\ spoiled' \subseteq Checkpoints
BY DEF Next, vars, Alloc, AllocBlock, Store, TakeCheckpoint, TryRollback, Reset, Drain,
       Revoke, CommitExhausted, history, IterIndexed, Replace, Indices, Checkpoints

(* A new capability is valid, so LiveIndexUnique and SavedCheckpointUnique *)
(* cover it; two revoked ones were both there before.                      *)
LEMMA UniqueStep ==
    ASSUME IInv', CapabilitiesUnique, [Next]_vars
    PROVE  CapabilitiesUnique'
<1>0. LiveUnique' /\ SavedUnique'
  BY LiveIndexUnique, SavedCheckpointUnique, PTL
<1>1. ASSUME NEW i \in Indices', NEW j \in Indices', SameIdx(i, j)
      PROVE  i = j
  <2>1. SameIdx(j, i)
    BY <1>1 DEF SameIdx
  <2>2. CASE i \in live'
    BY <1>1, <2>2, <1>0 DEF LiveUnique
  <2>3. CASE j \in live'
    BY <1>1, <2>1, <2>3, <1>0 DEF LiveUnique
  <2>4. CASE i \in stale' /\ j \in stale'
    BY <1>1, <2>4, RevokedWasIssued DEF CapabilitiesUnique
  <2> QED
    BY <2>2, <2>3, <2>4 DEF Indices
<1>2. ASSUME NEW c \in Checkpoints', NEW d \in Checkpoints', SameCheckpoint(c, d)
      PROVE  c = d
  <2>1. SameCheckpoint(d, c)
    BY <1>2 DEF SameCheckpoint
  <2>2. CASE c \in saved'
    BY <1>2, <2>2, <1>0 DEF SavedUnique
  <2>3. CASE d \in saved'
    BY <1>2, <2>1, <2>3, <1>0 DEF SavedUnique
  <2>4. CASE c \in spoiled' /\ d \in spoiled'
    BY <1>2, <2>4, RevokedWasIssued DEF CapabilitiesUnique
  <2> QED
    BY <2>2, <2>3, <2>4 DEF Checkpoints
<1> QED
  BY <1>1, <1>2 DEF CapabilitiesUnique

(* Capabilities that compare equal are the same capability, over all       *)
(* arenas and for the whole run (Idx::eq, Checkpoint::eq).                 *)
THEOREM EqualMeansSame == Spec => []CapabilitiesUnique
<1>1. Init => CapabilitiesUnique
  BY DEF Init, CapabilitiesUnique, Indices, Checkpoints
<1>2. IInv' /\ CapabilitiesUnique /\ [Next]_vars => CapabilitiesUnique'
  BY UniqueStep
<1> QED
  BY <1>1, <1>2, Inductive, PTL DEF Spec

-----------------------------------------------------------------------------
(***************************************************************************)
(* The log.                                                                *)
(***************************************************************************)

Entries(a) ==
    [k \in 1 .. Size(a) |-> [tag |-> StampOf(identity[a], k - 1), value |-> items[a][k]]]

(* The state of CapabilityLog that Arena implements.                       *)
LogOf == [a \in Arenas |-> Entries(a)]

(* Validation looks at the current stamp before it knows the segment, and  *)
(* still answers as a comparison with the tag of the entry would.          *)
LEMMA AnswersAgreeFromIInv == IInv => AnswersAgree
<1> SUFFICES ASSUME IInv, NEW a \in Arenas, NEW i \in Indices
             PROVE  IsValid(a, i) <=> Log!Accepts(a, i.stamp, i.slot)
  BY DEF AnswersAgree
<1>1. i.arena \in Arenas /\ i.slot \in Nat /\ i.stamp \in Stamp
  BY IndexFields DEF IInv, TypeOK, Indices
<1>2. Size(a) \in Nat /\ (~Assigned(a) => Size(a) = 0)
  BY DEF IInv, TypeOK, MirrorsIdentity, Size
<1>3. Log!Accepts(a, i.stamp, i.slot) <=>
        i.slot < Size(a) /\ StampOf(identity[a], i.slot) = i.stamp
  <2>1. Len(Entries(a)) = Size(a)
    BY <1>2 DEF Entries
  <2>2. Log!Accepts(a, i.stamp, i.slot) <=>
          i.slot < Len(Entries(a)) /\ Entries(a)[i.slot + 1].tag = i.stamp
    <3>1. Log!Accepts(a, i.stamp, i.slot) <=>
            i.slot < Len(LogOf[a]) /\ LogOf[a][i.slot + 1].tag = i.stamp
      BY DEF Log!Accepts, LogOf, Entries
    <3> QED
      BY <3>1 DEF LogOf
  <2>3. i.slot < Size(a) =>
          Entries(a)[i.slot + 1].tag = StampOf(identity[a], i.slot)
    <3>1. PICK k \in Nat : k = i.slot + 1 /\ k - 1 = i.slot
      BY <1>1
    <3>2. i.slot < Size(a) => k \in 1 .. Size(a)
      BY <1>1, <1>2, <3>1
    <3>3. k \in 1 .. Size(a) => Entries(a)[k].tag = StampOf(identity[a], k - 1)
      BY DEF Entries
    <3> QED
      BY <3>1, <3>2, <3>3
  <2> QED
    BY <2>1, <2>2, <2>3
<1>4. CASE ~Assigned(a)
  BY <1>1, <1>2, <1>3, <1>4, ValidIffCovered
<1>5. CASE Assigned(a)
  <2>1. i.arena # a => i.stamp \notin OwnStamps(identity[a])
    BY <1>5 DEF IInv, IndicesKnown
  <2>2. StampOf(identity[a], i.slot) \in OwnStamps(identity[a])
    BY <1>1, <1>5, AssignedIdentity, StampOfOwn
  <2> QED
    BY <1>3, <1>5, <2>1, <2>2, ValidIffCovered
<1> QED
  BY <1>4, <1>5

(* is_valid answers, for every index, as the log of tags would.            *)
THEOREM ValidationIsTagComparison == Spec => []AnswersAgree
  BY Inductive, AnswersAgreeFromIInv, PTL

-----------------------------------------------------------------------------
(***************************************************************************)
(* Arena implements CapabilityLog.                                         *)
(***************************************************************************)

Tags == [a \in Arenas |-> identity[a].current]
Owners == [a \in Arenas |-> identity[a].birth]

EntrySet == [tag : Stamp, value : Nat]

LEMMA FunctionIsSeq ==
    ASSUME NEW S, NEW m \in Nat, NEW f \in [1 .. m -> S]
    PROVE  f \in Seq(S) /\ Len(f) = m
OBVIOUS

LEMMA ConcatParts ==
    ASSUME NEW S, NEW p \in Seq(S), NEW q \in Seq(S)
    PROVE  /\ p \o q \in Seq(S)
           /\ Len(p \o q) = Len(p) + Len(q)
           /\ \A k \in 1 .. Len(p) : (p \o q)[k] = p[k]
           /\ \A k \in 1 .. Len(q) : (p \o q)[Len(p) + k] = q[k]
<1>1. Len(p) \in Nat /\ Len(q) \in Nat
  OBVIOUS
<1>2. ASSUME NEW k \in 1 .. Len(p)
      PROVE  (p \o q)[k] = p[k]
  <2>1. k \in 1 .. Len(p) + Len(q) /\ k <= Len(p)
    BY <1>1, <1>2
  <2> QED
    BY <2>1, ConcatProperties
<1>3. ASSUME NEW k \in 1 .. Len(q)
      PROVE  (p \o q)[Len(p) + k] = q[k]
  <2>1. Len(p) + k \in 1 .. Len(p) + Len(q) /\ ~(Len(p) + k <= Len(p))
        /\ Len(p) + k - Len(p) = k
    BY <1>1, <1>3
  <2> QED
    BY <2>1, ConcatProperties
<1> QED
  BY <1>2, <1>3, ConcatProperties

(* The entries of an arena, one per value.                                 *)
LEMMA EntriesFacts ==
    ASSUME IInv, NEW a \in Arenas
    PROVE  /\ Size(a) \in Nat
           /\ Entries(a) \in Seq(EntrySet)
           /\ Len(Entries(a)) = Size(a)
           /\ \A k \in 1 .. Size(a) :
                /\ k - 1 \in Nat
                /\ Entries(a)[k].tag = StampOf(identity[a], k - 1)
                /\ Entries(a)[k].value = items[a][k]
                /\ Entries(a)[k] = [tag |-> StampOf(identity[a], k - 1), value |-> items[a][k]]
<1>1. items[a] \in Seq(Nat) /\ Size(a) \in Nat
  BY DEF IInv, TypeOK, Size
<1>2. ASSUME NEW k \in 1 .. Size(a)
      PROVE  /\ k - 1 \in Nat
             /\ StampOf(identity[a], k - 1) \in Stamp
             /\ items[a][k] \in Nat
  <2>1. k - 1 \in Nat /\ items[a][k] \in Nat
    BY <1>1, <1>2 DEF Size
  <2>2. Assigned(a)
    BY <1>1, <1>2 DEF IInv, MirrorsIdentity, Size
  <2>3. StampOf(identity[a], k - 1) \in OwnStamps(identity[a])
    BY <2>1, <2>2, AssignedIdentity, StampOfOwn
  <2> QED
    BY <2>1, <2>2, <2>3, AssignedIdentity, OwnStampsType
<1>3. \A k \in 1 .. Size(a) :
        Entries(a)[k] = [tag |-> StampOf(identity[a], k - 1), value |-> items[a][k]]
  BY DEF Entries
<1>4. Entries(a) \in [1 .. Size(a) -> EntrySet]
  BY <1>2 DEF Entries, EntrySet
<1>5. Entries(a) \in Seq(EntrySet) /\ Len(Entries(a)) = Size(a)
  BY <1>1, <1>4
<1> QED
  BY <1>1, <1>2, <1>3, <1>5

(* A step that leaves the other arenas alone changes one log.              *)
LEMMA OneLogChanges ==
    ASSUME NEW a \in Arenas, NEW e, Entries(a)' = e,
           \A b \in Arenas : b # a => identity'[b] = identity[b] /\ items'[b] = items[b]
    PROVE  LogOf' = [LogOf EXCEPT ![a] = e]
<1>1. ASSUME NEW b \in Arenas, b # a
      PROVE  Entries(b)' = Entries(b)
  BY <1>1 DEF Entries, Size
<1> HIDE DEF Entries
<1> QED
  BY <1>1 DEF LogOf

(* The lazy assignment of an identity gives the arena its name and tag.    *)
LEMMA OpenStep ==
    ASSUME IInv, NEW a \in Arenas, EnsureIdentity(a)
    PROVE  Log!Open(a)
<1>1. identity \in [Arenas -> Identity \cup {Unassigned}]
  BY DEF IInv, TypeOK
<1>2. CASE Assigned(a)
  <2>1. UNCHANGED <<identity, mirror, used>>
    BY <1>2 DEF EnsureIdentity, Assigned
  <2>2. Owners[a] # NoStamp
    BY <1>2, AssignedIdentity, StampAssumption DEF Owners
  <2>3. Tags' = Tags /\ Owners' = Owners
    BY <2>1 DEF Tags, Owners
  <2> QED
    BY <2>1, <2>2, <2>3 DEF Log!Open, Tags, Owners
<1>3. CASE ~Assigned(a)
  <2>1. PICK s \in Stamp \ used :
          /\ identity' = [identity EXCEPT ![a] = NewIdentity(s)]
          /\ used' = used \cup {s}
    BY <1>3 DEF EnsureIdentity, Assigned
  <2>2. NewIdentity(s).birth = s /\ NewIdentity(s).current = s
    BY NewIdentityFacts
  <2>3. Owners[a] = NoStamp
    BY <1>3 DEF Owners, Assigned, Unassigned
  <2>4. Tags' = [Tags EXCEPT ![a] = s] /\ Owners' = [Owners EXCEPT ![a] = s]
    BY <1>1, <2>1, <2>2 DEF Tags, Owners
  <2> QED
    BY <2>1, <2>3, <2>4 DEF Log!Open, Tags, Owners
<1> QED
  BY <1>2, <1>3

(* A stored block lands at the end of the log, under the current tag.      *)
LEMMA PutStep ==
    ASSUME IInv, NEW a \in Arenas, NEW n \in 1 .. MaxBlock, EnsureIdentity(a), Store(a, n)
    PROVE  \E values \in [1 .. n -> 1 .. MaxValues] : Log!Put(a, values)
<1> DEFINE block == [k \in 1 .. n |-> serial + k]
           tail == [k \in DOMAIN block |-> [tag |-> Tags'[a], value |-> block[k]]]
           size == Size(a)
<1>1. /\ items \in [Arenas -> Seq(Nat)] /\ serial \in Nat /\ size \in Nat
      /\ n \in Nat /\ MaxValues \in Nat
  BY ArenaAssumption DEF IInv, TypeOK, Size
<1>2. /\ items' = [items EXCEPT ![a] = @ \o block]
      /\ serial + n <= MaxValues
  BY DEF Store
<1>3. block \in Seq(Nat) /\ Len(block) = n /\ DOMAIN block = 1 .. n
      /\ block \in [1 .. n -> 1 .. MaxValues]
  BY <1>1, <1>2
<1>4. /\ items[a] \in Seq(Nat) /\ Len(items[a]) = size
      /\ items'[a] = items[a] \o block
      /\ \A b \in Arenas : b # a => items'[b] = items[b]
  BY <1>1, <1>2 DEF Size
<1>5. /\ items'[a] \in Seq(Nat)
      /\ Len(items'[a]) = size + n
      /\ \A k \in 1 .. size : items'[a][k] = items[a][k]
      /\ \A k \in 1 .. n : items'[a][size + k] = block[k]
  <2> HIDE DEF block, size
  <2>0. items[a] \in Seq(Nat) /\ block \in Seq(Nat)
    BY <1>3, <1>4
  <2>1. /\ items[a] \o block \in Seq(Nat)
        /\ Len(items[a] \o block) = Len(items[a]) + Len(block)
        /\ \A k \in 1 .. Len(items[a]) : (items[a] \o block)[k] = items[a][k]
        /\ \A k \in 1 .. Len(block) : (items[a] \o block)[Len(items[a]) + k] = block[k]
    BY <2>0, ConcatParts
  <2> QED
    BY <1>3, <1>4, <2>1
<1>6. /\ identity' \in [Arenas -> Identity \cup {Unassigned}]
      /\ identity'[a] \in Identity
      /\ identity'[a].current_start \in Nat
      /\ identity'[a].current_start <= size
      /\ identity'[a].current \in Stamp
      /\ Tags'[a] = identity'[a].current
      /\ \A b \in Arenas : b # a => identity'[b] = identity[b]
      /\ Assigned(a) => identity'[a] = identity[a]
  <2>1. identity'[a] \in Identity /\ identity'[a] # Unassigned
    BY EnsureIdentityFacts DEF Assigned
  <2>2. identity'[a].current_start \in Nat /\ identity'[a].current \in Stamp
    BY <2>1 DEF Identity
  <2> QED
    BY <2>1, <2>2, EnsureIdentityFacts, EnsureIdentityKeeps DEF Tags
<1>7. ASSUME NEW k \in 1 .. size
      PROVE  StampOf(identity'[a], k - 1) = StampOf(identity[a], k - 1)
  <2>1. Assigned(a)
    BY <1>1, <1>7 DEF IInv, MirrorsIdentity, Size
  <2> QED
    BY <1>6, <2>1
<1>8. ASSUME NEW k \in 1 .. n
      PROVE  StampOf(identity'[a], size + k - 1) = Tags'[a]
  <2>1. size + k - 1 \in Nat /\ size + k - 1 >= identity'[a].current_start
        /\ (size + k - 1) + 1 # identity'[a].current_start
    BY <1>1, <1>6, <1>8
  <2> QED
    BY <1>6, <2>1 DEF StampOf
<1>9. /\ tail \in Seq(EntrySet) /\ Len(tail) = n
      /\ \A k \in 1 .. n : tail[k] = [tag |-> Tags'[a], value |-> block[k]]
  <2>1. tail \in [1 .. n -> EntrySet]
    BY <1>1, <1>3, <1>6 DEF EntrySet
  <2>2. \A k \in 1 .. n : tail[k] = [tag |-> Tags'[a], value |-> block[k]]
    BY <1>3
  <2> HIDE DEF tail
  <2> QED
    BY <1>1, <2>1, <2>2
<1>10. ASSUME NEW k \in 1 .. size + n
       PROVE  StampOf(identity'[a], k - 1) \in Stamp
  <2>1. k - 1 \in Nat
    BY <1>1, <1>10
  <2>2. WellFormed(identity'[a])
    BY EnsureIdentityFacts, EnsureIdentityKeeps DEF Assigned
  <2> QED
    BY <1>6, <2>1, <2>2, StampOfOwn, OwnStampsType
<1>11. Entries(a)' = Entries(a) \o tail
  <2> DEFINE left == Entries(a)'
             right == Entries(a) \o tail
  <2>1. /\ left \in [1 .. size + n -> EntrySet]
        /\ \A k \in 1 .. size + n :
             left[k] = [tag |-> StampOf(identity'[a], k - 1), value |-> items'[a][k]]
    <3>1. left = [k \in 1 .. size + n |->
                    [tag |-> StampOf(identity'[a], k - 1), value |-> items'[a][k]]]
      BY <1>5 DEF Entries, Size
    <3>2. \A k \in 1 .. size + n :
             StampOf(identity'[a], k - 1) \in Stamp /\ items'[a][k] \in Nat
      <4>1. items'[a] \in [1 .. size + n -> Nat]
        BY <1>5, LenProperties
      <4> HIDE DEF left, tail, block, size
      <4> QED
        BY <1>10, <4>1
    <3> HIDE DEF left
    <3> QED
      BY <3>1, <3>2 DEF EntrySet
  <2>2. /\ Entries(a) \in Seq(EntrySet) /\ Len(Entries(a)) = size
        /\ \A k \in 1 .. size :
             Entries(a)[k] = [tag |-> StampOf(identity[a], k - 1), value |-> items[a][k]]
    BY EntriesFacts
  <2> HIDE DEF left, tail, block, size
  <2>3. /\ right \in Seq(EntrySet) /\ Len(right) = size + n
        /\ \A k \in 1 .. size + n :
             right[k] = IF k <= size THEN Entries(a)[k] ELSE tail[k - size]
    BY <1>1, <1>9, <2>2, ConcatProperties
  <2>4. left \in Seq(EntrySet) /\ Len(left) = size + n
    <3>1. size + n \in Nat
      BY <1>1
    <3> QED
      BY <2>1, <3>1, FunctionIsSeq
  <2> HIDE DEF right
  <2>5. ASSUME NEW k \in 1 .. size + n
        PROVE  left[k] = right[k]
    <3>1. CASE k <= size
      <4>1. k \in 1 .. size
        BY <1>1, <3>1
      <4>2. right[k] = Entries(a)[k]
        BY <2>3, <3>1
      <4>3. StampOf(identity'[a], k - 1) = StampOf(identity[a], k - 1)
            /\ items'[a][k] = items[a][k]
        BY <1>5, <1>7, <4>1
      <4>4. left[k] = [tag |-> StampOf(identity[a], k - 1), value |-> items[a][k]]
        BY <2>1, <4>3
      <4> QED
        BY <2>2, <4>1, <4>2, <4>4
    <3>2. CASE ~(k <= size)
      <4>1. PICK j \in 1 .. n : k = size + j /\ k - size = j /\ k - 1 = size + j - 1
        <5>1. k - size \in 1 .. n /\ k = size + (k - size) /\ k - 1 = size + (k - size) - 1
          BY <1>1, <3>2
        <5> QED
          BY <5>1
      <4>2. right[k] = tail[j]
        BY <2>3, <3>2, <4>1
      <4>3. StampOf(identity'[a], k - 1) = Tags'[a] /\ items'[a][k] = block[j]
        BY <1>5, <1>8, <4>1
      <4> QED
        BY <1>9, <2>1, <4>2, <4>3
    <3> QED
      BY <3>1, <3>2
  <2>6. left = right
    BY <2>3, <2>4, <2>5, SeqEqual
  <2> QED
    BY <2>6 DEF left, right
<1>12. LogOf' = [LogOf EXCEPT ![a] = Entries(a) \o tail]
  BY <1>4, <1>6, <1>11, OneLogChanges
<1>13. LogOf' = [LogOf EXCEPT ![a] = LogOf[a] \o tail]
  BY <1>12 DEF LogOf
<1> HIDE DEF block
<1> QED
  BY <1>3, <1>13, OpenStep DEF Log!Put, LogOf, Entries, Tags

(* A commit at n retags the entries that stay at or above n, and no other. *)
LEMMA CutStep ==
    ASSUME IInv, NEW a \in Arenas, Assigned(a), NEW n \in Nat, NEW keep \in n .. Size(a),
           CommitBoundary(a, n),
           items' = [items EXCEPT ![a] = SubSeq(@, 1, keep)]
    PROVE  Log!Cut(a, n, keep)
<1> DEFINE id == identity[a]
<1>1. /\ items \in [Arenas -> Seq(Nat)]
      /\ identity \in [Arenas -> Identity \cup {Unassigned}]
      /\ Size(a) \in Nat /\ keep \in Nat /\ keep <= Size(a)
  BY DEF IInv, TypeOK, Size
<1>2. PICK s \in Stamp \ used :
        /\ identity' = [identity EXCEPT ![a] = Commit(@, n, s)]
        /\ used' = used \cup {s}
  BY DEF CommitBoundary
<1>3. /\ identity'[a] = Commit(id, n, s)
      /\ \A b \in Arenas : b # a => identity'[b] = identity[b] /\ items'[b] = items[b]
      /\ items'[a] = SubSeq(items[a], 1, keep)
  BY <1>1, <1>2
<1>4. id \in Identity /\ WellFormed(id) /\ s # id.birth /\ id.birth \in Stamp
  BY <1>2, AssignedIdentity
<1>5. /\ \A slot \in Nat :
           StampOf(identity'[a], slot) = IF slot >= n THEN s ELSE StampOf(id, slot)
      /\ identity'[a].current = s /\ identity'[a].birth = id.birth
  <2>1. \A slot \in Nat :
           StampOf(Commit(id, n, s), slot) = IF slot >= n THEN s ELSE StampOf(id, slot)
    BY <1>2, <1>4, CommitFacts
  <2>2. Commit(id, n, s).current = s /\ Commit(id, n, s).birth = id.birth
    BY <1>4 DEF Commit, Identity
  <2> QED
    BY <1>3, <2>1, <2>2
<1>6. /\ Len(items'[a]) = keep
      /\ \A k \in 1 .. keep : items'[a][k] = items[a][k]
  <2>1. items[a] \in Seq(Nat) /\ Len(items[a]) = Size(a)
    BY <1>1 DEF Size
  <2> QED
    BY <1>1, <1>3, <2>1
<1>7. /\ Len(Entries(a)) = Size(a)
      /\ \A k \in 1 .. Size(a) :
           /\ k - 1 \in Nat
           /\ Entries(a)[k] = [tag |-> StampOf(id, k - 1), value |-> items[a][k]]
  BY EntriesFacts
<1>8. Entries(a)' = [k \in 1 .. keep |->
                       IF k <= n THEN Entries(a)[k] ELSE [Entries(a)[k] EXCEPT !.tag = s]]
  <2>1. Entries(a)' = [k \in 1 .. keep |->
                         [tag |-> StampOf(identity'[a], k - 1), value |-> items'[a][k]]]
    BY <1>6 DEF Entries, Size
  <2>2. ASSUME NEW k \in 1 .. keep
        PROVE  [tag |-> StampOf(identity'[a], k - 1), value |-> items'[a][k]] =
                 IF k <= n THEN Entries(a)[k] ELSE [Entries(a)[k] EXCEPT !.tag = s]
    <3>1. k \in 1 .. Size(a) /\ k - 1 \in Nat /\ (k <= n <=> ~(k - 1 >= n))
      BY <1>1, <2>2
    <3>2. StampOf(identity'[a], k - 1) = IF k <= n THEN StampOf(id, k - 1) ELSE s
      BY <1>5, <3>1
    <3>3. items'[a][k] = items[a][k]
      BY <1>6, <2>2
    <3>4. Entries(a)[k] = [tag |-> StampOf(id, k - 1), value |-> items[a][k]]
      BY <1>7, <3>1
    <3> QED
      BY <3>2, <3>3, <3>4
  <2> HIDE DEF Entries
  <2> QED
    BY <2>1, <2>2
<1>9. LogOf' = [LogOf EXCEPT ![a] =
                  [k \in 1 .. keep |->
                     IF k <= n THEN @[k] ELSE [@[k] EXCEPT !.tag = s]]]
  <2>1. LogOf' = [LogOf EXCEPT ![a] =
                    [k \in 1 .. keep |->
                       IF k <= n THEN Entries(a)[k] ELSE [Entries(a)[k] EXCEPT !.tag = s]]]
    BY <1>3, <1>8, OneLogChanges
  <2>2. LogOf[a] = Entries(a)
    BY DEF LogOf
  <2> QED
    BY <2>1, <2>2
<1>10. /\ Tags' = [Tags EXCEPT ![a] = s]
       /\ Owners' = Owners /\ Owners[a] # NoStamp
  BY <1>1, <1>3, <1>4, <1>5, StampAssumption DEF Tags, Owners
<1> QED
  BY <1>2, <1>9, <1>10 DEF Log!Cut, LogOf, Entries, Tags, Owners

(* An unwound commit rewrites the table and changes no entry.              *)
LEMMA UnwoundStep ==
    ASSUME IInv, NEW a \in Arenas, CommitExhausted(a)
    PROVE  UNCHANGED <<LogOf, Tags, Owners, used>>
<1>1. /\ identity \in [Arenas -> Identity \cup {Unassigned}]
      /\ Assigned(a) /\ used' = used /\ items' = items
      /\ identity' = [identity EXCEPT ![a] = CommitUnwound(@)]
  BY DEF CommitExhausted, IInv, TypeOK, Assigned
<1>2. /\ identity'[a] = CommitUnwound(identity[a])
      /\ \A b \in Arenas : b # a => identity'[b] = identity[b]
  BY <1>1
<1>3. /\ CommitUnwound(identity[a]).current = identity[a].current
      /\ CommitUnwound(identity[a]).birth = identity[a].birth
      /\ \A slot \in Nat :
           StampOf(CommitUnwound(identity[a]), slot) = StampOf(identity[a], slot)
  <2>1. identity[a] \in Identity /\ WellFormed(identity[a])
    BY <1>1, AssignedIdentity
  <2> QED
    BY <2>1, CommitUnwoundFacts DEF CommitUnwound, Identity
<1>4. Entries(a)' = Entries(a)
  <2>1. \A k \in 1 .. Size(a) : k - 1 \in Nat
    BY DEF IInv, TypeOK, Size
  <2> QED
    BY <1>1, <1>2, <1>3, <2>1 DEF Entries, Size
<1>5. LogOf' = [LogOf EXCEPT ![a] = Entries(a)]
  BY <1>1, <1>2, <1>4, OneLogChanges
<1>6. LogOf' = LogOf
  BY <1>5 DEF LogOf
<1>7. Tags' = Tags /\ Owners' = Owners
  BY <1>2, <1>3 DEF Tags, Owners
<1> QED
  BY <1>1, <1>6, <1>7

(* A new arena in the variable of an old one starts an empty log.          *)
LEMMA DropStep ==
    ASSUME IInv, NEW a \in Arenas, Replace(a)
    PROVE  Log!Drop(a)
<1>1. /\ items' = [items EXCEPT ![a] = << >>]
      /\ identity' = [identity EXCEPT ![a] = Unassigned]
      /\ used' = used
      /\ items \in [Arenas -> Seq(Nat)]
      /\ identity \in [Arenas -> Identity \cup {Unassigned}]
  BY DEF Replace, IInv, TypeOK
<1>2. /\ items'[a] = << >> /\ identity'[a] = Unassigned
      /\ \A b \in Arenas : b # a => identity'[b] = identity[b] /\ items'[b] = items[b]
  BY <1>1
<1>3. Entries(a)' = << >>
  <2>1. 1 .. Size(a)' = {}
    BY <1>2 DEF Size
  <2> QED
    BY <2>1 DEF Entries
<1>4. LogOf' = [LogOf EXCEPT ![a] = << >>]
  BY <1>2, <1>3, OneLogChanges
<1>5. Tags' = [Tags EXCEPT ![a] = NoStamp] /\ Owners' = [Owners EXCEPT ![a] = NoStamp]
  BY <1>1, <1>2 DEF Tags, Owners, Unassigned
<1> QED
  BY <1>1, <1>4, <1>5 DEF Log!Drop, LogOf, Entries, Tags, Owners

LEMMA InitLog == Init => Log!Init
<1> SUFFICES ASSUME Init
             PROVE  Log!Init
  OBVIOUS
<1>1. \A a \in Arenas : identity[a] = Unassigned /\ items[a] = << >>
  BY DEF Init
<1>2. \A a \in Arenas : Entries(a) = << >>
  <2> SUFFICES ASSUME NEW a \in Arenas
               PROVE  Entries(a) = << >>
    OBVIOUS
  <2>1. 1 .. Size(a) = {}
    BY <1>1 DEF Size
  <2> QED
    BY <2>1 DEF Entries
<1>3. LogOf = [a \in Arenas |-> << >>]
  <2> HIDE DEF Entries
  <2> QED
    BY <1>2 DEF LogOf
<1>4. Tags = [a \in Arenas |-> NoStamp] /\ Owners = [a \in Arenas |-> NoStamp]
  BY <1>1 DEF Tags, Owners, Unassigned
<1>5. used = {}
  BY DEF Init
<1> QED
  BY <1>3, <1>4, <1>5 DEF Log!Init, LogOf, Entries, Tags, Owners

(* What a cut does to the log, for the operations that commit a boundary.  *)
LEMMA CutIsNext ==
    ASSUME IInv, NEW a \in Arenas, Assigned(a), NEW n \in Nat, NEW keep \in n .. Size(a),
           CommitBoundary(a, n),
           items' = [items EXCEPT ![a] = SubSeq(@, 1, keep)]
    PROVE  Log!Next
<1>1. LogOf[a] = Entries(a) /\ Len(Entries(a)) = Size(a) /\ Size(a) \in Nat
  BY EntriesFacts DEF LogOf
<1>2. n \in 0 .. Len(LogOf[a]) /\ keep \in n .. Len(LogOf[a])
  BY <1>1
<1>3. Log!Cut(a, n, keep)
  BY CutStep
<1> QED
  BY <1>2, <1>3 DEF Log!Next, LogOf, Entries

LEMMA StepLog == IInv /\ [Next]_vars => [Log!Next]_(Log!vars)
<1> SUFFICES ASSUME IInv, [Next]_vars
             PROVE  Log!Next \/ UNCHANGED <<LogOf, Tags, Owners, used>>
  BY DEF Log!vars, LogOf, Entries, Tags, Owners
<1>1. ASSUME UNCHANGED <<items, identity, used>>
      PROVE  UNCHANGED <<LogOf, Tags, Owners, used>>
  BY <1>1 DEF LogOf, Entries, Tags, Owners, Size
<1>2. ASSUME NEW a \in Arenas, NEW n \in 1 .. MaxBlock, EnsureIdentity(a), Store(a, n)
      PROVE  Log!Next
  <2>1. \E values \in [1 .. n -> 1 .. MaxValues] : Log!Put(a, values)
    BY <1>2, PutStep
  <2> QED
    BY <2>1 DEF Log!Next
<1>3. ASSUME NEW a \in Arenas, Alloc(a)
      PROVE  Log!Next
  <2>1. 1 \in 1 .. MaxBlock
    BY ArenaAssumption
  <2> QED
    BY <1>2, <1>3, <2>1 DEF Alloc
<1>4. ASSUME NEW a \in Arenas, NEW n \in 2 .. MaxBlock, AllocBlock(a, n)
      PROVE  Log!Next
  <2>1. n \in 1 .. MaxBlock
    BY ArenaAssumption
  <2> QED
    BY <1>2, <1>4, <2>1 DEF AllocBlock
<1>5. ASSUME NEW a \in Arenas, TakeCheckpoint(a)
      PROVE  Log!Next
  <2>1. EnsureIdentity(a) /\ items' = items
    BY <1>5 DEF TakeCheckpoint
  <2>2. LogOf' = LogOf
    <3>1. \A b \in Arenas : b # a => identity'[b] = identity[b] /\ items'[b] = items[b]
      BY <2>1, EnsureIdentityFacts
    <3>2. Entries(a)' = Entries(a)
      <4>1. CASE Assigned(a)
        BY <2>1, <4>1, EnsureIdentityFacts DEF Entries, Size
      <4>2. CASE ~Assigned(a)
        <5>1. 1 .. Size(a) = {} /\ 1 .. Size(a)' = {}
          BY <2>1, <4>2 DEF IInv, MirrorsIdentity, Size
        <5> QED
          BY <5>1 DEF Entries
      <4> QED
        BY <4>1, <4>2
    <3>3. LogOf' = [LogOf EXCEPT ![a] = Entries(a)]
      BY <3>1, <3>2, OneLogChanges
    <3> QED
      BY <3>3 DEF LogOf
  <2>3. Log!Open(a)
    BY <2>1, OpenStep
  <2>4. Log!Mark(a)
    BY <2>2, <2>3 DEF Log!Mark, LogOf, Entries
  <2> QED
    BY <2>4 DEF Log!Next
<1>6. ASSUME NEW a \in Arenas, NEW cp \in Checkpoints, TryRollback(a, cp)
      PROVE  Log!Next
  <2>1. Assigned(a) /\ cp.len \in Nat
    BY <1>6, ValidatedBounds DEF TryRollback
  <2>2. PICK keep \in cp.len .. Size(a) : items' = [items EXCEPT ![a] = SubSeq(@, 1, keep)]
    BY <1>6 DEF TryRollback, DropSuffix
  <2> QED
    BY <1>6, <2>1, <2>2, CutIsNext DEF TryRollback
<1>7. ASSUME NEW a \in Arenas, Reset(a)
      PROVE  Log!Next
  <2>1. Assigned(a) /\ 0 \in Nat /\ CommitBoundary(a, 0)
    BY <1>7 DEF Reset, Assigned
  <2>2. PICK keep \in 0 .. Size(a) : items' = [items EXCEPT ![a] = SubSeq(@, 1, keep)]
    BY <1>7 DEF Reset, DropSuffix
  <2> QED
    BY <2>1, <2>2, CutIsNext
<1>8. ASSUME NEW a \in Arenas, Drain(a)
      PROVE  Log!Next
  <2>1. Assigned(a) /\ 0 \in Nat /\ CommitBoundary(a, 0) /\ items[a] \in Seq(Nat)
    BY <1>8 DEF Drain, Assigned, IInv, TypeOK
  <2>2. 0 \in 0 .. Size(a)
    BY <2>1 DEF Size
  <2>3. items' = [items EXCEPT ![a] = SubSeq(@, 1, 0)]
    <3>1. SubSeq(items[a], 1, 0) = << >>
      BY <2>1
    <3> QED
      BY <1>8, <3>1 DEF Drain
  <2> QED
    BY <2>1, <2>2, <2>3, CutIsNext
<1>9. ASSUME NEW a \in Arenas, Replace(a)
      PROVE  Log!Next
  <2>1. Log!Drop(a)
    BY <1>9, DropStep
  <2> QED
    BY <2>1 DEF Log!Next
<1>10. ASSUME NEW a \in Arenas, CommitExhausted(a)
       PROVE  UNCHANGED <<LogOf, Tags, Owners, used>>
  BY <1>10, UnwoundStep
<1>11. ASSUME NEW a \in Arenas, IterIndexed(a)
       PROVE  UNCHANGED <<items, identity, used>>
  BY <1>11 DEF IterIndexed
<1>12. CASE UNCHANGED vars
  BY <1>1, <1>12 DEF vars
<1> QED
  BY <1>1, <1>3, <1>4, <1>5, <1>6, <1>7, <1>8, <1>9, <1>10, <1>11, <1>12 DEF Next

(* Segments, archive, compaction and the prefix_tail cache implement one   *)
(* tag per slot, for any number of commits, drops and unwound commits.     *)
THEOREM ArenaImplementsLog == Spec => ImplementsLog
<1>1. Init => Log!Init
  BY InitLog
<1>2. IInv /\ [Next]_vars => [Log!Next]_(Log!vars)
  BY StepLog
<1> QED
  BY <1>1, <1>2, Inductive, PTL DEF Spec, ImplementsLog, Log!Spec
=============================================================================
