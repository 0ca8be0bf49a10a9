--------------------------- MODULE SegmentsProof ----------------------------
(***************************************************************************)
(* What the segment table computes, for every table, slot and boundary:    *)
(* the search finds the covering segment, compaction loses nothing, and a  *)
(* commit re-stamps exactly the slots at or above the new boundary.        *)
(***************************************************************************)
EXTENDS Segments, WellFoundedInduction, TLAPS

Below == { p \in Nat \X Nat : p[1] < p[2] }

(* Every non-empty set of naturals has a least element.                    *)
LEMMA LeastNatural ==
    ASSUME NEW T \in SUBSET Nat, T # {}
    PROVE  \E k \in T : \A y \in T : ~(y < k)
<1>1. IsWellFoundedOn(Below, Nat)
  BY NatLessThanWellFounded DEF OpToRel, Below
<1>2. PICK k \in T : \A y \in T : ~(<<y, k>> \in Below)
  BY <1>1, WFMin
<1> QED
  BY <1>2 DEF Below

LEMMA EntryType ==
    ASSUME NEW table \in Seq(Segment), NEW i \in DOMAIN table
    PROVE  table[i].start \in Nat /\ table[i].stamp \in Stamp
<1>1. table[i] \in Segment
  OBVIOUS
<1> QED
  BY <1>1 DEF Segment

(* The search is defined on every table: some k has an entry below the     *)
(* bound as its last one and none below the bound after it.                *)
LEMMA PartitionPointType ==
    ASSUME NEW table \in Seq(Segment), NEW bound \in Int
    PROVE  LET k == PartitionPoint(table, bound)
           IN  /\ k \in 0 .. Len(table)
               /\ k = 0 \/ table[k].start < bound
               /\ \A i \in k + 1 .. Len(table) : table[i].start >= bound
<1> DEFINE T == { k \in Nat : /\ k <= Len(table)
                              /\ \A i \in k + 1 .. Len(table) : table[i].start >= bound }
<1>1. Len(table) \in T
  OBVIOUS
<1>2. PICK k \in T : \A y \in T : ~(y < k)
  BY <1>1, LeastNatural
<1>3. k = 0 \/ table[k].start < bound
  <2> SUFFICES ASSUME k # 0, ~(table[k].start < bound)
               PROVE  FALSE
    OBVIOUS
  <2>1. table[k] \in Segment
    BY k \in 1 .. Len(table)
  <2>2. k - 1 \in T
    BY <2>1 DEF Segment
  <2>3. k \in Nat /\ k - 1 < k
    OBVIOUS
  <2> HIDE DEF T
  <2> QED
    BY <1>2, <2>2, <2>3
<1>4. k \in 0 .. Len(table) /\ \A i \in k + 1 .. Len(table) : table[i].start >= bound
  OBVIOUS
<1> QED
  BY <1>3, <1>4 DEF PartitionPoint

(* On a sorted table the search is the partition point: every entry up to  *)
(* it is below the bound.                                                  *)
LEMMA PartitionPointSorted ==
    ASSUME NEW table \in Seq(Segment), NEW bound \in Int, Sorted(table)
    PROVE  \A i \in 1 .. PartitionPoint(table, bound) : table[i].start < bound
<1> DEFINE k == PartitionPoint(table, bound)
<1>1. k \in 0 .. Len(table) /\ (k = 0 \/ table[k].start < bound)
  BY PartitionPointType
<1> HIDE DEF k
<1> SUFFICES ASSUME NEW i \in 1 .. k
             PROVE  table[i].start < bound
  BY DEF k
<1>2. i \in DOMAIN table /\ k \in DOMAIN table
  BY <1>1
<1>3. table[i].start \in Nat /\ table[k].start \in Nat
  BY <1>2, EntryType
<1>4. i = k \/ table[i].start < table[k].start
  BY <1>1, <1>2 DEF Sorted
<1> QED
  BY <1>1, <1>3, <1>4

(* The search is determined by what it returns: any k that splits the   *)
(* table at the bound is the partition point.                              *)
LEMMA PartitionPointUnique ==
    ASSUME NEW table \in Seq(Segment), NEW bound \in Int,
           NEW k \in 0 .. Len(table),
           k = 0 \/ table[k].start < bound,
           \A i \in k + 1 .. Len(table) : table[i].start >= bound
    PROVE  PartitionPoint(table, bound) = k
<1> DEFINE p == PartitionPoint(table, bound)
<1>1. /\ p \in 0 .. Len(table)
      /\ p = 0 \/ table[p].start < bound
      /\ \A i \in p + 1 .. Len(table) : table[i].start >= bound
  BY PartitionPointType
<1> HIDE DEF p
<1>2. \A i \in 1 .. Len(table) : table[i].start \in Nat
  BY EntryType
<1>3. ~(p < k)
  BY <1>1, <1>2
<1>4. ~(k < p)
  BY <1>1, <1>2
<1>5. p = k
  BY <1>1, <1>3, <1>4
<1> QED
  BY <1>5 DEF p

-----------------------------------------------------------------------------
(***************************************************************************)
(* The archive.                                                            *)
(***************************************************************************)

(* What the compacted table looks like when there is a segment to archive. *)
LEMMA ArchiveShape ==
    ASSUME NEW id \in Identity, id.current # id.birth
    PROVE  LET d == PartitionPoint(id.table, id.current_start)
           IN  /\ d \in 0 .. Len(id.table)
               /\ Archive(id) \in Seq(Segment)
               /\ Len(Archive(id)) = d + 1
               /\ \A i \in 1 .. d : Archive(id)[i] = id.table[i]
               /\ Archive(id)[d + 1].start = id.current_start
               /\ Archive(id)[d + 1].stamp = id.current
<1> DEFINE d == PartitionPoint(id.table, id.current_start)
           kept == SubSeq(id.table, 1, d)
           entry == [start |-> id.current_start, stamp |-> id.current]
<1>1. /\ id.table \in Seq(Segment)
      /\ id.current_start \in Nat
      /\ id.current \in Stamp
  BY DEF Identity
<1>2. d \in 0 .. Len(id.table)
  BY <1>1, PartitionPointType
<1>3. entry \in Segment
  BY <1>1 DEF Segment
<1>4. Archive(id) = Append(kept, entry)
  BY DEF Archive
<1> HIDE DEF d, entry
<1>5. /\ kept \in Seq(Segment)
      /\ Len(kept) = d
      /\ \A i \in 1 .. d : kept[i] = id.table[i]
  BY <1>1, <1>2
<1> HIDE DEF kept
<1>6. /\ Append(kept, entry) \in Seq(Segment)
      /\ Len(Append(kept, entry)) = d + 1
      /\ \A i \in 1 .. d : Append(kept, entry)[i] = kept[i]
      /\ Append(kept, entry)[d + 1] = entry
  BY <1>2, <1>3, <1>5
<1> QED
  BY <1>2, <1>4, <1>5, <1>6 DEF d, entry

(* Archiving keeps the table sorted, loses no answer below the segment     *)
(* archived, and answers for that segment from its start upwards.          *)
LEMMA ArchiveFacts ==
    ASSUME NEW id \in Identity, Sorted(id.table), BirthUncommitted(id)
    PROVE  /\ Archive(id) \in Seq(Segment)
           /\ Sorted(Archive(id))
           /\ \A slot \in Nat :
                 StampOfCold(id.birth, Archive(id), slot) =
                    IF slot >= id.current_start
                    THEN id.current
                    ELSE StampOfCold(id.birth, id.table, slot)
<1>1. CASE id.current = id.birth
  <2>1. /\ Archive(id) = << >>
        /\ id.table = << >>
        /\ id.current_start = 0
    BY <1>1 DEF Archive, BirthUncommitted
  <2>2. << >> \in Seq(Segment) /\ Sorted(<< >>)
    BY DEF Sorted
  <2>3. ASSUME NEW slot \in Nat
        PROVE  PartitionPoint(<< >>, slot + 1) = 0
    <3>1. slot + 1 \in Int /\ Len(<< >>) = 0
      OBVIOUS
    <3>2. PartitionPoint(<< >>, slot + 1) \in 0 .. 0
      BY <2>2, <3>1, PartitionPointType
    <3> QED
      BY <3>2
  <2> QED
    BY <1>1, <2>1, <2>2, <2>3 DEF StampOfCold
<1>2. CASE id.current # id.birth
  <2> DEFINE A == Archive(id)
             T == id.table
             d == PartitionPoint(T, id.current_start)
  <2>1. T \in Seq(Segment) /\ id.current_start \in Nat
    BY DEF Identity
  <2>2. /\ d \in 0 .. Len(T)
        /\ A \in Seq(Segment)
        /\ Len(A) = d + 1
        /\ \A i \in 1 .. d : A[i] = T[i]
        /\ A[d + 1].start = id.current_start
        /\ A[d + 1].stamp = id.current
    BY <1>2, ArchiveShape
  <2>3. /\ \A i \in 1 .. d : T[i].start < id.current_start
        /\ \A i \in d + 1 .. Len(T) : T[i].start >= id.current_start
    <3>1. id.current_start \in Int
      BY <2>1
    <3> HIDE DEF T
    <3>2. Sorted(T)
      BY DEF T
    <3> QED
      BY <2>1, <3>1, <3>2, PartitionPointSorted, PartitionPointType
  <2>4. \A i \in 1 .. Len(T) : T[i].start \in Nat
    BY <2>1, EntryType
  <2> HIDE DEF A, T, d
  <2>5. Sorted(A)
    BY <2>1, <2>2, <2>3, <2>4 DEF Sorted, T
  <2>6. ASSUME NEW slot \in Nat, slot >= id.current_start
        PROVE  StampOfCold(id.birth, A, slot) = id.current
    <3>1. PartitionPoint(A, slot + 1) = d + 1
      BY <2>1, <2>2, <2>6, PartitionPointUnique
    <3> QED
      BY <3>1, <2>2 DEF StampOfCold
  <2>7. ASSUME NEW slot \in Nat, ~(slot >= id.current_start)
        PROVE  StampOfCold(id.birth, A, slot) = StampOfCold(id.birth, T, slot)
    <3> DEFINE p == PartitionPoint(T, slot + 1)
    <3>1. /\ p \in 0 .. Len(T)
          /\ p = 0 \/ T[p].start < slot + 1
          /\ \A i \in p + 1 .. Len(T) : T[i].start >= slot + 1
      <4>1. slot + 1 \in Int
        OBVIOUS
      <4> QED
        BY <2>1, <4>1, PartitionPointType
    <3> HIDE DEF p
    <3>2. p <= d
      BY <2>1, <2>2, <2>3, <2>4, <2>7, <3>1
    <3>3. /\ p \in 0 .. Len(A)
          /\ p = 0 \/ A[p].start < slot + 1
          /\ \A i \in p + 1 .. Len(A) : A[i].start >= slot + 1
      <4>1. p \in 0 .. Len(A) /\ (p = 0 \/ A[p].start < slot + 1)
        BY <2>2, <3>1, <3>2
      <4>2. ASSUME NEW i \in p + 1 .. Len(A)
            PROVE  A[i].start >= slot + 1
        <5>1. CASE i <= d
          BY <2>1, <2>2, <3>1, <5>1
        <5>2. CASE i = d + 1
          BY <2>1, <2>2, <2>7, <5>2
        <5> QED
          BY <2>2, <3>1, <5>1, <5>2
      <4> QED
        BY <4>1, <4>2
    <3>4. PartitionPoint(A, slot + 1) = p
      <4>1. slot + 1 \in Int
        OBVIOUS
      <4> QED
        BY <2>2, <3>3, <4>1, PartitionPointUnique
    <3> QED
      BY <2>2, <3>1, <3>2, <3>4 DEF StampOfCold, p
  <2> QED
    BY <2>2, <2>5, <2>6, <2>7 DEF A, T
<1> QED
  BY <1>1, <1>2

-----------------------------------------------------------------------------
(***************************************************************************)
(* The lookup and the commit.                                              *)
(***************************************************************************)

(* The cache and the fast path are transparent: the lookup answers what    *)
(* the search over the archive, with the current segment added, would.     *)
LEMMA StampOfSearch ==
    ASSUME NEW id \in Identity, WellFormed(id), NEW slot \in Nat
    PROVE  StampOf(id, slot) = StampOfCold(id.birth, Archive(id), slot)
<1>1. StampOfCold(id.birth, Archive(id), slot) =
         IF slot >= id.current_start
         THEN id.current
         ELSE StampOfCold(id.birth, id.table, slot)
  BY ArchiveFacts DEF WellFormed
<1>2. id.current_start \in Nat
  BY DEF Identity
<1>3. CASE slot + 1 = id.current_start
  <2>1. slot = id.current_start - 1 /\ id.current_start > 0 /\ ~(slot >= id.current_start)
    BY <1>2, <1>3
  <2>2. id.prefix_tail = StampOfCold(id.birth, id.table, slot)
    BY <2>1 DEF WellFormed, TailCached
  <2> QED
    BY <1>1, <1>3, <2>1, <2>2 DEF StampOf
<1>4. CASE slot + 1 # id.current_start
  BY <1>1, <1>4 DEF StampOf
<1> QED
  BY <1>3, <1>4

(* The four cases of the cache all compute what the search would.          *)
LEMMA PrefixTailSearch ==
    ASSUME NEW id \in Identity, WellFormed(id), NEW n \in Nat, n > 0
    PROVE  PrefixTail(id, n) = StampOfCold(id.birth, Archive(id), n - 1)
<1>1. StampOfCold(id.birth, Archive(id), n - 1) =
         IF n - 1 >= id.current_start
         THEN id.current
         ELSE StampOfCold(id.birth, id.table, n - 1)
  <2>1. n - 1 \in Nat
    OBVIOUS
  <2> QED
    BY <2>1, ArchiveFacts DEF WellFormed
<1>2. id.current_start \in Nat
  BY DEF Identity
<1>3. CASE id.current = id.birth
  BY <1>1, <1>2, <1>3 DEF PrefixTail, WellFormed, BirthUncommitted
<1>4. CASE id.current # id.birth
  BY <1>1, <1>2, <1>4 DEF PrefixTail
<1> QED
  BY <1>3, <1>4

(* Every answer is a stamp of this identity.                               *)
LEMMA ColdOwn ==
    ASSUME NEW id \in Identity, NEW slot \in Nat
    PROVE  StampOfCold(id.birth, id.table, slot) \in OwnStamps(id)
<1>1. id.table \in Seq(Segment) /\ slot + 1 \in Int
  BY DEF Identity
<1>2. PartitionPoint(id.table, slot + 1) \in 0 .. Len(id.table)
  BY <1>1, PartitionPointType
<1> QED
  BY <1>1, <1>2 DEF StampOfCold, OwnStamps

LEMMA OwnStampsType ==
    ASSUME NEW id \in Identity
    PROVE  OwnStamps(id) \subseteq Stamp
<1>1. id.table \in Seq(Segment) /\ id.birth \in Stamp /\ id.current \in Stamp
  BY DEF Identity
<1>2. \A i \in DOMAIN id.table : id.table[i].stamp \in Stamp
  BY <1>1, EntryType
<1> QED
  BY <1>1, <1>2 DEF OwnStamps

LEMMA StampOfOwn ==
    ASSUME NEW id \in Identity, WellFormed(id), NEW slot \in Nat
    PROVE  StampOf(id, slot) \in OwnStamps(id)
<1>1. StampOf(id, slot) = IF slot >= id.current_start
                          THEN id.current
                          ELSE StampOfCold(id.birth, id.table, slot)
  BY StampOfSearch, ArchiveFacts DEF WellFormed
<1> QED
  BY <1>1, ColdOwn DEF OwnStamps

(* Archiving introduces no stamp.                                          *)
LEMMA ArchiveOwn ==
    ASSUME NEW id \in Identity
    PROVE  \A i \in DOMAIN Archive(id) : Archive(id)[i].stamp \in OwnStamps(id)
<1>1. CASE id.current = id.birth
  BY <1>1 DEF Archive, OwnStamps
<1>2. CASE id.current # id.birth
  <2> DEFINE d == PartitionPoint(id.table, id.current_start)
  <2>1. /\ d \in 0 .. Len(id.table)
        /\ Archive(id) \in Seq(Segment)
        /\ Len(Archive(id)) = d + 1
        /\ \A i \in 1 .. d : Archive(id)[i] = id.table[i]
        /\ Archive(id)[d + 1].stamp = id.current
    BY <1>2, ArchiveShape
  <2>2. id.table \in Seq(Segment)
    BY DEF Identity
  <2> HIDE DEF d
  <2> SUFFICES ASSUME NEW i \in 1 .. d + 1
               PROVE  Archive(id)[i].stamp \in OwnStamps(id)
    BY <2>1
  <2>3. CASE i = d + 1
    BY <2>1, <2>3 DEF OwnStamps
  <2>4. CASE i # d + 1
    <3>1. i \in 1 .. d /\ i \in DOMAIN id.table
      BY <2>1, <2>2, <2>4
    <3> QED
      BY <2>1, <3>1 DEF OwnStamps
  <2> QED
    BY <2>3, <2>4
<1> QED
  BY <1>1, <1>2

(* A commit at boundary n re-stamps the slots at or above n with the fresh *)
(* stamp and leaves the answer for every slot below n as it was, whatever  *)
(* the history of commits: Identity::commit and Identity::stamp_of.        *)
THEOREM CommitFacts ==
    ASSUME NEW id \in Identity, WellFormed(id), NEW n \in Nat,
           NEW fresh \in Stamp, fresh # id.birth
    PROVE  LET after == Commit(id, n, fresh)
           IN  /\ after \in Identity
               /\ WellFormed(after)
               /\ \A slot \in Nat :
                     StampOf(after, slot) = IF slot >= n THEN fresh ELSE StampOf(id, slot)
               /\ OwnStamps(after) \subseteq OwnStamps(id) \cup {fresh}
<1> DEFINE after == Commit(id, n, fresh)
<1>1. /\ id.birth \in Stamp
      /\ id.prefix_tail \in Stamp \cup {NoStamp}
      /\ id.current_start \in Nat
  BY DEF Identity
<1>2. Archive(id) \in Seq(Segment) /\ Sorted(Archive(id))
  BY ArchiveFacts DEF WellFormed
<1>3. /\ after.birth = id.birth
      /\ after.current = fresh
      /\ after.current_start = n
      /\ after.prefix_tail = PrefixTail(id, n)
      /\ after.table = Archive(id)
  BY DEF Commit, Identity
<1>4. ASSUME n > 0
      PROVE  PrefixTail(id, n) = StampOf(id, n - 1)
  <2>1. n - 1 \in Nat
    BY <1>4
  <2> QED
    BY <1>4, <2>1, PrefixTailSearch, StampOfSearch
<1>5. PrefixTail(id, n) \in Stamp \cup {NoStamp}
  <2>1. CASE n = 0
    BY <1>1, <2>1 DEF PrefixTail
  <2>2. CASE n > 0
    BY <1>4, <2>2, StampOfOwn, OwnStampsType, n - 1 \in Nat
  <2> QED
    BY <2>1, <2>2
<1>6. after \in Identity
  BY <1>1, <1>2, <1>5 DEF Commit, Identity
<1>7. WellFormed(after)
  <2>1. TailCached(after)
    BY <1>3, PrefixTailSearch DEF TailCached
  <2> HIDE DEF after
  <2> QED
    BY <1>2, <1>3, <2>1 DEF WellFormed, BirthUncommitted
<1>8. ASSUME NEW slot \in Nat
      PROVE  StampOf(after, slot) = IF slot >= n THEN fresh ELSE StampOf(id, slot)
  <2>1. CASE slot >= n
    BY <1>3, <2>1 DEF StampOf
  <2>2. CASE slot + 1 = n
    <3>1. n > 0 /\ slot = n - 1 /\ ~(slot >= n)
      BY <2>2
    <3> QED
      BY <1>3, <1>4, <2>2, <3>1 DEF StampOf
  <2>3. CASE slot + 1 < n
    <3>1. StampOf(after, slot) = StampOfCold(id.birth, Archive(id), slot)
      BY <1>3, <2>3 DEF StampOf
    <3> QED
      BY <2>3, <3>1, StampOfSearch
  <2> QED
    BY <2>1, <2>2, <2>3
<1>9. OwnStamps(after) \subseteq OwnStamps(id) \cup {fresh}
  <2> HIDE DEF after
  <2>1. id.birth \in OwnStamps(id)
    BY DEF OwnStamps
  <2>2. OwnStamps(after) =
          {id.birth, fresh} \cup { Archive(id)[i].stamp : i \in DOMAIN Archive(id) }
    BY <1>3 DEF OwnStamps
  <2> QED
    BY <2>1, <2>2, ArchiveOwn
<1> QED
  BY <1>6, <1>7, <1>8, <1>9

(* A commit that unwinds for want of a stamp changes no answer.            *)
THEOREM CommitUnwoundFacts ==
    ASSUME NEW id \in Identity, WellFormed(id)
    PROVE  LET after == CommitUnwound(id)
           IN  /\ after \in Identity
               /\ WellFormed(after)
               /\ \A slot \in Nat : StampOf(after, slot) = StampOf(id, slot)
               /\ OwnStamps(after) \subseteq OwnStamps(id)
<1> DEFINE after == CommitUnwound(id)
<1>1. /\ Archive(id) \in Seq(Segment)
      /\ Sorted(Archive(id))
      /\ \A slot \in Nat : slot < id.current_start =>
             StampOfCold(id.birth, Archive(id), slot) = StampOfCold(id.birth, id.table, slot)
  BY ArchiveFacts DEF WellFormed, Identity
<1>2. /\ after.birth = id.birth
      /\ after.current = id.current
      /\ after.current_start = id.current_start
      /\ after.prefix_tail = id.prefix_tail
      /\ after.table = Archive(id)
      /\ id.current_start \in Nat
  BY DEF CommitUnwound, Identity
<1>3. after \in Identity
  BY <1>1 DEF CommitUnwound, Identity
<1> HIDE DEF after
<1>4. TailCached(after)
  <2>1. SUFFICES ASSUME id.current_start > 0
                 PROVE  id.prefix_tail = StampOfCold(id.birth, Archive(id), id.current_start - 1)
    BY <1>2 DEF TailCached
  <2>2. /\ id.current_start - 1 \in Nat
        /\ id.current_start - 1 < id.current_start
    BY <1>2, <2>1
  <2> QED
    BY <1>1, <2>1, <2>2 DEF WellFormed, TailCached
<1>5. BirthUncommitted(after)
  BY <1>2 DEF BirthUncommitted, WellFormed, Archive
<1>6. \A slot \in Nat : StampOf(after, slot) = StampOf(id, slot)
  BY <1>1, <1>2 DEF StampOf
<1>7. OwnStamps(after) \subseteq OwnStamps(id)
  <2>1. OwnStamps(after) =
          {id.birth, id.current} \cup { Archive(id)[i].stamp : i \in DOMAIN Archive(id) }
    BY <1>2 DEF OwnStamps
  <2>2. {id.birth, id.current} \subseteq OwnStamps(id)
    BY DEF OwnStamps
  <2> QED
    BY <2>1, <2>2, ArchiveOwn
<1> QED
  BY <1>1, <1>2, <1>3, <1>4, <1>5, <1>6, <1>7 DEF WellFormed, after
=============================================================================
