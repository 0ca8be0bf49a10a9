----------------------------- MODULE BlockProof -----------------------------
(***************************************************************************)
(* Proofs about Block, for any width of usize and any block that fits it:  *)
(* the two ends of the iterator return each index once, and membership is  *)
(* exact up to the last representable slot.                                *)
(***************************************************************************)
EXTENDS Block, TLAPS

(* What a block is: its slots fit below the top of usize.                  *)
LEMMA BlockFields ==
    ASSUME NEW b \in Blocks
    PROVE  /\ b.stamp \in Stamp \cup {NoStamp}
           /\ b.start \in Nat /\ b.len \in Nat /\ MaxUsize \in Nat
           /\ b.stamp = NoStamp <=> b.len = 0
           /\ b.len <= MaxUsize
           /\ b.len > 0 => b.start + (b.len - 1) <= MaxUsize
<1>1. CASE b = EmptyBlock
  BY <1>1, BlockAssumption DEF EmptyBlock
<1>2. CASE b # EmptyBlock
  <2>1. /\ b \in [stamp : Stamp, start : Usize, len : Usize \ {0}]
        /\ b.start + (b.len - 1) <= MaxUsize
    BY <1>2 DEF Blocks
  <2> QED
    BY <2>1, BlockAssumption DEF Usize
<1> QED
  BY <1>1, <1>2

(* Block::get returns an index precisely for the offsets below the length; *)
(* the overflow check never fails.                                         *)
LEMMA GetFacts ==
    ASSUME NEW b \in Blocks, NEW k \in Nat
    PROVE  /\ k < b.len => /\ Get(b, k) = [stamp |-> b.stamp, slot |-> b.start + k]
                           /\ Get(b, k) \in Idx
           /\ ~(k < b.len) => Get(b, k) = None
<1>1. CASE k < b.len
  <2>1. b.stamp \in Stamp /\ b.stamp # NoStamp /\ b.start + k \in Usize
    BY <1>1, BlockFields, BlockAssumption DEF Usize
  <2> QED
    BY <1>1, <2>1 DEF Get, Idx, Usize
<1>2. CASE ~(k < b.len)
  BY <1>2 DEF Get
<1> QED
  BY <1>1, <1>2

LEMMA NoneNotIdx == None \notin Idx
BY BlockAssumption DEF Idx, Usize

(* Two records with these two fields are equal when the fields are.        *)
LEMMA IdxEqual ==
    ASSUME NEW i \in Idx, NEW s, NEW n, i.stamp = s, i.slot = n
    PROVE  i = [stamp |-> s, slot |-> n]
BY DEF Idx

-----------------------------------------------------------------------------

LEMMA InitIInv == Init => IInv
<1> SUFFICES ASSUME Init
             PROVE  IInv
  OBVIOUS
<1>1. block \in Blocks /\ front = 0 /\ back = block.len
      /\ ahead = << >> /\ behind = << >> /\ ended = FALSE
  BY DEF Init
<1>2. block.len \in Nat /\ block.len <= MaxUsize /\ MaxUsize \in Nat
  BY <1>1, BlockFields
<1>3. Len(ahead) = 0 /\ Len(behind) = 0 /\ DOMAIN ahead = {} /\ DOMAIN behind = {}
  BY <1>1
<1>4. TypeOK
  <2>1. front \in Usize /\ back \in Usize
    BY <1>1, <1>2 DEF Usize
  <2>2. << >> \in Seq(Idx)
    OBVIOUS
  <2>3. ahead \in Seq(Idx) /\ behind \in Seq(Idx) /\ ended \in BOOLEAN
    BY <1>1, <2>2
  <2> QED
    BY <1>1, <2>1, <2>3 DEF TypeOK
<1>5. EachIndexOnce
  BY <1>1, <1>2, <1>3 DEF EachIndexOnce, SizeHint
<1> QED
  BY <1>1, <1>2, <1>3, <1>4, <1>5 DEF IInv

(* The offsets, read from the invariant.                                   *)
LEMMA Offsets ==
    ASSUME IInv
    PROVE  /\ block \in Blocks
           /\ front \in Nat /\ back \in Nat /\ block.len \in Nat
           /\ front <= back /\ back <= block.len /\ block.len <= MaxUsize
           /\ MaxUsize \in Nat
           /\ Len(ahead) = front /\ Len(behind) = block.len - back
           /\ Len(ahead) \in Nat /\ Len(behind) \in Nat
           /\ ahead \in Seq(Idx) /\ behind \in Seq(Idx)
           /\ DOMAIN ahead = 1 .. Len(ahead) /\ DOMAIN behind = 1 .. Len(behind)
<1>1. TypeOK /\ front = Len(ahead) /\ back = block.len - Len(behind) /\ front <= back
  BY DEF IInv
<1>2. /\ block \in Blocks /\ front \in Nat /\ back \in Nat
      /\ ahead \in Seq(Idx) /\ behind \in Seq(Idx)
  BY <1>1 DEF TypeOK, Usize
<1>3. block.len \in Nat /\ block.len <= MaxUsize /\ MaxUsize \in Nat
  BY <1>2, BlockFields
<1>4. Len(ahead) \in Nat /\ Len(behind) \in Nat
      /\ DOMAIN ahead = 1 .. Len(ahead) /\ DOMAIN behind = 1 .. Len(behind)
  BY <1>2
<1> QED
  BY <1>1, <1>2, <1>3, <1>4

LEMMA FrontKeepsIInv ==
    ASSUME IInv, NextFront
    PROVE  IInv'
<1>0. /\ front \in Nat /\ back \in Nat /\ block.len \in Nat
      /\ front <= back /\ back <= block.len
      /\ Len(ahead) = front /\ Len(behind) = block.len - back
  BY Offsets
<1>1. /\ front # back /\ front' = front + 1
      /\ ahead' = Append(ahead, Get(block, front))
      /\ block' = block /\ back' = back /\ behind' = behind /\ ended' = ended
  BY DEF NextFront
<1>2. front < block.len /\ front + 1 <= back /\ front + 1 \in Usize
  BY <1>1, Offsets DEF Usize
<1>3. Get(block, front) \in Idx /\ Get(block, front) = [stamp |-> block.stamp, slot |-> block.start + front]
  BY <1>2, Offsets, GetFacts
<1>4. /\ ahead' \in Seq(Idx) /\ Len(ahead') = front + 1
      /\ DOMAIN ahead' = 1 .. front + 1
      /\ \A k \in 1 .. front : ahead'[k] = ahead[k]
      /\ ahead'[front + 1] = Get(block, front)
  BY <1>1, <1>3, Offsets
<1>5. TypeOK'
  BY <1>1, <1>2, <1>4 DEF TypeOK, IInv
<1>6. \A k \in DOMAIN ahead' :
        ahead'[k] = [stamp |-> block.stamp, slot |-> block.start + (k - 1)]
  <2> SUFFICES ASSUME NEW k \in DOMAIN ahead'
               PROVE  ahead'[k] = [stamp |-> block.stamp, slot |-> block.start + (k - 1)]
    OBVIOUS
  <2>1. CASE k = front + 1
    <3>1. k - 1 = front
      BY <2>1, Offsets
    <3> QED
      BY <1>3, <1>4, <2>1, <3>1
  <2>2. CASE k # front + 1
    <3>1. k \in 1 .. front /\ k \in DOMAIN ahead
      BY <1>4, <2>2, Offsets
    <3> QED
      BY <1>4, <3>1 DEF IInv, EachIndexOnce
  <2> QED
    BY <2>1, <2>2
<1>7. EachIndexOnce'
  <2>1. Len(ahead') + Len(behind') + (back' - front') = block'.len
    <3>1. Len(ahead') = front + 1 /\ Len(behind') = block.len - back
          /\ back' - front' = back - (front + 1) /\ block'.len = block.len
      BY <1>0, <1>1, <1>4
    <3> QED
      BY <1>0, <3>1
  <2>2. ended' => back' - front' = 0
    <3>1. ended => back - front = 0
      BY DEF IInv, EachIndexOnce, SizeHint
    <3> QED
      BY <1>0, <1>1, <3>1
  <2> QED
    BY <1>1, <1>6, <2>1, <2>2 DEF EachIndexOnce, SizeHint, IInv
<1> QED
  BY <1>1, <1>2, <1>4, <1>5, <1>7, Offsets DEF IInv

LEMMA BackKeepsIInv ==
    ASSUME IInv, NextBack
    PROVE  IInv'
<1>0. /\ front \in Nat /\ back \in Nat /\ block.len \in Nat
      /\ front <= back /\ back <= block.len
      /\ Len(ahead) = front /\ Len(behind) = block.len - back
  BY Offsets
<1> DEFINE last == back - 1
<1>1. /\ front # back /\ back' = last
      /\ behind' = Append(behind, Get(block, last))
      /\ block' = block /\ front' = front /\ ahead' = ahead /\ ended' = ended
  BY DEF NextBack
<1>2. last \in Nat /\ last < block.len /\ front <= last /\ last \in Usize
  BY <1>1, Offsets DEF Usize
<1>3. Get(block, last) \in Idx /\ Get(block, last) = [stamp |-> block.stamp, slot |-> block.start + last]
  BY <1>2, Offsets, GetFacts
<1> DEFINE n == block.len - back
<1>4. /\ behind' \in Seq(Idx) /\ Len(behind') = n + 1 /\ n \in Nat
      /\ DOMAIN behind' = 1 .. n + 1
      /\ \A k \in 1 .. n : behind'[k] = behind[k]
      /\ behind'[n + 1] = Get(block, last)
  BY <1>1, <1>3, Offsets
<1>5. TypeOK'
  BY <1>1, <1>2, <1>4 DEF TypeOK, IInv
<1>6. \A k \in DOMAIN behind' :
        behind'[k] = [stamp |-> block.stamp, slot |-> block.start + (block.len - k)]
  <2> SUFFICES ASSUME NEW k \in DOMAIN behind'
               PROVE  behind'[k] = [stamp |-> block.stamp, slot |-> block.start + (block.len - k)]
    OBVIOUS
  <2>1. CASE k = n + 1
    <3>1. block.len - k = last
      BY <2>1, Offsets
    <3> QED
      BY <1>3, <1>4, <2>1, <3>1
  <2>2. CASE k # n + 1
    <3>1. k \in 1 .. n /\ k \in DOMAIN behind
      BY <1>4, <2>2, Offsets
    <3> QED
      BY <1>4, <3>1 DEF IInv, EachIndexOnce
  <2> QED
    BY <2>1, <2>2
<1>7. EachIndexOnce'
  <2>1. Len(ahead') + Len(behind') + (back' - front') = block'.len
    <3>1. Len(ahead') = front /\ Len(behind') = (block.len - back) + 1
          /\ back' - front' = (back - 1) - front /\ block'.len = block.len
      BY <1>0, <1>1, <1>4
    <3> QED
      BY <1>0, <3>1
  <2>2. ended' => back' - front' = 0
    <3>1. ended => back - front = 0
      BY DEF IInv, EachIndexOnce, SizeHint
    <3> QED
      BY <1>0, <1>1, <3>1
  <2> QED
    BY <1>1, <1>6, <2>1, <2>2 DEF EachIndexOnce, SizeHint, IInv
<1>8. back' = block'.len - Len(behind') /\ front' <= back' /\ front' = Len(ahead')
  BY <1>1, <1>2, <1>4, Offsets
<1> QED
  BY <1>5, <1>7, <1>8 DEF IInv

LEMMA StepKeepsIInv == IInv /\ [Next]_vars => IInv'
<1> SUFFICES ASSUME IInv, [Next]_vars
             PROVE  IInv'
  OBVIOUS
<1>1. CASE NextFront
  BY <1>1, FrontKeepsIInv
<1>2. CASE NextBack
  BY <1>2, BackKeepsIInv
<1>3. CASE NextNone
  <2>1. back - front = 0
    BY <1>3, Offsets DEF NextNone
  <2> QED
    BY <1>3, <2>1 DEF NextNone, IInv, TypeOK, EachIndexOnce, SizeHint
<1>4. CASE UNCHANGED vars
  BY <1>4 DEF vars, IInv, TypeOK, EachIndexOnce, SizeHint
<1> QED
  BY <1>1, <1>2, <1>3, <1>4 DEF Next

(* The offsets are where the histories say, for every block.               *)
THEOREM Inductive == Spec => []IInv
<1> QED
  BY InitIInv, StepKeepsIInv, PTL DEF Spec

(* The iterator's state is always well typed: no offset leaves the block.  *)
THEOREM TypeCorrect == Spec => []TypeOK
<1>1. IInv => TypeOK
  BY DEF IInv
<1> QED
  BY <1>1, Inductive, PTL

(* next and next_back return each index of the block once, from both ends  *)
(* in order, and None only when none is left (BlockIndices).               *)
THEOREM EveryIndexOnce == Spec => []EachIndexOnce
<1>1. IInv => EachIndexOnce
  BY DEF IInv
<1> QED
  BY <1>1, Inductive, PTL

-----------------------------------------------------------------------------

LEMMA MembershipFromBlock == block \in Blocks => MembershipExact
<1> SUFFICES ASSUME block \in Blocks
             PROVE  MembershipExact
  OBVIOUS
<1>1. /\ block.stamp \in Stamp \cup {NoStamp}
      /\ block.start \in Nat /\ block.len \in Nat /\ MaxUsize \in Nat
      /\ block.stamp = NoStamp <=> block.len = 0
      /\ block.len <= MaxUsize
      /\ block.len > 0 => block.start + (block.len - 1) <= MaxUsize
  BY BlockFields
<1>2. \A k \in Usize :
         /\ k \in Nat
         /\ k < block.len => /\ Get(block, k) = [stamp |-> block.stamp, slot |-> block.start + k]
                             /\ Get(block, k) \in Idx
         /\ ~(k < block.len) => Get(block, k) = None
  BY <1>1, GetFacts DEF Usize
<1>3. ASSUME NEW idx \in Idx
      PROVE  Contains(block, idx) <=> \E k \in Usize : Get(block, k) = idx
  <2>1. idx.slot \in Nat /\ idx.slot <= MaxUsize
    BY <1>1, <1>3 DEF Idx, Usize
  <2>2. ASSUME Contains(block, idx)
        PROVE  \E k \in Usize : Get(block, k) = idx
    <3> DEFINE k == idx.slot - block.start
    <3>1. k \in Usize /\ k < block.len /\ idx.stamp = block.stamp
      BY <1>1, <2>1, <2>2 DEF Contains, Usize
    <3>2. block.start + k = idx.slot
      BY <1>1, <2>1
    <3>3. Get(block, k) = [stamp |-> block.stamp, slot |-> idx.slot]
      BY <1>2, <3>1, <3>2
    <3>4. Get(block, k) = idx
      BY <3>1, <3>3, IdxEqual
    <3> QED
      BY <3>1, <3>4
  <2>3. ASSUME NEW k \in Usize, Get(block, k) = idx
        PROVE  Contains(block, idx)
    <3>1. k < block.len
      BY <1>2, <2>3, NoneNotIdx
    <3>2. idx.stamp = block.stamp /\ idx.slot = block.start + k /\ k \in Nat
      BY <1>2, <2>3, <3>1
    <3> QED
      BY <1>1, <3>1, <3>2 DEF Contains
  <2> QED
    BY <2>2, <2>3
<1>4. \A k \in Usize : k < block.len <=> Get(block, k) # None
  BY <1>2, NoneNotIdx
<1>5. First(block) = Get(block, 0)
  <2>1. 0 \in Usize
    BY <1>1 DEF Usize
  <2>2. CASE block.len = 0
    BY <1>1, <1>2, <2>1, <2>2 DEF First
  <2>3. CASE block.len > 0
    BY <1>1, <1>2, <2>1, <2>3 DEF First
  <2> QED
    BY <1>1, <2>2, <2>3
<1>6. ASSUME Last(block) # None, NEW idx \in Idx, Contains(block, idx)
      PROVE  idx.slot <= Last(block).slot
  <2>1. block.len > 0 /\ block.len - 1 \in Usize
    BY <1>1, <1>6 DEF Contains, Usize
  <2>2. Last(block) = Get(block, block.len - 1)
    BY <1>1, <2>1 DEF Last
  <2>3. Last(block).slot = block.start + (block.len - 1)
    BY <1>1, <1>2, <2>1, <2>2
  <2>4. idx.slot \in Nat
    BY <1>1, <1>6 DEF Idx, Usize
  <2> QED
    BY <1>1, <1>6, <2>3, <2>4 DEF Contains
<1> QED
  BY <1>3, <1>4, <1>5, <1>6 DEF MembershipExact

(* A block contains exactly the indices that can be derived from it, up to *)
(* the last representable slot (get, contains, first, last).               *)
THEOREM MembershipIsExact == Spec => []MembershipExact
<1>1. IInv => MembershipExact
  BY MembershipFromBlock DEF IInv, TypeOK
<1> QED
  BY <1>1, Inductive, PTL
=============================================================================
