------------------------- MODULE ChunkedStorageProof -------------------------
(***************************************************************************)
(* Proofs about the storage of the concurrent arena (ChunkedStorage), for  *)
(* any width of usize, any number of threads and any chunk size that can   *)
(* be allocated.                                                           *)
(***************************************************************************)
EXTENDS ChunkedStorage, FiniteSetTheorems, FunctionTheorems, WellFoundedInduction, TLAPS

-----------------------------------------------------------------------------
(***************************************************************************)
(* Powers of two.                                                          *)
(***************************************************************************)

(* A non-empty set of naturals has a least element.                        *)
LEMMA LeastElement ==
  ASSUME NEW S, S \subseteq Nat, S # {}
  PROVE  \E n \in S : \A m \in S : n <= m
<1> DEFINE R == OpToRel(<, Nat)
<1>1. IsWellFoundedOn(R, Nat)
  BY NatLessThanWellFounded
<1>2. PICK n \in S : \A m \in S : ~ (<<m, n>> \in R)
  BY <1>1, WFMin
<1>3. R = {ss \in Nat \X Nat : ss[1] < ss[2]}
  BY DEF OpToRel
<1>4. ASSUME NEW m \in S PROVE n <= m
  <2>1. n \in Nat /\ m \in Nat
    OBVIOUS
  <2>2. ~(m < n)
    BY <1>2, <1>3, <2>1
  <2> HIDE DEF R
  <2> QED
    BY <2>1, <2>2
<1> QED
  BY <1>4

LEMMA PowerZero == 2 ^ 0 = 1
OBVIOUS

(* 2 ^ n is the number of subsets of a set of n elements.                  *)
LEMMA PowerCounts ==
  ASSUME NEW n \in Nat
  PROVE  /\ IsFiniteSet(SUBSET (1 .. n))
         /\ Cardinality(SUBSET (1 .. n)) = 2 ^ n
<1>1. IsFiniteSet(1 .. n) /\ Cardinality(1 .. n) = n
  BY FS_Interval
<1> QED
  BY <1>1, FS_SUBSET

(* Half of the subsets of 1 .. n + 1 contain n + 1.                        *)
LEMMA PowerDoubles ==
  ASSUME NEW n \in Nat
  PROVE  2 ^ n \in Nat \ {0} /\ 2 ^ (n + 1) = 2 * 2 ^ n
<1> DEFINE Old == SUBSET (1 .. n)
           New == { T \in SUBSET (1 .. n + 1) : n + 1 \in T }
           f == [T \in Old |-> T \cup {n + 1}]
<1>1. IsFiniteSet(Old) /\ Cardinality(Old) = 2 ^ n
  BY PowerCounts
<1>2. Cardinality(Old) \in Nat
  BY <1>1, FS_CardinalityType
<1>3. f \in Bijection(Old, New)
  <2>1. f \in [Old -> New]
    OBVIOUS
  <2>2. \A S, T \in Old : f[S] = f[T] => S = T
    <3> SUFFICES ASSUME NEW S \in Old, NEW T \in Old, f[S] = f[T] PROVE S = T
      OBVIOUS
    <3>1. S \cup {n + 1} = T \cup {n + 1}
      OBVIOUS
    <3>2. n + 1 \notin S /\ n + 1 \notin T
      OBVIOUS
    <3> QED
      BY <3>1, <3>2
  <2>3. \A T \in New : \E S \in Old : f[S] = T
    <3> SUFFICES ASSUME NEW T \in New PROVE \E S \in Old : f[S] = T
      OBVIOUS
    <3>1. T \ {n + 1} \in Old
      OBVIOUS
    <3>2. f[T \ {n + 1}] = T
      BY <3>1
    <3> QED
      BY <3>1, <3>2
  <2> QED
    BY <2>1, <2>2, <2>3, Fun_IsBij
<1>4. IsFiniteSet(New) /\ Cardinality(New) = 2 ^ n
  BY <1>1, <1>3, FS_Bijection DEF ExistsBijection
<1>5. SUBSET (1 .. n + 1) = Old \cup New /\ Old \cap New = {}
  <2>1. ASSUME NEW T \in SUBSET (1 .. n + 1), n + 1 \notin T PROVE T \in Old
    BY <2>1
  <2> QED
    BY <2>1
<1>6. Cardinality(SUBSET (1 .. n + 1)) = 2 ^ (n + 1)
  BY PowerCounts
<1>7. Cardinality(Old \cup New) = Cardinality(Old) + Cardinality(New) - Cardinality(Old \cap New)
  BY <1>1, <1>4, FS_Union
<1>8. Cardinality({}) = 0
  BY FS_EmptySet
<1>9. {} \in Old
  OBVIOUS
<1>10. Cardinality(Old) # 0
  BY <1>1, <1>9, FS_EmptySet
<1>11. 2 ^ (n + 1) = 2 ^ n + 2 ^ n - 0
  BY <1>1, <1>4, <1>5, <1>6, <1>7, <1>8
<1>12. 2 ^ n \in Nat \ {0}
  BY <1>1, <1>2, <1>10
<1> QED
  <2> DEFINE p == 2 ^ n
             q == 2 ^ (n + 1)
  <2>1. p \in Nat \ {0} /\ q = p + p - 0
    BY <1>11, <1>12
  <2> HIDE DEF p, q
  <2>2. q = 2 * p
    BY <2>1
  <2> QED
    BY <2>1, <2>2 DEF p, q

-----------------------------------------------------------------------------
(***************************************************************************)
(* split_index.                                                            *)
(***************************************************************************)

(* leading_zeros finds the highest bit set.                                *)
LEMMA LeadingZerosFacts ==
  ASSUME NEW n \in 1 .. MaxUsize
  PROVE  /\ LeadingZeros(n) \in 0 .. BITS - 1
         /\ n < 2 ^ (BITS - LeadingZeros(n))
         /\ n >= 2 ^ (BITS - LeadingZeros(n) - 1)
<1> DEFINE P(z) == n < 2 ^ (BITS - z) /\ (z < BITS => n >= 2 ^ (BITS - z - 1))
           Wide == { k \in 0 .. BITS : n < 2 ^ k }
<1>1. BITS \in Nat \ {0}
  BY StorageAssumption
<1>2. BITS \in Wide
  <2>1. 2 ^ BITS \in Nat
    BY <1>1, PowerDoubles
  <2> QED
    BY <1>1, <2>1 DEF MaxUsize
<1>3. PICK k \in Wide : \A j \in Wide : k <= j
  <2>1. Wide \subseteq Nat /\ Wide # {}
    BY <1>1, <1>2
  <2> HIDE DEF Wide
  <2> QED
    BY <2>1, LeastElement
<1>4. k # 0
  <2>1. ~(n < 2 ^ 0)
    BY PowerZero
  <2> QED
    BY <1>3, <2>1
<1>5. n >= 2 ^ (k - 1)
  <2>1. k - 1 \in 0 .. BITS /\ k - 1 \notin Wide
    BY <1>1, <1>3, <1>4
  <2>2. 2 ^ (k - 1) \in Nat
    BY <2>1, PowerDoubles
  <2> QED
    BY <2>1, <2>2
<1>6. \E z \in 0 .. BITS : P(z)
  <2>1. BITS - k \in 0 .. BITS /\ BITS - (BITS - k) = k
    BY <1>1, <1>3
  <2>2. P(BITS - k)
    BY <2>1, <1>3, <1>5
  <2> QED
    BY <2>1, <2>2
<1>7. LeadingZeros(n) \in 0 .. BITS /\ P(LeadingZeros(n))
  BY <1>6 DEF LeadingZeros
<1>8. LeadingZeros(n) # BITS
  <2>1. BITS - BITS = 0 /\ ~(n < 2 ^ 0)
    BY <1>1, PowerZero
  <2> QED
    BY <1>7, <2>1
<1> QED
  BY <1>1, <1>7, <1>8

(* Every slot has a cell of its own.                                       *)
LEMMA CellFacts ==
  ASSUME NEW s \in Slots
  PROVE  /\ ChunkOf(s) \in Chunks
         /\ OffsetOf(s) \in 0 .. 2 ^ ChunkOf(s) - 1
         /\ s = 2 ^ ChunkOf(s) - 1 + OffsetOf(s)
<1>1. BITS \in Nat \ {0} /\ 2 ^ BITS \in Nat \ {0}
  BY StorageAssumption, PowerDoubles
<1>2. PICK n : n = s + 1
  OBVIOUS
<1>3. PICK z : z = LeadingZeros(n)
  OBVIOUS
<1>4. PICK c : c = BITS - z - 1
  OBVIOUS
<1>5. PICK p : p = 2 ^ c
  OBVIOUS
<1>6. s \in Nat /\ n \in 1 .. MaxUsize
  BY <1>1, <1>2 DEF Slots, MaxUsize
<1>7. z \in 0 .. BITS - 1 /\ n < 2 ^ (BITS - z) /\ n >= 2 ^ (BITS - z - 1)
  BY <1>3, <1>6, LeadingZerosFacts
<1>8. c \in Nat /\ BITS - z = c + 1 /\ c \in Chunks
  BY <1>1, <1>4, <1>7 DEF Chunks
<1>9. p \in Nat /\ p <= n /\ n < 2 * p
  <2>1. p \in Nat /\ 2 ^ (c + 1) = 2 * p
    BY <1>5, <1>8, PowerDoubles
  <2>2. n >= 2 ^ c
    BY <1>4, <1>7
  <2> QED
    BY <2>1, <2>2, <1>5, <1>7, <1>8
<1>10. ChunkOf(s) = c /\ OffsetOf(s) = n - p
  <2>1. SplitIndex(s) = <<c, n - 2 ^ c>>
    BY <1>2, <1>3, <1>4, <1>6 DEF SplitIndex
  <2>2. Cell[s] = SplitIndex(s)
    BY DEF Cell
  <2> QED
    BY <2>1, <2>2, <1>5 DEF ChunkOf, OffsetOf
<1>11. n - p \in 0 .. p - 1 /\ s = p - 1 + (n - p)
  BY <1>2, <1>6, <1>9
<1> QED
  BY <1>5, <1>8, <1>10, <1>11

LEMMA CellsApart ==
  ASSUME NEW r \in Slots, NEW s \in Slots,
         ChunkOf(r) = ChunkOf(s), OffsetOf(r) = OffsetOf(s)
  PROVE  r = s
BY CellFacts

-----------------------------------------------------------------------------
(***************************************************************************)
(* The inductive invariant.                                                *)
(***************************************************************************)

Shaped ==
    /\ DOMAIN chunks = Chunks /\ chunks = [k \in Chunks |-> chunks[k]]
    /\ held \subseteq Slots \X Nat

(* A chunk is allocated by the one thread that claimed it, while nobody    *)
(* else can see it.                                                        *)
ClaimsSound ==
    /\ \A k \in Chunks : initializer[k] # NoThread => chunks[k] = Unallocated
    /\ \A t \in Threads : pc[t] = "init" => initializer[MyChunk(t)] = t

JobsSound ==
    \A t \in Threads :
        /\ pc[t] # "idle" => job[t].value \in 1 .. serial
        /\ pc[t] = "slot" => chunks[MyChunk(t)] # Unallocated

IInv == TypeOK /\ Shaped /\ ClaimsSound /\ JobsSound /\ AcceptedKept

(* Writing one cell changes the content of one slot.                       *)
LEMMA CellWritten ==
  ASSUME TypeOK, Shaped, NEW i \in Slots, NEW v \in Nat \cup {Empty},
         chunks[ChunkOf(i)] # Unallocated,
         chunks' = [chunks EXCEPT ![ChunkOf(i)][OffsetOf(i)] = v]
  PROVE  /\ \A k \in Chunks :
              chunks'[k] \in {Unallocated} \cup [0 .. 2 ^ k - 1 -> Nat \cup {Empty}]
         /\ DOMAIN chunks' = Chunks /\ chunks' = [k \in Chunks |-> chunks'[k]]
         /\ \A k \in Chunks : chunks'[k] = Unallocated <=> chunks[k] = Unallocated
         /\ \A s \in Slots : Content(s)' = IF s = i THEN v ELSE Content(s)
<1> DEFINE c == ChunkOf(i)
           o == OffsetOf(i)
<1>1. c \in Chunks /\ o \in 0 .. 2 ^ c - 1
  BY CellFacts
<1>2. chunks[c] \in [0 .. 2 ^ c - 1 -> Nat \cup {Empty}]
  BY <1>1 DEF TypeOK
<1>3. /\ DOMAIN chunks' = Chunks /\ chunks' = [k \in Chunks |-> chunks'[k]]
      /\ chunks'[c] = [chunks[c] EXCEPT ![o] = v]
      /\ \A k \in Chunks : k # c => chunks'[k] = chunks[k]
  BY <1>1 DEF Shaped
<1>4. chunks'[c] \in [0 .. 2 ^ c - 1 -> Nat \cup {Empty}]
  BY <1>1, <1>2, <1>3
<1>5. chunks'[c] # Unallocated
  BY <1>1, <1>4, StorageAssumption DEF Chunks
<1>6. ASSUME NEW s \in Slots PROVE Content(s)' = IF s = i THEN v ELSE Content(s)
  <2>1. ChunkOf(s) \in Chunks /\ OffsetOf(s) \in 0 .. 2 ^ ChunkOf(s) - 1
    BY CellFacts
  <2>2. Content(s)' = IF chunks'[ChunkOf(s)] = Unallocated THEN Empty
                      ELSE chunks'[ChunkOf(s)][OffsetOf(s)]
    BY DEF Content, ChunkOf, OffsetOf
  <2>3. CASE ChunkOf(s) # c
    <3>1. s # i /\ chunks'[ChunkOf(s)] = chunks[ChunkOf(s)]
      BY <1>3, <2>1, <2>3
    <3> QED
      BY <3>1, <2>2 DEF Content
  <2>4. CASE ChunkOf(s) = c
    <3>1. s = i <=> OffsetOf(s) = o
      BY <2>4, CellsApart
    <3>2. chunks'[c][OffsetOf(s)] = IF OffsetOf(s) = o THEN v ELSE chunks[c][OffsetOf(s)]
      BY <1>2, <1>3, <2>1, <2>4
    <3> QED
      BY <1>5, <2>2, <2>4, <3>1, <3>2 DEF Content
  <2> QED
    BY <2>3, <2>4
<1> QED
  BY <1>1, <1>2, <1>3, <1>4, <1>5, <1>6 DEF TypeOK

(* Allocating a chunk changes the content of no slot.                      *)
LEMMA AllocKeepsContent ==
  ASSUME IInv, NEW t \in Threads, AllocChunk(t)
  PROVE  \A s \in Slots : Content(s)' = Content(s)
<1> USE DEF IInv
<1> DEFINE c == MyChunk(t)
<1>1. c \in Chunks
  BY CellFacts DEF TypeOK, MyChunk
<1>2. chunks[c] = Unallocated
  BY <1>1, StorageAssumption DEF AllocChunk, ClaimsSound
<1>3. /\ chunks'[c] = EmptyChunk(c)
      /\ \A k \in Chunks : k # c => chunks'[k] = chunks[k]
  BY <1>1 DEF AllocChunk, Shaped
<1> SUFFICES ASSUME NEW s \in Slots PROVE Content(s)' = Content(s)
  OBVIOUS
<1>4. ChunkOf(s) \in Chunks /\ OffsetOf(s) \in 0 .. 2 ^ ChunkOf(s) - 1
  BY CellFacts
<1>5. Content(s)' = IF chunks'[ChunkOf(s)] = Unallocated THEN Empty
                    ELSE chunks'[ChunkOf(s)][OffsetOf(s)]
  BY DEF Content, ChunkOf, OffsetOf
<1> HIDE DEF c
<1>6. CASE ChunkOf(s) # c
  BY <1>3, <1>4, <1>5, <1>6 DEF Content
<1>7. CASE ChunkOf(s) = c
  <2>1. EmptyChunk(c)[OffsetOf(s)] = Empty
    BY <1>4, <1>7 DEF EmptyChunk
  <2> QED
    BY <2>1, <1>2, <1>3, <1>5, <1>7 DEF Content
<1> QED
  BY <1>6, <1>7

LEMMA InitIInv == Init => IInv
<1> SUFFICES ASSUME Init PROVE IInv
  OBVIOUS
<1>1. BITS \in Nat \ {0} /\ 2 ^ BITS \in Nat /\ MaxValues \in Nat
  BY StorageAssumption, PowerDoubles
<1>2. \A s \in Slots : Content(s) = Empty
  BY CellFacts DEF Init, Content
<1>3. Shaped /\ ClaimsSound /\ JobsSound /\ AcceptedKept
  BY <1>2 DEF Init, Shaped, ClaimsSound, JobsSound, AcceptedKept
<1>4. 0 \in Slots
  <2>1. BITS - 1 \in Nat /\ (BITS - 1) + 1 = BITS
    BY <1>1
  <2>2. 2 ^ (BITS - 1) \in Nat \ {0} /\ 2 ^ BITS = 2 * 2 ^ (BITS - 1)
    BY <2>1, PowerDoubles
  <2> QED
    BY <1>1, <2>2 DEF Slots, MaxUsize
<1>5. TypeOK
  <2>1. job \in [Threads -> [index : Slots, value : Nat]]
    BY <1>4 DEF Init, NoJob
  <2>2. \A k \in Chunks : chunks[k] = Unallocated
    BY DEF Init
  <2>3. initializer \in [Chunks -> Threads \cup {NoThread}]
    BY DEF Init
  <2>4. pc \in [Threads -> {"idle", "chunk", "init", "slot"}]
    BY DEF Init
  <2>5. serial \in 0 .. MaxValues
    BY <1>1 DEF Init
  <2> QED
    BY <2>1, <2>2, <2>3, <2>4, <2>5 DEF TypeOK
<1> QED
  BY <1>3, <1>5 DEF IInv

LEMMA MyCell ==
  ASSUME TypeOK, NEW t \in Threads
  PROVE  job[t].index \in Slots /\ MyChunk(t) \in Chunks
BY CellFacts DEF TypeOK, MyChunk

LEMMA StepIInv == IInv /\ [Next]_vars => IInv'
<1> SUFFICES ASSUME IInv, [Next]_vars PROVE IInv'
  OBVIOUS
<1> USE DEF IInv
<1>a. /\ BITS \in Nat \ {0} /\ MaxValues \in Nat /\ NoThread \notin Threads /\ Empty \notin Nat
      /\ Indices \subseteq Slots
  BY StorageAssumption, IndicesAssumption
<1>b. NoJob \in [index : Slots, value : Nat]
  <2>1. BITS - 1 \in Nat /\ (BITS - 1) + 1 = BITS
    BY <1>a
  <2>2. 2 ^ (BITS - 1) \in Nat \ {0} /\ 2 ^ BITS = 2 * 2 ^ (BITS - 1)
    BY <2>1, PowerDoubles
  <2>3. 0 \in Slots
    BY <2>2 DEF Slots, MaxUsize
  <2> QED
    BY <2>3 DEF NoJob
<1>1. ASSUME NEW t \in Threads, NEW i \in Indices, StartSet(t, i) PROVE IInv'
  <2>1. i \in Slots
    BY <1>a
  <2>2. TypeOK'
    BY <1>1, <1>a, <2>1 DEF StartSet, Goto, TypeOK
  <2>3. Shaped' /\ AcceptedKept'
    BY <1>1 DEF StartSet, Shaped, AcceptedKept, Content
  <2>4. ClaimsSound'
    BY <1>1 DEF StartSet, Goto, ClaimsSound, MyChunk, TypeOK
  <2>5. JobsSound'
    BY <1>1, <1>a DEF StartSet, Goto, JobsSound, MyChunk, TypeOK
  <2> QED
    BY <2>2, <2>3, <2>4, <2>5
<1>2. ASSUME NEW t \in Threads, FindChunk(t) PROVE IInv'
  <2>1. TypeOK'
    BY <1>2 DEF FindChunk, Goto, TypeOK
  <2>2. Shaped' /\ AcceptedKept'
    BY <1>2 DEF FindChunk, Shaped, AcceptedKept, Content
  <2>3. ClaimsSound'
    BY <1>2 DEF FindChunk, Goto, ClaimsSound, MyChunk, TypeOK
  <2>4. JobsSound'
    BY <1>2 DEF FindChunk, Goto, JobsSound, MyChunk, TypeOK
  <2> QED
    BY <2>1, <2>2, <2>3, <2>4
<1>3. ASSUME NEW t \in Threads, ClaimChunk(t) PROVE IInv'
  <2>1. MyChunk(t) \in Chunks
    BY MyCell
  <2>2. TypeOK'
    BY <1>3, <2>1 DEF ClaimChunk, Goto, TypeOK
  <2>3. Shaped' /\ AcceptedKept'
    BY <1>3 DEF ClaimChunk, Shaped, AcceptedKept, Content
  <2>4. ClaimsSound'
    <3>1. \A k \in Chunks : initializer'[k] # NoThread => chunks'[k] = Unallocated
      BY <1>3, <2>1 DEF ClaimChunk, ClaimsSound, TypeOK
    <3>2. ASSUME NEW u \in Threads, pc'[u] = "init" PROVE initializer'[MyChunk(u)] = u
      <4>1. MyChunk(u) \in Chunks
        BY MyCell
      <4>2. CASE u = t
        BY <4>2, <1>3, <2>1 DEF ClaimChunk, TypeOK
      <4>3. CASE u # t
        <5>1. pc[u] = "init" /\ initializer[MyChunk(u)] = u
          BY <3>2, <4>3, <1>3 DEF ClaimChunk, Goto, ClaimsSound, TypeOK
        <5>2. MyChunk(u) # MyChunk(t)
          BY <5>1, <1>3, <1>a DEF ClaimChunk
        <5> QED
          BY <5>1, <5>2, <4>1, <1>3, <2>1 DEF ClaimChunk, TypeOK
      <4> QED
        BY <4>2, <4>3
    <3>3. \A u \in Threads : MyChunk(u)' = MyChunk(u)
      BY <1>3 DEF ClaimChunk, MyChunk
    <3> QED
      BY <3>1, <3>2, <3>3 DEF ClaimsSound
  <2>5. JobsSound'
    BY <1>3 DEF ClaimChunk, Goto, JobsSound, MyChunk, TypeOK
  <2> QED
    BY <2>2, <2>3, <2>4, <2>5
<1>4. ASSUME NEW t \in Threads, AllocChunk(t) PROVE IInv'
  <2> DEFINE c == MyChunk(t)
  <2>1. c \in Chunks
    BY MyCell
  <2>2. initializer[c] = t /\ chunks[c] = Unallocated
    BY <1>4, <2>1, <1>a DEF AllocChunk, ClaimsSound
  <2>3. EmptyChunk(c) \in [0 .. 2 ^ c - 1 -> Nat \cup {Empty}] /\ EmptyChunk(c) # Unallocated
    BY <2>1, StorageAssumption DEF EmptyChunk, Chunks
  <2>4. /\ DOMAIN chunks' = Chunks /\ chunks' = [k \in Chunks |-> chunks'[k]]
        /\ chunks'[c] = EmptyChunk(c)
        /\ \A k \in Chunks : k # c => chunks'[k] = chunks[k]
    BY <1>4, <2>1 DEF AllocChunk, Shaped
  <2>5. TypeOK'
    <3>1. \A k \in Chunks : chunks'[k] \in {Unallocated} \cup [0 .. 2 ^ k - 1 -> Nat \cup {Empty}]
      BY <2>3, <2>4 DEF TypeOK
    <3> QED
      BY <3>1, <1>4, <2>1 DEF AllocChunk, Goto, TypeOK
  <2>6. \A s \in Slots : Content(s)' = Content(s)
    BY <1>4, AllocKeepsContent
  <2>7. Shaped' /\ AcceptedKept'
    <3>1. held' = held
      BY <1>4 DEF AllocChunk
    <3> QED
      BY <3>1, <2>4, <2>6 DEF Shaped, AcceptedKept
  <2>8. ClaimsSound'
    <3>1. ASSUME NEW k \in Chunks, initializer'[k] # NoThread PROVE chunks'[k] = Unallocated
      <4>1. k # c /\ initializer[k] # NoThread
        BY <3>1, <1>4, <2>1 DEF AllocChunk, TypeOK
      <4> QED
        BY <4>1, <2>4 DEF ClaimsSound
    <3>2. ASSUME NEW u \in Threads, pc'[u] = "init" PROVE initializer'[MyChunk(u)] = u
      <4>1. u # t /\ pc[u] = "init" /\ initializer[MyChunk(u)] = u
        BY <3>2, <1>4 DEF AllocChunk, Goto, ClaimsSound, TypeOK
      <4>2. MyChunk(u) \in Chunks /\ MyChunk(u) # c
        BY <4>1, <2>2, MyCell
      <4> QED
        BY <4>1, <4>2, <1>4, <2>1 DEF AllocChunk, TypeOK
    <3>3. \A u \in Threads : MyChunk(u)' = MyChunk(u)
      BY <1>4 DEF AllocChunk, MyChunk
    <3> QED
      BY <3>1, <3>2, <3>3 DEF ClaimsSound
  <2>9. JobsSound'
    <3>1. ASSUME NEW u \in Threads, pc'[u] = "slot" PROVE chunks'[MyChunk(u)] # Unallocated
      <4>1. MyChunk(u) \in Chunks
        BY MyCell
      <4>2. CASE u = t
        BY <4>2, <2>3, <2>4
      <4>3. CASE u # t
        <5>1. chunks[MyChunk(u)] # Unallocated
          BY <3>1, <4>3, <1>4 DEF AllocChunk, Goto, JobsSound, TypeOK
        <5> QED
          BY <5>1, <4>1, <2>2, <2>4
      <4> QED
        BY <4>2, <4>3
    <3>2. \A u \in Threads : MyChunk(u)' = MyChunk(u)
      BY <1>4 DEF AllocChunk, MyChunk
    <3>3. \A u \in Threads : pc'[u] # "idle" => job'[u].value \in 1 .. serial'
      BY <1>4 DEF AllocChunk, Goto, JobsSound, TypeOK
    <3> QED
      BY <3>1, <3>2, <3>3 DEF JobsSound
  <2> QED
    BY <2>5, <2>7, <2>8, <2>9
<1>5. ASSUME NEW t \in Threads, AllocChunkPanics(t) PROVE IInv'
  <2>1. MyChunk(t) \in Chunks
    BY MyCell
  <2>2. TypeOK'
    BY <1>5, <1>b, <2>1 DEF AllocChunkPanics, Goto, TypeOK
  <2>3. Shaped' /\ AcceptedKept'
    BY <1>5 DEF AllocChunkPanics, Shaped, AcceptedKept, Content
  <2>4. ClaimsSound'
    <3>1. \A k \in Chunks : initializer'[k] # NoThread => chunks'[k] = Unallocated
      BY <1>5, <2>1 DEF AllocChunkPanics, ClaimsSound, TypeOK
    <3>2. ASSUME NEW u \in Threads, pc'[u] = "init" PROVE initializer'[MyChunk(u)'] = u
      <4>1. u # t /\ pc[u] = "init" /\ initializer[MyChunk(u)] = u
        BY <3>2, <1>5 DEF AllocChunkPanics, Goto, ClaimsSound, TypeOK
      <4>2. initializer[MyChunk(t)] = t
        BY <1>5 DEF AllocChunkPanics, ClaimsSound
      <4>3. MyChunk(u) \in Chunks /\ MyChunk(u) # MyChunk(t)
        BY <4>1, <4>2, MyCell
      <4>4. MyChunk(u)' = MyChunk(u)
        BY <4>1, <1>5 DEF AllocChunkPanics, MyChunk, TypeOK
      <4> QED
        BY <4>1, <4>3, <4>4, <1>5, <2>1 DEF AllocChunkPanics, TypeOK
    <3> QED
      BY <3>1, <3>2 DEF ClaimsSound
  <2>5. JobsSound'
    BY <1>5 DEF AllocChunkPanics, Goto, JobsSound, MyChunk, TypeOK
  <2> QED
    BY <2>2, <2>3, <2>4, <2>5
<1>6. ASSUME NEW t \in Threads, Fill(t) PROVE IInv'
  <2> DEFINE i == job[t].index
             v == job[t].value
  <2>1. i \in Slots /\ v \in Nat /\ v # Empty /\ chunks[ChunkOf(i)] # Unallocated
    BY <1>6, <1>a, MyCell DEF Fill, JobsSound, MyChunk, TypeOK
  <2>2. /\ \A k \in Chunks : chunks'[k] \in {Unallocated} \cup [0 .. 2 ^ k - 1 -> Nat \cup {Empty}]
        /\ DOMAIN chunks' = Chunks /\ chunks' = [k \in Chunks |-> chunks'[k]]
        /\ \A k \in Chunks : chunks'[k] = Unallocated <=> chunks[k] = Unallocated
        /\ \A s \in Slots : Content(s)' = IF s = i THEN v ELSE Content(s)
    <3>1. chunks' = [chunks EXCEPT ![ChunkOf(i)][OffsetOf(i)] = v]
      BY <1>6 DEF Fill, Write, MyChunk
    <3> HIDE DEF i, v
    <3> QED
      BY <2>1, <3>1, CellWritten
  <2>3. TypeOK'
    BY <1>6, <1>b, <2>2 DEF Fill, Goto, TypeOK
  <2>4. Shaped'
    BY <1>6, <2>1, <2>2 DEF Fill, Shaped
  <2>5. ClaimsSound'
    BY <1>6, <2>2 DEF Fill, Goto, ClaimsSound, MyChunk, TypeOK
  <2>6. JobsSound'
    <3>1. ASSUME NEW u \in Threads, pc'[u] # "idle"
          PROVE  u # t /\ pc'[u] = pc[u] /\ job'[u] = job[u]
      BY <3>1, <1>6 DEF Fill, Goto, TypeOK
    <3>2. ASSUME NEW u \in Threads, pc'[u] = "slot" PROVE chunks'[MyChunk(u)'] # Unallocated
      <4>1. MyChunk(u)' = MyChunk(u) /\ chunks[MyChunk(u)] # Unallocated
        BY <3>1, <3>2 DEF JobsSound, MyChunk
      <4> QED
        BY <4>1, <2>2, MyCell
    <3>3. serial' = serial
      BY <1>6 DEF Fill
    <3> QED
      BY <3>1, <3>2, <3>3 DEF JobsSound
  <2>7. AcceptedKept'
    <3>1. held' = held \cup {<<i, v>>} /\ Content(i) = Empty
      BY <1>6 DEF Fill
    <3>2. ASSUME NEW h \in held' PROVE Content(h[1])' = h[2]
      <4>1. CASE h = <<i, v>>
        BY <4>1, <2>1, <2>2
      <4>2. CASE h \in held
        <5>1. h[1] \in Slots /\ h[2] \in Nat /\ Content(h[1]) = h[2]
          BY <4>2 DEF Shaped, AcceptedKept
        <5>2. h[1] # i
          BY <5>1, <3>1, <1>a
        <5> QED
          BY <5>1, <5>2, <2>2
      <4> QED
        BY <3>1, <4>1, <4>2
    <3>3. ASSUME NEW s \in Slots, Content(s)' # Empty PROVE <<s, Content(s)'>> \in held'
      <4>1. CASE s = i
        BY <4>1, <2>2, <3>1
      <4>2. CASE s # i
        BY <4>2, <2>2, <3>1, <3>3 DEF AcceptedKept
      <4> QED
        BY <4>1, <4>2
    <3> QED
      BY <3>2, <3>3 DEF AcceptedKept
  <2> QED
    BY <2>3, <2>4, <2>5, <2>6, <2>7
<1>7. ASSUME NEW t \in Threads, Reject(t) PROVE IInv'
  <2>1. TypeOK'
    BY <1>7, <1>b DEF Reject, Goto, TypeOK
  <2>2. Shaped' /\ AcceptedKept'
    BY <1>7 DEF Reject, Shaped, AcceptedKept, Content
  <2>3. ClaimsSound'
    BY <1>7 DEF Reject, Goto, ClaimsSound, MyChunk, TypeOK
  <2>4. JobsSound'
    BY <1>7 DEF Reject, Goto, JobsSound, MyChunk, TypeOK
  <2> QED
    BY <2>1, <2>2, <2>3, <2>4
<1>8. ASSUME NEW i \in Indices, Take(i) PROVE IInv'
  <2>1. i \in Slots /\ chunks[ChunkOf(i)] # Unallocated
    BY <1>8, <1>a DEF Take, Content
  <2>2. /\ \A k \in Chunks : chunks'[k] \in {Unallocated} \cup [0 .. 2 ^ k - 1 -> Nat \cup {Empty}]
        /\ DOMAIN chunks' = Chunks /\ chunks' = [k \in Chunks |-> chunks'[k]]
        /\ \A k \in Chunks : chunks'[k] = Unallocated <=> chunks[k] = Unallocated
        /\ \A s \in Slots : Content(s)' = IF s = i THEN Empty ELSE Content(s)
    <3>1. chunks' = [chunks EXCEPT ![ChunkOf(i)][OffsetOf(i)] = Empty]
      BY <1>8 DEF Take
    <3> QED
      BY <2>1, <3>1, CellWritten
  <2>3. TypeOK'
    BY <1>8, <2>2 DEF Take, TypeOK
  <2>4. Shaped'
    BY <1>8, <2>2 DEF Take, Shaped
  <2>5. ClaimsSound'
    BY <1>8, <2>2 DEF Take, ClaimsSound, MyChunk
  <2>6. JobsSound'
    BY <1>8, <2>2 DEF Take, JobsSound, MyChunk
  <2>7. AcceptedKept'
    <3>1. held' = { h \in held : h[1] # i }
      BY <1>8 DEF Take
    <3>2. ASSUME NEW h \in held' PROVE Content(h[1])' = h[2]
      <4>1. h \in held /\ h[1] \in Slots /\ h[1] # i
        BY <3>1 DEF Shaped
      <4> QED
        BY <4>1, <2>2 DEF AcceptedKept
    <3>3. ASSUME NEW s \in Slots, Content(s)' # Empty PROVE <<s, Content(s)'>> \in held'
      <4>1. s # i /\ Content(s)' = Content(s)
        BY <3>3, <2>2
      <4> QED
        BY <3>1, <3>3, <4>1 DEF AcceptedKept
    <3> QED
      BY <3>2, <3>3 DEF AcceptedKept
  <2> QED
    BY <2>3, <2>4, <2>5, <2>6, <2>7
<1>9. CASE UNCHANGED vars
  BY <1>9 DEF vars, TypeOK, Shaped, ClaimsSound, JobsSound, AcceptedKept, Content, MyChunk
<1> QED
  BY <1>1, <1>2, <1>3, <1>4, <1>5, <1>6, <1>7, <1>8, <1>9 DEF Next, Step

(* Every reachable state satisfies the invariant.                          *)
THEOREM Inductive == Spec => []IInv
BY InitIInv, StepIInv, PTL DEF Spec

(* The storage is well typed, whatever threads race for its chunks.        *)
THEOREM TypeCorrect == Spec => []TypeOK
<1>1. IInv => TypeOK
  BY DEF IInv
<1> QED
  BY <1>1, Inductive, PTL

(* split_index gives every slot up to the top of usize a cell inside its   *)
(* chunk, chunks cover the slots in order, and alloc_chunk allocates every *)
(* cell that can be asked of it, for any width of usize.                   *)
THEOREM LayoutIsExact == Spec => []LayoutExact
<1>1. IInv => LayoutExact
  <2> SUFFICES ASSUME IInv, NEW s \in Slots
               PROVE  chunks[ChunkOf(s)] = Unallocated \/ OffsetOf(s) \in DOMAIN chunks[ChunkOf(s)]
    BY CellFacts DEF LayoutExact
  <2>1. ChunkOf(s) \in Chunks /\ OffsetOf(s) \in 0 .. 2 ^ ChunkOf(s) - 1
    BY CellFacts
  <2> QED
    BY <2>1 DEF IInv, TypeOK
<1> QED
  BY <1>1, Inductive, PTL

(* A value that `set` accepted stays in its slot until `take` removes it,  *)
(* and nothing else is in any slot, however many threads race.             *)
THEOREM AcceptedValuesAreKept == Spec => []AcceptedKept
<1>1. IInv => AcceptedKept
  BY DEF IInv
<1> QED
  BY <1>1, Inductive, PTL

(* The lazily allocated chunks, seen through split_index, implement one    *)
(* array of slots, which is how SharedArena uses them.                     *)
THEOREM StorageImplementsArray == Spec => ImplementsArray
<1>1. Init => Array!Init
  <2> SUFFICES ASSUME Init PROVE Array!Init
    OBVIOUS
  <2>1. \A s \in Slots : Content(s) = Empty
    BY CellFacts DEF Init, Content
  <2> QED
    BY <2>1 DEF Array!Init
<1>2. IInv /\ [Next]_vars => [Array!Next]_[s \in Slots |-> Content(s)]
  <2> DEFINE A == [s \in Slots |-> Content(s)]
  <2> SUFFICES ASSUME IInv, [Next]_vars PROVE Array!Next \/ A' = A
    OBVIOUS
  <2> USE DEF IInv
  <2>1. ASSUME chunks' = chunks PROVE A' = A
    BY <2>1 DEF Content
  <2>2. ASSUME NEW t \in Threads, AllocChunk(t) PROVE A' = A
    BY <2>2, AllocKeepsContent
  <2>3. ASSUME NEW t \in Threads, Fill(t) PROVE Array!Next
    <3> DEFINE i == job[t].index
               v == job[t].value
    <3>1. /\ i \in Slots /\ v \in 1 .. MaxValues /\ v \in Nat
          /\ chunks[ChunkOf(i)] # Unallocated
      BY <2>3, MyCell, StorageAssumption DEF Fill, JobsSound, MyChunk, TypeOK
    <3>2. A[i] = Empty
      BY <2>3, <3>1 DEF Fill
    <3>3. A' = [A EXCEPT ![i] = v]
      <4>1. chunks' = [chunks EXCEPT ![ChunkOf(i)][OffsetOf(i)] = v]
        BY <2>3 DEF Fill, Write, MyChunk
      <4> HIDE DEF i, v
      <4>2. \A s \in Slots : Content(s)' = IF s = i THEN v ELSE Content(s)
        BY <3>1, <4>1, CellWritten
      <4> QED
        BY <4>2, <3>1
    <3> HIDE DEF A, i, v
    <3> QED
      BY <3>1, <3>2, <3>3 DEF Array!Next, Array!Set, A
  <2>4. ASSUME NEW i \in Indices, Take(i) PROVE Array!Next
    <3>1. i \in Slots /\ chunks[ChunkOf(i)] # Unallocated
      BY <2>4, IndicesAssumption DEF Take, Content
    <3>2. A[i] # Empty
      BY <2>4, <3>1 DEF Take
    <3>3. A' = [A EXCEPT ![i] = Empty]
      <4>1. chunks' = [chunks EXCEPT ![ChunkOf(i)][OffsetOf(i)] = Empty]
        BY <2>4 DEF Take
      <4>2. \A s \in Slots : Content(s)' = IF s = i THEN Empty ELSE Content(s)
        BY <3>1, <4>1, CellWritten
      <4> QED
        BY <4>2, <3>1
    <3> HIDE DEF A
    <3> QED
      BY <3>1, <3>2, <3>3 DEF Array!Next, Array!Take, A
  <2> QED
    BY <2>1, <2>2, <2>3, <2>4
    DEF Next, Step, vars, StartSet, FindChunk, ClaimChunk, AllocChunkPanics, Reject
<1> QED
  BY <1>1, <1>2, Inductive, PTL DEF Spec, ImplementsArray, Array!Spec
=============================================================================
