--------------------------- MODULE StampPoolProof ---------------------------
(***************************************************************************)
(* No stamp is drawn twice, for any number of threads, any length of the   *)
(* local reservations and any width of the counter; and the pools          *)
(* implement the abstract sequence of fresh stamps.                        *)
(***************************************************************************)
EXTENDS StampPool, SequenceTheorems, TLAPS

LEMMA InitInv == Init => IInv
<1> SUFFICES ASSUME Init
             PROVE  IInv
  OBVIOUS
<1>1. TypeOK
  BY PoolAssumption DEF Init, TypeOK, RawPool, Empty
<1>2. DrawsUnique /\ RangesDisjoint
  BY PoolAssumption DEF Init, DrawsUnique, RangesDisjoint, Remaining, Empty
<1>3. ReservationsKnown
  <2> SUFFICES ASSUME NEW t \in Threads
               PROVE  /\ seen[t] <= NEXT_STAMP
                      /\ pc[t] # "cas"
                      /\ pool[t].next = pool[t].end
    BY DEF ReservationsKnown, Emptied
  <2>1. seen[t] = 0 /\ NEXT_STAMP = 1 /\ pc[t] = "idle" /\ pool[t] = [next |-> 0, end |-> 0]
    BY DEF Init, Empty
  <2> QED
    BY <2>1
<1> QED
  BY <1>1, <1>2, <1>3 DEF IInv

(* A draw from the local range: the value was the thread's alone.          *)
LEMMA DrawLocalInv ==
    ASSUME IInv, NEW t \in Threads, DrawLocal(t)
    PROVE  IInv'
<1> DEFINE r == pool[t].next
<1>1. /\ pool \in [Threads -> RawPool] /\ draws \in Seq(1 .. MaxRaw)
      /\ NEXT_STAMP \in 1 .. MaxRaw /\ MaxRaw \in Nat
      /\ \A u \in Threads : pool[u].next \in Nat /\ pool[u].end \in Nat
  BY PoolAssumption DEF IInv, TypeOK, RawPool
<1>2. /\ pool'[t].next = r + 1 /\ pool'[t].end = pool[t].end
      /\ \A u \in Threads \ {t} : pool'[u] = pool[u]
      /\ pool' \in [Threads -> RawPool]
  BY <1>1 DEF DrawLocal, RawPool
<1>3. r < pool[t].end /\ pool[t].end <= NEXT_STAMP /\ r > 0 /\ r \in 1 .. MaxRaw
  BY <1>1 DEF IInv, RangesDisjoint, ReservationsKnown, DrawLocal, Emptied
<1>4. r \in Remaining(t)
  BY <1>1, <1>3 DEF Remaining
<1>5. /\ draws' = Append(draws, r) /\ Len(draws') = Len(draws) + 1
      /\ draws' \in Seq(1 .. MaxRaw)
      /\ draws'[Len(draws) + 1] = r
      /\ \A i \in DOMAIN draws : draws'[i] = draws[i]
      /\ DOMAIN draws' = DOMAIN draws \cup {Len(draws) + 1}
  BY <1>1, <1>3 DEF DrawLocal
<1>6. Remaining(t)' = Remaining(t) \ {r} /\ \A u \in Threads \ {t} : Remaining(u)' = Remaining(u)
  BY <1>1, <1>2 DEF Remaining
<1>7. \A i \in DOMAIN draws : draws[i] # r
  BY <1>4 DEF IInv, RangesDisjoint
<1>8. UNCHANGED <<NEXT_STAMP, pc, seen>>
  BY DEF DrawLocal
<1> HIDE DEF r
<1>9. TypeOK'
  BY <1>2, <1>5, <1>8 DEF IInv, TypeOK
<1>10. DrawsUnique'
  BY <1>3, <1>5, <1>7 DEF IInv, DrawsUnique
<1>11. RangesDisjoint'
  <2>1. ASSUME NEW u \in Threads
        PROVE  pool'[u].next <= pool'[u].end /\ pool'[u].end <= NEXT_STAMP'
    BY <1>1, <1>2, <1>3, <1>8 DEF IInv, RangesDisjoint
  <2>2. ASSUME NEW u \in Threads, NEW v \in Threads \ {u}
        PROVE  Remaining(u)' \cap Remaining(v)' = {}
    BY <1>6 DEF IInv, RangesDisjoint
  <2>3. ASSUME NEW u \in Threads, NEW i \in DOMAIN draws'
        PROVE  draws'[i] < NEXT_STAMP' /\ draws'[i] \notin Remaining(u)'
    <3>1. CASE i \in DOMAIN draws
      BY <1>5, <1>6, <1>8, <3>1 DEF IInv, RangesDisjoint
    <3>2. CASE i = Len(draws) + 1
      <4>1. r \notin Remaining(u)'
        BY <1>4, <1>6 DEF IInv, RangesDisjoint
      <4> QED
        BY <1>1, <1>3, <1>5, <1>8, <3>2, <4>1
    <3> QED
      BY <1>5, <3>1, <3>2
  <2> QED
    BY <2>1, <2>2, <2>3 DEF RangesDisjoint
<1>12. ReservationsKnown'
  BY <1>1, <1>2, <1>3, <1>8 DEF IInv, ReservationsKnown, Emptied, DrawLocal
<1> QED
  BY <1>9, <1>10, <1>11, <1>12 DEF IInv

(* A reservation: everything drawn or held lies below the counter, and the *)
(* new range above it.                                                     *)
LEMMA ReserveInv ==
    ASSUME IInv, NEW t \in Threads, Reserve(t)
    PROVE  IInv'
<1> DEFINE r == seen[t]
<1> DEFINE L == LOCAL_RESERVATION_LEN
<1>1. /\ pool \in [Threads -> RawPool] /\ draws \in Seq(1 .. MaxRaw)
      /\ NEXT_STAMP \in 1 .. MaxRaw /\ MaxRaw \in Nat /\ L \in Nat \ {0}
      /\ \A u \in Threads : pool[u].next \in Nat /\ pool[u].end \in Nat
  BY PoolAssumption DEF IInv, TypeOK, RawPool
<1>2. r = NEXT_STAMP /\ NEXT_STAMP' = r + L /\ r + L <= MaxRaw /\ r \in 1 .. MaxRaw
  BY <1>1 DEF Reserve, Representable
<1>3. /\ pool'[t].next = r + 1 /\ pool'[t].end = r + L
      /\ \A u \in Threads \ {t} : pool'[u] = pool[u]
      /\ pool' \in [Threads -> RawPool]
  BY <1>1, <1>2 DEF Reserve, RawPool
<1>4. /\ draws' = Append(draws, r) /\ Len(draws') = Len(draws) + 1
      /\ draws' \in Seq(1 .. MaxRaw)
      /\ draws'[Len(draws) + 1] = r
      /\ \A i \in DOMAIN draws : draws'[i] = draws[i]
      /\ DOMAIN draws' = DOMAIN draws \cup {Len(draws) + 1}
  BY <1>1, <1>2 DEF Reserve
<1>5. /\ \A i \in DOMAIN draws : draws[i] \in Nat /\ draws[i] < r
      /\ \A u \in Threads : pool[u].end <= r
  BY <1>1, <1>2 DEF IInv, RangesDisjoint
<1>6. /\ \A x \in Remaining(t)' : x \in Nat /\ x > r
      /\ \A u \in Threads \ {t} : Remaining(u)' = Remaining(u)
      /\ \A u \in Threads : \A x \in Remaining(u) : x \in Nat /\ x < r
  BY <1>1, <1>2, <1>3, <1>5 DEF Remaining
<1>7. pc' = [pc EXCEPT ![t] = "idle"] /\ UNCHANGED seen
  BY DEF Reserve
<1> HIDE DEF r, L
<1>8. TypeOK'
  <2>1. NEXT_STAMP' \in 1 .. MaxRaw
    BY <1>1, <1>2
  <2>2. pc' \in [Threads -> {"idle", "cas"}] /\ seen' \in [Threads -> 0 .. MaxRaw]
    BY <1>7 DEF IInv, TypeOK
  <2> QED
    BY <1>3, <1>4, <2>1, <2>2 DEF TypeOK
<1>9. DrawsUnique'
  BY <1>2, <1>4, <1>5 DEF IInv, DrawsUnique
<1>10. RangesDisjoint'
  <2>1. ASSUME NEW u \in Threads
        PROVE  pool'[u].next <= pool'[u].end /\ pool'[u].end <= NEXT_STAMP'
    <3>1. CASE u = t
      BY <1>1, <1>2, <1>3, <3>1
    <3>2. CASE u # t
      BY <1>1, <1>2, <1>3, <1>5, <3>2 DEF IInv, RangesDisjoint
    <3> QED
      BY <3>1, <3>2
  <2>2. ASSUME NEW u \in Threads, NEW v \in Threads \ {u}
        PROVE  Remaining(u)' \cap Remaining(v)' = {}
    <3>1. CASE u = t \/ v = t
      BY <1>2, <1>6, <3>1
    <3>2. CASE u # t /\ v # t
      BY <1>6, <3>2 DEF IInv, RangesDisjoint
    <3> QED
      BY <3>1, <3>2
  <2>3. ASSUME NEW u \in Threads, NEW i \in DOMAIN draws'
        PROVE  draws'[i] < NEXT_STAMP' /\ draws'[i] \notin Remaining(u)'
    <3>1. draws'[i] \in Nat /\ draws'[i] <= r
      BY <1>2, <1>4, <1>5
    <3>2. draws'[i] < NEXT_STAMP'
      BY <1>1, <1>2, <3>1
    <3> SUFFICES draws'[i] \notin Remaining(u)'
      BY <3>2
    <3>3. CASE u = t
      BY <1>2, <1>6, <3>1, <3>3
    <3>4. CASE u # t /\ i \in DOMAIN draws
      BY <1>4, <1>6, <3>4 DEF IInv, RangesDisjoint
    <3>5. CASE u # t /\ i = Len(draws) + 1
      BY <1>2, <1>4, <1>6, <3>5
    <3> QED
      BY <1>4, <3>3, <3>4, <3>5
  <2> QED
    BY <2>1, <2>2, <2>3 DEF RangesDisjoint
<1>11. ReservationsKnown'
  <2> SUFFICES ASSUME NEW u \in Threads
               PROVE  /\ seen[u] <= NEXT_STAMP'
                      /\ pc'[u] = "cas" => seen[u] > 0 /\ pool'[u].next = pool'[u].end
                      /\ pool'[u].next # pool'[u].end => pool'[u].next > 0
    BY <1>7 DEF ReservationsKnown, Emptied
  <2>1. seen[u] <= NEXT_STAMP /\ seen[u] \in Nat
    BY DEF IInv, ReservationsKnown, TypeOK
  <2>2. seen[u] <= NEXT_STAMP'
    BY <1>1, <1>2, <2>1
  <2>3. CASE u = t
    BY <1>2, <1>3, <1>7, <2>2, <2>3 DEF IInv, TypeOK
  <2>4. CASE u # t
    BY <1>3, <1>7, <2>2, <2>4 DEF IInv, ReservationsKnown, Emptied, TypeOK
  <2> QED
    BY <2>3, <2>4
<1> QED
  BY <1>8, <1>9, <1>10, <1>11 DEF IInv

(* The steps that draw nothing and leave every range but t's in place.     *)
LEMMA QuietInv ==
    ASSUME IInv, NEW t \in Threads,
           BeginReserve(t) \/ Retry(t) \/ Exhausted(t) \/ Exit(t)
    PROVE  IInv'
<1>1. /\ pool \in [Threads -> RawPool] /\ seen \in [Threads -> 0 .. MaxRaw]
      /\ pc \in [Threads -> {"idle", "cas"}]
      /\ NEXT_STAMP \in 1 .. MaxRaw /\ MaxRaw \in Nat
      /\ \A u \in Threads : pool[u].next \in Nat /\ pool[u].end \in Nat
  BY PoolAssumption DEF IInv, TypeOK, RawPool
<1>2. UNCHANGED <<NEXT_STAMP, draws>>
  BY DEF BeginReserve, Retry, Exhausted, Exit
<1>3. /\ pool' \in [Threads -> RawPool]
      /\ \A u \in Threads : pool'[u] = pool[u] \/ (u = t /\ pool'[u] = Empty)
  <2>1. CASE Exit(t)
    BY <1>1, <2>1 DEF Exit, Empty, RawPool
  <2>2. CASE BeginReserve(t) \/ Retry(t) \/ Exhausted(t)
    BY <1>1, <2>2 DEF BeginReserve, Retry, Exhausted
  <2> QED
    BY <2>1, <2>2
<1>4. \A u \in Threads : Remaining(u)' \subseteq Remaining(u)
  BY <1>1, <1>3 DEF Remaining, Empty
<1>5. seen' \in [Threads -> 0 .. MaxRaw] /\ pc' \in [Threads -> {"idle", "cas"}]
  <2>1. CASE BeginReserve(t)
    BY <1>1, <2>1 DEF BeginReserve
  <2>2. CASE Retry(t)
    <3>1. PICK v \in seen[t] .. NEXT_STAMP : seen' = [seen EXCEPT ![t] = v]
      BY <2>2 DEF Retry
    <3>2. v \in 0 .. MaxRaw
      BY <1>1, <3>1
    <3> QED
      BY <1>1, <2>2, <3>1, <3>2 DEF Retry
  <2>3. CASE Exhausted(t)
    BY <1>1, <2>3 DEF Exhausted
  <2>4. CASE Exit(t)
    BY <1>1, <2>4 DEF Exit
  <2> QED
    BY <2>1, <2>2, <2>3, <2>4
<1>6. TypeOK'
  BY <1>2, <1>3, <1>5 DEF IInv, TypeOK
<1>7. DrawsUnique'
  BY <1>2 DEF IInv, DrawsUnique
<1>8. RangesDisjoint'
  <2>1. \A u \in Threads : pool'[u].next <= pool'[u].end /\ pool'[u].end <= NEXT_STAMP'
    BY <1>1, <1>2, <1>3 DEF IInv, RangesDisjoint, Empty
  <2>2. \A u \in Threads : \A v \in Threads \ {u} : Remaining(u)' \cap Remaining(v)' = {}
    BY <1>4 DEF IInv, RangesDisjoint
  <2>3. \A u \in Threads : \A i \in DOMAIN draws' :
            draws'[i] < NEXT_STAMP' /\ draws'[i] \notin Remaining(u)'
    BY <1>2, <1>4 DEF IInv, RangesDisjoint
  <2> QED
    BY <2>1, <2>2, <2>3 DEF RangesDisjoint
<1>9. ReservationsKnown'
  <2>1. CASE BeginReserve(t)
    BY <1>1, <2>1 DEF BeginReserve, IInv, ReservationsKnown, Emptied
  <2>2. CASE Retry(t)
    BY <1>1, <2>2 DEF Retry, IInv, ReservationsKnown, Emptied
  <2>3. CASE Exhausted(t)
    BY <1>1, <2>3 DEF Exhausted, IInv, ReservationsKnown, Emptied
  <2>4. CASE Exit(t)
    BY <1>1, <2>4 DEF Exit, IInv, ReservationsKnown, Emptied, Empty
  <2> QED
    BY <2>1, <2>2, <2>3, <2>4
<1> QED
  BY <1>6, <1>7, <1>8, <1>9 DEF IInv

LEMMA NextInv == IInv /\ [Next]_vars => IInv'
<1> SUFFICES ASSUME IInv, [Next]_vars
             PROVE  IInv'
  OBVIOUS
<1>1. CASE UNCHANGED vars
  BY <1>1 DEF vars, IInv, TypeOK, DrawsUnique, RangesDisjoint, Remaining,
              ReservationsKnown, Emptied
<1>2. CASE Next
  BY <1>2, DrawLocalInv, ReserveInv, QuietInv DEF Next
<1> QED
  BY <1>1, <1>2

(* The inductive invariant of the pools (Stamp::fresh, reserve_raw).       *)
THEOREM Inductive == Spec => []IInv
  BY InitInv, NextInv, PTL DEF Spec

(* Type correctness.                                                       *)
THEOREM TypeCorrect == Spec => []TypeOK
<1>1. IInv => TypeOK
  BY DEF IInv
<1> QED
  BY <1>1, Inductive, PTL

(* No stamp is returned twice in the process, and none is 0 (Stamp::fresh). *)
THEOREM DrawsAreUnique == Spec => []DrawsUnique
<1>1. IInv => DrawsUnique
  BY DEF IInv
<1> QED
  BY <1>1, Inductive, PTL

(* No two threads ever hold the same raw value, and none holds one already *)
(* returned (StampPool).                                                   *)
THEOREM RangesAreDisjoint == Spec => []RangesDisjoint
<1>1. IInv => RangesDisjoint
  BY DEF IInv
<1> QED
  BY <1>1, Inductive, PTL

(* The counter never moves back, and stays put once no range fits below    *)
(* its maximum (reserve_raw).                                              *)
THEOREM ExhaustionIsFinal == Spec => ExhaustionFinal
<1>1. IInv /\ [Next]_vars =>
        [/\ NEXT_STAMP' >= NEXT_STAMP
         /\ ~Representable(NEXT_STAMP) => NEXT_STAMP' = NEXT_STAMP]_vars
  <2> SUFFICES ASSUME IInv, Next
               PROVE  /\ NEXT_STAMP' >= NEXT_STAMP
                      /\ ~Representable(NEXT_STAMP) => NEXT_STAMP' = NEXT_STAMP
    OBVIOUS
  <2>1. NEXT_STAMP \in Nat /\ LOCAL_RESERVATION_LEN \in Nat
    BY PoolAssumption DEF IInv, TypeOK
  <2>2. PICK t \in Threads : \/ DrawLocal(t) \/ BeginReserve(t) \/ Reserve(t)
                             \/ Retry(t) \/ Exhausted(t) \/ Exit(t)
    BY DEF Next
  <2>3. CASE Reserve(t)
    BY <2>1, <2>3 DEF Reserve
  <2>4. CASE ~Reserve(t)
    BY <2>1, <2>2, <2>4 DEF DrawLocal, BeginReserve, Retry, Exhausted, Exit
  <2> QED
    BY <2>3, <2>4
<1> QED
  BY <1>1, Inductive, PTL DEF Spec, ExhaustionFinal

(* Every draw of the pools is a draw of the abstract sequence: the callers *)
(* of Stamp::fresh may rely on StampSequence alone.                        *)
THEOREM PoolsImplementSequence == Spec => ImplementsSequence
<1>1. Init => Sequence!Init
  BY DEF Init, Sequence!Init
<1>2. IInv /\ IInv' /\ [Next]_vars => [Sequence!Next]_draws
  <2> SUFFICES ASSUME IInv, IInv', Next, draws' # draws
               PROVE  Sequence!Next
    BY DEF vars
  <2>1. PICK s : draws' = Append(draws, s)
    BY DEF Next, DrawLocal, BeginReserve, Reserve, Retry, Exhausted, Exit
  <2>2. /\ draws \in Seq(1 .. MaxRaw) /\ draws' \in Seq(1 .. MaxRaw)
        /\ Len(draws') = Len(draws) + 1 /\ draws'[Len(draws) + 1] = s
        /\ \A i \in DOMAIN draws : draws'[i] = draws[i] /\ i \in DOMAIN draws'
    BY <2>1 DEF IInv, TypeOK
  <2>3. /\ s \in 1 .. MaxRaw
        /\ Len(draws) + 1 \in DOMAIN draws' /\ Len(draws) + 1 \notin DOMAIN draws
    <3>1. Len(draws) \in Nat /\ DOMAIN draws = 1 .. Len(draws) /\ DOMAIN draws' = 1 .. Len(draws')
      BY <2>2
    <3>2. Len(draws) + 1 \in DOMAIN draws' /\ Len(draws) + 1 \notin DOMAIN draws
      BY <2>2, <3>1
    <3>3. draws'[Len(draws) + 1] \in 1 .. MaxRaw
      <4>1. draws' \in Seq(1 .. MaxRaw) /\ Len(draws) + 1 \in 1 .. Len(draws')
        BY <2>2, <3>1
      <4> QED
        BY <4>1, ElementOfSeq
    <3> QED
      BY <2>2, <3>2, <3>3
  <2>4. \A i \in DOMAIN draws : draws[i] # s
    BY <2>2, <2>3 DEF IInv, DrawsUnique
  <2> QED
    BY <2>1, <2>3, <2>4 DEF Sequence!Next, Sequence!Drawn
<1> QED
  BY <1>1, <1>2, Inductive, PTL DEF Spec, ImplementsSequence, Sequence!Spec
=============================================================================
