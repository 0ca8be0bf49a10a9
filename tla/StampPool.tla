----------------------------- MODULE StampPool ------------------------------
(***************************************************************************)
(* Stamp::fresh (src/src/stamp.rs).  One atomic counter hands out ranges   *)
(* of LOCAL_RESERVATION_LEN raw values; each thread dispenses its own      *)
(* range without synchronization.  What interleaves is the load and the    *)
(* compare-and-swap of `fetch_update` on several threads, and threads that *)
(* exit with part of their range unused.                                   *)
(***************************************************************************)
EXTENDS Integers, Sequences

CONSTANTS
    Threads,
    LOCAL_RESERVATION_LEN,  \* raw values per reservation (256 in the code)
    MaxRaw,                 \* the largest raw value (2^64 - 1 in the code)
    MaxDraws                \* bound: stamps drawn in the whole run

ASSUME PoolAssumption ==
    /\ LOCAL_RESERVATION_LEN \in Nat \ {0}
    /\ MaxRaw \in Nat \ {0}
    /\ MaxDraws \in Nat

VARIABLES
    NEXT_STAMP,     \* the process-wide counter
    pool,           \* pool[t]: the thread-local StampPool, [next, end)
    pc,             \* pc[t]: "idle", or "cas" between fetch_update's load and its CAS
    seen,           \* seen[t]: what fetch_update loaded
    draws           \* history: the raw values returned, in order

vars == <<NEXT_STAMP, pool, pc, seen, draws>>

Empty == [next |-> 0, end |-> 0]

Init ==
    /\ NEXT_STAMP = 1
    /\ pool = [t \in Threads |-> Empty]
    /\ pc = [t \in Threads |-> "idle"]
    /\ seen = [t \in Threads |-> 0]
    /\ draws = << >>

Emptied(t) == pool[t].next = pool[t].end

(* StampPool::fresh with a range in hand.                                  *)
DrawLocal(t) ==
    /\ pc[t] = "idle" /\ ~Emptied(t)
    /\ Len(draws) < MaxDraws
    /\ draws' = Append(draws, pool[t].next)
    /\ pool' = [pool EXCEPT ![t].next = @ + 1]
    /\ UNCHANGED <<NEXT_STAMP, pc, seen>>

(* StampPool::fresh with none: reserve_raw enters fetch_update, a Relaxed  *)
(* load that may return any value the counter ever held since this thread  *)
(* last saw it.                                                            *)
BeginReserve(t) ==
    /\ pc[t] = "idle" /\ Emptied(t)
    /\ Len(draws) < MaxDraws
    /\ \E v \in 1 .. NEXT_STAMP :
         /\ v >= seen[t] /\ (v - 1) % LOCAL_RESERVATION_LEN = 0
         /\ seen' = [seen EXCEPT ![t] = v]
    /\ pc' = [pc EXCEPT ![t] = "cas"]
    /\ UNCHANGED <<NEXT_STAMP, pool, draws>>

Representable(v) == v + LOCAL_RESERVATION_LEN <= MaxRaw

(* Faulty variant: the counter is stored, not compared and swapped.        *)
ReserveByStore(t) ==
    /\ pc[t] = "cas" /\ Representable(seen[t])
    /\ NEXT_STAMP' = seen[t] + LOCAL_RESERVATION_LEN
    /\ pool' = [pool EXCEPT ![t] = [next |-> seen[t] + 1, end |-> NEXT_STAMP']]
    /\ draws' = Append(draws, seen[t])
    /\ pc' = [pc EXCEPT ![t] = "idle"]
    /\ UNCHANGED seen

(* Faulty variant: the addition wraps instead of failing.                  *)
ReserveWraps(t) ==
    /\ pc[t] = "cas" /\ NEXT_STAMP = seen[t]
    /\ NEXT_STAMP' = (seen[t] + LOCAL_RESERVATION_LEN) % (MaxRaw + 1)
    /\ pool' = [pool EXCEPT ![t] = [next |-> seen[t] + 1, end |-> NEXT_STAMP']]
    /\ draws' = Append(draws, seen[t])
    /\ pc' = [pc EXCEPT ![t] = "idle"]
    /\ UNCHANGED seen

(* The CAS succeeds: the range is this thread's, and its first value is    *)
(* the stamp returned.                                                     *)
Reserve(t) ==
    /\ pc[t] = "cas" /\ Representable(seen[t])
    /\ NEXT_STAMP = seen[t]
    /\ NEXT_STAMP' = seen[t] + LOCAL_RESERVATION_LEN
    /\ pool' = [pool EXCEPT ![t] = [next |-> seen[t] + 1, end |-> NEXT_STAMP']]
    /\ draws' = Append(draws, seen[t])
    /\ pc' = [pc EXCEPT ![t] = "idle"]
    /\ UNCHANGED seen

(* The weak CAS fails, spuriously or because the counter moved on, and     *)
(* fetch_update retries with the value it found, which may again be old.   *)
Retry(t) ==
    /\ pc[t] = "cas" /\ Representable(seen[t])
    /\ \E v \in seen[t] .. NEXT_STAMP :
         /\ (v - 1) % LOCAL_RESERVATION_LEN = 0
         /\ seen' = [seen EXCEPT ![t] = v]
    /\ UNCHANGED <<NEXT_STAMP, pool, pc, draws>>

(* Faulty variant: exhaustion leaves the thread inside fetch_update.       *)
ExhaustedSpins(t) ==
    /\ pc[t] = "cas" /\ ~Representable(seen[t])
    /\ UNCHANGED vars

(* checked_add overflows: the draw panics and nothing has changed.         *)
Exhausted(t) ==
    /\ pc[t] = "cas" /\ ~Representable(seen[t])
    /\ pc' = [pc EXCEPT ![t] = "idle"]
    /\ UNCHANGED <<NEXT_STAMP, pool, seen, draws>>

(* Faulty variant: the unused tail of an exiting thread's range goes back. *)
ExitRecycles(t) ==
    /\ pc[t] = "idle"
    /\ pool' = [pool EXCEPT ![t] = Empty]
    /\ seen' = [seen EXCEPT ![t] = 0]
    /\ NEXT_STAMP' = IF Emptied(t) THEN NEXT_STAMP ELSE pool[t].next
    /\ UNCHANGED <<pc, draws>>

(* The thread exits, its unused range is lost, and another thread starts   *)
(* under its name.                                                         *)
Exit(t) ==
    /\ pc[t] = "idle"
    /\ pool' = [pool EXCEPT ![t] = Empty]
    /\ seen' = [seen EXCEPT ![t] = 0]
    /\ UNCHANGED <<NEXT_STAMP, pc, draws>>

Next ==
    \E t \in Threads :
        \/ DrawLocal(t)
        \/ BeginReserve(t)
        \/ Reserve(t)
        \/ Retry(t)
        \/ Exhausted(t)
        \/ Exit(t)

(* A thread inside fetch_update keeps running, sees the counter's latest   *)
(* value if it keeps looking, and a weak CAS that could succeed over and   *)
(* over does not fail for ever.                                            *)
RetryLatest(t) == Retry(t) /\ seen'[t] = NEXT_STAMP

Fairness ==
    \A t \in Threads :
        /\ SF_vars(RetryLatest(t))
        /\ SF_vars(Reserve(t))
        /\ WF_vars(Exhausted(t))

Spec == Init /\ [][Next]_vars

FairSpec == Spec /\ Fairness

-----------------------------------------------------------------------------
(***************************************************************************)
(* Properties.                                                             *)
(***************************************************************************)

RawPool == [next : Nat, end : Nat]

TypeOK ==
    /\ NEXT_STAMP \in 1 .. MaxRaw
    /\ pool \in [Threads -> RawPool]
    /\ pc \in [Threads -> {"idle", "cas"}]
    /\ seen \in [Threads -> 0 .. MaxRaw]
    /\ draws \in Seq(1 .. MaxRaw)

(* No stamp is returned twice in the process, by any thread and across     *)
(* thread exits, and none is the reserved raw value 0 (Stamp::fresh).      *)
DrawsUnique ==
    /\ \A i, j \in DOMAIN draws : i # j => draws[i] # draws[j]
    /\ \A i \in DOMAIN draws : draws[i] # 0

Remaining(t) == { r \in 0 .. MaxRaw : pool[t].next <= r /\ r < pool[t].end }

(* What a thread still holds is below the counter, held by no other thread *)
(* and returned by no draw (StampPool, reserve_raw).                       *)
RangesDisjoint ==
    \A t \in Threads :
        /\ pool[t].next <= pool[t].end /\ pool[t].end <= NEXT_STAMP
        /\ \A u \in Threads \ {t} : Remaining(t) \cap Remaining(u) = {}
        /\ \A i \in DOMAIN draws : draws[i] < NEXT_STAMP /\ draws[i] \notin Remaining(t)

(* Exhaustion is final: the counter never wraps or moves back, so once no  *)
(* range can be reserved none ever will be (reserve_raw's checked_add).    *)
ExhaustionFinal ==
    [][/\ NEXT_STAMP' >= NEXT_STAMP
       /\ ~Representable(NEXT_STAMP) => NEXT_STAMP' = NEXT_STAMP]_vars

(* Every reservation ends, with a range or with the exhaustion panic,      *)
(* however many threads compete (fetch_update's retry loop).               *)
ReserveReturns ==
    \A t \in Threads : pc[t] = "cas" ~> pc[t] = "idle"

(* What a reservation under way knows: the counter is nowhere behind the   *)
(* value it loaded, and its thread has nothing left to dispense.           *)
ReservationsKnown ==
    \A t \in Threads :
        /\ seen[t] <= NEXT_STAMP
        /\ pc[t] = "cas" => seen[t] > 0 /\ Emptied(t)
        /\ ~Emptied(t) => pool[t].next > 0

(* The inductive invariant.                                                *)
IInv ==
    /\ TypeOK
    /\ DrawsUnique
    /\ RangesDisjoint
    /\ ReservationsKnown

(* The pools implement the process-wide sequence of fresh stamps.          *)
Sequence == INSTANCE StampSequence WITH Stamp <- 1 .. MaxRaw

ImplementsSequence == Sequence!Spec
=============================================================================
