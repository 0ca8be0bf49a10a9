-------------------------- MODULE SharedArenaProof --------------------------
(***************************************************************************)
(* Proofs about SharedArena, for any number of threads, slots, stamps and  *)
(* values, with or without chunks that cannot be allocated: the inductive  *)
(* invariant IInv, and from it that concurrent capabilities are exact.     *)
(***************************************************************************)
EXTENDS SharedArena, SegmentsProof

-----------------------------------------------------------------------------
(***************************************************************************)
(* The inductive invariant, for every instance: chunks that cannot be      *)
(* allocated and blocks that panicked half way included.                   *)
(***************************************************************************)

(* What the locals of a call hold where the call is.                       *)
JobShaped(t) ==
    /\ pc[t] = "idle" <=> job[t].ret = "none"
    /\ pc[t] = "current" => job[t].ret \in {"alloc", "tail"}
    /\ pc[t] = "birth" => job[t].ret = "owner"
    /\ pc[t] = "reserve" \/ Pending(t) => job[t].ret = "alloc"
    /\ job[t].ret = "alloc" => job[t].n > 0
    /\ job[t].ret = "alloc" /\ ~Pending(t) => job[t].done = 0
    /\ pc[t] = "set" => job[t].done < job[t].n
    /\ pc[t] \in {"load", "probe", "advance"} => job[t].done = job[t].n
    /\ pc[t] \in {"probe", "advance"} => job[t].p < job[t].start + job[t].n
    /\ job[t].fresh # NoStamp <=> pc[t] = "store"

(* The identity is unassigned, or claimed by the one thread that will      *)
(* store it, or complete and well formed.                                  *)
IdentitySound ==
    /\ identity.current = NoStamp => identity = [Unassigned EXCEPT !.birth = identity.birth]
    /\ identity.birth = NoStamp => identity.current = NoStamp
    /\ identity.birth \in used \cup {NoStamp}
    /\ identity.current # NoStamp =>
         /\ WellFormed(identity)
         /\ OwnStamps(identity) \subseteq used
         /\ \A slot \in 0 .. identity.current_start - 1 : StampOf(identity, slot) # identity.current

IdentityClaimed ==
    /\ identity.current = NoStamp /\ identity.birth # NoStamp => \E t \in Threads : pc[t] = "store"
    /\ \A t \in Threads : pc[t] = "store" =>
         identity.current = NoStamp /\ identity.birth # NoStamp /\ job[t].fresh = identity.birth
    /\ \A t, u \in Threads : pc[t] = "store" /\ pc[u] = "store" => t = u

(* A thread that may still read 0, or that has, is in the phase in which   *)
(* the identity was assigned.                                              *)
ViewFollows(t) ==
    ~view[t].birth \/ ~view[t].current \/ pc[t] \in {"assign", "store", "await"} =>
        identity.current \in {NoStamp, identity.birth}

CountersSound ==
    /\ identity.current_start <= published /\ published <= reserved
    /\ identity.current = NoStamp => reserved = 0
    /\ \A s \in Slots : s < published => storage[s] # Empty

(* A block being filled lies in the current segment and below `reserved`,  *)
(* and holds the values stored so far.                                     *)
RangeSound(t) ==
    /\ pc[t] = "reserve" \/ Pending(t) =>
         identity.current # NoStamp /\ job[t].stamp = identity.current
    /\ Pending(t) =>
         /\ identity.current_start <= job[t].start
         /\ job[t].start + job[t].n <= reserved
         /\ \A k \in 0 .. job[t].done - 1 : storage[job[t].start + k] = job[t].first + k
    /\ pc[t] = "advance" => storage[job[t].p] # Empty

Apart(t, u) ==
    \/ job[t].start + job[t].n <= job[u].start
    \/ job[u].start + job[u].n <= job[t].start

RangesApart ==
    \A t, u \in Threads : t # u /\ Pending(t) /\ Pending(u) => Apart(t, u)

(* A checkpoint under construction names a prefix that is in place.        *)
MarkSound(t) ==
    /\ job[t].ret = "tail" =>
         job[t].p > 0 /\ job[t].p <= published /\ identity.current_start <= job[t].p - 1
    /\ job[t].ret = "owner" =>
         job[t].p <= published /\ job[t].stamp = TailStamp(identity, job[t].p)

ThreadsSound ==
    \A t \in Threads :
        JobShaped(t) /\ ViewFollows(t) /\ RangeSound(t) /\ MarkSound(t)

Covered(i) ==
    /\ i.slot < published
    /\ StampOf(identity, i.slot) = i.stamp
    /\ storage[i.slot] = i.value

LiveCovered == \A i \in live : Covered(i)

StaleUncovered ==
    \A i \in stale :
        identity.current # NoStamp /\ StampOf(identity, i.slot) # i.stamp

IndicesKnown ==
    \A i \in live \cup stale :
        /\ i.stamp \in used
        /\ i.stamp = identity.current => i.slot >= identity.current_start

InPlace(cp) ==
    /\ cp.len <= published
    /\ cp.tail = TailStamp(identity, cp.len)
    /\ DOMAIN cp.prefix = 0 .. cp.len - 1
    /\ \A s \in 0 .. cp.len - 1 : storage[s] = cp.prefix[s]

SavedCovered == \A cp \in saved : InPlace(cp)

SpoiledUncovered ==
    \A cp \in spoiled :
        identity.current # NoStamp /\ cp.len > 0 /\ StampOf(identity, cp.len - 1) # cp.tail

CheckpointsKnown ==
    \A cp \in saved \cup spoiled :
        identity.birth # NoStamp /\ cp.owner = identity.birth /\ cp.tail \in used \cup {NoStamp}

IInv ==
    /\ TypeOK
    /\ IdentitySound
    /\ IdentityClaimed
    /\ CountersSound
    /\ ThreadsSound
    /\ RangesApart
    /\ LiveCovered
    /\ StaleUncovered
    /\ IndicesKnown
    /\ SavedCovered
    /\ SpoiledUncovered
    /\ CheckpointsKnown

(* What becomes of the slots of calls that panic.  A slot is either still  *)
(* to be filled by a call, or was filled by one that is in progress.       *)
Filling(u, s) == pc[u] = "set" /\ NextSlot(u) <= s /\ s <= Last(u)

Filled(u, s) == Pending(u) /\ job[u].start <= s /\ s < NextSlot(u)

(* A value nobody can return an index of any more, in a slot that will be  *)
(* handed out again or has been.                                           *)
Leftover(s) ==
    /\ storage[s] # Empty
    /\ \/ \E u \in Threads : Filling(u, s)
       \/ published <= s /\ \A u \in Threads : ~Filled(u, s)

(* Calls panic at the first slot that cannot be addressed, so leftovers    *)
(* reach up to there, and a call that meets one loses no empty slot.       *)
Served ==
    /\ \A s \in Slots : storage[s] # Empty => s < Addressable
    /\ \A s \in Slots :
         published <= s /\ s < reserved /\ s < Addressable /\ storage[s] = Empty =>
             \E u \in Threads : Filling(u, s)
    /\ \A s \in Slots : Leftover(s) =>
         \A r \in s .. Addressable - 1 : storage[r] # Empty
    /\ Addressable = MaxSlots => \A s \in Slots : ~Leftover(s)

-----------------------------------------------------------------------------
(***************************************************************************)
(* Reading the invariant.                                                  *)
(***************************************************************************)

LEMMA IdentityFields ==
    ASSUME TypeOK
    PROVE  /\ identity.birth \in Stamp \cup {NoStamp}
           /\ identity.current \in Stamp \cup {NoStamp}
           /\ identity.current_start \in Nat
           /\ identity.prefix_tail \in Stamp \cup {NoStamp}
           /\ identity.table \in Seq(Segment)
BY DEF TypeOK

LEMMA JobFields ==
    ASSUME TypeOK, NEW t \in Threads
    PROVE  /\ pc[t] \in Calls /\ job[t] \in Jobs
           /\ job[t].ret \in {"none", "alloc", "tail", "owner"}
           /\ job[t].n \in Nat /\ job[t].start \in Nat /\ job[t].done \in Nat
           /\ job[t].first \in Nat /\ job[t].p \in Nat
           /\ job[t].stamp \in Stamp \cup {NoStamp} /\ job[t].fresh \in Stamp \cup {NoStamp}
<1>1. pc[t] \in Calls /\ job[t] \in Jobs
  BY DEF TypeOK
<1> QED
  BY <1>1 DEF Jobs

(* A complete identity is one of SegmentsProof.                            *)
LEMMA CompleteIdentity ==
    ASSUME TypeOK, IdentitySound, identity.current # NoStamp
    PROVE  /\ identity \in Identity /\ WellFormed(identity)
           /\ identity.birth \in Stamp /\ identity.current \in Stamp
           /\ identity.birth \in OwnStamps(identity) /\ identity.current \in OwnStamps(identity)
           /\ OwnStamps(identity) \subseteq used
           /\ \A slot \in Nat :
                /\ StampOf(identity, slot) \in OwnStamps(identity)
                /\ slot >= identity.current_start => StampOf(identity, slot) = identity.current
                /\ StampOf(identity, slot) = identity.current => slot >= identity.current_start
<1>1. identity.birth \in Stamp /\ identity.current \in Stamp /\ identity.current_start \in Nat
  BY IdentityFields DEF IdentitySound
<1>2. identity \in Identity
  BY <1>1 DEF TypeOK, Identity
<1>3. WellFormed(identity) /\ OwnStamps(identity) \subseteq used
      /\ \A slot \in 0 .. identity.current_start - 1 : StampOf(identity, slot) # identity.current
  BY DEF IdentitySound
<1>4. identity.birth \in OwnStamps(identity) /\ identity.current \in OwnStamps(identity)
  BY DEF OwnStamps
<1>5. ASSUME NEW slot \in Nat
      PROVE  /\ StampOf(identity, slot) \in OwnStamps(identity)
             /\ slot >= identity.current_start => StampOf(identity, slot) = identity.current
             /\ StampOf(identity, slot) = identity.current => slot >= identity.current_start
  <2>1. StampOf(identity, slot) \in OwnStamps(identity)
    BY <1>2, <1>3, StampOfOwn
  <2>2. slot >= identity.current_start => StampOf(identity, slot) = identity.current
    BY DEF StampOf
  <2>3. ~(slot >= identity.current_start) => slot \in 0 .. identity.current_start - 1
    BY <1>1
  <2> QED
    BY <1>3, <2>1, <2>2, <2>3
<1> QED
  BY <1>1, <1>2, <1>3, <1>4, <1>5

(* A published slot has a stamp.                                           *)
LEMMA PublishedComplete ==
    ASSUME TypeOK, CountersSound, published > 0
    PROVE  identity.current # NoStamp
BY SharedAssumption DEF TypeOK, CountersSound

-----------------------------------------------------------------------------
(***************************************************************************)
(* A step of one thread.                                                   *)
(***************************************************************************)

(* What every step of a `&self` call does to the shared state, the two     *)
(* writes of the identity excepted: slots are filled, never overwritten,   *)
(* the counters grow, and the other threads' calls are left alone.         *)
SharedKept(t) ==
    /\ \A u \in Threads \ {t} : pc'[u] = pc[u] /\ job'[u] = job[u] /\ view'[u] = view[u]
    /\ identity' = identity /\ used \subseteq used'
    /\ \A s \in Slots : storage[s] # Empty => storage'[s] = storage[s]
    /\ published <= published' /\ reserved <= reserved'
    /\ stale' = stale /\ spoiled' = spoiled

(* What the step itself must establish.                                    *)
ThreadSound(t) == JobShaped(t) /\ ViewFollows(t) /\ RangeSound(t) /\ MarkSound(t)

Established(t) ==
    /\ ThreadSound(t)'
    /\ CountersSound'
    /\ pc[t] # "store" /\ pc'[t] # "store"
    /\ Pending(t)' =>
         \/ Pending(t) /\ job'[t].start = job[t].start /\ job'[t].n = job[t].n
         \/ job'[t].start >= reserved
    /\ \A i \in live' : i \in live \/ Covered(i)'
    /\ \A cp \in saved' : cp \in saved \/ (InPlace(cp)' /\ cp.owner = identity.birth)

LEMMA OtherThread ==
    ASSUME IInv, TypeOK', NEW t \in Threads, SharedKept(t), NEW u \in Threads \ {t}
    PROVE  ThreadSound(u)'
<1>1. pc'[u] = pc[u] /\ job'[u] = job[u] /\ view'[u] = view[u] /\ identity' = identity
  BY DEF SharedKept
<1>2. JobShaped(u) /\ ViewFollows(u) /\ RangeSound(u) /\ MarkSound(u)
  BY DEF IInv, ThreadsSound
<1>3. JobShaped(u)'
  BY <1>1, <1>2 DEF JobShaped, Pending
<1>4. ViewFollows(u)'
  BY <1>1, <1>2 DEF ViewFollows
<1>5. RangeSound(u)'
  <2>1. /\ job[u].n \in Nat /\ job[u].start \in Nat /\ job[u].done \in Nat
        /\ job[u].first \in Nat /\ job[u].p \in Nat
    BY JobFields DEF IInv
  <2>2. reserved \in 0 .. MaxSlots /\ MaxSlots \in Nat /\ reserved' \in 0 .. MaxSlots
    BY SharedAssumption DEF IInv, TypeOK
  <2>3. reserved <= reserved' /\ \A s \in Slots : storage[s] # Empty => storage'[s] = storage[s]
    BY DEF SharedKept
  <2>4. ASSUME Pending(u)
        PROVE  job[u].done <= job[u].n /\ job[u].start + job[u].n <= reserved
    <3>1. pc[u] = "set" \/ pc[u] \in {"load", "probe", "advance"}
      BY <2>4 DEF Pending
    <3>2. job[u].done <= job[u].n
      BY <1>2, <2>1, <3>1 DEF JobShaped
    <3> QED
      BY <1>2, <2>4, <3>2 DEF RangeSound
  <2>5. ASSUME Pending(u), NEW k \in 0 .. job[u].done - 1
        PROVE  storage'[job[u].start + k] = job[u].first + k
    <3>1. job[u].start + k \in Slots
      BY <2>1, <2>2, <2>4, <2>5 DEF Slots
    <3>2. storage[job[u].start + k] = job[u].first + k
      BY <1>2, <2>5 DEF RangeSound
    <3>3. job[u].first + k \in Nat
      BY <2>1
    <3> QED
      BY <2>3, <3>1, <3>2, <3>3, SharedAssumption
  <2>6. ASSUME pc[u] = "advance"
        PROVE  storage'[job[u].p] # Empty
    <3>1. Pending(u) /\ job[u].p < job[u].start + job[u].n
      BY <1>2, <2>6 DEF Pending, JobShaped
    <3>2. job[u].p \in Slots
      BY <2>1, <2>2, <2>4, <3>1 DEF Slots
    <3> QED
      BY <1>2, <2>3, <2>6, <3>2 DEF RangeSound
  <2>7. pc[u] = "reserve" \/ Pending(u) =>
          identity.current # NoStamp /\ job[u].stamp = identity.current
    BY <1>2 DEF RangeSound
  <2>8. Pending(u) => identity.current_start <= job[u].start /\ job[u].start + job[u].n <= reserved'
    BY <1>2, <2>1, <2>2, <2>3, <2>4 DEF RangeSound
  <2>9. Pending(u)' <=> Pending(u)
    BY <1>1 DEF Pending
  <2> QED
    BY <1>1, <2>5, <2>6, <2>7, <2>8, <2>9 DEF RangeSound
<1>6. MarkSound(u)'
  <2>1. published <= published' /\ published \in Nat /\ published' \in Nat
    BY SharedAssumption DEF SharedKept, IInv, TypeOK
  <2>2. job[u].p \in Nat
    BY JobFields DEF IInv
  <2> QED
    BY <1>1, <1>2, <2>1, <2>2 DEF MarkSound
<1> QED
  BY <1>3, <1>4, <1>5, <1>6 DEF ThreadSound

LEMMA ThreadStep ==
    ASSUME IInv, TypeOK', NEW t \in Threads, SharedKept(t), Established(t)
    PROVE  IInv'
<1>1. IdentitySound'
  BY DEF IInv, IdentitySound, SharedKept
<1>2. IdentityClaimed'
  BY DEF IInv, IdentityClaimed, SharedKept, Established
<1>3. CountersSound'
  BY DEF Established
<1>4. ThreadsSound'
  BY OtherThread DEF ThreadsSound, ThreadSound, Established
<1>5. RangesApart'
  <2> SUFFICES ASSUME NEW u \in Threads \ {t}, Pending(t)', Pending(u)'
               PROVE  Apart(t, u)' /\ Apart(u, t)'
    <3>1. ASSUME NEW u \in Threads, NEW v \in Threads, u # v, u # t, v # t, Pending(u)', Pending(v)'
          PROVE  Apart(u, v)'
      BY <3>1 DEF IInv, RangesApart, Apart, Pending, SharedKept
    <3> QED
      BY <3>1 DEF RangesApart
  <2>1. pc'[u] = pc[u] /\ job'[u] = job[u]
    BY DEF SharedKept
  <2>2. Pending(u)
    BY <2>1 DEF Pending
  <2>3. /\ job[u].start \in Nat /\ job[u].n \in Nat
        /\ job'[t].start \in Nat /\ job'[t].n \in Nat /\ reserved \in Nat
    <3>1. job'[t] \in Jobs /\ reserved \in Nat
      BY SharedAssumption DEF IInv, TypeOK
    <3> QED
      BY <3>1, JobFields DEF IInv, Jobs
  <2>4. job[u].start + job[u].n <= reserved
    BY <2>2 DEF IInv, ThreadsSound, RangeSound
  <2>5. CASE Pending(t) /\ job'[t].start = job[t].start /\ job'[t].n = job[t].n
    <3>1. Apart(t, u)
      BY <2>2, <2>5 DEF IInv, RangesApart
    <3> QED
      BY <2>1, <2>5, <3>1 DEF Apart
  <2>6. CASE job'[t].start >= reserved
    BY <2>1, <2>3, <2>4, <2>6 DEF Apart
  <2> QED
    BY <2>5, <2>6 DEF Established
<1>6. published \in Nat /\ published' \in Nat /\ MaxSlots \in Nat /\ published <= published'
      /\ published <= MaxSlots /\ published' <= MaxSlots
  BY SharedAssumption DEF SharedKept, IInv, TypeOK
<1>7. ASSUME NEW s \in Nat, s < published
      PROVE  storage'[s] = storage[s]
  <2>1. s \in Slots
    BY <1>6, <1>7 DEF Slots
  <2> QED
    BY <1>7, <2>1 DEF SharedKept, IInv, CountersSound
<1>8. live \subseteq IndexSet /\ live' \subseteq IndexSet
  BY DEF IInv, TypeOK
<1>9. LiveCovered'
  <2> SUFFICES ASSUME NEW i \in live, i \in live'
               PROVE  Covered(i)'
    BY DEF LiveCovered, Established
  <2>1. i.slot \in Nat
    BY <1>8 DEF IndexSet
  <2>2. Covered(i)
    BY DEF IInv, LiveCovered
  <2> QED
    BY <1>6, <1>7, <2>1, <2>2 DEF Covered, SharedKept
<1>10. StaleUncovered'
  BY DEF IInv, StaleUncovered, SharedKept
<1>11. IndicesKnown'
  <2> SUFFICES ASSUME NEW i \in live', i \notin live
               PROVE  /\ i.stamp \in used'
                      /\ i.stamp = identity.current => i.slot >= identity.current_start
    BY DEF IInv, IndicesKnown, SharedKept
  <2>1. i.slot \in Nat
    BY <1>8 DEF IndexSet
  <2>2. i.slot < published' /\ StampOf(identity, i.slot) = i.stamp
    BY DEF Covered, Established, SharedKept
  <2>3. published' > 0
    BY <1>6, <2>1, <2>2
  <2>4. identity.current # NoStamp
    <3>1. published' > 0 => identity'.current # NoStamp
      BY SharedAssumption, <1>3 DEF TypeOK, CountersSound
    <3> QED
      BY <2>3, <3>1 DEF SharedKept
  <2> QED
    BY <2>1, <2>2, <2>4, CompleteIdentity DEF IInv, SharedKept
<1>12. ASSUME NEW cp \in saved' \cup spoiled'
       PROVE  cp.len \in Nat
  BY DEF TypeOK
<1>13. SavedCovered'
  <2> SUFFICES ASSUME NEW cp \in saved, cp \in saved'
               PROVE  InPlace(cp)'
    BY DEF SavedCovered, Established
  <2>1. cp.len \in Nat
    BY <1>12
  <2>2. InPlace(cp)
    BY DEF IInv, SavedCovered
  <2>3. \A s \in 0 .. cp.len - 1 : s \in Nat /\ s < published
    BY <1>6, <2>1, <2>2 DEF InPlace
  <2>4. cp.len <= published'
    BY <1>6, <2>1, <2>2 DEF InPlace
  <2>5. identity' = identity
    BY DEF SharedKept
  <2> QED
    BY <1>7, <2>2, <2>3, <2>4, <2>5 DEF InPlace, TailStamp
<1>14. SpoiledUncovered'
  BY DEF IInv, SpoiledUncovered, SharedKept
<1>15. CheckpointsKnown'
  <2> SUFFICES ASSUME NEW cp \in saved', cp \notin saved
               PROVE  identity.birth # NoStamp /\ cp.owner = identity.birth /\ cp.tail \in used \cup {NoStamp}
    BY DEF IInv, CheckpointsKnown, SharedKept
  <2>1. cp.len \in Nat /\ cp.owner \in Stamp
    BY DEF TypeOK
  <2>2. cp.owner = identity.birth /\ cp.len <= published' /\ cp.tail = TailStamp(identity, cp.len)
    BY DEF InPlace, TailStamp, Established, SharedKept
  <2>3. identity.birth # NoStamp
    BY <2>1, <2>2, StampAssumption
  <2>4. CASE cp.len = 0
    BY <2>2, <2>3, <2>4 DEF TailStamp
  <2>5. CASE cp.len > 0
    <3>1. published' > 0 /\ cp.len - 1 \in Nat
      BY <1>6, <2>1, <2>2, <2>5
    <3>2. published' > 0 => identity'.current # NoStamp
      BY SharedAssumption, <1>3 DEF TypeOK, CountersSound
    <3>3. identity.current # NoStamp
      BY <3>1, <3>2 DEF SharedKept
    <3>4. StampOf(identity, cp.len - 1) \in used
      BY <3>1, <3>3, CompleteIdentity DEF IInv
    <3> QED
      BY <2>2, <2>3, <2>5, <3>4 DEF TailStamp
  <2> QED
    BY <2>1, <2>4, <2>5
<1> QED
  BY <1>1, <1>2, <1>3, <1>4, <1>5, <1>9, <1>10, <1>11, <1>13, <1>14, <1>15 DEF IInv

-----------------------------------------------------------------------------
(***************************************************************************)
(* The identity is read.                                                   *)
(***************************************************************************)

LEMMA NoJobTyped == NoJob \in Jobs /\ NoJob.ret = "none" /\ NoJob.done = 0 /\ NoJob.fresh = NoStamp
BY DEF NoJob, Jobs

(* A call that has read the stamp it asked for: allocation and the tail of *)
(* a checkpoint take the current stamp, its owner is the birth stamp.      *)
LEMMA ResumeStep ==
    ASSUME IInv, NEW t \in Threads, NEW stamp \in Stamp,
           pc[t] \in {"current", "birth", "await"},
           job[t].ret \in {"alloc", "tail"} => stamp = identity.current,
           job[t].ret = "owner" => stamp = identity.birth,
           Resume(t, stamp),
           view' \in [Threads -> [birth : BOOLEAN, current : BOOLEAN, published : 0 .. published]],
           \A u \in Threads \ {t} : view'[u] = view[u],
           view[t].birth => view'[t].birth, view[t].current => view'[t].current,
           UNCHANGED <<identity, storage, reserved, published, used, serial, live, stale, spoiled>>
    PROVE  IInv'
<1>1. TypeOK /\ JobShaped(t) /\ ViewFollows(t) /\ MarkSound(t)
  BY DEF IInv, ThreadsSound
<1>2. /\ pc \in [Threads -> Calls] /\ job \in [Threads -> Jobs] /\ job[t] \in Jobs
      /\ job[t].ret \in {"alloc", "tail", "owner"}
      /\ ~Pending(t)
  <2>1. job[t].ret \in {"none", "alloc", "tail", "owner"}
    BY <1>1, JobFields
  <2>2. job[t].ret # "none"
    BY <1>1 DEF JobShaped
  <2> QED
    BY <1>1, <2>1, <2>2 DEF TypeOK, Pending
<1>3. /\ job[t].done = 0 \/ job[t].ret # "alloc"
      /\ job[t].ret = "alloc" => job[t].n > 0
      /\ job[t].fresh = NoStamp
  BY <1>1, <1>2 DEF JobShaped
<1>4. ASSUME TypeOK', NEW j \in Jobs, NEW l \in Calls,
             job' = [job EXCEPT ![t] = j], pc' = [pc EXCEPT ![t] = l],
             l \in {"reserve", "birth", "idle"},
             (JobShaped(t) /\ RangeSound(t) /\ MarkSound(t))',
             \A cp \in saved' : cp \in saved \/ (InPlace(cp)' /\ cp.owner = identity.birth)
      PROVE  IInv'
  <2>1. job'[t] = j /\ pc'[t] = l /\ \A u \in Threads \ {t} : job'[u] = job[u] /\ pc'[u] = pc[u]
    BY <1>2, <1>4
  <2>2. SharedKept(t)
    BY <2>1, SharedAssumption, <1>1 DEF SharedKept, TypeOK
  <2>3. ViewFollows(t)'
    BY <1>1, <1>4, <2>1 DEF ViewFollows
  <2>4. CountersSound'
    BY DEF IInv, CountersSound
  <2>5. ~Pending(t)' /\ pc[t] # "store" /\ pc'[t] # "store"
    BY <1>4, <2>1 DEF Pending
  <2> QED
    BY <1>4, <2>2, <2>3, <2>4, <2>5, ThreadStep DEF Established, ThreadSound
<1>5. CASE job[t].ret = "alloc"
  <2> DEFINE j == [job[t] EXCEPT !.stamp = stamp]
  <2>1. job' = [job EXCEPT ![t] = j] /\ pc' = [pc EXCEPT ![t] = "reserve"] /\ saved' = saved
    BY <1>5 DEF Resume, Goto
  <2>2. j \in Jobs /\ "reserve" \in Calls
    BY <1>2 DEF Jobs, Calls
  <2>3. TypeOK'
    BY <1>1, <2>1, <2>2 DEF TypeOK
  <2>4. job'[t] = j /\ pc'[t] = "reserve"
    BY <1>2, <2>1
  <2>5. /\ j.ret = "alloc" /\ j.n = job[t].n /\ j.done = job[t].done /\ j.fresh = job[t].fresh
        /\ j.stamp = stamp
    BY <1>2, <1>5 DEF Jobs
  <2> HIDE DEF j
  <2>6. (JobShaped(t) /\ RangeSound(t) /\ MarkSound(t))'
    BY <1>2, <1>3, <1>5, <2>4, <2>5, StampAssumption DEF JobShaped, RangeSound, MarkSound, Pending
  <2> QED
    BY <1>4, <2>1, <2>2, <2>3, <2>6
<1>6. CASE job[t].ret = "tail"
  <2> DEFINE j == [job[t] EXCEPT !.stamp = stamp, !.ret = "owner"]
  <2>1. job' = [job EXCEPT ![t] = j] /\ pc' = [pc EXCEPT ![t] = "birth"] /\ saved' = saved
    BY <1>6 DEF Resume, Goto
  <2>2. j \in Jobs /\ "birth" \in Calls
    BY <1>2 DEF Jobs, Calls
  <2>3. TypeOK'
    BY <1>1, <2>1, <2>2 DEF TypeOK
  <2>4. job'[t] = j /\ pc'[t] = "birth"
    BY <1>2, <2>1
  <2>5. j.ret = "owner" /\ j.p = job[t].p /\ j.fresh = job[t].fresh /\ j.stamp = stamp
    BY <1>2, <1>6 DEF Jobs
  <2> HIDE DEF j
  <2>6. (JobShaped(t) /\ RangeSound(t))'
    BY <1>2, <1>3, <1>6, <2>4, <2>5 DEF JobShaped, RangeSound, Pending
  <2>7. MarkSound(t)'
    <3>1. /\ job[t].p \in Nat /\ job[t].p > 0 /\ job[t].p <= published
          /\ identity.current_start <= job[t].p - 1
      BY <1>1, <1>6, JobFields DEF MarkSound
    <3>2. TailStamp(identity, job[t].p) = identity.current
      BY <3>1, <1>1, IdentityFields DEF TailStamp, StampOf
    <3> QED
      BY <1>6, <2>4, <2>5, <3>1, <3>2 DEF MarkSound, TailStamp
  <2> QED
    BY <1>4, <2>1, <2>2, <2>3, <2>6, <2>7
<1>7. CASE job[t].ret = "owner"
  <2>0. PICK cp : cp = Checkpoint(stamp, job[t].p, job[t].stamp)
    OBVIOUS
  <2>1. job' = [job EXCEPT ![t] = NoJob] /\ pc' = [pc EXCEPT ![t] = "idle"] /\ saved' = saved \cup {cp}
    BY <1>7, <2>0 DEF Resume, Goto
  <2>2. "idle" \in Calls
    BY DEF Calls
  <2>3. /\ cp.owner = stamp /\ cp.len = job[t].p /\ cp.tail = job[t].stamp
        /\ cp.prefix = [s \in 0 .. job[t].p - 1 |-> storage[s]]
    BY <2>0 DEF Checkpoint
  <2>4. job[t].p \in Nat /\ job[t].stamp \in Stamp \cup {NoStamp}
    BY <1>1, JobFields
  <2>5. TypeOK'
    BY <1>1, <2>1, <2>2, <2>3, <2>4, NoJobTyped DEF TypeOK
  <2>6. job'[t] = NoJob /\ pc'[t] = "idle"
    BY <1>2, <2>1
  <2>7. (JobShaped(t) /\ RangeSound(t) /\ MarkSound(t))'
    BY <2>6, NoJobTyped DEF JobShaped, RangeSound, MarkSound, Pending
  <2>8. InPlace(cp)' /\ cp.owner = identity.birth
    BY <1>1, <1>7, <2>3 DEF MarkSound, InPlace, TailStamp
  <2> QED
    BY <1>4, <2>1, <2>2, <2>5, <2>7, <2>8, NoJobTyped
<1> QED
  BY <1>2, <1>5, <1>6, <1>7

LEMMA LoadCurrentStep ==
    ASSUME IInv, NEW t \in Threads, LoadCurrent(t) \/ Await(t)
    PROVE  IInv'
<1>1. /\ TypeOK /\ pc[t] \in {"current", "await"} /\ identity.current # NoStamp
      /\ view' = [view EXCEPT ![t].current = TRUE]
      /\ Resume(t, identity.current)
      /\ UNCHANGED <<identity, storage, reserved, published, used, serial, live, stale, spoiled>>
  BY DEF IInv, LoadCurrent, Await
<1>2. identity.current \in Stamp
  BY <1>1, IdentityFields
<1>3. job[t].ret = "owner" => identity.current = identity.birth
  <2>1. CASE pc[t] = "current"
    BY <2>1 DEF IInv, ThreadsSound, JobShaped
  <2>2. CASE pc[t] = "await"
    BY <1>1, <2>2 DEF IInv, ThreadsSound, ViewFollows
  <2> QED
    BY <1>1, <2>1, <2>2
<1>4. /\ view' \in [Threads -> [birth : BOOLEAN, current : BOOLEAN, published : 0 .. published]]
      /\ \A u \in Threads \ {t} : view'[u] = view[u]
      /\ view[t].birth => view'[t].birth
      /\ view[t].current => view'[t].current
  BY <1>1 DEF TypeOK
<1> QED
  BY <1>1, <1>2, <1>3, <1>4, ResumeStep

LEMMA LoadBirthStep ==
    ASSUME IInv, NEW t \in Threads, LoadBirth(t)
    PROVE  IInv'
<1>1. /\ TypeOK /\ pc[t] = "birth" /\ identity.birth # NoStamp
      /\ view' = [view EXCEPT ![t].birth = TRUE]
      /\ Resume(t, identity.birth)
      /\ UNCHANGED <<identity, storage, reserved, published, used, serial, live, stale, spoiled>>
  BY DEF IInv, LoadBirth
<1>2. identity.birth \in Stamp
  BY <1>1, IdentityFields
<1>3. job[t].ret = "owner"
  BY <1>1 DEF IInv, ThreadsSound, JobShaped
<1>4. /\ view' \in [Threads -> [birth : BOOLEAN, current : BOOLEAN, published : 0 .. published]]
      /\ \A u \in Threads \ {t} : view'[u] = view[u]
      /\ view[t].birth => view'[t].birth
      /\ view[t].current => view'[t].current
  BY <1>1 DEF TypeOK
<1> QED
  BY <1>1, <1>2, <1>3, <1>4, ResumeStep

-----------------------------------------------------------------------------
(***************************************************************************)
(* Steps that write nothing shared but the stamp counter.                  *)
(***************************************************************************)

LEMMA LocalStep ==
    ASSUME IInv, NEW t \in Threads, NEW j \in Jobs, NEW l \in Calls,
           job' = [job EXCEPT ![t] = j], pc' = [pc EXCEPT ![t] = l],
           view' \in [Threads -> [birth : BOOLEAN, current : BOOLEAN, published : 0 .. published]],
           \A u \in Threads \ {t} : view'[u] = view[u],
           UNCHANGED <<identity, storage, reserved, published, history>>,
           serial' \in Nat, used \subseteq used', used' \subseteq Stamp,
           pc[t] # "store", l # "store",
           ThreadSound(t)',
           Pending(t)' => Pending(t) /\ j.start = job[t].start /\ j.n = job[t].n
    PROVE  IInv'
<1>1. TypeOK /\ pc \in [Threads -> Calls] /\ job \in [Threads -> Jobs]
  BY DEF IInv, TypeOK
<1>2. job'[t] = j /\ pc'[t] = l /\ \A u \in Threads \ {t} : job'[u] = job[u] /\ pc'[u] = pc[u]
  BY <1>1
<1>3. TypeOK'
  BY <1>1 DEF TypeOK, history
<1>4. SharedKept(t)
  BY <1>2, <1>1, SharedAssumption DEF SharedKept, TypeOK, history
<1>5. CountersSound'
  BY DEF IInv, CountersSound
<1>6. Established(t)
  BY <1>2, <1>5 DEF Established, history
<1> QED
  BY <1>3, <1>4, <1>6, ThreadStep

(* A call that panics leaves its locals behind.                            *)
LEMMA PanicStep ==
    ASSUME IInv, NEW t \in Threads,
           StampsExhausted(t) \/ SlotsExhausted(t) \/ SetPanics(t)
    PROVE  IInv'
<1>1. /\ TypeOK /\ pc[t] \in {"assign", "reserve", "set"}
      /\ job' = [job EXCEPT ![t] = NoJob] /\ pc' = [pc EXCEPT ![t] = "idle"]
      /\ UNCHANGED <<identity, storage, reserved, published, view, used, serial, history>>
  BY DEF IInv, StampsExhausted, SlotsExhausted, SetPanics, Goto
<1>2. "idle" \in Calls
  BY DEF Calls
<1>3. job'[t] = NoJob /\ pc'[t] = "idle"
  BY <1>1 DEF TypeOK
<1>4. ViewFollows(t)'
  BY <1>1, <1>3 DEF IInv, ThreadsSound, ViewFollows
<1>5. ThreadSound(t)' /\ ~Pending(t)'
  BY <1>3, <1>4, NoJobTyped DEF ThreadSound, JobShaped, RangeSound, MarkSound, Pending
<1>6. /\ view' \in [Threads -> [birth : BOOLEAN, current : BOOLEAN, published : 0 .. published]]
      /\ serial' \in Nat /\ used \subseteq used' /\ used' \subseteq Stamp
  BY <1>1 DEF TypeOK
<1> QED
  BY <1>1, <1>2, <1>5, <1>6, NoJobTyped, LocalStep

(* A load that returns 0 sends the call to assign: it has not seen the     *)
(* stamp yet.                                                              *)
LEMMA LoadZeroStep ==
    ASSUME IInv, NEW t \in Threads, LoadZero(t)
    PROVE  IInv'
<1>1. /\ TypeOK /\ pc[t] \in {"current", "birth"}
      /\ pc' = [pc EXCEPT ![t] = "assign"] /\ job' = job
      /\ UNCHANGED <<identity, storage, reserved, published, view, used, serial, history>>
      /\ ~view[t].birth \/ ~view[t].current
  BY DEF IInv, LoadZero, Goto
<1>2. "assign" \in Calls /\ job[t] \in Jobs /\ job' = [job EXCEPT ![t] = job[t]]
  BY <1>1 DEF Calls, TypeOK
<1>3. job'[t] = job[t] /\ pc'[t] = "assign"
  BY <1>1 DEF TypeOK
<1>4. ViewFollows(t)'
  BY <1>1, <1>3 DEF IInv, ThreadsSound, ViewFollows
<1>5. JobShaped(t)'
  BY <1>1, <1>3 DEF IInv, ThreadsSound, JobShaped, Pending
<1>6. MarkSound(t)'
  BY <1>1, <1>3 DEF IInv, ThreadsSound, MarkSound, TailStamp
<1>7. ThreadSound(t)' /\ ~Pending(t)'
  BY <1>3, <1>4, <1>5, <1>6 DEF ThreadSound, RangeSound, Pending
<1>8. /\ view' \in [Threads -> [birth : BOOLEAN, current : BOOLEAN, published : 0 .. published]]
      /\ serial' \in Nat /\ used \subseteq used' /\ used' \subseteq Stamp
  BY <1>1 DEF TypeOK
<1> QED
  BY <1>1, <1>2, <1>7, <1>8, LocalStep

(* The next turn of the publishing loop, and the probe that leads to it.   *)
LEMMA AgainStep ==
    ASSUME IInv, NEW t \in Threads, Spin(t) \/ AdvanceFails(t)
    PROVE  IInv'
<1> DEFINE j == [job[t] EXCEPT !.p = 0]
<1>1. /\ TypeOK /\ pc[t] \in {"probe", "advance"}
      /\ pc' = [pc EXCEPT ![t] = "load"] /\ job' = [job EXCEPT ![t] = j]
      /\ UNCHANGED <<identity, storage, reserved, published, view, used, serial, history>>
  BY DEF IInv, Spin, AdvanceFails, Again, Goto
<1>2. "load" \in Calls /\ j \in Jobs
  <2>1. job[t] \in Jobs
    BY <1>1, JobFields
  <2> QED
    BY <2>1 DEF Calls, Jobs
<1>3. job'[t] = j /\ pc'[t] = "load"
  BY <1>1 DEF TypeOK
<1>4. /\ j.ret = job[t].ret /\ j.n = job[t].n /\ j.done = job[t].done /\ j.start = job[t].start
      /\ j.first = job[t].first /\ j.stamp = job[t].stamp /\ j.fresh = job[t].fresh
  BY <1>1 DEF TypeOK, Jobs
<1> HIDE DEF j
<1>5. ViewFollows(t)'
  BY <1>1, <1>3 DEF IInv, ThreadsSound, ViewFollows
<1>6. JobShaped(t)' /\ Pending(t)
  BY <1>1, <1>3, <1>4 DEF IInv, ThreadsSound, JobShaped, Pending
<1>7. MarkSound(t)'
  BY <1>1, <1>3, <1>4 DEF IInv, ThreadsSound, MarkSound, JobShaped, Pending
<1>8. RangeSound(t)'
  BY <1>1, <1>3, <1>4 DEF IInv, ThreadsSound, RangeSound, Pending
<1>9. /\ view' \in [Threads -> [birth : BOOLEAN, current : BOOLEAN, published : 0 .. published]]
      /\ serial' \in Nat /\ used \subseteq used' /\ used' \subseteq Stamp
  BY <1>1 DEF TypeOK
<1>10. ThreadSound(t)'
  BY <1>5, <1>6, <1>7, <1>8 DEF ThreadSound
<1>11. pc[t] # "store" /\ "load" # "store"
  BY <1>1
<1> QED
  BY <1>1, <1>2, <1>4, <1>6, <1>9, <1>10, <1>11, LocalStep

LEMMA ProbeStep ==
    ASSUME IInv, NEW t \in Threads, Probe(t)
    PROVE  IInv'
<1>1. /\ TypeOK /\ pc[t] = "probe" /\ storage[job[t].p] # Empty
      /\ pc' = [pc EXCEPT ![t] = "advance"] /\ job' = job
      /\ UNCHANGED <<identity, storage, reserved, published, view, used, serial, history>>
  BY DEF IInv, Probe, Goto
<1>2. "advance" \in Calls /\ job[t] \in Jobs /\ job' = [job EXCEPT ![t] = job[t]]
  BY <1>1 DEF Calls, TypeOK
<1>3. job'[t] = job[t] /\ pc'[t] = "advance"
  BY <1>1 DEF TypeOK
<1>4. ViewFollows(t)'
  BY <1>1, <1>3 DEF IInv, ThreadsSound, ViewFollows
<1>5. JobShaped(t)' /\ Pending(t)
  BY <1>1, <1>3 DEF IInv, ThreadsSound, JobShaped, Pending
<1>6. MarkSound(t)'
  BY <1>1, <1>3 DEF IInv, ThreadsSound, MarkSound, JobShaped, Pending
<1>7. RangeSound(t)'
  BY <1>1, <1>3 DEF IInv, ThreadsSound, RangeSound, Pending
<1>8. /\ view' \in [Threads -> [birth : BOOLEAN, current : BOOLEAN, published : 0 .. published]]
      /\ serial' \in Nat /\ used \subseteq used' /\ used' \subseteq Stamp
  BY <1>1 DEF TypeOK
<1>9. ThreadSound(t)'
  BY <1>4, <1>5, <1>6, <1>7 DEF ThreadSound
<1> QED
  BY <1>1, <1>2, <1>5, <1>8, <1>9, LocalStep

LEMMA StartAllocStep ==
    ASSUME IInv, NEW t \in Threads, NEW n \in 1 .. MaxBlock, StartAlloc(t, n)
    PROVE  IInv'
<1>0. PICK j : j = [NoJob EXCEPT !.ret = "alloc", !.n = n, !.first = serial + 1]
  OBVIOUS
<1>1. /\ TypeOK /\ pc[t] = "idle" /\ serial' = serial + n /\ n \in Nat /\ n > 0 /\ serial \in Nat
      /\ pc' = [pc EXCEPT ![t] = "current"] /\ job' = [job EXCEPT ![t] = j]
      /\ UNCHANGED <<identity, storage, reserved, published, view, used, history>>
  BY <1>0, SharedAssumption DEF IInv, StartAlloc, Goto, TypeOK
<1>2. /\ "current" \in Calls /\ j \in Jobs
      /\ j.ret = "alloc" /\ j.n = n /\ j.done = 0 /\ j.fresh = NoStamp
  <2>1. n \in Nat /\ serial + 1 \in Nat
    BY <1>1
  <2>2. j = [ret |-> "alloc", n |-> n, stamp |-> NoStamp, fresh |-> NoStamp,
             start |-> 0, done |-> 0, first |-> serial + 1, p |-> 0]
    BY <1>0 DEF NoJob
  <2> QED
    BY <2>1, <2>2 DEF Calls, Jobs
<1>3. job'[t] = j /\ pc'[t] = "current"
  BY <1>1 DEF TypeOK
<1>4. ViewFollows(t)'
  BY <1>1, <1>3 DEF IInv, ThreadsSound, ViewFollows
<1>5. ThreadSound(t)' /\ ~Pending(t)'
  BY <1>1, <1>2, <1>3, <1>4 DEF ThreadSound, JobShaped, RangeSound, MarkSound, Pending
<1>6. /\ view' \in [Threads -> [birth : BOOLEAN, current : BOOLEAN, published : 0 .. published]]
      /\ serial' \in Nat /\ used \subseteq used' /\ used' \subseteq Stamp
  BY <1>1 DEF TypeOK
<1> QED
  BY <1>1, <1>2, <1>5, <1>6, LocalStep

(* The tail of a published prefix has a stamp of this arena.               *)
LEMMA TailStampKnown ==
    ASSUME IInv, NEW p \in 0 .. published
    PROVE  TailStamp(identity, p) \in Stamp \cup {NoStamp}
<1>1. TypeOK /\ CountersSound /\ IdentitySound /\ published \in Nat
  BY SharedAssumption DEF IInv, TypeOK
<1>2. CASE p = 0
  BY <1>2 DEF TailStamp
<1>3. CASE p > 0
  <2>1. published > 0 /\ p - 1 \in Nat
    BY <1>1, <1>3
  <2>2. identity.current # NoStamp
    BY <1>1, <2>1, PublishedComplete
  <2>3. StampOf(identity, p - 1) \in used
    BY <1>1, <2>1, <2>2, CompleteIdentity
  <2> QED
    BY <1>1, <1>3, <2>3 DEF TailStamp, TypeOK
<1> QED
  BY <1>1, <1>2, <1>3

LEMMA StartCheckpointStep ==
    ASSUME IInv, NEW t \in Threads, NEW p \in 0 .. published, StartCheckpoint(t, p)
    PROVE  IInv'
<1>1. /\ TypeOK /\ pc[t] = "idle" /\ p \in Nat /\ p <= published
      /\ view' = [view EXCEPT ![t].published = p, ![t].current = @ \/ p > 0]
      /\ UNCHANGED <<identity, storage, reserved, published, used, serial, history>>
  BY DEF IInv, StartCheckpoint
<1>2. /\ view' \in [Threads -> [birth : BOOLEAN, current : BOOLEAN, published : 0 .. published]]
      /\ \A u \in Threads \ {t} : view'[u] = view[u]
      /\ view[t].birth => view'[t].birth
      /\ view[t].current => view'[t].current
  <2>1. view[t] \in [birth : BOOLEAN, current : BOOLEAN, published : 0 .. published]
        /\ view \in [Threads -> [birth : BOOLEAN, current : BOOLEAN, published : 0 .. published]]
    BY <1>1 DEF TypeOK
  <2>2. (view[t].current \/ p > 0) \in BOOLEAN
    OBVIOUS
  <2>3. view' = [view EXCEPT ![t] = [view[t] EXCEPT !.published = p, !.current = view[t].current \/ p > 0]]
    BY <1>1, <2>1
  <2> QED
    BY <2>1, <2>2, <2>3
<1>3. /\ serial' \in Nat /\ used \subseteq used' /\ used' \subseteq Stamp
  BY <1>1 DEF TypeOK
<1>4. PICK j \in Jobs, l \in {"current", "birth"} :
        /\ job' = [job EXCEPT ![t] = j] /\ pc' = [pc EXCEPT ![t] = l]
        /\ j.p = p /\ j.fresh = NoStamp
        /\ \/ /\ l = "current" /\ j.ret = "tail"
              /\ p > 0 /\ identity.current_start <= p - 1
           \/ /\ l = "birth" /\ j.ret = "owner"
              /\ j.stamp = TailStamp(identity, p)
  <2>1. CASE p > 0 /\ p - 1 >= identity.current_start
    <3>0. PICK j : j = [NoJob EXCEPT !.ret = "tail", !.p = p]
      OBVIOUS
    <3>1. j \in Jobs /\ j.ret = "tail" /\ j.p = p /\ j.fresh = NoStamp
      BY <1>1, <3>0 DEF NoJob, Jobs
    <3>2. job' = [job EXCEPT ![t] = j] /\ pc' = [pc EXCEPT ![t] = "current"]
      BY <2>1, <3>0 DEF StartCheckpoint, Goto
    <3>3. identity.current_start <= p - 1
      BY <1>1, <2>1, IdentityFields
    <3> QED
      BY <2>1, <3>1, <3>2, <3>3
  <2>2. CASE ~(p > 0 /\ p - 1 >= identity.current_start)
    <3>0. PICK j : j = [NoJob EXCEPT !.ret = "owner", !.p = p, !.stamp = TailStamp(identity, p)]
      OBVIOUS
    <3>1. /\ j \in Jobs /\ j.ret = "owner" /\ j.p = p /\ j.fresh = NoStamp
          /\ j.stamp = TailStamp(identity, p)
      BY <1>1, <3>0, TailStampKnown DEF NoJob, Jobs
    <3>2. job' = [job EXCEPT ![t] = j] /\ pc' = [pc EXCEPT ![t] = "birth"]
      BY <2>2, <3>0 DEF StartCheckpoint, Goto
    <3> QED
      BY <3>1, <3>2
  <2> QED
    BY <2>1, <2>2
<1>5. job'[t] = j /\ pc'[t] = l /\ l \in Calls
  BY <1>1, <1>4 DEF TypeOK, Calls
<1>6. ViewFollows(t)'
  BY <1>1, <1>2, <1>4, <1>5 DEF IInv, ThreadsSound, ViewFollows
<1>7. JobShaped(t)' /\ ~Pending(t)'
  BY <1>4, <1>5 DEF JobShaped, Pending
<1>8. MarkSound(t)'
  BY <1>1, <1>4, <1>5 DEF MarkSound, TailStamp
<1>9. ThreadSound(t)'
  BY <1>4, <1>5, <1>6, <1>7, <1>8 DEF ThreadSound, RangeSound, Pending
<1>10. pc[t] # "store" /\ l # "store"
  BY <1>1, <1>4
<1> QED
  BY <1>1, <1>2, <1>3, <1>4, <1>5, <1>7, <1>9, <1>10, LocalStep

-----------------------------------------------------------------------------
(***************************************************************************)
(* The identity is assigned.                                               *)
(***************************************************************************)

(* Until the current stamp is stored nothing has been handed out.          *)
LEMMA NothingHandedOut ==
    ASSUME IInv, identity.current = NoStamp
    PROVE  /\ reserved = 0 /\ published = 0
           /\ live = {} /\ stale = {} /\ spoiled = {}
           /\ \A cp \in saved : cp.len = 0 /\ cp.tail = NoStamp
           /\ \A t \in Threads :
                /\ pc[t] # "reserve" /\ ~Pending(t)
                /\ job[t].ret # "tail"
                /\ job[t].ret = "owner" => job[t].p = 0 /\ job[t].stamp = NoStamp
<1>1. reserved = 0 /\ published = 0
  BY SharedAssumption DEF IInv, TypeOK, CountersSound
<1>2. live = {}
  <2> SUFFICES ASSUME NEW i \in live
               PROVE  FALSE
    OBVIOUS
  <2>1. i.slot \in Nat /\ i.slot < published
    BY DEF IInv, TypeOK, IndexSet, LiveCovered, Covered
  <2> QED
    BY <1>1, <2>1
<1>3. stale = {} /\ spoiled = {}
  BY DEF IInv, StaleUncovered, SpoiledUncovered
<1>4. ASSUME NEW cp \in saved
      PROVE  cp.len = 0 /\ cp.tail = NoStamp
  <2>1. cp.len \in Nat /\ cp.len <= published /\ cp.tail = TailStamp(identity, cp.len)
    BY DEF IInv, TypeOK, SavedCovered, InPlace
  <2> QED
    BY <1>1, <2>1 DEF TailStamp
<1>5. ASSUME NEW t \in Threads
      PROVE  /\ pc[t] # "reserve" /\ ~Pending(t)
             /\ job[t].ret # "tail"
             /\ job[t].ret = "owner" => job[t].p = 0 /\ job[t].stamp = NoStamp
  <2>1. job[t].p \in Nat
    BY JobFields DEF IInv
  <2>2. RangeSound(t) /\ MarkSound(t)
    BY DEF IInv, ThreadsSound
  <2>3. pc[t] # "reserve" /\ ~Pending(t)
    BY <2>2 DEF RangeSound
  <2>4. job[t].ret # "tail"
    BY <1>1, <2>1, <2>2 DEF MarkSound
  <2>5. job[t].ret = "owner" => job[t].p = 0
    BY <1>1, <2>1, <2>2 DEF MarkSound
  <2>6. job[t].ret = "owner" => job[t].stamp = NoStamp
    BY <2>2, <2>5 DEF MarkSound, TailStamp
  <2> QED
    BY <2>3, <2>4, <2>5, <2>6
<1> QED
  BY <1>1, <1>2, <1>3, <1>4, <1>5

(* Without a current stamp the invariant says little more than that.       *)
LEMMA AssignedStep ==
    ASSUME IInv, TypeOK', IdentitySound', IdentityClaimed',
           identity.current = NoStamp, NEW t \in Threads,
           identity'.birth # NoStamp, identity'.current_start = 0,
           \A cp \in saved : cp.owner = identity'.birth,
           \A u \in Threads \ {t} : pc'[u] = pc[u] /\ job'[u] = job[u],
           identity'.current \in {NoStamp, identity'.birth},
           JobShaped(t)', pc'[t] # "reserve", ~Pending(t)',
           job'[t].ret = job[t].ret, job'[t].p = job[t].p, job'[t].stamp = job[t].stamp,
           UNCHANGED <<storage, reserved, published, history>>
    PROVE  IInv'
<1>1. /\ reserved' = 0 /\ published' = 0
      /\ live' = {} /\ stale' = {} /\ spoiled' = {} /\ saved' = saved
      /\ \A cp \in saved : cp.len = 0 /\ cp.tail = NoStamp
      /\ \A u \in Threads :
           /\ pc'[u] # "reserve" /\ ~Pending(u)'
           /\ job'[u].ret # "tail"
           /\ job'[u].ret = "owner" => job'[u].p = 0 /\ job'[u].stamp = NoStamp
  BY NothingHandedOut DEF history, Pending
<1>2. CountersSound'
  BY <1>1 DEF CountersSound, Slots
<1>3. ASSUME NEW u \in Threads
      PROVE  (JobShaped(u) /\ ViewFollows(u) /\ RangeSound(u) /\ MarkSound(u))'
  <2>1. JobShaped(u)'
    BY DEF IInv, ThreadsSound, JobShaped, Pending
  <2>2. ViewFollows(u)'
    BY DEF ViewFollows
  <2>3. RangeSound(u)'
    BY <1>1 DEF RangeSound, Pending
  <2>4. MarkSound(u)'
    BY <1>1 DEF MarkSound, TailStamp
  <2> QED
    BY <2>1, <2>2, <2>3, <2>4
<1>4. ThreadsSound' /\ RangesApart'
  BY <1>1, <1>3 DEF ThreadsSound, RangesApart
<1>5. LiveCovered' /\ StaleUncovered' /\ IndicesKnown' /\ SpoiledUncovered'
  BY <1>1 DEF LiveCovered, StaleUncovered, IndicesKnown, SpoiledUncovered
<1>6. SavedCovered'
  <2> SUFFICES ASSUME NEW cp \in saved
               PROVE  InPlace(cp)'
    BY <1>1 DEF SavedCovered
  <2>1. cp.len = 0 /\ cp.tail = NoStamp /\ InPlace(cp)
    BY <1>1 DEF IInv, SavedCovered
  <2> QED
    BY <1>1, <2>1 DEF InPlace, TailStamp
<1>7. CheckpointsKnown'
  BY <1>1 DEF CheckpointsKnown
<1> QED
  BY <1>2, <1>4, <1>5, <1>6, <1>7 DEF IInv

(* assign: the loser waits, the winner has claimed the birth stamp.        *)
LEMMA AssignStep ==
    ASSUME IInv, NEW t \in Threads, Assign(t)
    PROVE  IInv'
<1>1. /\ TypeOK /\ pc[t] = "assign"
      /\ view' = [view EXCEPT ![t].birth = TRUE]
      /\ UNCHANGED <<storage, reserved, published, serial, history>>
      /\ pc \in [Threads -> Calls] /\ job \in [Threads -> Jobs] /\ job[t] \in Jobs
  BY DEF IInv, Assign, TypeOK
<1>2. PICK s \in Stamp \ used :
        /\ used' = used \cup {s}
        /\ IF identity.birth = NoStamp
           THEN /\ identity' = [identity EXCEPT !.birth = s]
                /\ job' = [job EXCEPT ![t].fresh = s]
                /\ pc' = [pc EXCEPT ![t] = "store"]
           ELSE /\ pc' = [pc EXCEPT ![t] = "await"]
                /\ UNCHANGED <<identity, job>>
  BY DEF Assign, Goto
<1>3. /\ view' \in [Threads -> [birth : BOOLEAN, current : BOOLEAN, published : 0 .. published]]
      /\ \A u \in Threads \ {t} : view'[u] = view[u]
      /\ serial' \in Nat /\ used \subseteq used' /\ used' \subseteq Stamp
  BY <1>1, <1>2 DEF TypeOK
<1>4. JobShaped(t) /\ ViewFollows(t) /\ RangeSound(t) /\ MarkSound(t)
  BY DEF IInv, ThreadsSound
<1>5. CASE identity.birth # NoStamp
  <2>1. /\ job' = [job EXCEPT ![t] = job[t]] /\ pc' = [pc EXCEPT ![t] = "await"] /\ "await" \in Calls
        /\ identity' = identity
        /\ job'[t] = job[t] /\ pc'[t] = "await"
    BY <1>1, <1>2, <1>5 DEF Calls
  <2>2. JobShaped(t)' /\ ~Pending(t)'
    BY <1>1, <1>4, <2>1 DEF JobShaped, Pending
  <2>3. ViewFollows(t)'
    BY <1>1, <1>4, <2>1 DEF ViewFollows
  <2>4. RangeSound(t)' /\ MarkSound(t)'
    BY <1>1, <1>4, <2>1 DEF RangeSound, MarkSound, Pending
  <2>5. ThreadSound(t)'
    BY <2>2, <2>3, <2>4 DEF ThreadSound
  <2> QED
    BY <1>1, <1>3, <2>1, <2>2, <2>5, LocalStep
<1>6. CASE identity.birth = NoStamp
  <2>1. identity.current = NoStamp /\ identity = [Unassigned EXCEPT !.birth = NoStamp]
    BY <1>6 DEF IInv, IdentitySound
  <2>2. /\ identity'.birth = s /\ identity'.current = NoStamp /\ identity'.current_start = 0
        /\ identity' = [Unassigned EXCEPT !.birth = s]
    BY <1>2, <1>6, <2>1 DEF Unassigned
  <2>3. PICK j : j = [job[t] EXCEPT !.fresh = s]
    OBVIOUS
  <2>4. /\ j \in Jobs /\ j.fresh = s
        /\ j.ret = job[t].ret /\ j.p = job[t].p /\ j.stamp = job[t].stamp
        /\ j.n = job[t].n /\ j.done = job[t].done
    BY <1>1, <2>3 DEF Jobs
  <2>5. /\ job' = [job EXCEPT ![t] = j] /\ pc' = [pc EXCEPT ![t] = "store"] /\ "store" \in Calls
        /\ job'[t] = j /\ pc'[t] = "store"
        /\ \A u \in Threads \ {t} : pc'[u] = pc[u] /\ job'[u] = job[u]
    BY <1>1, <1>2, <1>6, <2>3 DEF Calls
  <2>6. s # NoStamp /\ s \in Stamp /\ s \in used'
    BY <1>2, StampAssumption
  <2>7. TypeOK'
    <3>1. identity' \in [birth : Stamp \cup {NoStamp}, current : Stamp \cup {NoStamp},
                         current_start : Nat, prefix_tail : Stamp \cup {NoStamp},
                         table : Seq(Segment)]
      <4>1. identity' = [birth |-> s, current |-> NoStamp, current_start |-> 0,
                         prefix_tail |-> NoStamp, table |-> << >>]
        BY <2>2 DEF Unassigned
      <4>2. << >> \in Seq(Segment)
        OBVIOUS
      <4> QED
        BY <2>6, <4>1, <4>2
    <3>2. pc' \in [Threads -> Calls] /\ job' \in [Threads -> Jobs]
      BY <1>1, <2>4, <2>5
    <3> QED
      BY <1>1, <1>3, <2>2, <3>1, <3>2 DEF TypeOK, history
  <2>8. IdentitySound'
    BY <2>2, <2>6 DEF IdentitySound
  <2>9. \A u \in Threads : pc[u] # "store"
    BY <1>6 DEF IInv, IdentityClaimed
  <2>10. IdentityClaimed'
    BY <2>2, <2>4, <2>5, <2>6, <2>9 DEF IdentityClaimed
  <2>11. JobShaped(t)' /\ pc'[t] # "reserve" /\ ~Pending(t)'
    BY <1>1, <1>4, <2>4, <2>5, <2>6 DEF JobShaped, Pending
  <2>12. saved = {}
    BY <1>6 DEF IInv, CheckpointsKnown
  <2> QED
    BY <1>1, <2>1, <2>2, <2>4, <2>5, <2>6, <2>7, <2>8, <2>10, <2>11, <2>12, AssignedStep
<1> QED
  BY <1>5, <1>6

(* The winner stores it as the current one: the identity is complete.      *)
LEMMA StoreCurrentStep ==
    ASSUME IInv, NEW t \in Threads, StoreCurrent(t)
    PROVE  IInv'
<1>1. /\ TypeOK /\ pc[t] = "store"
      /\ identity' = [identity EXCEPT !.current = job[t].fresh]
      /\ view' = [view EXCEPT ![t].current = TRUE]
      /\ pc' = [pc EXCEPT ![t] = "await"]
      /\ UNCHANGED <<storage, reserved, published, used, serial, history>>
      /\ pc \in [Threads -> Calls] /\ job \in [Threads -> Jobs] /\ job[t] \in Jobs
  BY DEF IInv, StoreCurrent, TypeOK, Goto
<1>2. /\ identity.current = NoStamp /\ identity.birth # NoStamp /\ job[t].fresh = identity.birth
      /\ identity = [Unassigned EXCEPT !.birth = identity.birth]
      /\ identity.birth \in Stamp /\ identity.birth \in used
      /\ \A u \in Threads \ {t} : pc[u] # "store"
  BY <1>1, IdentityFields DEF IInv, IdentityClaimed, IdentitySound
<1>3. /\ identity'.birth = identity.birth /\ identity'.current = identity.birth
      /\ identity'.current_start = 0 /\ identity'.table = << >>
      /\ identity' \in [birth : Stamp \cup {NoStamp}, current : Stamp \cup {NoStamp},
                        current_start : Nat, prefix_tail : Stamp \cup {NoStamp},
                        table : Seq(Segment)]
  <2>1. identity' = [birth |-> identity.birth, current |-> identity.birth, current_start |-> 0,
                     prefix_tail |-> NoStamp, table |-> << >>]
    BY <1>1, <1>2 DEF Unassigned
  <2>2. << >> \in Seq(Segment)
    OBVIOUS
  <2> QED
    BY <1>2, <2>1, <2>2
<1>4. PICK j : j = [job[t] EXCEPT !.fresh = NoStamp]
  OBVIOUS
<1>5. /\ j \in Jobs /\ j.fresh = NoStamp
      /\ j.ret = job[t].ret /\ j.p = job[t].p /\ j.stamp = job[t].stamp
      /\ j.n = job[t].n /\ j.done = job[t].done
  BY <1>1, <1>4 DEF Jobs
<1>6. /\ job' = [job EXCEPT ![t] = j] /\ "await" \in Calls
      /\ job'[t] = j /\ pc'[t] = "await"
      /\ \A u \in Threads \ {t} : pc'[u] = pc[u] /\ job'[u] = job[u]
  BY <1>1, <1>4 DEF Calls, StoreCurrent
<1>7. WellFormed(identity)'
  BY <1>3 DEF WellFormed, Sorted, TailCached, BirthUncommitted
<1>8. TypeOK'
  <2>1. pc' \in [Threads -> Calls] /\ job' \in [Threads -> Jobs]
    BY <1>1, <1>5, <1>6
  <2>2. view' \in [Threads -> [birth : BOOLEAN, current : BOOLEAN, published : 0 .. published]]
    BY <1>1 DEF TypeOK
  <2> QED
    BY <1>1, <1>3, <1>7, <2>1, <2>2 DEF TypeOK, history
<1>9. IdentitySound'
  <2>1. (OwnStamps(identity) \subseteq used)'
    BY <1>1, <1>2, <1>3 DEF OwnStamps
  <2>2. (\A slot \in 0 .. identity.current_start - 1 : StampOf(identity, slot) # identity.current)'
    BY <1>3
  <2> QED
    BY <1>1, <1>2, <1>3, <1>7, <2>1, <2>2 DEF IdentitySound
<1>10. IdentityClaimed'
  BY <1>2, <1>3, <1>6 DEF IdentityClaimed
<1>11. JobShaped(t)' /\ pc'[t] # "reserve" /\ ~Pending(t)'
  <2>1. JobShaped(t)
    BY DEF IInv, ThreadsSound
  <2> QED
    BY <1>1, <1>5, <1>6, <2>1 DEF JobShaped, Pending
<1>12. \A cp \in saved : cp.owner = identity'.birth
  BY <1>3 DEF IInv, CheckpointsKnown
<1> QED
  BY <1>1, <1>2, <1>3, <1>5, <1>6, <1>8, <1>9, <1>10, <1>11, <1>12, AssignedStep

-----------------------------------------------------------------------------
(***************************************************************************)
(* A block is reserved, filled and published.                              *)
(***************************************************************************)

(* What the invariant says of a call that has its stamp.                   *)
LEMMA RangeFacts ==
    ASSUME IInv, NEW t \in Threads, pc[t] = "reserve" \/ Pending(t)
    PROVE  /\ job[t].ret = "alloc" /\ job[t].n \in Nat /\ job[t].n > 0
           /\ job[t].start \in Nat /\ job[t].done \in Nat /\ job[t].first \in Nat /\ job[t].p \in Nat
           /\ identity.current # NoStamp /\ identity.current \in Stamp
           /\ job[t].stamp = identity.current /\ job[t].fresh = NoStamp
           /\ reserved \in Nat /\ published \in Nat /\ MaxSlots \in Nat /\ identity.current_start \in Nat
           /\ identity.current_start <= published /\ published <= reserved /\ reserved <= MaxSlots
           /\ Pending(t) =>
                /\ identity.current_start <= job[t].start
                /\ job[t].start + job[t].n <= reserved
                /\ \A k \in 0 .. job[t].done - 1 : storage[job[t].start + k] = job[t].first + k
<1>1. JobShaped(t) /\ RangeSound(t) /\ TypeOK /\ CountersSound
  BY DEF IInv, ThreadsSound
<1>2. job[t].ret = "alloc" /\ job[t].n > 0 /\ job[t].fresh = NoStamp
  BY <1>1 DEF JobShaped, Pending
<1>3. identity.current # NoStamp /\ job[t].stamp = identity.current
  BY <1>1 DEF RangeSound
<1>4. reserved \in Nat /\ published \in Nat /\ MaxSlots \in Nat /\ reserved <= MaxSlots
  BY <1>1, SharedAssumption DEF TypeOK
<1> QED
  BY <1>1, <1>2, <1>3, <1>4, JobFields, IdentityFields DEF RangeSound, CountersSound

LEMMA ReserveStep ==
    ASSUME IInv, NEW t \in Threads, Reserve(t)
    PROVE  IInv'
<1>1. /\ TypeOK /\ pc[t] = "reserve" /\ reserved + job[t].n <= MaxSlots
      /\ reserved' = reserved + job[t].n
      /\ pc' = [pc EXCEPT ![t] = "set"]
      /\ UNCHANGED <<identity, storage, published, view, used, serial, history>>
      /\ pc \in [Threads -> Calls] /\ job \in [Threads -> Jobs] /\ job[t] \in Jobs
  BY DEF IInv, Reserve, TypeOK, Goto
<1>2. /\ job[t].ret = "alloc" /\ job[t].n \in Nat /\ job[t].n > 0
      /\ identity.current # NoStamp /\ job[t].stamp = identity.current /\ job[t].fresh = NoStamp
      /\ reserved \in Nat /\ published \in Nat /\ MaxSlots \in Nat /\ identity.current_start \in Nat
      /\ identity.current_start <= published /\ published <= reserved
  BY <1>1, RangeFacts
<1>3. PICK j : j = [job[t] EXCEPT !.start = reserved]
  OBVIOUS
<1>4. /\ j \in Jobs /\ j.start = reserved
      /\ j.ret = job[t].ret /\ j.n = job[t].n /\ j.done = job[t].done /\ j.stamp = job[t].stamp
      /\ j.fresh = job[t].fresh
  BY <1>1, <1>2, <1>3 DEF Jobs
<1>5. /\ job' = [job EXCEPT ![t] = j] /\ "set" \in Calls
      /\ job'[t] = j /\ pc'[t] = "set"
      /\ \A u \in Threads \ {t} : pc'[u] = pc[u] /\ job'[u] = job[u]
  BY <1>1, <1>3 DEF Calls, Reserve
<1>6. TypeOK'
  <2>1. reserved' \in 0 .. MaxSlots
    BY <1>1, <1>2
  <2>2. pc' \in [Threads -> Calls] /\ job' \in [Threads -> Jobs]
    BY <1>1, <1>4, <1>5
  <2> QED
    BY <1>1, <2>1, <2>2 DEF TypeOK, history
<1>7. SharedKept(t)
  BY <1>1, <1>2, <1>5 DEF SharedKept, history
<1>8. JobShaped(t) /\ ViewFollows(t) /\ ~Pending(t)
  BY <1>1 DEF IInv, ThreadsSound, Pending
<1>9. j.done = 0 /\ j.n > 0 /\ Pending(t)'
  BY <1>2, <1>4, <1>5, <1>8 DEF JobShaped, Pending
<1>10. JobShaped(t)'
  BY <1>2, <1>4, <1>5, <1>9 DEF JobShaped
<1>11. RangeSound(t)'
  BY <1>1, <1>2, <1>4, <1>5, <1>9 DEF RangeSound
<1>12. ViewFollows(t)' /\ MarkSound(t)'
  BY <1>1, <1>2, <1>4, <1>5, <1>8 DEF ViewFollows, MarkSound
<1>13. CountersSound'
  BY <1>1, <1>2 DEF IInv, CountersSound
<1>14. Established(t)
  BY <1>1, <1>2, <1>4, <1>5, <1>10, <1>11, <1>12, <1>13 DEF Established, ThreadSound, history
<1> QED
  BY <1>6, <1>7, <1>14, ThreadStep

LEMMA SetSlotStep ==
    ASSUME IInv, NEW t \in Threads, SetSlot(t)
    PROVE  IInv'
<1>1. /\ TypeOK /\ pc[t] = "set" /\ Pending(t) /\ storage[NextSlot(t)] = Empty
      /\ storage' = [storage EXCEPT ![NextSlot(t)] = job[t].first + job[t].done]
      /\ pc' = [pc EXCEPT ![t] = IF job[t].done + 1 = job[t].n THEN "load" ELSE "set"]
      /\ UNCHANGED <<identity, reserved, published, view, used, serial, history>>
      /\ pc \in [Threads -> Calls] /\ job \in [Threads -> Jobs] /\ job[t] \in Jobs
      /\ storage \in [Slots -> Nat \cup {Empty}]
  BY DEF IInv, SetSlot, CanSet, TypeOK, Goto, Pending
<1>2. /\ job[t].ret = "alloc" /\ job[t].n \in Nat /\ job[t].n > 0
      /\ job[t].start \in Nat /\ job[t].done \in Nat /\ job[t].first \in Nat
      /\ identity.current # NoStamp /\ job[t].stamp = identity.current /\ job[t].fresh = NoStamp
      /\ reserved \in Nat /\ MaxSlots \in Nat /\ identity.current_start \in Nat
      /\ published <= reserved /\ reserved <= MaxSlots
      /\ identity.current_start <= job[t].start
      /\ job[t].start + job[t].n <= reserved
      /\ \A k \in 0 .. job[t].done - 1 : storage[job[t].start + k] = job[t].first + k
  BY <1>1, RangeFacts
<1>3. JobShaped(t) /\ ViewFollows(t) /\ job[t].done < job[t].n
  BY <1>1 DEF IInv, ThreadsSound, JobShaped
<1>4. NextSlot(t) = job[t].start + job[t].done /\ NextSlot(t) \in Slots
  BY <1>2, <1>3 DEF NextSlot, Slots
<1>5. PICK j, l : j = [job[t] EXCEPT !.done = job[t].done + 1]
                  /\ l = IF job[t].done + 1 = job[t].n THEN "load" ELSE "set"
  OBVIOUS
<1>6. /\ j \in Jobs /\ j.done = job[t].done + 1
      /\ j.start = job[t].start /\ j.first = job[t].first
      /\ j.ret = job[t].ret /\ j.n = job[t].n /\ j.stamp = job[t].stamp
      /\ j.fresh = job[t].fresh
  <2>1. job[t].done + 1 \in Nat
    BY <1>2
  <2> QED
    BY <1>1, <1>5, <2>1 DEF Jobs
<1>7. /\ l \in Calls /\ l \in {"load", "set"}
      /\ l = "set" => j.done < j.n
      /\ l = "load" => j.done = j.n
  <2>1. l \in {"load", "set"} /\ (l = "load" <=> job[t].done + 1 = job[t].n)
    BY <1>5
  <2> QED
    BY <1>2, <1>3, <1>6, <2>1 DEF Calls
<1>8. /\ job' = [job EXCEPT ![t] = j] /\ pc' = [pc EXCEPT ![t] = l]
      /\ job'[t] = j /\ pc'[t] = l
      /\ \A u \in Threads \ {t} : pc'[u] = pc[u] /\ job'[u] = job[u]
  BY <1>1, <1>5 DEF SetSlot
<1>9. /\ \A s \in Slots : s # NextSlot(t) => storage'[s] = storage[s]
      /\ storage'[NextSlot(t)] = job[t].first + job[t].done
      /\ storage' \in [Slots -> Nat \cup {Empty}]
  BY <1>1, <1>2, <1>4
<1>10. TypeOK'
  <2>1. pc' \in [Threads -> Calls] /\ job' \in [Threads -> Jobs]
    BY <1>1, <1>6, <1>7, <1>8
  <2> QED
    BY <1>1, <1>9, <2>1 DEF TypeOK, history
<1>11. SharedKept(t)
  BY <1>1, <1>2, <1>8, <1>9 DEF SharedKept, history, TypeOK
<1>12. Pending(t)' /\ pc[t] # "store" /\ pc'[t] # "store"
  BY <1>1, <1>7, <1>8 DEF Pending
<1>13. JobShaped(t)'
  BY <1>2, <1>6, <1>7, <1>8, <1>12 DEF JobShaped
<1>14. RangeSound(t)'
  <2>1. ASSUME NEW k \in 0 .. j.done - 1
        PROVE  storage'[j.start + k] = j.first + k
    <3>1. CASE k = job[t].done
      BY <1>4, <1>6, <1>9, <3>1
    <3>2. CASE k # job[t].done
      <4>1. k \in 0 .. job[t].done - 1
        BY <1>2, <1>6, <3>2
      <4>2. job[t].start + k \in Slots /\ job[t].start + k # NextSlot(t)
        BY <1>2, <1>3, <1>4, <4>1 DEF Slots
      <4> QED
        BY <1>2, <1>6, <1>9, <4>1, <4>2
    <3> QED
      BY <3>1, <3>2
  <2>2. pc'[t] # "advance"
    BY <1>7, <1>8
  <2> QED
    BY <1>1, <1>2, <1>6, <1>8, <2>1, <2>2 DEF RangeSound
<1>15. ViewFollows(t)' /\ MarkSound(t)'
  BY <1>1, <1>2, <1>3, <1>6, <1>7, <1>8 DEF ViewFollows, MarkSound
<1>16. CountersSound'
  <2>1. ASSUME NEW s \in Slots, s < published
        PROVE  storage'[s] # Empty
    BY <1>2, <1>9, <2>1, SharedAssumption DEF IInv, CountersSound
  <2> QED
    BY <1>1, <2>1 DEF IInv, CountersSound
<1>17. Established(t)
  BY <1>1, <1>6, <1>8, <1>12, <1>13, <1>14, <1>15, <1>16 DEF Established, ThreadSound, history
<1> QED
  BY <1>10, <1>11, <1>17, ThreadStep

(* A load of `published` moves the thread's view, and the first non-zero   *)
(* one shows it the current stamp.                                         *)
LEMMA PublishedView ==
    ASSUME TypeOK, NEW t \in Threads, NEW p \in 0 .. published,
           view' = [view EXCEPT ![t].published = p, ![t].current = @ \/ p > 0]
    PROVE  /\ view' \in [Threads -> [birth : BOOLEAN, current : BOOLEAN, published : 0 .. published]]
           /\ \A u \in Threads \ {t} : view'[u] = view[u]
           /\ view[t].birth => view'[t].birth
           /\ view[t].current => view'[t].current
<1>1. view[t] \in [birth : BOOLEAN, current : BOOLEAN, published : 0 .. published]
      /\ view \in [Threads -> [birth : BOOLEAN, current : BOOLEAN, published : 0 .. published]]
  BY DEF TypeOK
<1>2. (view[t].current \/ p > 0) \in BOOLEAN
  OBVIOUS
<1>3. view' = [view EXCEPT ![t] = [view[t] EXCEPT !.published = p, !.current = view[t].current \/ p > 0]]
  BY <1>1
<1> QED
  BY <1>1, <1>2, <1>3

(* The call returns the indices of its block, or looks at the next slot.   *)
LEMMA LoadPublishedStep ==
    ASSUME IInv, NEW t \in Threads, NEW p \in 0 .. published, LoadPublished(t, p)
    PROVE  IInv'
<1>1. /\ TypeOK /\ pc[t] = "load" /\ Pending(t) /\ p \in Nat /\ p <= published
      /\ view' = [view EXCEPT ![t].published = p, ![t].current = @ \/ p > 0]
      /\ UNCHANGED <<identity, storage, reserved, published, used, serial, stale, saved, spoiled>>
      /\ pc \in [Threads -> Calls] /\ job \in [Threads -> Jobs] /\ job[t] \in Jobs
  BY DEF IInv, LoadPublished, TypeOK, Pending
<1>2. /\ view' \in [Threads -> [birth : BOOLEAN, current : BOOLEAN, published : 0 .. published]]
      /\ \A u \in Threads \ {t} : view'[u] = view[u]
      /\ view[t].birth => view'[t].birth
      /\ view[t].current => view'[t].current
  BY <1>1, PublishedView
<1>3. /\ job[t].ret = "alloc" /\ job[t].n \in Nat /\ job[t].n > 0
      /\ job[t].start \in Nat /\ job[t].done \in Nat /\ job[t].first \in Nat
      /\ identity.current # NoStamp /\ identity.current \in Stamp
      /\ job[t].stamp = identity.current /\ job[t].fresh = NoStamp
      /\ identity.current_start \in Nat /\ published \in Nat
      /\ identity.current_start <= job[t].start
      /\ \A k \in 0 .. job[t].done - 1 : storage[job[t].start + k] = job[t].first + k
  BY <1>1, RangeFacts
<1>4. JobShaped(t) /\ ViewFollows(t) /\ RangeSound(t) /\ job[t].done = job[t].n
  BY <1>1 DEF IInv, ThreadsSound, JobShaped
<1>5. serial' \in Nat /\ used \subseteq used' /\ used' \subseteq Stamp
  BY <1>1 DEF TypeOK
<1>6. CASE p > Last(t)
  <2>0. PICK new : new = { Index(job[t].stamp, job[t].start + k - 1, job[t].first + k - 1) : k \in 1 .. job[t].n }
    OBVIOUS
  <2>1. /\ live' = live \cup new
        /\ job' = [job EXCEPT ![t] = NoJob] /\ pc' = [pc EXCEPT ![t] = "idle"] /\ "idle" \in Calls
    BY <1>6, <2>0 DEF LoadPublished, Goto, Calls
  <2>2. /\ job'[t] = NoJob /\ pc'[t] = "idle"
        /\ \A u \in Threads \ {t} : pc'[u] = pc[u] /\ job'[u] = job[u]
    BY <1>1, <2>1
  <2>3. ASSUME NEW i \in new
        PROVE  i \in IndexSet /\ Covered(i)
    <3>1. PICK k \in 1 .. job[t].n : i = Index(job[t].stamp, job[t].start + k - 1, job[t].first + k - 1)
      BY <2>0
    <3>2. /\ i.stamp = job[t].stamp /\ i.slot = job[t].start + k - 1 /\ i.value = job[t].first + k - 1
          /\ i = [stamp |-> i.stamp, slot |-> i.slot, value |-> i.value]
      BY <3>1 DEF Index
    <3>3. k - 1 \in 0 .. job[t].done - 1 /\ i.slot \in Nat /\ i.value \in Nat
      BY <1>3, <1>4, <3>2
    <3>4. i \in IndexSet
      BY <1>3, <3>2, <3>3 DEF IndexSet
    <3>5. i.slot < published
      BY <1>1, <1>3, <1>6, <3>2 DEF Last
    <3>6. StampOf(identity, i.slot) = i.stamp
      BY <1>3, <3>2, <3>3 DEF StampOf
    <3>7. storage[i.slot] = i.value
      <4>1. storage[job[t].start + (k - 1)] = job[t].first + (k - 1)
        BY <1>3, <3>3
      <4> QED
        BY <1>3, <3>2, <4>1
    <3> QED
      BY <3>4, <3>5, <3>6, <3>7 DEF Covered
  <2>4. TypeOK'
    <3>1. pc' \in [Threads -> Calls] /\ job' \in [Threads -> Jobs]
      BY <1>1, <2>1, NoJobTyped
    <3>2. live' \subseteq IndexSet
      BY <2>1, <2>3, <1>1 DEF TypeOK
    <3> QED
      BY <1>1, <1>2, <3>1, <3>2 DEF TypeOK
  <2>5. SharedKept(t)
    BY <1>1, <1>2, <2>2, SharedAssumption DEF SharedKept, TypeOK
  <2>6. ViewFollows(t)'
    BY <1>1, <1>2, <1>4, <2>2 DEF ViewFollows
  <2>7. ThreadSound(t)' /\ ~Pending(t)'
    BY <2>2, <2>6, NoJobTyped DEF ThreadSound, JobShaped, RangeSound, MarkSound, Pending
  <2>8. CountersSound'
    BY <1>1 DEF IInv, CountersSound
  <2>9. \A i \in live' : i \in live \/ Covered(i)'
    BY <1>1, <2>1, <2>3 DEF Covered
  <2>10. Established(t)
    BY <1>1, <2>2, <2>7, <2>8, <2>9 DEF Established
  <2> QED
    BY <2>4, <2>5, <2>10, ThreadStep
<1>7. CASE ~(p > Last(t))
  <2>0. PICK j : j = [job[t] EXCEPT !.p = p]
    OBVIOUS
  <2>1. /\ job' = [job EXCEPT ![t] = j] /\ pc' = [pc EXCEPT ![t] = "probe"] /\ "probe" \in Calls
        /\ live' = live
    BY <1>7, <2>0 DEF LoadPublished, Goto, Calls
  <2>2. /\ j \in Jobs /\ j.p = p
        /\ j.start = job[t].start /\ j.first = job[t].first /\ j.done = job[t].done
        /\ j.ret = job[t].ret /\ j.n = job[t].n /\ j.stamp = job[t].stamp
        /\ j.fresh = job[t].fresh
    BY <1>1, <2>0 DEF Jobs
  <2>3. job'[t] = j /\ pc'[t] = "probe" /\ Pending(t)'
    BY <1>1, <2>1 DEF Pending
  <2>4. p < job[t].start + job[t].n
    BY <1>1, <1>3, <1>7 DEF Last
  <2>5. JobShaped(t)'
    BY <1>3, <1>4, <2>2, <2>3, <2>4 DEF JobShaped
  <2>6. RangeSound(t)'
    BY <1>1, <1>4, <2>2, <2>3 DEF RangeSound
  <2>7. ViewFollows(t)' /\ MarkSound(t)'
    BY <1>1, <1>2, <1>3, <1>4, <2>2, <2>3 DEF ViewFollows, MarkSound
  <2>8. ThreadSound(t)'
    BY <2>5, <2>6, <2>7 DEF ThreadSound
  <2>9. UNCHANGED <<identity, storage, reserved, published, history>> /\ pc[t] # "store"
    BY <1>1, <2>1 DEF history
  <2> QED
    BY <1>1, <1>2, <1>5, <2>1, <2>2, <2>8, <2>9, LocalStep
<1> QED
  BY <1>6, <1>7

(* The prefix moves over a slot that is set and lies below `reserved`.     *)
LEMMA AdvanceStep ==
    ASSUME IInv, NEW t \in Threads, Advance(t)
    PROVE  IInv'
<1>1. /\ TypeOK /\ pc[t] = "advance" /\ Pending(t)
      /\ published = job[t].p /\ published' = published + 1
      /\ view' = [view EXCEPT ![t].published = published + 1, ![t].current = TRUE]
      /\ pc' = [pc EXCEPT ![t] = "load"]
      /\ UNCHANGED <<identity, storage, reserved, used, serial, history>>
      /\ pc \in [Threads -> Calls] /\ job \in [Threads -> Jobs] /\ job[t] \in Jobs
  BY DEF IInv, Advance, Again, Goto, TypeOK, Pending
<1>2. /\ job[t].ret = "alloc" /\ job[t].n \in Nat /\ job[t].start \in Nat /\ job[t].p \in Nat
      /\ identity.current # NoStamp
      /\ reserved \in Nat /\ published \in Nat /\ MaxSlots \in Nat /\ identity.current_start \in Nat
      /\ identity.current_start <= published /\ reserved <= MaxSlots
      /\ job[t].start + job[t].n <= reserved
  BY <1>1, RangeFacts
<1>3. JobShaped(t) /\ ViewFollows(t) /\ RangeSound(t)
      /\ job[t].p < job[t].start + job[t].n /\ storage[job[t].p] # Empty
  BY <1>1 DEF IInv, ThreadsSound, JobShaped, RangeSound
<1>4. PICK j : j = [job[t] EXCEPT !.p = 0]
  OBVIOUS
<1>5. /\ j \in Jobs
      /\ j.start = job[t].start /\ j.first = job[t].first /\ j.done = job[t].done
      /\ j.ret = job[t].ret /\ j.n = job[t].n /\ j.stamp = job[t].stamp
      /\ j.fresh = job[t].fresh
  BY <1>1, <1>4 DEF Jobs
<1>6. /\ job' = [job EXCEPT ![t] = j] /\ "load" \in Calls
      /\ job'[t] = j /\ pc'[t] = "load" /\ Pending(t)'
      /\ \A u \in Threads \ {t} : pc'[u] = pc[u] /\ job'[u] = job[u]
  BY <1>1, <1>4 DEF Calls, Advance, Again, Pending
<1>7. published + 1 <= reserved /\ published + 1 \in 0 .. MaxSlots
  BY <1>1, <1>2, <1>3
<1>8. /\ view' \in [Threads -> [birth : BOOLEAN, current : BOOLEAN, published : 0 .. published + 1]]
      /\ \A u \in Threads \ {t} : view'[u] = view[u]
      /\ view[t].birth => view'[t].birth
      /\ view'[t].current
  <2>1. view \in [Threads -> [birth : BOOLEAN, current : BOOLEAN, published : 0 .. published]]
    BY <1>1 DEF TypeOK
  <2>2. \A u \in Threads : view[u] \in [birth : BOOLEAN, current : BOOLEAN, published : 0 .. published + 1]
    <3> SUFFICES ASSUME NEW u \in Threads
                 PROVE  view[u] \in [birth : BOOLEAN, current : BOOLEAN, published : 0 .. published + 1]
      OBVIOUS
    <3>1. view[u] \in [birth : BOOLEAN, current : BOOLEAN, published : 0 .. published]
      BY <2>1
    <3>2. 0 .. published \subseteq 0 .. published + 1
      BY <1>2
    <3> QED
      BY <3>1, <3>2
  <2>3. view' = [view EXCEPT ![t] = [view[t] EXCEPT !.published = published + 1, !.current = TRUE]]
    BY <1>1, <2>1
  <2>4. published + 1 \in 0 .. published + 1
    BY <1>2
  <2> QED
    BY <2>1, <2>2, <2>3, <2>4
<1>9. TypeOK'
  <2>1. pc' \in [Threads -> Calls] /\ job' \in [Threads -> Jobs]
    BY <1>1, <1>5, <1>6
  <2> QED
    BY <1>1, <1>7, <1>8, <2>1 DEF TypeOK, history
<1>10. SharedKept(t)
  BY <1>1, <1>2, <1>6, <1>8 DEF SharedKept, history
<1>11. JobShaped(t)'
  BY <1>1, <1>3, <1>5, <1>6 DEF JobShaped, Pending
<1>12. RangeSound(t)'
  BY <1>1, <1>3, <1>5, <1>6 DEF RangeSound
<1>13. ViewFollows(t)' /\ MarkSound(t)'
  BY <1>1, <1>2, <1>3, <1>5, <1>6, <1>8 DEF ViewFollows, MarkSound
<1>14. CountersSound'
  <2>1. ASSUME NEW s \in Slots, s < published + 1
        PROVE  storage[s] # Empty
    <3>1. s \in Nat
      BY <1>2 DEF Slots
    <3>2. CASE s = published
      BY <1>1, <1>3, <3>2
    <3>3. CASE s < published
      BY <3>3 DEF IInv, CountersSound
    <3> QED
      BY <1>2, <2>1, <3>1, <3>2, <3>3
  <2>2. identity.current_start <= published + 1
    BY <1>2
  <2> QED
    BY <1>1, <1>2, <1>7, <2>1, <2>2 DEF CountersSound
<1>15. Established(t)
  BY <1>1, <1>5, <1>6, <1>11, <1>12, <1>13, <1>14 DEF Established, ThreadSound, history
<1> QED
  BY <1>9, <1>10, <1>15, ThreadStep

(* An iterator pairs a published slot with the stamp it reads.             *)
LEMMA IterIndexedStep ==
    ASSUME IInv, NEW t \in Threads, NEW p \in 0 .. published,
           NEW slot \in 0 .. p - 1, IterIndexed(t, p, slot)
    PROVE  IInv'
<1>1. /\ TypeOK /\ pc[t] = "idle" /\ p \in Nat /\ p <= published /\ slot \in Nat /\ slot < p
      /\ view' = [view EXCEPT ![t].published = p, ![t].current = TRUE]
      /\ live' = live \cup {Index(StampOf(identity, slot), slot, storage[slot])}
      /\ UNCHANGED <<identity, storage, reserved, published, pc, job, used, serial, stale, saved, spoiled>>
      /\ published \in Nat /\ published <= MaxSlots /\ MaxSlots \in Nat
      /\ storage \in [Slots -> Nat \cup {Empty}]
  BY SharedAssumption DEF IInv, IterIndexed, TypeOK
<1>2. /\ view' \in [Threads -> [birth : BOOLEAN, current : BOOLEAN, published : 0 .. published]]
      /\ \A u \in Threads \ {t} : view'[u] = view[u]
      /\ view[t].birth => view'[t].birth
      /\ view'[t].current
  BY <1>1 DEF TypeOK
<1>3. PICK i : i = Index(StampOf(identity, slot), slot, storage[slot])
  OBVIOUS
<1>4. /\ i.stamp = StampOf(identity, slot) /\ i.slot = slot /\ i.value = storage[slot]
      /\ i = [stamp |-> i.stamp, slot |-> i.slot, value |-> i.value]
  BY <1>3 DEF Index
<1>5. slot < published /\ slot \in Slots /\ published > 0
  BY <1>1 DEF Slots
<1>6. i.value \in Nat
  BY <1>1, <1>4, <1>5 DEF IInv, CountersSound
<1>7. i.stamp \in Stamp
  <2>1. identity.current # NoStamp
    BY <1>5, PublishedComplete DEF IInv
  <2> QED
    BY <1>1, <1>4, <1>5, <2>1, CompleteIdentity DEF IInv, TypeOK
<1>8. i \in IndexSet /\ Covered(i)
  BY <1>4, <1>5, <1>6, <1>7 DEF IndexSet, Covered
<1>9. TypeOK'
  BY <1>1, <1>2, <1>3, <1>8 DEF TypeOK
<1>10. SharedKept(t)
  BY <1>1, <1>2, SharedAssumption DEF SharedKept, TypeOK
<1>11. JobShaped(t)' /\ RangeSound(t)' /\ MarkSound(t)'
  BY <1>1 DEF IInv, ThreadsSound, JobShaped, RangeSound, MarkSound, Pending, TailStamp
<1>12. ViewFollows(t)'
  BY <1>1, <1>2 DEF IInv, ThreadsSound, ViewFollows
<1>13. CountersSound'
  BY <1>1 DEF IInv, CountersSound
<1>14. \A x \in live' : x \in live \/ Covered(x)'
  BY <1>1, <1>3, <1>8 DEF Covered
<1>15. Established(t)
  BY <1>1, <1>11, <1>12, <1>13, <1>14 DEF Established, ThreadSound, Pending
<1> QED
  BY <1>9, <1>10, <1>15, ThreadStep

-----------------------------------------------------------------------------
(***************************************************************************)
(* The exclusive operations.                                               *)
(***************************************************************************)

(* While no `&self` call is in progress an identity is absent or complete. *)
LEMMA ExclusiveComplete ==
    ASSUME IInv, Exclusive, identity.birth # NoStamp
    PROVE  identity.current # NoStamp
BY DEF IInv, IdentityClaimed, Exclusive

(* A commit at n, with the prefix cut somewhere at or above n: what lies   *)
(* below n is untouched, everything else is covered by the fresh stamp.    *)
LEMMA ExclusiveCut ==
    ASSUME IInv, Exclusive, identity.birth # NoStamp,
           NEW n \in 0 .. published, NEW keep \in n .. published,
           CommitBoundary(n),
           published' = keep, reserved' \in keep .. reserved,
           storage' = [s \in Slots |-> IF keep <= s /\ s < published THEN Empty ELSE storage[s]],
           view' = [t \in Threads |-> [birth |-> TRUE, current |-> TRUE, published |-> keep]],
           Revoke(n),
           UNCHANGED <<pc, job, serial>>
    PROVE  IInv'
<1>1. TypeOK /\ IdentitySound /\ identity.current # NoStamp
  BY ExclusiveComplete DEF IInv
<1>2. /\ identity \in Identity /\ WellFormed(identity)
      /\ identity.birth \in Stamp /\ identity.birth \in used
      /\ OwnStamps(identity) \subseteq used
      /\ \A slot \in Nat : StampOf(identity, slot) \in used
  BY <1>1, CompleteIdentity
<1>3. /\ n \in Nat /\ keep \in Nat /\ published \in Nat /\ reserved \in Nat /\ MaxSlots \in Nat
      /\ n <= keep /\ keep <= published /\ published <= reserved /\ reserved <= MaxSlots
      /\ published <= MaxSlots
      /\ reserved' \in Nat /\ keep <= reserved' /\ reserved' <= reserved
  BY <1>1, SharedAssumption DEF IInv, TypeOK, CountersSound
<1>4. PICK s \in Stamp \ used : identity' = Commit(identity, n, s) /\ used' = used \cup {s}
  BY DEF CommitBoundary
<1>5. s \in Stamp /\ s # NoStamp /\ s # identity.birth /\ s \notin used
  BY <1>2, <1>4, StampAssumption
<1>6. /\ identity' \in Identity
      /\ WellFormed(identity')
      /\ \A slot \in Nat : StampOf(identity', slot) = IF slot >= n THEN s ELSE StampOf(identity, slot)
      /\ OwnStamps(identity') \subseteq used'
  <2>1. /\ Commit(identity, n, s) \in Identity
        /\ WellFormed(Commit(identity, n, s))
        /\ \A slot \in Nat : StampOf(Commit(identity, n, s), slot)
                               = IF slot >= n THEN s ELSE StampOf(identity, slot)
        /\ OwnStamps(Commit(identity, n, s)) \subseteq OwnStamps(identity) \cup {s}
    BY <1>2, <1>3, <1>5, CommitFacts
  <2> QED
    BY <1>2, <1>4, <2>1
<1>7. identity'.birth = identity.birth /\ identity'.current = s /\ identity'.current_start = n
  BY <1>2, <1>4 DEF Commit, Identity
<1>8. /\ live \subseteq IndexSet /\ stale \subseteq IndexSet
      /\ \A cp \in saved \cup spoiled :
           cp.owner \in Stamp /\ cp.len \in Nat /\ cp.tail \in Stamp \cup {NoStamp}
  BY <1>1 DEF TypeOK
<1>9. /\ live' = { i \in live : ~(i.slot >= n) } /\ stale' = stale \cup { i \in live : i.slot >= n }
      /\ saved' = { cp \in saved : ~(cp.len > n) } /\ spoiled' = spoiled \cup { cp \in saved : cp.len > n }
  BY DEF Revoke
<1>10. \A x \in Nat : x < keep => storage'[x] = storage[x]
  <2> SUFFICES ASSUME NEW x \in Nat, x < keep
               PROVE  storage'[x] = storage[x]
    OBVIOUS
  <2>1. x \in Slots /\ ~(keep <= x)
    BY <1>3 DEF Slots
  <2> QED
    BY <2>1
<1>11. TypeOK'
  <2>1. storage' \in [Slots -> Nat \cup {Empty}]
    BY <1>1 DEF TypeOK
  <2>2. view' \in [Threads -> [birth : BOOLEAN, current : BOOLEAN, published : 0 .. published']]
    BY <1>3
  <2>3. reserved' \in 0 .. MaxSlots /\ published' \in 0 .. MaxSlots
    BY <1>3
  <2>4. identity' \in [birth : Stamp \cup {NoStamp}, current : Stamp \cup {NoStamp},
                       current_start : Nat, prefix_tail : Stamp \cup {NoStamp},
                       table : Seq(Segment)]
    BY <1>6 DEF Identity
  <2>5. used' \subseteq Stamp
    BY <1>1, <1>4 DEF TypeOK
  <2>6. live' \subseteq IndexSet /\ stale' \subseteq IndexSet
        /\ \A cp \in saved' \cup spoiled' :
             cp.owner \in Stamp /\ cp.len \in Nat /\ cp.tail \in Stamp \cup {NoStamp}
    BY <1>8, <1>9
  <2>7. pc' \in [Threads -> Calls] /\ job' \in [Threads -> Jobs] /\ serial' \in Nat
    BY <1>1 DEF TypeOK
  <2> QED
    BY <1>6, <2>1, <2>2, <2>3, <2>4, <2>5, <2>6, <2>7 DEF TypeOK
<1>12. IdentitySound'
  <2>1. (\A slot \in 0 .. identity.current_start - 1 : StampOf(identity, slot) # identity.current)'
    <3> SUFFICES ASSUME NEW slot \in 0 .. n - 1
                 PROVE  StampOf(identity', slot) # s
      BY <1>7
    <3>1. slot \in Nat /\ ~(slot >= n)
      BY <1>3
    <3> QED
      BY <1>2, <1>5, <1>6, <3>1
  <2> QED
    BY <1>2, <1>4, <1>5, <1>6, <1>7, <2>1 DEF IdentitySound
<1>13. IdentityClaimed'
  BY <1>5, <1>7 DEF IdentityClaimed, Exclusive
<1>14. CountersSound'
  <2>1. ASSUME NEW x \in Slots, x < keep
        PROVE  storage'[x] # Empty
    <3>1. x \in Nat /\ x < published
      BY <1>3, <2>1 DEF Slots
    <3> QED
      BY <1>10, <2>1, <3>1 DEF IInv, CountersSound
  <2> QED
    BY <1>3, <1>5, <1>7, <2>1 DEF CountersSound
<1>15. ThreadsSound'
  <2> SUFFICES ASSUME NEW t \in Threads
               PROVE  (JobShaped(t) /\ ViewFollows(t) /\ RangeSound(t) /\ MarkSound(t))'
    BY DEF ThreadsSound
  <2>1. pc[t] = "idle" /\ pc'[t] = "idle" /\ JobShaped(t)
    BY DEF IInv, ThreadsSound, Exclusive
  <2>2. JobShaped(t)'
    BY <2>1 DEF JobShaped, Pending
  <2>3. job'[t].ret = "none"
    BY <2>1, <2>2 DEF JobShaped
  <2>4. ViewFollows(t)'
    BY <2>1 DEF ViewFollows
  <2> QED
    BY <2>1, <2>2, <2>3, <2>4 DEF RangeSound, MarkSound, Pending
<1>16. RangesApart'
  BY DEF RangesApart, Pending, Exclusive
<1>17. LiveCovered'
  <2> SUFFICES ASSUME NEW i \in live, ~(i.slot >= n)
               PROVE  Covered(i)'
    BY <1>9 DEF LiveCovered
  <2>1. i.slot \in Nat /\ i.slot < keep
    BY <1>3, <1>8 DEF IndexSet
  <2>2. Covered(i)
    BY DEF IInv, LiveCovered
  <2> QED
    BY <1>6, <1>10, <2>1, <2>2 DEF Covered
<1>18. StaleUncovered'
  <2> SUFFICES ASSUME NEW i \in stale \cup { x \in live : x.slot >= n }
               PROVE  StampOf(identity', i.slot) # i.stamp
    BY <1>5, <1>7, <1>9 DEF StaleUncovered
  <2>1. i.slot \in Nat /\ i.stamp \in used
    BY <1>8 DEF IndexSet, IInv, IndicesKnown
  <2>2. CASE i.slot >= n
    BY <1>5, <1>6, <2>1, <2>2
  <2>3. CASE ~(i.slot >= n)
    BY <1>6, <2>1, <2>3 DEF IInv, StaleUncovered
  <2> QED
    BY <2>2, <2>3
<1>19. IndicesKnown'
  BY <1>4, <1>5, <1>7, <1>9 DEF IInv, IndicesKnown
<1>20. SavedCovered'
  <2> SUFFICES ASSUME NEW cp \in saved, ~(cp.len > n)
               PROVE  InPlace(cp)'
    BY <1>9 DEF SavedCovered
  <2>1. cp.len \in Nat /\ cp.len <= keep /\ cp.len <= n
    BY <1>3, <1>8
  <2>2. InPlace(cp)
    BY DEF IInv, SavedCovered
  <2>3. TailStamp(identity', cp.len) = TailStamp(identity, cp.len)
    <3>1. CASE cp.len = 0
      BY <3>1 DEF TailStamp
    <3>2. CASE cp.len > 0
      <4>1. cp.len - 1 \in Nat /\ ~(cp.len - 1 >= n)
        BY <1>3, <2>1, <3>2
      <4> QED
        BY <1>6, <4>1 DEF TailStamp
    <3> QED
      BY <2>1, <3>1, <3>2
  <2>4. ASSUME NEW x \in 0 .. cp.len - 1
        PROVE  storage'[x] = cp.prefix[x]
    <3>1. x \in Nat /\ x < keep
      BY <1>3, <2>1
    <3> QED
      BY <1>10, <2>2, <3>1 DEF InPlace
  <2> QED
    BY <2>1, <2>2, <2>3, <2>4 DEF InPlace, TailStamp
<1>21. SpoiledUncovered'
  <2> SUFFICES ASSUME NEW cp \in spoiled \cup { c \in saved : c.len > n }
               PROVE  cp.len > 0 /\ StampOf(identity', cp.len - 1) # cp.tail
    BY <1>5, <1>7, <1>9 DEF SpoiledUncovered
  <2>1. cp.len \in Nat /\ cp.tail \in used \cup {NoStamp}
    BY <1>8 DEF IInv, CheckpointsKnown
  <2>2. cp.len > 0
    BY <1>3, <2>1 DEF IInv, SpoiledUncovered
  <2>3. cp.len - 1 \in Nat
    BY <2>1, <2>2
  <2>4. CASE cp.len - 1 >= n
    BY <1>5, <1>6, <2>1, <2>2, <2>3, <2>4
  <2>5. CASE ~(cp.len - 1 >= n)
    <3>1. cp \in spoiled
      BY <1>3, <2>1, <2>5
    <3> QED
      BY <1>6, <2>2, <2>3, <2>5, <3>1 DEF IInv, SpoiledUncovered
  <2> QED
    BY <2>4, <2>5
<1>22. CheckpointsKnown'
  BY <1>4, <1>7, <1>9 DEF IInv, CheckpointsKnown
<1> QED
  BY <1>11, <1>12, <1>13, <1>14, <1>15, <1>16, <1>17, <1>18, <1>19, <1>20, <1>21, <1>22 DEF IInv

(* A commit that unwinds for want of a stamp changes no answer.            *)
LEMMA CommitExhaustedStep ==
    ASSUME IInv, CommitExhausted
    PROVE  IInv'
<1>1. /\ TypeOK /\ IdentitySound /\ identity.current # NoStamp
      /\ identity' = CommitUnwound(identity) /\ Exclusive
      /\ UNCHANGED <<storage, reserved, published, pc, job, view, used, serial, history>>
  BY ExclusiveComplete DEF IInv, CommitExhausted
<1>2. identity \in Identity /\ WellFormed(identity) /\ OwnStamps(identity) \subseteq used
      /\ identity.current_start \in Nat
  BY <1>1, CompleteIdentity, IdentityFields
<1>3. /\ identity' \in Identity
      /\ WellFormed(identity')
      /\ \A slot \in Nat : StampOf(identity', slot) = StampOf(identity, slot)
      /\ OwnStamps(identity') \subseteq used
  <2>1. /\ CommitUnwound(identity) \in Identity
        /\ WellFormed(CommitUnwound(identity))
        /\ \A slot \in Nat : StampOf(CommitUnwound(identity), slot) = StampOf(identity, slot)
        /\ OwnStamps(CommitUnwound(identity)) \subseteq OwnStamps(identity)
    BY <1>2, CommitUnwoundFacts
  <2> QED
    BY <1>1, <1>2, <2>1
<1>4. /\ identity'.birth = identity.birth /\ identity'.current = identity.current
      /\ identity'.current_start = identity.current_start
  BY <1>1, <1>2 DEF CommitUnwound, Identity
<1>5. TypeOK'
  <2>1. identity' \in [birth : Stamp \cup {NoStamp}, current : Stamp \cup {NoStamp},
                       current_start : Nat, prefix_tail : Stamp \cup {NoStamp},
                       table : Seq(Segment)]
    BY <1>3 DEF Identity
  <2> QED
    BY <1>1, <1>3, <2>1 DEF TypeOK, history
<1>6. IdentitySound'
  <2>1. (\A slot \in 0 .. identity.current_start - 1 : StampOf(identity, slot) # identity.current)'
    <3> SUFFICES ASSUME NEW slot \in 0 .. identity.current_start - 1
                 PROVE  StampOf(identity', slot) # identity.current
      BY <1>4
    <3>1. slot \in Nat
      BY <1>2
    <3> QED
      BY <1>1, <1>3, <3>1 DEF IdentitySound
  <2> QED
    BY <1>1, <1>3, <1>4, <2>1 DEF IdentitySound
<1>7. IdentityClaimed'
  BY <1>1, <1>4 DEF IInv, IdentityClaimed, Exclusive
<1>8. CountersSound'
  BY <1>1, <1>4 DEF IInv, CountersSound
<1>9. ThreadsSound'
  <2> SUFFICES ASSUME NEW t \in Threads
               PROVE  (JobShaped(t) /\ ViewFollows(t) /\ RangeSound(t) /\ MarkSound(t))'
    BY DEF ThreadsSound
  <2>1. pc'[t] = "idle" /\ JobShaped(t) /\ ViewFollows(t)
    BY <1>1 DEF IInv, ThreadsSound, Exclusive
  <2>2. JobShaped(t)'
    BY <1>1, <2>1 DEF JobShaped, Pending
  <2>3. job'[t].ret = "none"
    BY <2>1, <2>2 DEF JobShaped
  <2>4. ViewFollows(t)'
    BY <1>1, <1>4, <2>1 DEF ViewFollows
  <2> QED
    BY <2>1, <2>2, <2>3, <2>4 DEF RangeSound, MarkSound, Pending
<1>10. RangesApart'
  BY <1>1 DEF RangesApart, Pending, Exclusive
<1>11. LiveCovered' /\ StaleUncovered'
  <2>1. \A i \in live \cup stale : i.slot \in Nat
    BY <1>1 DEF TypeOK, IndexSet
  <2> QED
    BY <1>1, <1>3, <1>4, <2>1 DEF IInv, LiveCovered, Covered, StaleUncovered, history
<1>12. IndicesKnown'
  BY <1>1, <1>4 DEF IInv, IndicesKnown, history
<1>13. \A cp \in saved \cup spoiled : cp.len \in Nat
  BY <1>1 DEF TypeOK
<1>14. ASSUME NEW len \in Nat
       PROVE  TailStamp(identity', len) = TailStamp(identity, len)
  <2>1. len # 0 => len - 1 \in Nat
    OBVIOUS
  <2> QED
    BY <1>3, <2>1 DEF TailStamp
<1>15. SavedCovered'
  <2> SUFFICES ASSUME NEW cp \in saved
               PROVE  InPlace(cp)'
    BY <1>1 DEF SavedCovered, history
  <2>1. InPlace(cp) /\ TailStamp(identity', cp.len) = TailStamp(identity, cp.len)
    BY <1>13, <1>14 DEF IInv, SavedCovered
  <2> QED
    BY <1>1, <2>1 DEF InPlace, TailStamp
<1>16. SpoiledUncovered'
  <2> SUFFICES ASSUME NEW cp \in spoiled
               PROVE  cp.len > 0 /\ StampOf(identity', cp.len - 1) # cp.tail
    BY <1>1, <1>4 DEF SpoiledUncovered, history
  <2>1. cp.len > 0 /\ cp.len - 1 \in Nat /\ StampOf(identity, cp.len - 1) # cp.tail
    BY <1>13 DEF IInv, SpoiledUncovered
  <2> QED
    BY <1>3, <2>1
<1>17. CheckpointsKnown'
  BY <1>1, <1>4 DEF IInv, CheckpointsKnown, history
<1> QED
  BY <1>5, <1>6, <1>7, <1>8, <1>9, <1>10, <1>11, <1>12, <1>15, <1>16, <1>17 DEF IInv

LEMMA TryRollbackStep ==
    ASSUME IInv, NEW cp \in saved \cup spoiled, TryRollback(cp)
    PROVE  IInv'
<1>1. /\ Exclusive /\ CommitBoundary(cp.len) /\ Unpublish(cp.len) /\ Revoke(cp.len)
      /\ ValidateCheckpoint(cp) = "Ok"
      /\ UNCHANGED <<pc, job, serial>>
  BY DEF TryRollback
<1>2. cp.owner \in Stamp /\ cp.len \in Nat /\ published \in Nat /\ published <= reserved /\ reserved \in Nat
  BY SharedAssumption DEF IInv, TypeOK, CountersSound
<1>3. identity.birth = cp.owner /\ ~(cp.len > published)
  BY <1>1 DEF ValidateCheckpoint
<1>4. cp.len \in 0 .. published /\ identity.birth # NoStamp
  BY <1>2, <1>3, StampAssumption
<1>5. PICK keep \in cp.len .. published :
        /\ published' = keep
        /\ reserved' = IF keep < published THEN keep ELSE reserved
        /\ storage' = [s \in Slots |-> IF keep <= s /\ s < published THEN Empty ELSE storage[s]]
        /\ view' = [t \in Threads |-> [birth |-> TRUE, current |-> TRUE, published |-> keep]]
  BY <1>1 DEF Unpublish
<1>6. reserved' \in keep .. reserved
  BY <1>2, <1>5
<1> QED
  BY <1>1, <1>4, <1>5, <1>6, ExclusiveCut

LEMMA ResetStep ==
    ASSUME IInv, Reset \/ Drain
    PROVE  IInv'
<1>1. /\ Exclusive /\ CommitBoundary(0) /\ Revoke(0) /\ identity.birth # NoStamp
      /\ UNCHANGED <<pc, job, serial>>
  BY DEF Reset, Drain
<1>2. published \in Nat /\ published <= reserved /\ reserved \in Nat
  BY SharedAssumption DEF IInv, TypeOK, CountersSound
<1>3. PICK keep \in 0 .. published :
        /\ published' = keep
        /\ reserved' = IF keep < published THEN keep ELSE reserved
        /\ storage' = [s \in Slots |-> IF keep <= s /\ s < published THEN Empty ELSE storage[s]]
        /\ view' = [t \in Threads |-> [birth |-> TRUE, current |-> TRUE, published |-> keep]]
  <2>1. CASE Reset
    BY <2>1 DEF Reset, Unpublish
  <2>2. CASE Drain
    <3>1. 0 \in 0 .. published /\ (published > 0 <=> 0 < published)
      BY <1>2
    <3>2. \A s \in Slots : 0 <= s
      BY SharedAssumption DEF Slots
    <3> QED
      BY <2>2, <3>1, <3>2 DEF Drain
  <2> QED
    BY <2>1, <2>2
<1>4. reserved' \in keep .. reserved /\ 0 \in 0 .. published
  BY <1>2, <1>3
<1> QED
  BY <1>1, <1>3, <1>4, ExclusiveCut

-----------------------------------------------------------------------------
(***************************************************************************)
(* The invariant.                                                          *)
(***************************************************************************)

LEMMA StepStep ==
    ASSUME IInv, NEW t \in Threads, Step(t)
    PROVE  IInv'
BY LoadCurrentStep, LoadBirthStep, LoadZeroStep, AssignStep, StoreCurrentStep, PanicStep,
   ReserveStep, SetSlotStep, LoadPublishedStep, ProbeStep, AgainStep, AdvanceStep
DEF Step

LEMMA IInvInit == Init => IInv
<1> SUFFICES ASSUME Init
             PROVE  IInv
  OBVIOUS
<1>1. /\ identity = Unassigned /\ reserved = 0 /\ published = 0
      /\ storage = [s \in Slots |-> Empty]
      /\ pc = [t \in Threads |-> "idle"] /\ job = [t \in Threads |-> NoJob]
      /\ view = [t \in Threads |-> [birth |-> FALSE, current |-> FALSE, published |-> 0]]
      /\ used = {} /\ serial = 0 /\ live = {} /\ stale = {} /\ saved = {} /\ spoiled = {}
  BY DEF Init
<1>2. /\ identity.birth = NoStamp /\ identity.current = NoStamp /\ identity.current_start = 0
      /\ identity = [Unassigned EXCEPT !.birth = identity.birth]
  BY <1>1 DEF Unassigned
<1>3. identity \in [birth : Stamp \cup {NoStamp}, current : Stamp \cup {NoStamp},
                    current_start : Nat, prefix_tail : Stamp \cup {NoStamp},
                    table : Seq(Segment)]
  <2>1. << >> \in Seq(Segment)
    OBVIOUS
  <2> QED
    BY <1>1, <2>1 DEF Unassigned
<1>4. \A t \in Threads : pc[t] = "idle" /\ job[t] = NoJob /\ ~Pending(t)
  BY <1>1 DEF Pending
<1>5. TypeOK
  <2>1. "idle" \in Calls /\ 0 \in 0 .. MaxSlots /\ 0 \in 0 .. 0
    BY SharedAssumption DEF Calls
  <2> QED
    BY <1>1, <1>2, <1>3, <2>1, NoJobTyped DEF TypeOK
<1>6. IdentitySound /\ IdentityClaimed
  BY <1>2, <1>4 DEF IdentitySound, IdentityClaimed
<1>7. CountersSound
  BY <1>1, <1>2 DEF CountersSound, Slots
<1>8. ThreadsSound /\ RangesApart
  BY <1>1, <1>2, <1>4, NoJobTyped
  DEF ThreadsSound, RangesApart, JobShaped, ViewFollows, RangeSound, MarkSound
<1>9. LiveCovered /\ StaleUncovered /\ IndicesKnown /\ SavedCovered /\ SpoiledUncovered /\ CheckpointsKnown
  BY <1>1 DEF LiveCovered, StaleUncovered, IndicesKnown, SavedCovered, SpoiledUncovered, CheckpointsKnown
<1> QED
  BY <1>5, <1>6, <1>7, <1>8, <1>9 DEF IInv

LEMMA IInvNext == IInv /\ [Next]_vars => IInv'
<1> SUFFICES ASSUME IInv, [Next]_vars
             PROVE  IInv'
  OBVIOUS
<1>1. ASSUME NEW t \in Threads, NEW n \in 1 .. MaxBlock, StartAlloc(t, n)
      PROVE  IInv'
  BY <1>1, StartAllocStep
<1>2. ASSUME NEW t \in Threads, NEW p \in 0 .. published,
             StartCheckpoint(t, p) \/ \E slot \in 0 .. p - 1 : IterIndexed(t, p, slot)
      PROVE  IInv'
  BY <1>2, StartCheckpointStep, IterIndexedStep
<1>3. ASSUME NEW t \in Threads, Step(t)
      PROVE  IInv'
  BY <1>3, StepStep
<1>4. ASSUME NEW cp \in saved \cup spoiled, TryRollback(cp)
      PROVE  IInv'
  BY <1>4, TryRollbackStep
<1>5. CASE Reset \/ Drain
  BY <1>5, ResetStep
<1>6. CASE CommitExhausted
  BY <1>6, CommitExhaustedStep
<1>7. CASE UNCHANGED vars
  BY <1>7
  DEF vars, IInv, TypeOK, IdentitySound, IdentityClaimed, CountersSound, ThreadsSound, RangesApart,
      Apart, LiveCovered, Covered, StaleUncovered, IndicesKnown, SavedCovered, InPlace, TailStamp,
      SpoiledUncovered, CheckpointsKnown, JobShaped, ViewFollows, RangeSound, MarkSound, Pending
<1> QED
  BY <1>1, <1>2, <1>3, <1>4, <1>5, <1>6, <1>7 DEF Next

(* The invariant holds in every reachable state of every instance.         *)
THEOREM Inductive == Spec => []IInv
BY IInvInit, IInvNext, PTL DEF Spec

-----------------------------------------------------------------------------
(***************************************************************************)
(* Slots of calls that panicked.                                           *)
(***************************************************************************)

LEMMA ArenaNumbers ==
    ASSUME IInv
    PROVE  /\ published \in Nat /\ reserved \in Nat /\ MaxSlots \in Nat /\ Addressable \in Nat
           /\ published <= reserved /\ reserved <= MaxSlots /\ Addressable <= MaxSlots
           /\ storage \in [Slots -> Nat \cup {Empty}] /\ Empty \notin Nat
           /\ Slots = { s \in Nat : s < MaxSlots }
BY SharedAssumption DEF IInv, TypeOK, CountersSound, Slots

(* A slot a call is filling, or has filled, is in its range.               *)
LEMMA FillingFacts ==
    ASSUME IInv, NEW u \in Threads, NEW s \in Nat
    PROVE  /\ Filling(u, s) => /\ Pending(u) /\ s \in Slots /\ s < reserved
                               /\ job[u].start <= s /\ s < job[u].start + job[u].n
           /\ Filled(u, s) => /\ s \in Slots /\ s < reserved /\ storage[s] # Empty
                              /\ job[u].start <= s /\ s < job[u].start + job[u].n
           /\ ~(Filling(u, s) /\ Filled(u, s))
           /\ \A v \in Threads : Filling(u, s) /\ Filling(v, s) => u = v
           /\ \A v \in Threads : ~(Filling(u, s) /\ Filled(v, s))
<1>1. /\ reserved \in Nat /\ MaxSlots \in Nat /\ reserved <= MaxSlots /\ Empty \notin Nat
      /\ Slots = { x \in Nat : x < MaxSlots }
  BY ArenaNumbers
<1>2. ASSUME NEW v \in Threads
      PROVE  /\ job[v].start \in Nat /\ job[v].n \in Nat /\ job[v].done \in Nat /\ job[v].first \in Nat
             /\ Pending(v) =>
                  /\ job[v].start + job[v].n <= reserved
                  /\ \A k \in 0 .. job[v].done - 1 : storage[job[v].start + k] = job[v].first + k
                  /\ job[v].done <= job[v].n
  <2>1. JobShaped(v) /\ RangeSound(v)
    BY DEF IInv, ThreadsSound
  <2>2. job[v].start \in Nat /\ job[v].n \in Nat /\ job[v].done \in Nat /\ job[v].first \in Nat
    BY JobFields DEF IInv
  <2>3. Pending(v) => job[v].done <= job[v].n
    BY <2>1, <2>2 DEF JobShaped, Pending
  <2> QED
    BY <2>1, <2>2, <2>3 DEF RangeSound
<1>3. ASSUME NEW v \in Threads, Filling(v, s)
      PROVE  /\ Pending(v) /\ s \in Slots /\ s < reserved
             /\ job[v].start <= s /\ s < job[v].start + job[v].n
  <2>1. Pending(v) /\ job[v].start + job[v].done <= s /\ s <= job[v].start + job[v].n - 1
    BY <1>3 DEF Filling, Pending, NextSlot, Last
  <2> QED
    BY <1>1, <1>2, <2>1
<1>4. ASSUME NEW v \in Threads, Filled(v, s)
      PROVE  /\ Pending(v) /\ s \in Slots /\ s < reserved /\ storage[s] # Empty
             /\ job[v].start <= s /\ s < job[v].start + job[v].n
  <2>1. Pending(v) /\ job[v].start <= s /\ s < job[v].start + job[v].done
    BY <1>4 DEF Filled, NextSlot
  <2>2. s - job[v].start \in 0 .. job[v].done - 1
    BY <1>2, <2>1
  <2>3. storage[job[v].start + (s - job[v].start)] = job[v].first + (s - job[v].start)
    BY <1>2, <2>1, <2>2
  <2>4. storage[s] \in Nat
    BY <1>2, <2>1, <2>3
  <2> QED
    BY <1>1, <1>2, <2>1, <2>4
<1>5. ~(Filling(u, s) /\ Filled(u, s))
  BY <1>2 DEF Filling, Filled, NextSlot
<1>6. ASSUME NEW v \in Threads, u # v, Pending(u), Pending(v),
             job[u].start <= s, s < job[u].start + job[u].n,
             job[v].start <= s, s < job[v].start + job[v].n
      PROVE  FALSE
  <2>1. Apart(u, v)
    BY <1>6 DEF IInv, RangesApart
  <2> QED
    BY <1>2, <1>6, <2>1 DEF Apart
<1> QED
  BY <1>3, <1>4, <1>5, <1>6

(* A thread's step that panics nowhere: it leaves no slot behind.          *)
LEMMA ServedStep ==
    ASSUME IInv, Served, IInv',
           published <= published', reserved <= reserved',
           \A s \in Slots : storage[s] # Empty => storage'[s] # Empty,
           \A s \in Slots : storage'[s] # Empty => s < Addressable,
           \A s \in Slots : Leftover(s)' => Leftover(s),
           \A s \in Slots : \A u \in Threads : Filling(u, s) =>
              storage'[s] # Empty \/ \E v \in Threads : Filling(v, s)',
           \A s \in Slots : reserved <= s /\ s < reserved' =>
              \E v \in Threads : Filling(v, s)'
    PROVE  Served'
<1>1. /\ published \in Nat /\ reserved \in Nat /\ MaxSlots \in Nat /\ Addressable \in Nat
      /\ Addressable <= MaxSlots /\ Slots = { s \in Nat : s < MaxSlots }
  BY ArenaNumbers
<1>2. published' \in Nat /\ reserved' \in Nat
  BY <1>1 DEF IInv, TypeOK
<1>3. ASSUME NEW s \in Slots,
             published' <= s, s < reserved', s < Addressable, storage'[s] = Empty
      PROVE  \E u \in Threads : Filling(u, s)'
  <2>1. s \in Nat /\ published <= s
    BY <1>1, <1>2, <1>3
  <2>2. CASE s < reserved
    <3>1. storage[s] = Empty
      BY <1>3
    <3>2. PICK u \in Threads : Filling(u, s)
      BY <1>3, <2>1, <2>2, <3>1 DEF Served
    <3> QED
      BY <1>3, <3>2
  <2>3. CASE ~(s < reserved)
    BY <1>1, <1>3, <2>1, <2>3
  <2> QED
    BY <2>2, <2>3
<1>4. ASSUME NEW s \in Slots, Leftover(s)', NEW r \in s .. Addressable - 1
      PROVE  storage'[r] # Empty
  <2>1. r \in Slots
    BY <1>1
  <2>2. storage[r] # Empty
    BY <1>4 DEF Served
  <2> QED
    BY <2>1, <2>2
<1>5. Addressable = MaxSlots => \A s \in Slots : ~Leftover(s)'
  BY DEF Served
<1> QED
  BY <1>3, <1>4, <1>5 DEF Served

(* In particular one that moves no range.                                  *)
LEMMA ServedQuiet ==
    ASSUME IInv, Served, IInv',
           published <= published', reserved' = reserved, storage' = storage,
           \A u \in Threads : Pending(u)' <=> Pending(u),
           \A u \in Threads : pc'[u] = "set" <=> pc[u] = "set",
           \A u \in Threads : Pending(u) =>
              job'[u].start = job[u].start /\ job'[u].n = job[u].n /\ job'[u].done = job[u].done
    PROVE  Served'
<1>1. published \in Nat /\ reserved \in Nat /\ MaxSlots \in Nat /\ published' \in Nat
  BY ArenaNumbers DEF IInv, TypeOK
<1>2. \A u \in Threads : pc[u] = "set" => Pending(u)
  BY DEF Pending
<1>3. ASSUME NEW s \in Slots, NEW u \in Threads
      PROVE  (Filling(u, s)' <=> Filling(u, s)) /\ (Filled(u, s)' <=> Filled(u, s))
  BY <1>2 DEF Filling, Filled, NextSlot, Last
<1>4. \A s \in Slots : Leftover(s)' => Leftover(s)
  BY <1>1, <1>3 DEF Leftover, Slots
<1>5. /\ reserved <= reserved' /\ \A s \in Slots : ~(reserved <= s /\ s < reserved')
      /\ \A s \in Slots : storage'[s] # Empty => s < Addressable
  BY <1>1 DEF Slots, Served
<1> QED
  BY <1>3, <1>4, <1>5, ServedStep

(* The steps before a range is reserved, and those that give it up before. *)
LEMMA ServedOutside ==
    ASSUME IInv, Served, IInv', NEW t \in Threads,
           \/ \E n \in 1 .. MaxBlock : StartAlloc(t, n)
           \/ \E p \in 0 .. published :
                StartCheckpoint(t, p) \/ \E slot \in 0 .. p - 1 : IterIndexed(t, p, slot)
           \/ LoadCurrent(t) \/ LoadBirth(t) \/ LoadZero(t) \/ Assign(t) \/ StoreCurrent(t)
           \/ Await(t) \/ StampsExhausted(t) \/ SlotsExhausted(t)
    PROVE  Served'
<1> DEFINE Outside == {"idle", "current", "birth", "assign", "store", "await", "reserve"}
           Quiet == /\ pc[t] \in Outside /\ pc'[t] \in Outside
                    /\ \A u \in Threads \ {t} : pc'[u] = pc[u] /\ job'[u] = job[u]
                    /\ UNCHANGED <<storage, reserved, published>>
<1>1. /\ pc \in [Threads -> Calls] /\ job \in [Threads -> Jobs]
      /\ job[t].ret \in {"none", "alloc", "tail", "owner"}
  BY JobFields DEF IInv, TypeOK
<1>2. ASSUME NEW stamp, Resume(t, stamp), pc[t] \in {"current", "birth", "await"},
             UNCHANGED <<storage, reserved, published>>
      PROVE  Quiet
  <2>1. job[t].ret \in {"alloc", "tail", "owner"}
    BY <1>1, <1>2 DEF IInv, ThreadsSound, JobShaped
  <2>2. CASE job[t].ret = "alloc"
    BY <1>1, <1>2, <2>2 DEF Resume, Goto
  <2>3. CASE job[t].ret = "tail"
    BY <1>1, <1>2, <2>3 DEF Resume, Goto
  <2>4. CASE job[t].ret = "owner"
    BY <1>1, <1>2, <2>4 DEF Resume, Goto
  <2> QED
    BY <2>1, <2>2, <2>3, <2>4
<1>3. Quiet
  <2>1. CASE LoadCurrent(t) \/ LoadBirth(t) \/ Await(t)
    BY <1>2, <2>1 DEF LoadCurrent, LoadBirth, Await
  <2>2. CASE LoadZero(t) \/ Assign(t) \/ StoreCurrent(t) \/ StampsExhausted(t) \/ SlotsExhausted(t)
    <3>1. PICK l \in Outside :
            /\ pc' = [pc EXCEPT ![t] = l] /\ pc[t] \in Outside
            /\ UNCHANGED <<storage, reserved, published>>
      BY <2>2 DEF LoadZero, Assign, StoreCurrent, StampsExhausted, SlotsExhausted, Goto
    <3>2. \A u \in Threads \ {t} : job'[u] = job[u]
      BY <1>1, <2>2 DEF LoadZero, Assign, StoreCurrent, StampsExhausted, SlotsExhausted
    <3> QED
      BY <1>1, <3>1, <3>2
  <2>3. CASE \E n \in 1 .. MaxBlock : StartAlloc(t, n)
    BY <1>1, <2>3 DEF StartAlloc, Goto
  <2>4. CASE \E p \in 0 .. published :
               StartCheckpoint(t, p) \/ \E slot \in 0 .. p - 1 : IterIndexed(t, p, slot)
    <3>1. CASE \E p \in 0 .. published : StartCheckpoint(t, p)
      BY <1>1, <3>1 DEF StartCheckpoint, Goto
    <3>2. CASE \E p \in 0 .. published : \E slot \in 0 .. p - 1 : IterIndexed(t, p, slot)
      BY <1>1, <3>2 DEF IterIndexed
    <3> QED
      BY <2>4, <3>1, <3>2
  <2> QED
    BY <2>1, <2>2, <2>3, <2>4
<1>4. \A u \in Threads : /\ Pending(u)' <=> Pending(u)
                         /\ pc'[u] = "set" <=> pc[u] = "set"
                         /\ Pending(u) => job'[u] = job[u]
  BY <1>3 DEF Pending
<1>5. published <= published'
  BY <1>3, ArenaNumbers
<1> QED
  BY <1>3, <1>4, <1>5, ServedQuiet

LEMMA ServedPublishing ==
    ASSUME IInv, Served, IInv', NEW t \in Threads,
           \/ \E p \in 0 .. published : LoadPublished(t, p)
           \/ Probe(t) \/ Spin(t) \/ Advance(t) \/ AdvanceFails(t)
    PROVE  Served'
<1>1. pc \in [Threads -> Calls] /\ job \in [Threads -> Jobs] /\ job[t] \in Jobs
  BY DEF IInv, TypeOK
<1>2. ASSUME pc'[t] \in {"load", "probe", "advance"}, pc[t] \in {"load", "probe", "advance"},
             \A u \in Threads \ {t} : pc'[u] = pc[u] /\ job'[u] = job[u],
             job'[t].start = job[t].start, job'[t].n = job[t].n, job'[t].done = job[t].done,
             storage' = storage, reserved' = reserved, published <= published'
      PROVE  Served'
  <2>1. \A u \in Threads : /\ Pending(u)' <=> Pending(u)
                           /\ pc'[u] = "set" <=> pc[u] = "set"
                           /\ Pending(u) => job'[u].start = job[u].start /\ job'[u].n = job[u].n
                                             /\ job'[u].done = job[u].done
    BY <1>2 DEF Pending
  <2> QED
    BY <1>2, <2>1, ServedQuiet
<1>3. published \in Nat /\ reserved \in Nat
  BY ArenaNumbers
<1>4. CASE Spin(t) \/ Advance(t) \/ AdvanceFails(t)
  <2>1. /\ pc[t] \in {"probe", "advance"} /\ pc' = [pc EXCEPT ![t] = "load"]
        /\ job' = [job EXCEPT ![t].p = 0]
        /\ UNCHANGED <<storage, reserved>> /\ published' \in {published, published + 1}
    BY <1>4 DEF Spin, Advance, AdvanceFails, Again, Goto
  <2>2. job'[t].start = job[t].start /\ job'[t].n = job[t].n /\ job'[t].done = job[t].done
    BY <1>1, <2>1 DEF Jobs
  <2> QED
    BY <1>1, <1>2, <1>3, <2>1, <2>2
<1>5. CASE Probe(t)
  BY <1>1, <1>2, <1>3, <1>5 DEF Probe, Goto
<1>6. ASSUME NEW p \in 0 .. published, LoadPublished(t, p)
      PROVE  Served'
  <2>1. pc[t] = "load" /\ UNCHANGED <<identity, storage, reserved, published>>
    BY <1>6 DEF LoadPublished
  <2>2. CASE ~(p > Last(t))
    <3>1. job' = [job EXCEPT ![t].p = p] /\ pc' = [pc EXCEPT ![t] = "probe"]
      BY <1>6, <2>2 DEF LoadPublished, Goto
    <3>2. job'[t].start = job[t].start /\ job'[t].n = job[t].n /\ job'[t].done = job[t].done
      BY <1>1, <3>1 DEF Jobs
    <3> QED
      BY <1>1, <1>2, <1>3, <2>1, <3>1, <3>2
  <2>3. CASE p > Last(t)
    <3>1. /\ job' = [job EXCEPT ![t] = NoJob] /\ pc' = [pc EXCEPT ![t] = "idle"]
      BY <1>6, <2>3 DEF LoadPublished, Goto
    <3>2. pc'[t] = "idle" /\ \A u \in Threads \ {t} : pc'[u] = pc[u] /\ job'[u] = job[u]
      BY <1>1, <3>1
    <3>3. ASSUME NEW s \in Slots, NEW u \in Threads
          PROVE  Filling(u, s)' <=> Filling(u, s)
      BY <2>1, <3>2 DEF Filling, NextSlot, Last
    <3>4. ASSUME NEW s \in Slots, Leftover(s)'
          PROVE  Leftover(s)
      <4>1. storage[s] # Empty /\ s \in Nat
        BY <2>1, <3>4, ArenaNumbers DEF Leftover
      <4>2. CASE \E u \in Threads : Filling(u, s)'
        BY <3>3, <4>1, <4>2 DEF Leftover
      <4>3. CASE published <= s /\ \A u \in Threads : ~Filled(u, s)'
        <5>1. ASSUME NEW u \in Threads, u # t
              PROVE  ~Filled(u, s)
          BY <3>2, <4>3, <5>1 DEF Filled, Pending, NextSlot
        <5>2. ~Filled(t, s)
          <6>1. p <= published /\ p \in Nat /\ job[t].start \in Nat /\ job[t].n \in Nat
            BY <1>3, JobFields DEF IInv
          <6>2. job[t].start + job[t].n <= published
            BY <1>3, <2>3, <6>1 DEF Last
          <6> QED
            BY <1>3, <4>1, <4>3, <6>1, <6>2, FillingFacts
        <5> QED
          BY <4>1, <4>3, <5>1, <5>2 DEF Leftover
      <4> QED
        BY <2>1, <3>4, <4>2, <4>3 DEF Leftover
    <3>5. /\ published <= published' /\ reserved <= reserved'
          /\ \A s \in Slots : ~(reserved <= s /\ s < reserved')
          /\ \A s \in Slots : storage'[s] # Empty => s < Addressable
      BY <1>3, <2>1 DEF Served, Slots
    <3> QED
      BY <2>1, <3>3, <3>4, <3>5, ServedStep
  <2> QED
    BY <2>2, <2>3
<1> QED
  BY <1>4, <1>5, <1>6

LEMMA ServedReserve ==
    ASSUME IInv, Served, IInv', NEW t \in Threads, Reserve(t)
    PROVE  Served'
<1>1. /\ pc[t] = "reserve" /\ reserved' = reserved + job[t].n /\ pc' = [pc EXCEPT ![t] = "set"]
      /\ job' = [job EXCEPT ![t].start = reserved]
      /\ UNCHANGED <<storage, published>>
      /\ pc \in [Threads -> Calls] /\ job \in [Threads -> Jobs] /\ job[t] \in Jobs
  BY DEF Reserve, Goto, IInv, TypeOK
<1>2. /\ job[t].n \in Nat /\ job[t].n > 0 /\ published \in Nat /\ reserved \in Nat
      /\ published <= reserved /\ ~Pending(t)
      /\ \A s \in Slots : s \in Nat
  BY <1>1, RangeFacts, ArenaNumbers DEF Pending
<1>3. job[t].done = 0
  BY <1>1, <1>2, RangeFacts DEF IInv, ThreadsSound, JobShaped
<1>4. /\ pc'[t] = "set" /\ job'[t].start = reserved /\ job'[t].n = job[t].n /\ job'[t].done = 0
      /\ \A u \in Threads \ {t} : pc'[u] = pc[u] /\ job'[u] = job[u]
  BY <1>1, <1>2, <1>3 DEF Jobs
<1>5. ASSUME NEW s \in Slots
      PROVE  /\ Filling(t, s)' <=> reserved <= s /\ s < reserved'
             /\ ~Filled(t, s)'
  BY <1>1, <1>2, <1>4 DEF Filling, Filled, NextSlot, Last
<1>6. ASSUME NEW s \in Slots, NEW u \in Threads, u # t
      PROVE  (Filling(u, s)' <=> Filling(u, s)) /\ (Filled(u, s)' <=> Filled(u, s))
  BY <1>4, <1>6 DEF Filling, Filled, NextSlot, Last, Pending
<1>7. ASSUME NEW s \in Slots
      PROVE  ~Filling(t, s) /\ ~Filled(t, s)
  BY <1>1, <1>2 DEF Filling, Filled
<1>8. ASSUME NEW s \in Slots, Leftover(s)'
      PROVE  Leftover(s)
  <2>1. storage[s] # Empty
    BY <1>1, <1>8 DEF Leftover
  <2>2. CASE Filling(t, s)'
    <3>1. published <= s /\ ~(s < reserved)
      BY <1>2, <1>5, <2>2
    <3>2. \A u \in Threads : ~Filled(u, s)
      BY <1>2, <3>1, FillingFacts
    <3> QED
      BY <2>1, <3>1, <3>2 DEF Leftover
  <2>3. CASE \E u \in Threads \ {t} : Filling(u, s)'
    BY <1>6, <2>1, <2>3 DEF Leftover
  <2>4. CASE published <= s /\ \A u \in Threads : ~Filled(u, s)'
    BY <1>6, <1>7, <2>1, <2>4 DEF Leftover
  <2> QED
    BY <1>1, <1>8, <2>2, <2>3, <2>4 DEF Leftover
<1>9. \A s \in Slots : storage'[s] # Empty => s < Addressable
  BY <1>1 DEF Served
<1>10. \A s \in Slots : \A u \in Threads : Filling(u, s) => \E v \in Threads : Filling(v, s)'
  BY <1>6, <1>7
<1>11. \A s \in Slots : reserved <= s /\ s < reserved' => \E v \in Threads : Filling(v, s)'
  BY <1>5
<1>12. published <= published' /\ reserved <= reserved'
  BY <1>1, <1>2
<1> QED
  BY <1>1, <1>8, <1>9, <1>10, <1>11, <1>12, ServedStep

LEMMA ServedSetSlot ==
    ASSUME IInv, Served, IInv', NEW t \in Threads, SetSlot(t)
    PROVE  Served'
<1> DEFINE x == NextSlot(t)
<1>1. /\ pc[t] = "set" /\ Pending(t) /\ x < Addressable /\ storage[x] = Empty
      /\ storage' = [storage EXCEPT ![x] = job[t].first + job[t].done]
      /\ job' = [job EXCEPT ![t].done = job[t].done + 1]
      /\ pc' = [pc EXCEPT ![t] = IF job[t].done + 1 = job[t].n THEN "load" ELSE "set"]
      /\ UNCHANGED <<reserved, published>>
      /\ pc \in [Threads -> Calls] /\ job \in [Threads -> Jobs] /\ job[t] \in Jobs
  BY DEF SetSlot, CanSet, Goto, IInv, TypeOK, Pending
<1>2. /\ job[t].start \in Nat /\ job[t].n \in Nat /\ job[t].done \in Nat /\ job[t].first \in Nat
      /\ job[t].start + job[t].n <= reserved
  BY <1>1, RangeFacts
<1>3. job[t].done < job[t].n
  BY <1>1 DEF IInv, ThreadsSound, JobShaped
<1>4. /\ published \in Nat /\ reserved \in Nat /\ MaxSlots \in Nat /\ reserved <= MaxSlots
      /\ storage \in [Slots -> Nat \cup {Empty}] /\ Empty \notin Nat
      /\ Slots = { s \in Nat : s < MaxSlots }
  BY ArenaNumbers
<1>5. x = job[t].start + job[t].done /\ x \in Nat /\ x \in Slots
  BY <1>2, <1>3, <1>4 DEF NextSlot
<1>6. /\ storage'[x] # Empty
      /\ \A s \in Slots : s # x => storage'[s] = storage[s]
  BY <1>2, <1>4, <1>5, <1>1
<1>7. /\ job'[t].start = job[t].start /\ job'[t].n = job[t].n /\ job'[t].done = job[t].done + 1
      /\ pc'[t] = IF job[t].done + 1 = job[t].n THEN "load" ELSE "set"
      /\ \A u \in Threads \ {t} : pc'[u] = pc[u] /\ job'[u] = job[u]
  BY <1>1 DEF Jobs
<1>8. Pending(t)' /\ Filling(t, x)
  BY <1>1, <1>2, <1>3, <1>5, <1>7 DEF Pending, Filling, Last
<1> HIDE DEF x
<1>9. ASSUME NEW s \in Slots
      PROVE  /\ Filling(t, s)' <=> Filling(t, s) /\ s # x
             /\ Filled(t, s)' <=> Filled(t, s) \/ s = x
  <2>1. s \in Nat
    BY <1>4
  <2>2. Filling(t, s) <=> x <= s /\ s < job[t].start + job[t].n
    BY <1>1, <1>2, <1>5, <2>1 DEF Filling, NextSlot, Last
  <2>3. Filling(t, s)' <=> pc'[t] = "set" /\ x + 1 <= s /\ s < job[t].start + job[t].n
    BY <1>2, <1>5, <1>7, <2>1 DEF Filling, NextSlot, Last
  <2>4. pc'[t] # "set" => x + 1 = job[t].start + job[t].n
    BY <1>2, <1>5, <1>7
  <2>5. Filled(t, s) <=> job[t].start <= s /\ s < x
    BY <1>1, <1>5 DEF Filled, NextSlot
  <2>6. Filled(t, s)' <=> job[t].start <= s /\ s < x + 1
    BY <1>2, <1>5, <1>7, <1>8 DEF Filled, NextSlot
  <2> QED
    BY <1>2, <1>5, <2>1, <2>2, <2>3, <2>4, <2>5, <2>6
<1>10. ASSUME NEW s \in Slots, NEW u \in Threads, u # t
       PROVE  (Filling(u, s)' <=> Filling(u, s)) /\ (Filled(u, s)' <=> Filled(u, s))
  BY <1>7, <1>10 DEF Filling, Filled, NextSlot, Last, Pending
<1>11. ASSUME NEW s \in Slots, Leftover(s)'
       PROVE  Leftover(s)
  <2>1. s # x
    <3> SUFFICES ASSUME s = x
                 PROVE  FALSE
      OBVIOUS
    <3>1. Filled(t, s)' /\ ~Filling(t, s)'
      BY <1>9
    <3>2. PICK u \in Threads : Filling(u, s)' /\ u # t
      BY <1>11, <3>1 DEF Leftover
    <3>3. Filling(u, x)
      BY <1>10, <3>2
    <3> QED
      BY <1>5, <1>8, <3>2, <3>3, FillingFacts
  <2>2. storage[s] # Empty
    BY <1>6, <1>11, <2>1 DEF Leftover
  <2>3. \A u \in Threads : (Filling(u, s)' => Filling(u, s)) /\ (Filled(u, s) => Filled(u, s)')
    BY <1>9, <1>10
  <2> QED
    BY <1>1, <1>11, <2>2, <2>3 DEF Leftover
<1>12. \A s \in Slots : storage[s] # Empty => storage'[s] # Empty
  BY <1>6
<1>13. \A s \in Slots : storage'[s] # Empty => s < Addressable
  <2> SUFFICES ASSUME NEW s \in Slots, storage'[s] # Empty
               PROVE  s < Addressable
    OBVIOUS
  <2>1. CASE s = x
    BY <1>1, <2>1 DEF x
  <2>2. CASE s # x
    BY <1>6, <2>2 DEF Served
  <2> QED
    BY <2>1, <2>2
<1>14. \A s \in Slots : \A u \in Threads : Filling(u, s) =>
          storage'[s] # Empty \/ \E v \in Threads : Filling(v, s)'
  BY <1>6, <1>9, <1>10
<1>15. /\ published <= published' /\ reserved <= reserved'
       /\ \A s \in Slots : ~(reserved <= s /\ s < reserved')
  BY <1>1, <1>4
<1> QED
  BY <1>11, <1>12, <1>13, <1>14, <1>15, ServedStep

(* The step that leaves slots behind: whatever the call did not fill is    *)
(* out of reach or occupied, up to the first slot out of reach.            *)
LEMMA ServedPanic ==
    ASSUME IInv, Served, IInv', NEW t \in Threads, SetPanics(t)
    PROVE  Served'
<1> DEFINE x == NextSlot(t)
<1>1. /\ pc[t] = "set" /\ Pending(t) /\ ~(x < Addressable /\ storage[x] = Empty)
      /\ job' = [job EXCEPT ![t] = NoJob] /\ pc' = [pc EXCEPT ![t] = "idle"]
      /\ UNCHANGED <<storage, reserved, published>>
      /\ pc \in [Threads -> Calls] /\ job \in [Threads -> Jobs]
  BY DEF SetPanics, CanSet, Goto, IInv, TypeOK, Pending
<1>2. /\ job[t].start \in Nat /\ job[t].n \in Nat /\ job[t].done \in Nat
      /\ job[t].start + job[t].n <= reserved
  BY <1>1, RangeFacts
<1>3. job[t].done < job[t].n
  BY <1>1 DEF IInv, ThreadsSound, JobShaped
<1>4. /\ published \in Nat /\ reserved \in Nat /\ MaxSlots \in Nat /\ reserved <= MaxSlots
      /\ Addressable \in Nat /\ Addressable <= MaxSlots
      /\ Slots = { s \in Nat : s < MaxSlots }
  BY ArenaNumbers
<1>5. x = job[t].start + job[t].done /\ x \in Nat /\ x \in Slots
  BY <1>2, <1>3, <1>4 DEF NextSlot
<1>6. Filling(t, x)
  BY <1>1, <1>2, <1>3, <1>5 DEF Filling, Last
<1>7. pc'[t] = "idle" /\ \A u \in Threads \ {t} : pc'[u] = pc[u] /\ job'[u] = job[u]
  BY <1>1
<1>8. ASSUME NEW s \in Slots
      PROVE  ~Filling(t, s)' /\ ~Filled(t, s)'
  BY <1>7 DEF Filling, Filled, Pending
<1>9. ASSUME NEW s \in Slots, NEW u \in Threads, u # t
      PROVE  (Filling(u, s)' <=> Filling(u, s)) /\ (Filled(u, s)' <=> Filled(u, s))
  BY <1>7, <1>9 DEF Filling, Filled, NextSlot, Last, Pending
<1>10. storage[x] # Empty => Leftover(x)
  BY <1>6 DEF Leftover
<1>11. \A s \in Slots : Filling(t, s) => x <= s
  BY DEF Filling
<1>12. \A s \in Slots : Filled(t, s) <=> job[t].start <= s /\ s < x
  BY <1>1 DEF Filled
<1> HIDE DEF x
<1>13. ASSUME NEW r \in Slots, x <= r, r < Addressable
       PROVE  storage[r] # Empty
  <2>1. x < Addressable /\ r \in x .. Addressable - 1
    BY <1>4, <1>5, <1>13
  <2>2. Leftover(x)
    BY <1>1, <1>10, <2>1 DEF x
  <2> QED
    BY <1>5, <2>1, <2>2 DEF Served
<1>14. Addressable # MaxSlots
  <2> SUFFICES ASSUME Addressable = MaxSlots
               PROVE  FALSE
    OBVIOUS
  <2>1. x < Addressable
    BY <1>4, <1>5
  <2>2. Leftover(x)
    BY <1>1, <1>10, <2>1 DEF x
  <2> QED
    BY <1>5, <2>2 DEF Served
<1>15. ASSUME NEW s \in Slots,
              published <= s, s < reserved, s < Addressable, storage[s] = Empty
       PROVE  \E u \in Threads : Filling(u, s)'
  <2>1. PICK u \in Threads : Filling(u, s)
    BY <1>15 DEF Served
  <2>2. u # t
    BY <1>11, <1>13, <1>15, <2>1
  <2> QED
    BY <1>9, <2>1, <2>2
<1>16. ASSUME NEW s \in Slots, Leftover(s)', NEW r \in s .. Addressable - 1
       PROVE  storage[r] # Empty
  <2>1. s \in Nat /\ r \in Nat /\ r \in Slots /\ s <= r /\ r < Addressable
    BY <1>4
  <2>2. CASE Leftover(s)
    BY <2>2 DEF Served
  <2>3. CASE ~Leftover(s)
    <3>1. storage[s] # Empty
      BY <1>1, <1>16 DEF Leftover
    <3>2. \A u \in Threads : ~Filling(u, s)
      BY <2>3, <3>1 DEF Leftover
    <3>3. published <= s /\ \A u \in Threads : ~Filled(u, s)'
      BY <1>1, <1>8, <1>9, <1>16, <3>2 DEF Leftover
    <3>4. Filled(t, s)
      BY <1>9, <2>3, <3>1, <3>3 DEF Leftover
    <3>5. CASE r < x
      <4>1. Filled(t, r)
        BY <1>2, <1>12, <2>1, <3>4, <3>5
      <4> QED
        BY <2>1, <4>1, FillingFacts
    <3>6. CASE ~(r < x)
      BY <1>5, <1>13, <2>1, <3>6
    <3> QED
      BY <3>5, <3>6
  <2> QED
    BY <2>2, <2>3
<1> QED
  BY <1>1, <1>14, <1>15, <1>16 DEF Served

(* An exclusive cut returns the slots it empties to `reserved`; what lies  *)
(* above the published prefix stays, and still reaches the top.            *)
LEMMA ServedCut ==
    ASSUME IInv, Served, IInv', Exclusive, NEW keep \in 0 .. published,
           published' = keep, reserved' = IF keep < published THEN keep ELSE reserved,
           storage' = [s \in Slots |-> IF keep <= s /\ s < published THEN Empty ELSE storage[s]],
           UNCHANGED pc
    PROVE  Served'
<1>1. /\ published \in Nat /\ reserved \in Nat /\ MaxSlots \in Nat
      /\ Addressable \in Nat /\ Addressable <= MaxSlots /\ keep \in Nat /\ keep <= published
      /\ storage \in [Slots -> Nat \cup {Empty}]
      /\ Slots = { s \in Nat : s < MaxSlots }
  BY ArenaNumbers
<1>2. ASSUME NEW s \in Slots, NEW u \in Threads
      PROVE  ~Filling(u, s) /\ ~Filling(u, s)' /\ ~Filled(u, s) /\ ~Filled(u, s)'
  BY DEF Exclusive, Filling, Filled, Pending
<1>3. \A s \in Slots : storage'[s] = IF keep <= s /\ s < published THEN Empty ELSE storage[s]
  OBVIOUS
<1>4. \A s \in Slots : storage'[s] # Empty => s < Addressable
  BY <1>3 DEF Served
<1>5. ASSUME NEW s \in Slots,
             keep <= s, s < reserved', s < Addressable, storage'[s] = Empty
      PROVE  FALSE
  <2>1. s \in Nat
    BY <1>1
  <2>2. keep = published /\ reserved' = reserved
    BY <1>1, <1>5, <2>1
  <2>3. storage[s] = Empty
    BY <1>1, <1>3, <1>5, <2>1, <2>2
  <2> QED
    BY <1>2, <1>5, <2>2, <2>3 DEF Served
<1>6. ASSUME NEW s \in Slots, Leftover(s)'
      PROVE  Leftover(s) /\ published <= s
  <2>1. s \in Nat /\ storage'[s] # Empty /\ keep <= s
    BY <1>1, <1>2, <1>6 DEF Leftover
  <2>2. published <= s /\ storage[s] # Empty
    BY <1>1, <1>3, <2>1
  <2> QED
    BY <1>2, <2>2 DEF Leftover
<1>7. ASSUME NEW s \in Slots, Leftover(s)', NEW r \in s .. Addressable - 1
      PROVE  storage'[r] # Empty
  <2>1. Leftover(s) /\ published <= s /\ s \in Nat
    BY <1>1, <1>6, <1>7
  <2>2. r \in Slots /\ ~(r < published)
    BY <1>1, <2>1
  <2>3. storage[r] # Empty
    BY <2>1 DEF Served
  <2> QED
    BY <1>3, <2>2, <2>3
<1>8. Addressable = MaxSlots => \A s \in Slots : ~Leftover(s)'
  BY <1>6 DEF Served
<1> QED
  BY <1>4, <1>5, <1>7, <1>8 DEF Served

LEMMA ServedExclusive ==
    ASSUME IInv, Served, IInv',
           \/ \E cp \in saved \cup spoiled : TryRollback(cp)
           \/ Reset \/ Drain
    PROVE  Served'
<1>1. published \in Nat
  BY ArenaNumbers
<1>2. ASSUME NEW n \in Nat, Exclusive, Unpublish(n), UNCHANGED pc
      PROVE  Served'
  <2>1. PICK keep \in n .. published :
          /\ published' = keep
          /\ reserved' = IF keep < published THEN keep ELSE reserved
          /\ storage' = [s \in Slots |-> IF keep <= s /\ s < published THEN Empty ELSE storage[s]]
    BY <1>2 DEF Unpublish
  <2>2. keep \in 0 .. published
    BY <1>1
  <2> QED
    BY <1>2, <2>1, <2>2, ServedCut
<1>3. ASSUME NEW cp \in saved \cup spoiled, TryRollback(cp)
      PROVE  Served'
  <2>1. cp.len \in Nat
    BY DEF IInv, TypeOK
  <2> QED
    BY <1>2, <1>3, <2>1 DEF TryRollback
<1>4. CASE Reset
  BY <1>2, <1>4 DEF Reset
<1>5. CASE Drain
  <2>1. 0 \in 0 .. published /\ (published > 0 <=> 0 < published)
    BY <1>1
  <2>2. \A s \in Slots : 0 <= s
    BY ArenaNumbers
  <2>3. /\ Exclusive /\ published' = 0 /\ UNCHANGED pc
        /\ reserved' = IF 0 < published THEN 0 ELSE reserved
        /\ storage' = [s \in Slots |-> IF 0 <= s /\ s < published THEN Empty ELSE storage[s]]
    BY <1>5, <2>1, <2>2 DEF Drain
  <2> QED
    BY <2>1, <2>3, ServedCut
<1> QED
  BY <1>3, <1>4, <1>5

LEMMA ServedInit == Init => Served
<1> SUFFICES ASSUME Init
             PROVE  Served
  OBVIOUS
<1>1. /\ storage = [s \in Slots |-> Empty] /\ reserved = 0 /\ published = 0
  BY DEF Init
<1> QED
  BY <1>1 DEF Served, Leftover, Slots

LEMMA ServedNext == IInv /\ Served /\ [Next]_vars => Served'
<1> SUFFICES ASSUME IInv, Served, [Next]_vars
             PROVE  Served'
  OBVIOUS
<1>0. IInv'
  BY IInvNext
<1>1. ASSUME NEW t \in Threads, NEW n \in 1 .. MaxBlock, StartAlloc(t, n)
      PROVE  Served'
  BY <1>0, <1>1, ServedOutside
<1>2. ASSUME NEW t \in Threads, NEW p \in 0 .. published,
             StartCheckpoint(t, p) \/ \E slot \in 0 .. p - 1 : IterIndexed(t, p, slot)
      PROVE  Served'
  BY <1>0, <1>2, ServedOutside
<1>3. ASSUME NEW t \in Threads, Step(t)
      PROVE  Served'
  BY <1>0, <1>3, ServedOutside, ServedPublishing, ServedReserve, ServedSetSlot, ServedPanic DEF Step
<1>4. CASE (\E cp \in saved \cup spoiled : TryRollback(cp)) \/ Reset \/ Drain
  BY <1>0, <1>4, ServedExclusive
<1>5. CASE CommitExhausted \/ UNCHANGED vars
  <2>1. UNCHANGED <<storage, reserved, published, pc, job>>
    BY <1>5 DEF CommitExhausted, vars
  <2>2. published <= published'
    BY <2>1, ArenaNumbers
  <2>3. \A u \in Threads : Pending(u)' <=> Pending(u)
    BY <2>1 DEF Pending
  <2> QED
    BY <1>0, <2>1, <2>2, <2>3, ServedQuiet
<1> QED
  BY <1>1, <1>2, <1>3, <1>4, <1>5 DEF Next

THEOREM ServedInductive == Spec => []Served
BY IInvInit, IInvNext, ServedInit, ServedNext, PTL DEF Spec

-----------------------------------------------------------------------------
(***************************************************************************)
(* What follows.                                                           *)
(***************************************************************************)

(* The reordered validation answers what the lookup would.                 *)
LEMMA MatchesLookup ==
    ASSUME TypeOK, IdentitySound, identity.current # NoStamp, NEW slot \in Nat, NEW stamp
    PROVE  /\ StampOf(identity, slot) = stamp => Matches(slot, stamp)
           /\ Matches(slot, stamp) =>
                \/ StampOf(identity, slot) = stamp
                \/ stamp = identity.current /\ ~(slot >= identity.current_start)
<1>1. identity \in Identity /\ WellFormed(identity)
  BY CompleteIdentity
<1>2. StampOf(identity, slot) = IF slot >= identity.current_start
                                THEN identity.current
                                ELSE StampOfCold(identity.birth, identity.table, slot)
  BY <1>1, StampOfSearch, ArchiveFacts DEF WellFormed
<1>3. slot < identity.current_start <=> ~(slot >= identity.current_start)
  BY IdentityFields
<1> QED
  BY <1>2, <1>3 DEF Matches, MatchesArchived

LEMMA InvIndicesExact == IInv => IndicesExact
<1> SUFFICES ASSUME IInv
             PROVE  IndicesExact
  OBVIOUS
<1>1. TypeOK /\ IdentitySound /\ published \in Nat
  BY ArenaNumbers DEF IInv
<1>2. ASSUME NEW i \in live
      PROVE  IsValid(i) /\ storage[i.slot] = i.value
  <2>1. i.slot \in Nat /\ Covered(i)
    BY <1>1 DEF TypeOK, IndexSet, IInv, LiveCovered
  <2>2. published > 0
    BY <1>1, <2>1 DEF Covered
  <2>3. identity.current # NoStamp
    BY <1>1, <2>2, PublishedComplete DEF IInv
  <2> QED
    BY <1>1, <2>1, <2>3, MatchesLookup DEF Covered, IsValid
<1>3. ASSUME NEW i \in stale, IsValid(i)
      PROVE  FALSE
  <2>1. i.slot \in Nat /\ identity.current # NoStamp /\ StampOf(identity, i.slot) # i.stamp
    BY <1>1 DEF TypeOK, IndexSet, IInv, StaleUncovered
  <2>2. i.stamp = identity.current => i.slot >= identity.current_start
    BY DEF IInv, IndicesKnown
  <2> QED
    BY <1>1, <1>3, <2>1, <2>2, MatchesLookup DEF IsValid
<1> QED
  BY <1>2, <1>3 DEF IndicesExact

LEMMA InvCheckpointsExact == IInv => CheckpointsExact
<1> SUFFICES ASSUME IInv
             PROVE  CheckpointsExact
  OBVIOUS
<1>1. published \in Nat /\ \A cp \in saved \cup spoiled : cp.len \in Nat /\ cp.owner = identity.birth
  BY ArenaNumbers DEF IInv, TypeOK, CheckpointsKnown
<1>2. ASSUME NEW cp \in saved
      PROVE  /\ ValidateCheckpoint(cp) = "Ok"
             /\ \A s \in DOMAIN cp.prefix : storage[s] = cp.prefix[s]
  <2>1. InPlace(cp)
    BY DEF IInv, SavedCovered
  <2>2. ~(cp.len > published) /\ cp.owner = identity.birth
    BY <1>1, <2>1 DEF InPlace
  <2> QED
    BY <2>1, <2>2 DEF InPlace, ValidateCheckpoint
<1>3. ASSUME NEW cp \in spoiled
      PROVE  ValidateCheckpoint(cp) # "Ok"
  <2>1. cp.len > 0 /\ StampOf(identity, cp.len - 1) # cp.tail
    BY DEF IInv, SpoiledUncovered
  <2>2. TailStamp(identity, cp.len) # cp.tail
    BY <1>1, <2>1 DEF TailStamp
  <2> QED
    BY <2>2 DEF ValidateCheckpoint
<1> QED
  BY <1>2, <1>3 DEF CheckpointsExact

LEMMA InvIdentityAgreed == IInv => IdentityAgreed
<1> SUFFICES ASSUME IInv
             PROVE  IdentityAgreed
  OBVIOUS
<1>1. ASSUME NEW t \in Threads
      PROVE  /\ job[t].ret = "alloc" /\ pc[t] \in {"reserve", "set", "load", "probe", "advance"} =>
                   job[t].stamp = identity.current
             /\ job[t].fresh # NoStamp => job[t].fresh = identity.birth
  BY DEF IInv, ThreadsSound, RangeSound, JobShaped, IdentityClaimed, Pending
<1> QED
  BY <1>1 DEF IdentityAgreed, IInv, CheckpointsKnown, IdentitySound

LEMMA InvWaitsServed == IInv /\ Served => WaitsServed
<1> SUFFICES ASSUME IInv, Served,
                    NEW t \in Threads, pc[t] \in {"load", "probe", "advance"},
                    NEW s \in published .. Last(t), storage[s] = Empty
             PROVE  \E u \in Threads :
                      /\ pc[u] = "set" /\ s \in NextSlot(u) .. Last(u)
                      /\ \A r \in NextSlot(u) .. s : CanSet(r)
  BY DEF WaitsServed
<1>1. Pending(t)
  BY DEF Pending
<1>2. /\ job[t].start \in Nat /\ job[t].n \in Nat /\ job[t].n > 0 /\ job[t].start + job[t].n <= reserved
      /\ job[t].done = job[t].n /\ job[t].first \in Nat
      /\ \A k \in 0 .. job[t].done - 1 : storage[job[t].start + k] = job[t].first + k
  BY <1>1, RangeFacts DEF IInv, ThreadsSound, JobShaped
<1>3. /\ published \in Nat /\ reserved \in Nat /\ MaxSlots \in Nat /\ reserved <= MaxSlots
      /\ Addressable \in Nat /\ Addressable <= MaxSlots
      /\ Empty \notin Nat /\ Slots = { x \in Nat : x < MaxSlots }
  BY ArenaNumbers
<1>4. Last(t) < Addressable
  <2>1. Last(t) = job[t].start + (job[t].n - 1) /\ job[t].n - 1 \in 0 .. job[t].done - 1
    BY <1>2 DEF Last
  <2>2. storage[Last(t)] = job[t].first + (job[t].n - 1)
    BY <1>2, <2>1
  <2>3. storage[Last(t)] # Empty /\ Last(t) \in Slots
    BY <1>2, <1>3, <2>1, <2>2
  <2> QED
    BY <2>3 DEF Served
<1>5. /\ s \in Nat /\ published <= s /\ s <= Last(t) /\ Last(t) \in Nat
      /\ s < reserved /\ s < Addressable /\ s \in Slots
  BY <1>2, <1>3, <1>4 DEF Last
<1>6. PICK u \in Threads : Filling(u, s)
  BY <1>5 DEF Served
<1>7. /\ pc[u] = "set" /\ NextSlot(u) <= s /\ s <= Last(u)
      /\ NextSlot(u) \in Nat /\ Last(u) \in Int
  BY <1>6, JobFields DEF IInv, Filling, NextSlot, Last
<1>8. ASSUME NEW r \in NextSlot(u) .. s
      PROVE  CanSet(r)
  <2>1. r \in Nat /\ r <= s /\ r \in Slots /\ r < Addressable /\ s \in r .. Addressable - 1
    BY <1>3, <1>5, <1>7
  <2>2. Filling(u, r)
    BY <1>5, <1>7, <2>1 DEF Filling
  <2>3. storage[r] = Empty
    BY <2>1, <2>2 DEF Served, Leftover
  <2> QED
    BY <2>1, <2>3 DEF CanSet
<1> QED
  BY <1>5, <1>7, <1>8

LEMMA InvFilled == IInv /\ Served /\ Addressable = MaxSlots => PublishedFilled /\ NoSlotOccupied
<1> SUFFICES ASSUME IInv, Served, Addressable = MaxSlots
             PROVE  PublishedFilled /\ NoSlotOccupied
  OBVIOUS
<1>1. /\ published \in Nat /\ reserved \in Nat /\ MaxSlots \in Nat
      /\ published <= reserved /\ reserved <= MaxSlots
      /\ Slots = { x \in Nat : x < MaxSlots }
  BY ArenaNumbers
<1>2. \A s \in Slots : ~Leftover(s)
  BY DEF Served
<1>3. ASSUME NEW s \in Slots, s >= reserved
      PROVE  storage[s] = Empty
  <2>1. s \in Nat /\ published <= s /\ ~(s < reserved)
    BY <1>1, <1>3
  <2>2. \A u \in Threads : ~Filled(u, s)
    BY <2>1, FillingFacts
  <2> QED
    BY <1>2, <2>1, <2>2 DEF Leftover
<1>4. ASSUME Exclusive
      PROVE  reserved = published
  <2> SUFFICES ASSUME published # reserved
               PROVE  FALSE
    OBVIOUS
  <2>1. published \in Slots /\ published < reserved /\ published < Addressable
    BY <1>1
  <2>2. \A u \in Threads : ~Filling(u, published) /\ ~Filled(u, published)
    BY <1>4 DEF Exclusive, Filling, Filled, Pending
  <2> QED
    BY <1>1, <1>2, <2>1, <2>2 DEF Served, Leftover
<1>5. ASSUME NEW t \in Threads, pc[t] = "set"
      PROVE  NextSlot(t) \in Slots /\ storage[NextSlot(t)] = Empty
  <2>1. Pending(t)
    BY <1>5 DEF Pending
  <2>2. /\ job[t].start \in Nat /\ job[t].n \in Nat /\ job[t].done \in Nat
        /\ job[t].start + job[t].n <= reserved
    BY <2>1, RangeFacts
  <2>3. job[t].done < job[t].n
    BY <1>5 DEF IInv, ThreadsSound, JobShaped
  <2>4. NextSlot(t) \in Slots /\ Filling(t, NextSlot(t))
    BY <1>1, <1>5, <2>2, <2>3 DEF NextSlot, Last, Filling
  <2> QED
    BY <1>2, <2>4 DEF Leftover
<1> QED
  BY <1>1, <1>3, <1>4, <1>5 DEF PublishedFilled, NoSlotOccupied, IInv, CountersSound

(* Only an exclusive operation shrinks the prefix or touches a slot in it. *)
LEMMA StepStable ==
    ASSUME IInv, [Next]_vars, ~Exclusive
    PROVE  /\ published' >= published
           /\ \A s \in Slots : s < published => storage'[s] = storage[s]
<1>1. /\ published \in Nat /\ storage \in [Slots -> Nat \cup {Empty}]
      /\ \A s \in Slots : s < published => storage[s] # Empty
  BY ArenaNumbers DEF IInv, CountersSound
<1>2. \/ \E t \in Threads :
           \/ \E n \in 1 .. MaxBlock : StartAlloc(t, n)
           \/ \E p \in 0 .. published :
                StartCheckpoint(t, p) \/ \E slot \in 0 .. p - 1 : IterIndexed(t, p, slot)
           \/ Step(t)
      \/ UNCHANGED vars
  BY DEF Next, TryRollback, Reset, Drain, CommitExhausted
<1>3. \/ UNCHANGED <<storage, published>>
      \/ \E t \in Threads : SetSlot(t) \/ Advance(t)
  <2>1. ASSUME NEW t \in Threads, Step(t)
        PROVE  UNCHANGED <<storage, published>> \/ SetSlot(t) \/ Advance(t)
    BY <2>1
    DEF Step, LoadCurrent, LoadBirth, LoadZero, Assign, StoreCurrent, Await, StampsExhausted,
        Reserve, SlotsExhausted, SetPanics, LoadPublished, Probe, Spin, AdvanceFails
  <2> QED
    BY <1>2, <2>1 DEF StartAlloc, StartCheckpoint, IterIndexed, vars
<1>4. ASSUME NEW t \in Threads, SetSlot(t)
      PROVE  UNCHANGED published /\ \A s \in Slots : storage[s] # Empty => storage'[s] = storage[s]
  BY <1>1, <1>4 DEF SetSlot, CanSet
<1>5. ASSUME NEW t \in Threads, Advance(t)
      PROVE  UNCHANGED storage /\ published' = published + 1
  BY <1>5 DEF Advance
<1> QED
  BY <1>1, <1>3, <1>4, <1>5

-----------------------------------------------------------------------------
(***************************************************************************)
(* The theorems.                                                           *)
(***************************************************************************)

(* The whole state is typed in every reachable state.                      *)
THEOREM TypeCorrect == Spec => []TypeOK
<1>1. IInv => TypeOK
  BY DEF IInv
<1> QED
  BY <1>1, Inductive, PTL

(* However allocations, checkpoints and iterators of any number of threads *)
(* interleave, panics in the middle of a block and destructors that panic  *)
(* included, an index is valid and names its value until an exclusive      *)
(* operation revokes it, and never after (alloc_block, is_valid, try_get). *)
THEOREM IndicesAreExact == Spec => []IndicesExact
BY InvIndicesExact, Inductive, PTL

(* A checkpoint is accepted exactly until an exclusive operation cuts      *)
(* below its length; until then its prefix is in place                     *)
(* (checkpoint, validate_checkpoint, try_rollback).                        *)
THEOREM CheckpointsAreExact == Spec => []CheckpointsExact
BY InvCheckpointsExact, Inductive, PTL

(* All threads that race to assign the identity go on with the stamp that  *)
(* won, weak loads of it included (SharedIdentity::assign).                *)
THEOREM IdentityIsAgreed == Spec => []IdentityAgreed
BY InvIdentityAgreed, Inductive, PTL

(* No call waits for a slot nobody will fill, whatever panicked before     *)
(* (advance_published, reserve_range).                                     *)
THEOREM WaitsAreServed == Spec => []WaitsServed
BY InvWaitsServed, Inductive, ServedInductive, PTL

(* Where every slot can be addressed, no slot is lost: none below the      *)
(* published prefix is empty, none from `reserved` on is occupied, and     *)
(* between calls the two counters agree.                                   *)
THEOREM NoSlotLost ==
    ASSUME Addressable = MaxSlots
    PROVE  Spec => []PublishedFilled
<1>1. IInv /\ Served => PublishedFilled
  BY InvFilled
<1> QED
  BY <1>1, Inductive, ServedInductive, PTL

(* Where every slot can be addressed, no call ever finds a slot of the     *)
(* range it reserved occupied: the assertions of alloc and alloc_block     *)
(* never fire, whatever exclusive operations recycled before.              *)
THEOREM AssertionsNeverFire ==
    ASSUME Addressable = MaxSlots
    PROVE  Spec => []NoSlotOccupied
<1>1. IInv /\ Served => NoSlotOccupied
  BY InvFilled
<1> QED
  BY <1>1, Inductive, ServedInductive, PTL

(* A reference handed out by get stays what it was while any `&self` call  *)
(* is in progress.                                                         *)
THEOREM PublishedIsStable == Spec => PublishedStable
<1>1. IInv /\ [Next]_vars =>
        [~Exclusive =>
           /\ published' >= published
           /\ \A s \in Slots : s < published => storage'[s] = storage[s]]_vars
  BY StepStable
<1> QED
  BY <1>1, Inductive, PTL DEF Spec, PublishedStable
=============================================================================
