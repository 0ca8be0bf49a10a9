--------------------------- MODULE SharedLogProof ---------------------------
(***************************************************************************)
(* SharedArena implements SharedLog, for any number of threads, slots,     *)
(* stamps and values, where every slot can be addressed.                   *)
(***************************************************************************)
EXTENDS SharedArenaProof, SequenceTheorems

(* The values a call stores are new ones, and none beyond the bound.       *)
Supplied ==
    /\ serial <= MaxValues
    /\ \A t \in Threads : job[t].ret = "alloc" =>
         /\ job[t].n <= MaxBlock /\ 0 < job[t].first
         /\ job[t].first + job[t].n <= serial + 1

LEMMA SuppliedInit == Init => Supplied
BY SharedAssumption DEF Init, Supplied, NoJob

(* A step that goes on with a call, or ends it.                            *)
LEMMA SuppliedKept ==
    ASSUME Supplied, serial' = serial,
           \A t \in Threads : job'[t].ret = "alloc" =>
              job[t].ret = "alloc" /\ job'[t].n = job[t].n /\ job'[t].first = job[t].first
    PROVE  Supplied'
BY DEF Supplied

LEMMA SuppliedNext == IInv /\ Supplied /\ [Next]_vars => Supplied'
<1> SUFFICES ASSUME IInv, Supplied, [Next]_vars
             PROVE  Supplied'
  OBVIOUS
<1> DEFINE Kept(t) == job'[t].ret = "alloc" =>
              job[t].ret = "alloc" /\ job'[t].n = job[t].n /\ job'[t].first = job[t].first
<1>1. job \in [Threads -> Jobs] /\ \A t \in Threads : job[t] \in Jobs
  BY DEF IInv, TypeOK
<1>2. ASSUME NEW t \in Threads, serial' = serial,
             \/ job' = job
             \/ \E j : job' = [job EXCEPT ![t] = j] /\ j.ret # "alloc"
             \/ job[t].ret = "alloc" /\ \E j : job' = [job EXCEPT ![t] = j] /\ j.n = job[t].n /\ j.first = job[t].first
      PROVE  Supplied'
  <2>1. \A u \in Threads : Kept(u)
    BY <1>1, <1>2
  <2> QED
    BY <1>2, <2>1, SuppliedKept
<1>3. ASSUME NEW t \in Threads, NEW s, pc[t] # "idle", serial' = serial, Resume(t, s)
      PROVE  Supplied'
  <2>0. NoJob.ret # "alloc"
    BY DEF NoJob
  <2>1. CASE job[t].ret = "alloc"
    <3> DEFINE j == [job[t] EXCEPT !.stamp = s]
    <3>1. job' = [job EXCEPT ![t] = j]
      BY <1>3, <2>1 DEF Resume
    <3>2. j.n = job[t].n /\ j.first = job[t].first
      BY <1>1 DEF Jobs
    <3> QED
      BY <1>2, <1>3, <2>1, <3>1, <3>2
  <2>2. CASE job[t].ret = "tail"
    <3> DEFINE j == [job[t] EXCEPT !.stamp = s, !.ret = "owner"]
    <3>1. job' = [job EXCEPT ![t] = j]
      BY <1>1, <1>3, <2>2 DEF Resume, Jobs
    <3>2. j.ret # "alloc"
      BY <1>1 DEF Jobs
    <3> QED
      BY <1>2, <1>3, <3>1, <3>2
  <2>3. CASE job[t].ret = "owner"
    BY <1>2, <1>3, <2>0, <2>3 DEF Resume
  <2>4. job[t].ret # "none"
    BY <1>3 DEF IInv, ThreadsSound, JobShaped
  <2> QED
    BY <1>1, <2>1, <2>2, <2>3, <2>4 DEF Jobs
<1>4. NoJob.ret # "alloc"
  BY DEF NoJob
<1>5. ASSUME NEW t \in Threads, Step(t)
      PROVE  Supplied'
  <2>1. serial' = serial
    BY <1>5 DEF Step, LoadCurrent, LoadBirth, LoadZero, Assign, StoreCurrent, Await, StampsExhausted,
       Reserve, SlotsExhausted, SetSlot, SetPanics, LoadPublished, Probe, Spin, Advance, AdvanceFails
  <2>2. CASE LoadCurrent(t) \/ LoadBirth(t) \/ Await(t)
    BY <1>3, <2>1, <2>2 DEF LoadCurrent, LoadBirth, Await
  <2>3. CASE LoadZero(t) \/ Probe(t)
    BY <1>2, <2>1, <2>3 DEF LoadZero, Probe
  <2>4. CASE StampsExhausted(t) \/ SlotsExhausted(t) \/ SetPanics(t)
    BY <1>2, <1>4, <2>1, <2>4 DEF StampsExhausted, SlotsExhausted, SetPanics
  <2>5. ASSUME NEW f \in {"fresh", "start", "done", "p"}, NEW v, job' = [job EXCEPT ![t][f] = v]
        PROVE  Supplied'
    <3> DEFINE j == [job[t] EXCEPT ![f] = v]
    <3>1. job' = [job EXCEPT ![t] = j] /\ j.n = job[t].n /\ j.first = job[t].first /\ j.ret = job[t].ret
      BY <1>1, <2>5 DEF Jobs
    <3> QED
      BY <1>2, <2>1, <3>1
  <2>6. CASE Assign(t)
    <3>1. CASE job' = job
      BY <1>2, <2>1, <3>1
    <3>2. ASSUME NEW s, job' = [job EXCEPT ![t].fresh = s]
          PROVE  Supplied'
      BY <2>5, <3>2
    <3> QED
      BY <2>6, <3>1, <3>2 DEF Assign
  <2>7. CASE StoreCurrent(t)
    BY <2>5, <2>7 DEF StoreCurrent
  <2>8. CASE Reserve(t)
    BY <2>5, <2>8 DEF Reserve
  <2>9. CASE SetSlot(t)
    <3>1. job' = [job EXCEPT ![t].done = job[t].done + 1]
      BY <2>9 DEF SetSlot
    <3> QED
      BY <2>5, <3>1
  <2>10. CASE Spin(t) \/ Advance(t) \/ AdvanceFails(t)
    BY <2>5, <2>10 DEF Spin, Advance, AdvanceFails, Again
  <2>11. ASSUME NEW p \in 0 .. published, LoadPublished(t, p)
         PROVE  Supplied'
    <3>1. CASE p > Last(t)
      BY <1>2, <1>4, <2>1, <2>11, <3>1 DEF LoadPublished
    <3>2. CASE ~(p > Last(t))
      BY <2>5, <2>11, <3>2 DEF LoadPublished
    <3> QED
      BY <3>1, <3>2
  <2> QED
    BY <1>5, <2>2, <2>3, <2>4, <2>6, <2>7, <2>8, <2>9, <2>10, <2>11 DEF Step
<1>6. ASSUME NEW t \in Threads, NEW n \in 1 .. MaxBlock, StartAlloc(t, n)
      PROVE  Supplied'
  <2>1. serial \in Nat /\ MaxValues \in Nat /\ MaxBlock \in Nat
    BY SharedAssumption DEF IInv, TypeOK
  <2> DEFINE j == [NoJob EXCEPT !.ret = "alloc", !.n = n, !.first = serial + 1]
  <2>2. j.n = n /\ j.first = serial + 1
    BY DEF NoJob
  <2>3. serial' = serial + n /\ serial' <= MaxValues /\ job' = [job EXCEPT ![t] = j]
    BY <1>6 DEF StartAlloc
  <2> HIDE DEF j
  <2>4. job'[t] = j /\ \A u \in Threads : u # t => job'[u] = job[u]
    BY <1>1, <2>3
  <2>5. \A u \in Threads : job[u].n \in Nat /\ job[u].first \in Nat
    BY <1>1 DEF Jobs
  <2> QED
    BY <2>1, <2>2, <2>3, <2>4, <2>5 DEF Supplied
<1>7. ASSUME NEW t \in Threads, NEW p \in 0 .. published, StartCheckpoint(t, p)
      PROVE  Supplied'
  <2> DEFINE j == [NoJob EXCEPT !.ret = "tail", !.p = p]
             k == [NoJob EXCEPT !.ret = "owner", !.p = p, !.stamp = TailStamp(identity, p)]
  <2>1. j.ret # "alloc" /\ k.ret # "alloc"
    BY DEF NoJob
  <2>2. job' = [job EXCEPT ![t] = j] \/ job' = [job EXCEPT ![t] = k]
    BY <1>7 DEF StartCheckpoint
  <2>3. serial' = serial
    BY <1>7 DEF StartCheckpoint
  <2> HIDE DEF j, k
  <2> QED
    BY <1>2, <2>1, <2>2, <2>3
<1>8. ASSUME serial' = serial, job' = job
      PROVE  Supplied'
  BY <1>8 DEF Supplied
<1> QED
  BY <1>5, <1>6, <1>7, <1>8
  DEF Next, IterIndexed, TryRollback, Reset, Drain, CommitExhausted, vars

-----------------------------------------------------------------------------
(***************************************************************************)
(* What the log is.                                                        *)
(***************************************************************************)

InRange(t, s) == Pending(t) /\ job[t].start <= s /\ s < job[t].start + job[t].n

(* A reserved slot has its value, or a call is about to store it; a slot   *)
(* in a call's range holds the call's value for it or will.                *)
ValuesSound ==
    /\ \A s \in Slots : s < reserved =>
         storage[s] # Empty \/ \E t \in Threads : InRange(t, s)
    /\ \A s \in Slots : storage[s] # Empty => ValueAt(s) = storage[s]
    /\ \A t \in Threads : \A s \in Slots : InRange(t, s) =>
         ValueAt(s) = job[t].first + (s - job[t].start)

LEMMA ValuesFollow == Addressable = MaxSlots /\ IInv /\ Served => ValuesSound
<1> SUFFICES ASSUME Addressable = MaxSlots, IInv, Served
             PROVE  ValuesSound
  OBVIOUS
<1>1. /\ published \in Nat /\ reserved \in Nat /\ MaxSlots \in Nat /\ published <= reserved
      /\ reserved <= MaxSlots /\ Slots = { s \in Nat : s < MaxSlots }
  BY ArenaNumbers
<1>2. \A s \in Slots : s < published => storage[s] # Empty
  BY DEF IInv, CountersSound
<1>3. ASSUME NEW s \in Slots, s < reserved, storage[s] = Empty
      PROVE  \E t \in Threads : InRange(t, s)
  <2>1. published <= s /\ s < Addressable
    BY <1>1, <1>2, <1>3
  <2>2. PICK t \in Threads : Filling(t, s)
    BY <1>3, <2>1 DEF Served
  <2>3. InRange(t, s)
    BY <1>1, <2>2, FillingFacts DEF InRange
  <2> QED
    BY <2>3
<1>4. ASSUME NEW s \in Slots, storage[s] # Empty
      PROVE  ValueAt(s) = storage[s]
  BY <1>4 DEF ValueAt
<1>5. ASSUME NEW t \in Threads, NEW s \in Slots, InRange(t, s)
      PROVE  ValueAt(s) = job[t].first + (s - job[t].start)
  <2>1. /\ job[t].start \in Nat /\ job[t].n \in Nat /\ job[t].done \in Nat /\ job[t].first \in Nat
        /\ Pending(t) /\ job[t].start <= s /\ s < job[t].start + job[t].n /\ s \in Nat
    BY <1>1, <1>5, JobFields DEF IInv, InRange
  <2>2. CASE storage[s] = Empty
    <3> DEFINE Holds(u) == Pending(u) /\ s \in job[u].start .. Last(u)
    <3>1. \A u \in Threads : job[u].start \in Nat /\ job[u].n \in Nat
      BY JobFields DEF IInv
    <3>2. \A u \in Threads : Holds(u) <=> InRange(u, s)
      BY <2>1, <3>1 DEF InRange, Last
    <3>3. ASSUME NEW u \in Threads, Holds(u)
          PROVE  u = t
      <4>1. InRange(u, s)
        BY <3>2, <3>3
      <4>2. u # t => Apart(u, t)
        BY <2>1, <4>1 DEF IInv, RangesApart, InRange
      <4> QED
        BY <2>1, <3>1, <4>1, <4>2 DEF Apart, InRange
    <3>4. t = CHOOSE u \in Threads : Holds(u)
      <4>1. Holds(t)
        BY <1>5, <3>2
      <4> HIDE DEF Holds
      <4> QED
        BY <3>3, <4>1
    <3> QED
      BY <2>2, <3>4 DEF ValueAt
  <2>3. CASE storage[s] # Empty
    <3>1. ~Filling(t, s)
      BY <2>3 DEF Served, Leftover
    <3>2. job[t].done <= job[t].n /\ (job[t].done < job[t].n => pc[t] = "set")
      BY <2>1 DEF IInv, ThreadsSound, JobShaped, Pending
    <3>3. s < job[t].start + job[t].done
      BY <2>1, <3>1, <3>2 DEF Filling, NextSlot, Last
    <3>4. s - job[t].start \in 0 .. job[t].done - 1 /\ job[t].start + (s - job[t].start) = s
      BY <2>1, <3>3
    <3>5. \A k \in 0 .. job[t].done - 1 : storage[job[t].start + k] = job[t].first + k
      BY <2>1 DEF IInv, ThreadsSound, RangeSound
    <3>6. storage[s] = job[t].first + (s - job[t].start)
      BY <3>4, <3>5
    <3> QED
      BY <1>4, <2>3, <3>6
  <2> QED
    BY <2>2, <2>3
<1> QED
  BY <1>3, <1>4, <1>5 DEF ValuesSound

Sound ==
    /\ Addressable = MaxSlots
    /\ IInv /\ Served /\ Supplied
    /\ ValuesSound /\ PublishedFilled /\ NoSlotOccupied

LogOf == [k \in 1 .. reserved |-> [tag |-> StampOf(identity, k - 1), value |-> ValueAt(k - 1)]]

CallOf == [t \in Threads |-> IF Pending(t) THEN [first |-> job[t].start, n |-> job[t].n] ELSE NoJob]

Tag == IF identity.current = NoStamp THEN identity.birth ELSE identity.current

(* Nothing the client of the log can see.                                  *)
LogStutter == UNCHANGED <<LogOf, published, CallOf, Tag, identity.birth, used, live, saved>>

(* No call enters or leaves its range.                                     *)
CallsKept ==
    \A t \in Threads :
        /\ Pending(t)' <=> Pending(t)
        /\ Pending(t) => /\ job'[t].start = job[t].start /\ job'[t].n = job[t].n
                         /\ job'[t].first = job[t].first

FilledKept == \A s \in Slots : storage[s] # Empty => storage'[s] = storage[s]

(* A value keeps its slot: it is stored where a call is about to store it, *)
(* and a call that leaves has stored all of its values.                    *)
LEMMA ValuesKept ==
    ASSUME Sound, Sound', FilledKept, NEW s \in Slots, s < reserved,
           \A t \in Threads : InRange(t, s) /\ storage[s] = Empty =>
              InRange(t, s)' /\ job'[t].first = job[t].first /\ job'[t].start = job[t].start
    PROVE  ValueAt(s)' = ValueAt(s)
<1>1. ValuesSound /\ ValuesSound'
  BY DEF Sound
<1>2. CASE storage[s] # Empty
  <2>1. storage'[s] = storage[s] /\ ValueAt(s) = storage[s]
    BY <1>1, <1>2 DEF FilledKept, ValuesSound
  <2>2. storage'[s] # Empty => ValueAt(s)' = storage'[s]
    BY <1>1 DEF ValuesSound
  <2> QED
    BY <1>2, <2>1, <2>2
<1>3. CASE storage[s] = Empty
  <2>1. PICK t \in Threads : InRange(t, s)
    BY <1>1, <1>3 DEF ValuesSound
  <2>2. InRange(t, s)' /\ job'[t].first = job[t].first /\ job'[t].start = job[t].start
    BY <1>3, <2>1
  <2>3. ValueAt(s) = job[t].first + (s - job[t].start)
    BY <1>1, <2>1 DEF ValuesSound
  <2>4. ValueAt(s)' = job'[t].first + (s - job'[t].start)
    BY <1>1, <2>2 DEF ValuesSound
  <2> QED
    BY <2>2, <2>3, <2>4
<1> QED
  BY <1>2, <1>3

LEMMA LogKept ==
    ASSUME Sound, Sound', FilledKept, CallsKept, reserved' = reserved,
           \A s \in Nat : s < reserved => StampOf(identity', s) = StampOf(identity, s)
    PROVE  LogOf' = LogOf /\ CallOf' = CallOf
<1>1. reserved \in Nat /\ MaxSlots \in Nat /\ reserved <= MaxSlots /\ Slots = { s \in Nat : s < MaxSlots }
  BY ArenaNumbers DEF Sound
<1>2. ASSUME NEW s \in Slots, s < reserved
      PROVE  ValueAt(s)' = ValueAt(s)
  <2>1. \A t \in Threads : InRange(t, s) =>
           InRange(t, s)' /\ job'[t].first = job[t].first /\ job'[t].start = job[t].start
    BY DEF CallsKept, InRange
  <2> QED
    BY <1>2, <2>1, ValuesKept
<1>3. LogOf' = LogOf
  <2>1. ASSUME NEW k \in 1 .. reserved
        PROVE  ValueAt(k - 1)' = ValueAt(k - 1) /\ StampOf(identity', k - 1) = StampOf(identity, k - 1)
    <3>1. k - 1 \in Slots /\ k - 1 \in Nat /\ k - 1 < reserved
      BY <1>1
    <3> QED
      BY <1>2, <3>1
  <2> QED
    BY <2>1 DEF LogOf
<1>4. CallOf' = CallOf
  BY DEF CallsKept, CallOf
<1> QED
  BY <1>3, <1>4

(* A step of one call that neither enters nor leaves its range.            *)
LEMMA QuietStep ==
    ASSUME Sound, Sound', NEW t \in Threads,
           pc' = [pc EXCEPT ![t] = pc'[t]], job' = [job EXCEPT ![t] = job'[t]],
           Pending(t)' <=> Pending(t),
           Pending(t) => /\ job'[t].start = job[t].start /\ job'[t].n = job[t].n
                         /\ job'[t].first = job[t].first
    PROVE  CallsKept
<1>1. \A u \in Threads : u # t => pc'[u] = pc[u] /\ job'[u] = job[u]
  <2>1. DOMAIN pc = Threads /\ DOMAIN job = Threads
    BY DEF Sound, IInv, TypeOK
  <2> QED
    BY <2>1
<1>2. \A u \in Threads : u # t => (Pending(u)' <=> Pending(u))
  BY <1>1 DEF Pending
<1> QED
  BY <1>1, <1>2 DEF CallsKept

(* A function over 1 .. m is a sequence of length m.                       *)
LEMMA FunctionLen ==
    ASSUME NEW S, NEW m \in Nat, NEW a \in [1 .. m -> S]
    PROVE  Len(a) = m
OBVIOUS

-----------------------------------------------------------------------------
(***************************************************************************)
(* The steps.                                                              *)
(***************************************************************************)

LEMMA Numbers ==
    ASSUME Sound
    PROVE  /\ reserved \in Nat /\ published \in Nat /\ MaxSlots \in Nat
           /\ published <= reserved /\ reserved <= MaxSlots
           /\ Slots = { s \in Nat : s < MaxSlots }
           /\ pc \in [Threads -> Calls] /\ job \in [Threads -> Jobs]
           /\ \A t \in Threads : /\ job[t].start \in Nat /\ job[t].n \in Nat /\ job[t].done \in Nat
                                 /\ job[t].first \in Nat /\ job[t].p \in Nat
BY ArenaNumbers, JobFields DEF Sound, IInv, TypeOK

LEMMA LogLen ==
    ASSUME Sound
    PROVE  Len(LogOf) = reserved
<1>1. PICK old : old = LogOf
  OBVIOUS
<1>2. PICK r : r = reserved
  OBVIOUS
<1>3. old = [k \in 1 .. r |-> old[k]]
  BY <1>1, <1>2 DEF LogOf
<1>4. old \in [1 .. r -> { old[k] : k \in 1 .. r }] /\ r \in Nat
  BY <1>2, <1>3, Numbers
<1> QED
  BY <1>1, <1>2, <1>4, FunctionLen

(* A step that leaves the shared state alone, and no call's range.         *)
LEMMA StutterStep ==
    ASSUME Sound, Sound', CallsKept, FilledKept,
           UNCHANGED <<identity, reserved, published, used, live, saved>>
    PROVE  LogStutter
<1>1. LogOf' = LogOf /\ CallOf' = CallOf
  BY LogKept
<1> QED
  BY <1>1 DEF LogStutter, Tag

(* The checkpoint a call has built names the prefix of the log.            *)
LEMMA MarkStep ==
    ASSUME Sound, Sound', CallsKept, NEW t \in Threads, job[t].ret = "owner",
           saved' = saved \cup {Checkpoint(identity.birth, job[t].p, job[t].stamp)},
           identity.birth # NoStamp,
           UNCHANGED <<identity, storage, reserved, published, used, live>>
    PROVE  Log!Next
<1> DEFINE n == job[t].p
<1>1. n \in Nat /\ n <= published /\ job[t].stamp = TailStamp(identity, n)
  BY Numbers DEF Sound, IInv, ThreadsSound, MarkSound
<1>2. LogOf' = LogOf /\ CallOf' = CallOf /\ Tag' = Tag
  <2>1. FilledKept
    BY DEF FilledKept
  <2> QED
    BY <2>1, LogKept DEF Tag
<1>3. \A s \in 0 .. n - 1 : LogOf[s + 1].value = storage[s]
  <2>1. ASSUME NEW s \in 0 .. n - 1
        PROVE  LogOf[s + 1].value = storage[s]
    <3>1. s \in Slots /\ s < published /\ s + 1 \in 1 .. reserved /\ (s + 1) - 1 = s
      BY <1>1, Numbers
    <3>2. storage[s] # Empty
      BY <3>1 DEF Sound, IInv, CountersSound
    <3>3. ValueAt(s) = storage[s]
      BY <3>1, <3>2 DEF Sound, ValuesSound
    <3>4. LogOf[s + 1].value = ValueAt((s + 1) - 1)
      BY <3>1 DEF LogOf
    <3> QED
      BY <3>1, <3>3, <3>4
  <2> QED
    BY <2>1
<1>4. job[t].stamp = IF n = 0 THEN NoStamp ELSE LogOf[n].tag
  <2>1. n # 0 => n \in 1 .. reserved
    BY <1>1, Numbers
  <2>2. n # 0 => LogOf[n].tag = StampOf(identity, n - 1)
    BY <2>1 DEF LogOf
  <2> QED
    BY <1>1, <2>2 DEF TailStamp
<1>5. Checkpoint(identity.birth, n, job[t].stamp) =
        [owner |-> identity.birth, len |-> n, tail |-> IF n = 0 THEN NoStamp ELSE LogOf[n].tag,
         prefix |-> [s \in 0 .. n - 1 |-> LogOf[s + 1].value]]
  BY <1>3, <1>4 DEF Checkpoint
<1>6. Log!Mark(n)
  BY <1>1, <1>2, <1>5 DEF Log!Mark, LogOf, CallOf, Tag
<1>7. n \in 0 .. published
  BY <1>1, Numbers
<1> HIDE DEF n
<1> QED
  BY <1>6, <1>7 DEF Log!Next

LEMMA ResumeLog ==
    ASSUME Sound, Sound', NEW t \in Threads, NEW s, Resume(t, s),
           pc[t] \in {"current", "birth", "await"},
           job[t].ret = "owner" => s = identity.birth /\ identity.birth # NoStamp,
           UNCHANGED <<identity, storage, reserved, published, used, live>>
    PROVE  Log!Next \/ LogStutter
<1>1. ~Pending(t) /\ job[t].ret \in {"none", "alloc", "tail", "owner"} /\ job[t].ret # "none"
  <2>1. job[t].ret \in {"none", "alloc", "tail", "owner"}
    BY JobFields DEF Sound, IInv
  <2> QED
    BY <2>1 DEF Pending, Sound, IInv, ThreadsSound, JobShaped
<1>2. CallsKept
  <2>1. /\ job' = [job EXCEPT ![t] = job'[t]] /\ pc' = [pc EXCEPT ![t] = pc'[t]]
        /\ pc'[t] \in {"reserve", "birth", "idle"}
    BY <1>1, Numbers DEF Resume, Goto
  <2>2. ~Pending(t)'
    BY <2>1 DEF Pending
  <2> QED
    BY <1>1, <2>1, <2>2, QuietStep
<1>3. CASE job[t].ret \in {"alloc", "tail"}
  <2>1. saved' = saved
    BY <1>3 DEF Resume
  <2>2. FilledKept
    BY DEF FilledKept
  <2> QED
    BY <1>2, <2>1, <2>2, StutterStep
<1>4. CASE job[t].ret = "owner"
  <2>1. saved' = saved \cup {Checkpoint(identity.birth, job[t].p, job[t].stamp)}
    BY <1>4 DEF Resume
  <2> QED
    BY <1>2, <1>4, <2>1, MarkStep
<1> QED
  BY <1>1, <1>3, <1>4

LEMMA LoadLog ==
    ASSUME Sound, Sound', NEW t \in Threads, LoadCurrent(t) \/ LoadBirth(t) \/ Await(t)
    PROVE  Log!Next \/ LogStutter
<1>1. CASE LoadCurrent(t)
  <2>1. job[t].ret # "owner"
    BY <1>1 DEF LoadCurrent, Sound, IInv, ThreadsSound, JobShaped
  <2> QED
    BY <1>1, <2>1, ResumeLog DEF LoadCurrent
<1>2. CASE LoadBirth(t)
  BY <1>2, ResumeLog DEF LoadBirth
<1>3. CASE Await(t)
  <2>1. identity.current = identity.birth
    BY <1>3 DEF Await, Sound, IInv, ThreadsSound, ViewFollows
  <2> QED
    BY <1>3, <2>1, ResumeLog DEF Await
<1> QED
  BY <1>1, <1>2, <1>3

(* The first draw names the arena; a later one is wasted.                  *)
LEMMA AssignLog ==
    ASSUME Sound, Sound', NEW t \in Threads, Assign(t)
    PROVE  Log!Next
<1>1. PICK s \in Stamp \ used :
        /\ used' = used \cup {s}
        /\ IF identity.birth = NoStamp
           THEN /\ identity' = [identity EXCEPT !.birth = s]
                /\ job' = [job EXCEPT ![t].fresh = s]
                /\ Goto(t, "store")
           ELSE /\ Goto(t, "await")
                /\ UNCHANGED <<identity, job>>
  BY DEF Assign
<1>2. UNCHANGED <<storage, reserved, published, live, saved>> /\ pc[t] = "assign"
  BY DEF Assign, history
<1>3. CallsKept
  <2>1. pc' = [pc EXCEPT ![t] = pc'[t]] /\ job' = [job EXCEPT ![t] = job'[t]]
        /\ pc'[t] \in {"store", "await"}
    BY <1>1, Numbers DEF Goto
  <2>2. ~Pending(t) /\ ~Pending(t)'
    BY <1>2, <2>1 DEF Pending
  <2> QED
    BY <2>1, <2>2, QuietStep
<1>4. FilledKept
  BY <1>2 DEF FilledKept
<1>5. CASE identity.birth = NoStamp
  <2>1. identity.current = NoStamp /\ reserved = 0
    BY <1>5 DEF Sound, IInv, IdentitySound, CountersSound
  <2>2. LogOf' = LogOf /\ CallOf' = CallOf
    BY <1>2, <1>3, <1>4, <2>1, LogKept
  <2>3. identity' = [identity EXCEPT !.birth = s]
    BY <1>1, <1>5
  <2>4. identity'.birth = s /\ identity'.current = NoStamp
    BY <2>1, <2>3, IdentityFields DEF Sound, IInv, TypeOK
  <2>5. Log!Open
    BY <1>1, <1>2, <1>5, <2>2, <2>4 DEF Log!Open, LogOf, CallOf
  <2> QED
    BY <2>5 DEF Log!Next
<1>6. CASE identity.birth # NoStamp
  <2>1. identity' = identity
    BY <1>1, <1>6
  <2>2. LogOf' = LogOf /\ CallOf' = CallOf
    BY <1>2, <1>3, <1>4, <2>1, LogKept
  <2>3. Log!Waste
    BY <1>1, <1>2, <1>6, <2>1, <2>2 DEF Log!Waste, LogOf, CallOf
  <2> QED
    BY <2>3 DEF Log!Next
<1> QED
  BY <1>5, <1>6

LEMMA StoreLog ==
    ASSUME Sound, Sound', NEW t \in Threads, StoreCurrent(t)
    PROVE  LogStutter
<1>1. /\ pc[t] = "store" /\ identity.current = NoStamp /\ job[t].fresh = identity.birth
      /\ identity.birth # NoStamp /\ reserved = 0
  BY DEF StoreCurrent, Sound, IInv, IdentityClaimed, CountersSound
<1>2. /\ identity' = [identity EXCEPT !.current = job[t].fresh]
      /\ UNCHANGED <<storage, reserved, published, used, live, saved>>
  BY DEF StoreCurrent, history
<1>3. CallsKept
  <2>1. pc' = [pc EXCEPT ![t] = "await"] /\ job' = [job EXCEPT ![t] = job'[t]]
    BY Numbers DEF StoreCurrent, Goto
  <2>2. pc'[t] = "await"
    BY <2>1, Numbers
  <2>3. ~Pending(t) /\ ~Pending(t)'
    BY <1>1, <2>2 DEF Pending
  <2> QED
    BY <2>1, <2>2, <2>3, QuietStep
<1>4. LogOf' = LogOf /\ CallOf' = CallOf
  <2>1. FilledKept
    BY <1>2 DEF FilledKept
  <2> QED
    BY <1>1, <1>2, <1>3, <2>1, LogKept
<1>5. identity'.current = identity.birth /\ identity'.birth = identity.birth
  BY <1>1, <1>2, IdentityFields DEF Sound, IInv, TypeOK
<1> QED
  BY <1>1, <1>2, <1>4, <1>5 DEF LogStutter, Tag

(* Steps of a call outside the range it reserves, or inside it for good.   *)
LEMMA LocalLog ==
    ASSUME Sound, Sound', NEW t \in Threads,
           \/ LoadZero(t) \/ StampsExhausted(t) \/ SlotsExhausted(t)
           \/ Probe(t) \/ Spin(t) \/ AdvanceFails(t)
           \/ \E n \in 1 .. MaxBlock : StartAlloc(t, n)
           \/ \E p \in 0 .. published : StartCheckpoint(t, p)
    PROVE  LogStutter
<1>1. UNCHANGED <<identity, storage, reserved, published, used, live, saved>>
  BY DEF LoadZero, StampsExhausted, SlotsExhausted, Probe, Spin, AdvanceFails, StartAlloc,
     StartCheckpoint, history
<1>2. pc \in [Threads -> Calls] /\ job \in [Threads -> Jobs]
  BY Numbers
<1>3. ASSUME \/ LoadZero(t) \/ StampsExhausted(t) \/ SlotsExhausted(t)
             \/ \E n \in 1 .. MaxBlock : StartAlloc(t, n)
             \/ \E p \in 0 .. published : StartCheckpoint(t, p)
      PROVE  CallsKept
  <2>1. /\ pc' = [pc EXCEPT ![t] = pc'[t]] /\ job' = [job EXCEPT ![t] = job'[t]]
        /\ pc'[t] \in {"assign", "idle", "current", "birth"}
    BY <1>2, <1>3
    DEF LoadZero, StampsExhausted, SlotsExhausted, StartAlloc, StartCheckpoint, Goto
  <2>2. pc[t] \in {"current", "birth", "assign", "reserve", "idle"}
    BY <1>3 DEF LoadZero, StampsExhausted, SlotsExhausted, StartAlloc, StartCheckpoint
  <2>3. ~Pending(t) /\ ~Pending(t)'
    BY <2>1, <2>2 DEF Pending
  <2> QED
    BY <2>1, <2>3, QuietStep
<1>4. ASSUME Probe(t) \/ Spin(t) \/ AdvanceFails(t)
      PROVE  CallsKept
  <2>1. /\ pc' = [pc EXCEPT ![t] = pc'[t]] /\ job' = [job EXCEPT ![t] = job'[t]]
        /\ pc'[t] \in {"advance", "load"}
        /\ job'[t].start = job[t].start /\ job'[t].n = job[t].n /\ job'[t].first = job[t].first
    <3>1. job[t] \in Jobs
      BY <1>2
    <3> QED
      BY <1>2, <1>4, <3>1 DEF Probe, Spin, AdvanceFails, Again, Goto, Jobs
  <2>2. pc[t] \in {"probe", "advance"}
    BY <1>4 DEF Probe, Spin, AdvanceFails
  <2>3. Pending(t) /\ Pending(t)'
    BY <2>1, <2>2 DEF Pending
  <2> QED
    BY <2>1, <2>3, QuietStep
<1>5. FilledKept
  BY <1>1 DEF FilledKept
<1>6. CallsKept
  BY <1>3, <1>4
<1> QED
  BY <1>1, <1>5, <1>6, StutterStep

(* One fetch_update gives the whole block its place in the log.            *)
LEMMA ReserveLog ==
    ASSUME Sound, Sound', NEW t \in Threads, Reserve(t)
    PROVE  Log!Next
<1>1. PICK r : r = reserved
  OBVIOUS
<1>2. PICK n : n = job[t].n
  OBVIOUS
<1>3. PICK values : values = [k \in 1 .. n |-> job[t].first + k - 1]
  OBVIOUS
<1>4. PICK tail : tail = [k \in 1 .. n |-> [tag |-> Tag, value |-> values[k]]]
  OBVIOUS
<1>5. /\ pc[t] = "reserve" /\ r + n <= MaxSlots
      /\ job' = [job EXCEPT ![t].start = r] /\ reserved' = r + n
      /\ pc' = [pc EXCEPT ![t] = "set"]
      /\ UNCHANGED <<identity, storage, published, used, live, saved>>
  BY <1>1, <1>2 DEF Reserve, Goto, history
<1>6. /\ r \in Nat /\ MaxSlots \in Nat /\ r <= MaxSlots
      /\ Slots = { s \in Nat : s < MaxSlots }
      /\ pc \in [Threads -> Calls] /\ job \in [Threads -> Jobs]
      /\ job[t].first \in Nat
  BY <1>1, Numbers
<1>7. /\ n \in 1 .. MaxBlock /\ n \in Nat /\ 0 < job[t].first
      /\ job[t].first + n <= serial + 1 /\ serial <= MaxValues
      /\ serial \in Nat /\ MaxValues \in Nat
  <2>1. job[t].ret = "alloc" /\ n > 0 /\ n \in Nat
    BY <1>2, <1>5, Numbers DEF Sound, IInv, ThreadsSound, JobShaped
  <2> QED
    BY <1>2, <2>1, SharedAssumption DEF Sound, IInv, TypeOK, Supplied
<1>8. /\ job'[t].start = r /\ job'[t].n = n /\ job'[t].first = job[t].first
      /\ pc'[t] = "set" /\ Pending(t)' /\ ~Pending(t)
      /\ \A u \in Threads : u # t =>
           job'[u] = job[u] /\ pc'[u] = pc[u] /\ (Pending(u)' <=> Pending(u))
  <2>1. job[t] \in Jobs
    BY <1>6
  <2>2. job'[t].start = r /\ job'[t].n = n /\ job'[t].first = job[t].first
    BY <1>2, <1>5, <1>6, <2>1 DEF Jobs
  <2>3. pc'[t] = "set" /\ \A u \in Threads : u # t => job'[u] = job[u] /\ pc'[u] = pc[u]
    BY <1>5, <1>6
  <2> QED
    BY <1>5, <2>2, <2>3 DEF Pending
<1>9. ASSUME NEW s \in Slots, s < r
      PROVE  ValueAt(s)' = ValueAt(s)
  <2>1. \A u \in Threads : InRange(u, s) =>
           InRange(u, s)' /\ job'[u].first = job[u].first /\ job'[u].start = job[u].start
    BY <1>8 DEF InRange
  <2>2. FilledKept
    BY <1>5 DEF FilledKept
  <2> QED
    BY <1>1, <1>9, <2>1, <2>2, ValuesKept
<1>10. ASSUME NEW s \in Slots, NEW k \in 1 .. n, s = r + k - 1
       PROVE  /\ ValueAt(s)' = values[k]
              /\ StampOf(identity', s) = Tag
  <2>1. InRange(t, s)'
    BY <1>6, <1>7, <1>8, <1>10 DEF InRange
  <2>2. ValueAt(s)' = job'[t].first + (s - job'[t].start)
    BY <1>10, <2>1 DEF Sound, ValuesSound, Slots
  <2>3. /\ identity.current # NoStamp /\ identity.current_start <= published
        /\ published <= r /\ published \in Nat /\ identity.current_start \in Nat
    BY <1>1, <1>5, Numbers, IdentityFields DEF Sound, IInv, ThreadsSound, RangeSound, CountersSound
  <2>4. StampOf(identity, s) = identity.current
    BY <1>6, <1>10, <2>3 DEF StampOf
  <2>5. s - r = k - 1
    BY <1>6, <1>10
  <2> QED
    BY <1>3, <1>5, <1>6, <1>8, <1>10, <2>2, <2>3, <2>4, <2>5 DEF Tag
<1>11. values \in [1 .. n -> 1 .. MaxValues] /\ DOMAIN values = 1 .. n
  <2>1. ASSUME NEW k \in 1 .. n
        PROVE  job[t].first + k - 1 \in 1 .. MaxValues
    BY <1>6, <1>7
  <2> QED
    BY <1>3, <2>1
<1>12. LogOf' = LogOf \o tail
  <2>1. PICK old : old = LogOf
    OBVIOUS
  <2>2. PICK E : E = { old[k] : k \in 1 .. r } \cup { tail[k] : k \in 1 .. n }
    OBVIOUS
  <2>3. old \in [1 .. r -> E] /\ tail \in [1 .. n -> E]
    <3>1. old = [k \in 1 .. r |-> old[k]]
      BY <1>1, <2>1 DEF LogOf
    <3>2. tail = [k \in 1 .. n |-> tail[k]]
      BY <1>4
    <3> QED
      BY <2>2, <3>1, <3>2
  <2>4. PICK new : new = [k \in 1 .. r + n |-> IF k <= r THEN old[k] ELSE tail[k - r]]
    OBVIOUS
  <2>5. LogOf' = [k \in 1 .. r + n |->
                    [tag |-> StampOf(identity', k - 1), value |-> ValueAt(k - 1)']]
    BY <1>5 DEF LogOf
  <2>6. ASSUME NEW k \in 1 .. r + n
        PROVE  [tag |-> StampOf(identity', k - 1), value |-> ValueAt(k - 1)'] =
                 IF k <= r THEN old[k] ELSE tail[k - r]
    <3>1. PICK s : s = k - 1
      OBVIOUS
    <3>2. s \in Slots
      BY <1>5, <1>6, <1>7, <3>1
    <3>3. CASE k <= r
      <4>1. k \in 1 .. r /\ s < r
        BY <1>6, <3>1, <3>3
      <4>2. old[k] = [tag |-> StampOf(identity, k - 1), value |-> ValueAt(k - 1)]
        BY <1>1, <2>1, <4>1 DEF LogOf
      <4>3. ValueAt(s)' = ValueAt(s)
        BY <1>9, <3>2, <4>1
      <4> QED
        BY <1>5, <3>1, <3>3, <4>2, <4>3
    <3>4. CASE ~(k <= r)
      <4>1. PICK j \in 1 .. n : k - r = j /\ s = r + j - 1
        <5>1. k - r \in 1 .. n /\ s = r + (k - r) - 1
          BY <1>6, <1>7, <3>1, <3>4
        <5> QED
          BY <5>1
      <4>2. ValueAt(s)' = values[j] /\ StampOf(identity', s) = Tag
        BY <1>10, <3>2, <4>1
      <4>3. tail[k - r] = [tag |-> Tag, value |-> values[j]]
        BY <1>4, <4>1
      <4> QED
        BY <3>1, <3>4, <4>2, <4>3
    <3> QED
      BY <3>3, <3>4
  <2>7. LogOf' = new
    BY <2>4, <2>5, <2>6
  <2>8. old \o tail = new
    <3>1. r \in Nat /\ n \in Nat
      BY <1>6, <1>7
    <3>2. \A k \in 1 .. r + n : IF k <= r THEN old[k] \in E ELSE tail[k - r] \in E
      <4>1. \A k \in 1 .. r + n : IF k <= r THEN k \in 1 .. r ELSE k - r \in 1 .. n
        BY <3>1
      <4> QED
        BY <2>3, <4>1
    <3>3. /\ new \in [1 .. r + n -> E]
          /\ \A k \in 1 .. r + n : new[k] = IF k <= r THEN old[k] ELSE tail[k - r]
      BY <2>4, <3>2
    <3>4. old \in Seq(E) /\ tail \in Seq(E) /\ Len(old) = r /\ Len(tail) = n
      BY <2>3, <3>1
    <3>5. new \in Seq(E) /\ Len(new) = r + n
      BY <3>1, <3>3
    <3>6. old \o tail \in Seq(E) /\ Len(old \o tail) = r + n
          /\ \A k \in 1 .. r + n : (old \o tail)[k] = IF k <= r THEN old[k] ELSE tail[k - r]
      BY <3>4, ConcatProperties
    <3>7. \A k \in 1 .. r + n : (old \o tail)[k] = new[k]
      BY <3>3, <3>6
    <3> QED
      BY <3>5, <3>6, <3>7, SeqEqual
  <2> QED
    BY <2>1, <2>7, <2>8
<1>13. CallOf' = [CallOf EXCEPT ![t] = [first |-> Len(LogOf), n |-> Len(values)]] /\ CallOf[t] = NoJob
  <2>1. Len(LogOf) = r /\ Len(values) = n
    BY <1>1, <1>7, <1>11, LogLen, FunctionLen
  <2>2. CallOf' = [CallOf EXCEPT ![t] = [first |-> r, n |-> n]]
    BY <1>8 DEF CallOf
  <2> QED
    BY <1>8, <2>1, <2>2 DEF CallOf
<1>14. Tag # NoStamp /\ Tag' = Tag
  BY <1>5 DEF Sound, IInv, ThreadsSound, RangeSound, Tag
<1>15. LogOf' = LogOf \o [k \in DOMAIN values |-> [tag |-> Tag, value |-> values[k]]]
  BY <1>4, <1>11, <1>12
<1>16. Log!Add(t, values)
  BY <1>5, <1>13, <1>14, <1>15 DEF Log!Add, LogOf, CallOf, Tag
<1> QED
  BY <1>7, <1>11, <1>16, Zenon DEF Log!Next

(* A value goes into the slot the log already shows it in.                 *)
LEMMA SetSlotLog ==
    ASSUME Sound, Sound', NEW t \in Threads, SetSlot(t)
    PROVE  LogStutter
<1>1. /\ pc[t] = "set" /\ storage[NextSlot(t)] = Empty
      /\ storage' = [storage EXCEPT ![NextSlot(t)] = job[t].first + job[t].done]
      /\ job' = [job EXCEPT ![t].done = job[t].done + 1]
      /\ pc' = [pc EXCEPT ![t] = pc'[t]] /\ pc'[t] \in {"load", "set"}
      /\ UNCHANGED <<identity, reserved, published, used, live, saved>>
  BY Numbers DEF SetSlot, CanSet, Goto, history
<1>2. CallsKept
  <2>1. job[t] \in Jobs
    BY Numbers
  <2>2. job' = [job EXCEPT ![t] = job'[t]]
        /\ job'[t].start = job[t].start /\ job'[t].n = job[t].n /\ job'[t].first = job[t].first
    BY <1>1, <2>1, Numbers DEF Jobs
  <2>3. Pending(t) /\ Pending(t)'
    BY <1>1 DEF Pending
  <2> QED
    BY <1>1, <2>2, <2>3, QuietStep
<1>3. FilledKept
  <2>1. storage \in [Slots -> Nat \cup {Empty}]
    BY DEF Sound, IInv, TypeOK
  <2> QED
    BY <1>1, <2>1 DEF FilledKept
<1> QED
  BY <1>1, <1>2, <1>3, StutterStep

(* Where every slot can be addressed no call panics in its range.          *)
LEMMA SetPanicsNever ==
    ASSUME Sound, NEW t \in Threads, SetPanics(t)
    PROVE  FALSE
<1>1. NextSlot(t) \in Slots /\ storage[NextSlot(t)] = Empty
  BY DEF Sound, NoSlotOccupied, SetPanics
<1>2. NextSlot(t) < Addressable
  BY <1>1, Numbers DEF Sound
<1> QED
  BY <1>1, <1>2 DEF SetPanics, CanSet

(* The call returns the indices of its block, all of which can be seen.    *)
LEMMA LoadPublishedLog ==
    ASSUME Sound, Sound', NEW t \in Threads, NEW p \in 0 .. published, LoadPublished(t, p)
    PROVE  Log!Next \/ LogStutter
<1>1. /\ pc[t] = "load" /\ UNCHANGED <<identity, storage, reserved, published, used, saved>>
  BY DEF LoadPublished
<1>2. /\ Pending(t) /\ job[t].stamp = identity.current /\ identity.current # NoStamp
      /\ identity.current_start <= job[t].start /\ job[t].start + job[t].n <= reserved
      /\ identity.current_start \in Nat
  <2>1. Pending(t)
    BY <1>1 DEF Pending
  <2> QED
    BY <2>1, IdentityFields DEF Sound, IInv, ThreadsSound, RangeSound
<1>3. FilledKept
  BY <1>1 DEF FilledKept
<1>4. CASE ~(p > Last(t))
  <2>1. pc' = [pc EXCEPT ![t] = "probe"] /\ job' = [job EXCEPT ![t].p = p] /\ live' = live
    BY <1>4 DEF LoadPublished, Goto
  <2>2. job[t] \in Jobs
    BY Numbers
  <2>3. /\ pc' = [pc EXCEPT ![t] = pc'[t]] /\ job' = [job EXCEPT ![t] = job'[t]] /\ pc'[t] = "probe"
        /\ job'[t].start = job[t].start /\ job'[t].n = job[t].n /\ job'[t].first = job[t].first
    BY <2>1, <2>2, Numbers DEF Jobs
  <2>4. CallsKept
    BY <1>2, <2>3, QuietStep DEF Pending
  <2> QED
    BY <1>1, <1>3, <2>1, <2>4, StutterStep
<1>5. CASE p > Last(t)
  <2> DEFINE n == job[t].n
             first == job[t].start
  <2>1. /\ pc' = [pc EXCEPT ![t] = "idle"] /\ job' = [job EXCEPT ![t] = NoJob]
        /\ live' = live \cup { Index(job[t].stamp, first + k - 1, job[t].first + k - 1) : k \in 1 .. n }
    BY <1>5 DEF LoadPublished, Goto
  <2>2. /\ n \in Nat /\ first \in Nat /\ job[t].first \in Nat /\ first + n <= published
        /\ published \in Nat /\ reserved \in Nat /\ published <= reserved
        /\ reserved <= MaxSlots /\ MaxSlots \in Nat /\ Slots = { s \in Nat : s < MaxSlots }
        /\ pc \in [Threads -> Calls] /\ job \in [Threads -> Jobs]
    BY <1>5, Numbers DEF Last
  <2>3. /\ pc'[t] = "idle" /\ ~Pending(t)'
        /\ \A u \in Threads : u # t =>
             job'[u] = job[u] /\ pc'[u] = pc[u] /\ (Pending(u)' <=> Pending(u))
    BY <2>1, <2>2 DEF Pending
  <2>4. LogOf' = LogOf
    <3>1. ASSUME NEW k \in 1 .. reserved
          PROVE  ValueAt(k - 1)' = ValueAt(k - 1)
      <4>1. k - 1 \in Slots /\ k - 1 < reserved
        BY <2>2
      <4>2. ASSUME NEW u \in Threads, InRange(u, k - 1), storage[k - 1] = Empty
            PROVE  /\ InRange(u, k - 1)' /\ job'[u].first = job[u].first
                   /\ job'[u].start = job[u].start
        <5>1. ~(k - 1 < published)
          BY <4>1, <4>2 DEF Sound, IInv, CountersSound
        <5>2. u # t
          BY <2>2, <4>2, <5>1 DEF InRange
        <5> QED
          BY <2>3, <4>2, <5>2 DEF InRange
      <4> QED
        BY <1>3, <4>1, <4>2, ValuesKept
    <3> QED
      BY <1>1, <3>1 DEF LogOf
  <2>5. CallOf' = [CallOf EXCEPT ![t] = NoJob] /\ CallOf[t] = [first |-> first, n |-> n]
    BY <1>2, <2>3 DEF CallOf
  <2>6. CallOf[t] # NoJob
    <3>1. "ret" \in DOMAIN NoJob /\ "ret" \notin DOMAIN [first |-> first, n |-> n]
      BY DEF NoJob
    <3> QED
      BY <2>5, <3>1
  <2>7. ASSUME NEW k \in 1 .. n
        PROVE  Index(job[t].stamp, first + k - 1, job[t].first + k - 1) =
                 [stamp |-> LogOf[(first + k - 1) + 1].tag, slot |-> first + k - 1,
                  value |-> LogOf[(first + k - 1) + 1].value]
    <3> DEFINE s == first + k - 1
    <3>1. s \in Slots /\ s \in Nat /\ s + 1 \in 1 .. reserved /\ (s + 1) - 1 = s
      BY <2>2
    <3>2. LogOf[s + 1] = [tag |-> StampOf(identity, s), value |-> ValueAt(s)]
      <4>1. LogOf[s + 1] = [tag |-> StampOf(identity, (s + 1) - 1), value |-> ValueAt((s + 1) - 1)]
        BY <3>1 DEF LogOf
      <4> QED
        BY <3>1, <4>1
    <3>3. StampOf(identity, s) = job[t].stamp
      BY <1>2, <2>2 DEF StampOf
    <3>4. InRange(t, s)
      BY <1>2, <2>2 DEF InRange
    <3>5. ValueAt(s) = job[t].first + (s - first)
      BY <3>1, <3>4 DEF Sound, ValuesSound
    <3>6. job[t].first + (s - first) = job[t].first + k - 1
      BY <2>2
    <3> QED
      BY <3>2, <3>3, <3>5, <3>6 DEF Index
  <2>8. live' = live \cup { [stamp |-> LogOf[(first + k - 1) + 1].tag, slot |-> first + k - 1,
                             value |-> LogOf[(first + k - 1) + 1].value] : k \in 1 .. n }
    BY <2>1, <2>7
  <2>9. Tag' = Tag
    BY <1>1 DEF Tag
  <2>10. Log!Return(t)
    <3>1. CallOf[t].first = first /\ CallOf[t].n = n
      BY <2>5
    <3>2. live' = live \cup { [stamp |-> LogOf[(CallOf[t].first + k - 1) + 1].tag,
                               slot |-> CallOf[t].first + k - 1,
                               value |-> LogOf[(CallOf[t].first + k - 1) + 1].value] : k \in 1 .. CallOf[t].n }
      BY <2>8, <3>1
    <3>3. CallOf[t].first + CallOf[t].n <= published
      BY <2>2, <3>1
    <3> QED
      BY <1>1, <2>4, <2>5, <2>6, <2>9, <3>2, <3>3 DEF Log!Return, Log!Name, LogOf, CallOf, Tag
  <2> QED
    BY <2>10 DEF Log!Next
<1> QED
  BY <1>4, <1>5

(* The prefix all threads see grows by one slot.                           *)
LEMMA AdvanceLog ==
    ASSUME Sound, Sound', NEW t \in Threads, Advance(t)
    PROVE  Log!Next
<1>1. /\ pc[t] = "advance" /\ published = job[t].p /\ published' = published + 1
      /\ job' = [job EXCEPT ![t].p = 0] /\ pc' = [pc EXCEPT ![t] = "load"]
      /\ UNCHANGED <<identity, storage, reserved, used, live, saved>>
  BY DEF Advance, Again, Goto, history
<1>2. published < reserved
  <2>1. Pending(t)
    BY <1>1 DEF Pending
  <2>2. job[t].p < job[t].start + job[t].n /\ job[t].start + job[t].n <= reserved
    BY <1>1, <2>1 DEF Sound, IInv, ThreadsSound, JobShaped, RangeSound
  <2> QED
    BY <1>1, <2>2, Numbers
<1>3. CallsKept
  <2>1. job[t] \in Jobs
    BY Numbers
  <2>2. /\ pc' = [pc EXCEPT ![t] = pc'[t]] /\ job' = [job EXCEPT ![t] = job'[t]] /\ pc'[t] = "load"
        /\ job'[t].start = job[t].start /\ job'[t].n = job[t].n /\ job'[t].first = job[t].first
    BY <1>1, <2>1, Numbers DEF Jobs
  <2>3. Pending(t) /\ Pending(t)'
    BY <1>1, <2>2 DEF Pending
  <2> QED
    BY <2>2, <2>3, QuietStep
<1>4. LogOf' = LogOf /\ CallOf' = CallOf /\ Tag' = Tag
  <2>1. FilledKept
    BY <1>1 DEF FilledKept
  <2> QED
    BY <1>1, <1>3, <2>1, LogKept DEF Tag
<1>5. Len(LogOf) = reserved
  BY LogLen
<1>6. Log!Reveal
  BY <1>1, <1>2, <1>4, <1>5 DEF Log!Reveal, LogOf, CallOf, Tag
<1> QED
  BY <1>6 DEF Log!Next

(* An iterator pairs a slot all threads see with its stamp.                *)
LEMMA IterIndexedLog ==
    ASSUME Sound, Sound', NEW t \in Threads, NEW p \in 0 .. published,
           NEW s \in 0 .. p - 1, IterIndexed(t, p, s)
    PROVE  Log!Next
<1>1. /\ live' = live \cup {Index(StampOf(identity, s), s, storage[s])}
      /\ UNCHANGED <<identity, storage, reserved, published, pc, job, used, saved>>
  BY DEF IterIndexed
<1>2. /\ s \in 0 .. published - 1 /\ s \in Slots /\ s < published
      /\ s + 1 \in 1 .. reserved /\ (s + 1) - 1 = s
  BY Numbers
<1>3. LogOf' = LogOf /\ CallOf' = CallOf /\ Tag' = Tag
  <2>1. FilledKept /\ CallsKept
    BY <1>1 DEF FilledKept, CallsKept, Pending
  <2> QED
    BY <1>1, <2>1, LogKept DEF Tag
<1>4. LogOf[s + 1] = [tag |-> StampOf(identity, s), value |-> storage[s]]
  <2>1. storage[s] # Empty
    BY <1>2 DEF Sound, IInv, CountersSound
  <2>2. ValueAt(s) = storage[s]
    BY <1>2, <2>1 DEF Sound, ValuesSound
  <2>3. LogOf[s + 1] = [tag |-> StampOf(identity, (s + 1) - 1), value |-> ValueAt((s + 1) - 1)]
    BY <1>2 DEF LogOf
  <2> QED
    BY <1>2, <2>2, <2>3
<1>5. live' = live \cup {[stamp |-> LogOf[s + 1].tag, slot |-> s, value |-> LogOf[s + 1].value]}
  BY <1>1, <1>4 DEF Index
<1>6. Log!Read(s)
  BY <1>1, <1>2, <1>3, <1>5 DEF Log!Read, Log!Name, LogOf, CallOf, Tag
<1> QED
  BY <1>2, <1>6 DEF Log!Next

(* A commit and a drop loop that may stop early cut the log.               *)
LEMMA CutLog ==
    ASSUME Sound, Sound', Exclusive, identity.birth # NoStamp,
           NEW n \in 0 .. published, NEW keep \in n .. published,
           CommitBoundary(n),
           published' = keep, reserved' = IF keep < published THEN keep ELSE reserved,
           storage' = [s \in Slots |-> IF keep <= s /\ s < published THEN Empty ELSE storage[s]],
           Revoke(n),
           UNCHANGED <<pc, job>>
    PROVE  Log!Next
<1>1. /\ n \in Nat /\ keep \in Nat /\ n <= keep /\ keep <= published
      /\ published \in Nat /\ published <= MaxSlots /\ MaxSlots \in Nat
      /\ Slots = { s \in Nat : s < MaxSlots }
  BY Numbers
<1>2. reserved = published /\ reserved' = keep
  BY <1>1 DEF Sound, PublishedFilled
<1>3. identity.current # NoStamp /\ TypeOK /\ IdentitySound
  BY ExclusiveComplete DEF Sound, IInv
<1>4. /\ identity \in Identity /\ WellFormed(identity) /\ OwnStamps(identity) \subseteq used
      /\ identity.birth \in OwnStamps(identity)
  BY <1>3, CompleteIdentity
<1>5. PICK s \in Stamp \ used : identity' = Commit(identity, n, s) /\ used' = used \cup {s}
  BY DEF CommitBoundary
<1>6. s \in Stamp /\ s # NoStamp /\ s # identity.birth
  BY <1>4, <1>5, StampAssumption
<1>7. \A slot \in Nat : StampOf(identity', slot) = IF slot >= n THEN s ELSE StampOf(identity, slot)
  <2>1. \A slot \in Nat : StampOf(Commit(identity, n, s), slot)
                              = IF slot >= n THEN s ELSE StampOf(identity, slot)
    BY <1>1, <1>4, <1>6, CommitFacts
  <2> QED
    BY <1>5, <2>1
<1>8. identity'.birth = identity.birth /\ identity'.current = s /\ Tag' = s
  <2>1. identity'.birth = identity.birth /\ identity'.current = s
    BY <1>4, <1>5 DEF Commit, Identity
  <2> QED
    BY <1>6, <2>1 DEF Tag
<1>9. ASSUME NEW x \in Nat, x < keep
      PROVE  ValueAt(x)' = ValueAt(x)
  <2>1. x \in Slots /\ x < published /\ ~(keep <= x)
    BY <1>1, <1>9
  <2>2. storage'[x] = storage[x] /\ storage[x] # Empty
    BY <2>1 DEF Sound, PublishedFilled
  <2> QED
    BY <2>1, <2>2 DEF Sound, ValuesSound, Slots
<1>10. LogOf' = [k \in 1 .. keep |-> IF k <= n THEN LogOf[k] ELSE [LogOf[k] EXCEPT !.tag = s]]
  <2>1. PICK old : old = LogOf
    OBVIOUS
  <2>2. ASSUME NEW k \in 1 .. keep
        PROVE  [tag |-> StampOf(identity', k - 1), value |-> ValueAt(k - 1)'] =
                 IF k <= n THEN old[k] ELSE [old[k] EXCEPT !.tag = s]
    <3>1. k \in 1 .. reserved /\ k - 1 \in Nat /\ k - 1 < keep /\ (k <= n <=> ~(k - 1 >= n))
      BY <1>1, <1>2
    <3>2. old[k] = [tag |-> StampOf(identity, k - 1), value |-> ValueAt(k - 1)]
      BY <2>1, <3>1 DEF LogOf
    <3>3. ValueAt(k - 1)' = ValueAt(k - 1)
      BY <1>9, <3>1
    <3>4. StampOf(identity', k - 1) = IF k <= n THEN StampOf(identity, k - 1) ELSE s
      BY <1>7, <3>1
    <3> QED
      BY <3>2, <3>3, <3>4
  <2>3. LogOf' = [k \in 1 .. keep |-> [tag |-> StampOf(identity', k - 1), value |-> ValueAt(k - 1)']]
    BY <1>2 DEF LogOf
  <2> HIDE DEF LogOf
  <2> QED
    BY <2>1, <2>2, <2>3
<1>11. CallOf' = CallOf /\ \A t \in Threads : CallOf[t] = NoJob
  BY DEF CallOf, Pending, Exclusive
<1>12. live' = { i \in live : i.slot < n } /\ saved' = { m \in saved : m.len <= n }
  <2>1. (\A i \in live : i.slot \in Nat) /\ \A m \in saved : m.len \in Nat
    BY DEF Sound, IInv, TypeOK, IndexSet
  <2> QED
    BY <1>1, <2>1 DEF Revoke
<1>13. Log!Cut(n, keep)
  BY <1>5, <1>8, <1>10, <1>11, <1>12 DEF Log!Cut, LogOf, CallOf, Tag
<1> QED
  BY <1>13 DEF Log!Next

LEMMA TryRollbackLog ==
    ASSUME Sound, Sound', NEW cp \in saved \cup spoiled, TryRollback(cp)
    PROVE  Log!Next
<1>1. /\ Exclusive /\ CommitBoundary(cp.len) /\ Unpublish(cp.len) /\ Revoke(cp.len)
      /\ ValidateCheckpoint(cp) = "Ok" /\ UNCHANGED <<pc, job>>
  BY DEF TryRollback
<1>2. cp.len \in Nat /\ identity.birth # NoStamp
  BY DEF Sound, IInv, TypeOK, CheckpointsKnown
<1>3. cp.len \in 0 .. published
  BY <1>1, <1>2, Numbers DEF ValidateCheckpoint
<1>4. PICK keep \in cp.len .. published :
        /\ published' = keep
        /\ reserved' = IF keep < published THEN keep ELSE reserved
        /\ storage' = [s \in Slots |-> IF keep <= s /\ s < published THEN Empty ELSE storage[s]]
  BY <1>1 DEF Unpublish
<1> QED
  BY <1>1, <1>2, <1>3, <1>4, CutLog

LEMMA ResetLog ==
    ASSUME Sound, Sound', Reset \/ Drain
    PROVE  Log!Next
<1>1. /\ Exclusive /\ CommitBoundary(0) /\ Revoke(0) /\ identity.birth # NoStamp
      /\ UNCHANGED <<pc, job>> /\ 0 \in 0 .. published
  BY Numbers DEF Reset, Drain
<1>2. PICK keep \in 0 .. published :
        /\ published' = keep
        /\ reserved' = IF keep < published THEN keep ELSE reserved
        /\ storage' = [s \in Slots |-> IF keep <= s /\ s < published THEN Empty ELSE storage[s]]
  <2>1. CASE Reset
    BY <2>1 DEF Reset, Unpublish
  <2>2. CASE Drain
    <3>1. (published > 0 <=> 0 < published) /\ \A s \in Slots : 0 <= s
      BY Numbers
    <3> QED
      BY <1>1, <2>2, <3>1 DEF Drain
  <2> QED
    BY <2>1, <2>2
<1> QED
  BY <1>1, <1>2, CutLog

(* A commit that unwinds for want of a stamp leaves every tag as it was.   *)
LEMMA CommitExhaustedLog ==
    ASSUME Sound, Sound', CommitExhausted
    PROVE  LogStutter
<1>1. /\ Exclusive /\ identity' = CommitUnwound(identity) /\ identity.birth # NoStamp
      /\ UNCHANGED <<storage, reserved, published, pc, job, used, live, saved>>
  BY DEF CommitExhausted, history
<1>2. identity.current # NoStamp /\ TypeOK /\ IdentitySound
  BY <1>1, ExclusiveComplete DEF Sound, IInv
<1>3. identity \in Identity /\ WellFormed(identity)
  BY <1>2, CompleteIdentity
<1>4. \A slot \in Nat : StampOf(identity', slot) = StampOf(identity, slot)
  <2>1. \A slot \in Nat : StampOf(CommitUnwound(identity), slot) = StampOf(identity, slot)
    BY <1>3, CommitUnwoundFacts
  <2> QED
    BY <1>1, <2>1
<1>5. LogOf' = LogOf /\ CallOf' = CallOf
  <2>1. FilledKept /\ CallsKept
    BY <1>1 DEF FilledKept, CallsKept, Pending
  <2> QED
    BY <1>1, <1>4, <2>1, LogKept
<1>6. identity'.birth = identity.birth /\ identity'.current = identity.current
  BY <1>1, <1>3 DEF CommitUnwound, Identity
<1> QED
  BY <1>1, <1>5, <1>6 DEF LogStutter, Tag

-----------------------------------------------------------------------------
(***************************************************************************)
(* The refinement.                                                         *)
(***************************************************************************)

LEMMA InitLog == Init => Log!Init
<1> SUFFICES ASSUME Init
             PROVE  Log!Init
  OBVIOUS
<1>1. reserved = 0 /\ published = 0 /\ identity = Unassigned /\ used = {} /\ live = {} /\ saved = {}
      /\ \A t \in Threads : pc[t] = "idle"
  BY DEF Init
<1>2. LogOf = << >>
  <2>1. 1 .. reserved = {}
    BY <1>1
  <2> QED
    BY <2>1 DEF LogOf
<1>3. CallOf = [t \in Threads |-> NoJob]
  BY <1>1 DEF CallOf, Pending
<1>4. Tag = NoStamp /\ identity.birth = NoStamp
  BY <1>1 DEF Tag, Unassigned
<1> QED
  BY <1>1, <1>2, <1>3, <1>4 DEF Log!Init, LogOf, CallOf, Tag

LEMMA ThreadLog ==
    ASSUME Sound, Sound', NEW t \in Threads, Step(t)
    PROVE  Log!Next \/ LogStutter
<1>1. CASE LoadCurrent(t) \/ LoadBirth(t) \/ Await(t)
  BY <1>1, LoadLog
<1>2. CASE LoadZero(t) \/ StampsExhausted(t) \/ SlotsExhausted(t)
           \/ Probe(t) \/ Spin(t) \/ AdvanceFails(t)
  BY <1>2, LocalLog
<1>3. CASE Assign(t)
  BY <1>3, AssignLog
<1>4. CASE StoreCurrent(t)
  BY <1>4, StoreLog
<1>5. CASE Reserve(t)
  BY <1>5, ReserveLog
<1>6. CASE SetSlot(t)
  BY <1>6, SetSlotLog
<1>7. CASE SetPanics(t)
  BY <1>7, SetPanicsNever
<1>8. ASSUME NEW p \in 0 .. published, LoadPublished(t, p)
      PROVE  Log!Next \/ LogStutter
  BY <1>8, LoadPublishedLog
<1>9. CASE Advance(t)
  BY <1>9, AdvanceLog
<1> QED
  BY <1>1, <1>2, <1>3, <1>4, <1>5, <1>6, <1>7, <1>8, <1>9 DEF Step

LEMMA StepLog == Sound /\ Sound' /\ [Next]_vars => [Log!Next]_(Log!vars)
<1> SUFFICES ASSUME Sound, Sound', [Next]_vars
             PROVE  Log!Next \/ LogStutter
  BY DEF LogStutter, Log!vars, LogOf, CallOf, Tag
<1>1. ASSUME NEW t \in Threads, Step(t)
      PROVE  Log!Next \/ LogStutter
  BY <1>1, ThreadLog
<1>2. ASSUME NEW t \in Threads, NEW n \in 1 .. MaxBlock, StartAlloc(t, n)
      PROVE  LogStutter
  BY <1>2, LocalLog
<1>3. ASSUME NEW t \in Threads, NEW p \in 0 .. published, StartCheckpoint(t, p)
      PROVE  LogStutter
  BY <1>3, LocalLog
<1>4. ASSUME NEW t \in Threads, NEW p \in 0 .. published,
             NEW slot \in 0 .. p - 1, IterIndexed(t, p, slot)
      PROVE  Log!Next
  BY <1>4, IterIndexedLog
<1>5. ASSUME NEW cp \in saved \cup spoiled, TryRollback(cp)
      PROVE  Log!Next
  BY <1>5, TryRollbackLog
<1>6. CASE Reset \/ Drain
  BY <1>6, ResetLog
<1>7. CASE CommitExhausted
  BY <1>7, CommitExhaustedLog
<1>8. CASE UNCHANGED vars
  <2>1. FilledKept /\ CallsKept
    BY <1>8 DEF vars, FilledKept, CallsKept, Pending
  <2> QED
    BY <1>8, <2>1, StutterStep DEF vars, history
<1> QED
  BY <1>1, <1>2, <1>3, <1>4, <1>5, <1>6, <1>7, <1>8 DEF Next

(* All that the steps of the log rest on holds in every state.             *)
LEMMA SoundInductive ==
    ASSUME Addressable = MaxSlots
    PROVE  Spec => []Sound
<1>1. Spec => []Supplied
  BY SuppliedInit, SuppliedNext, Inductive, PTL DEF Spec
<1>2. IInv /\ Served /\ Supplied => Sound
  BY ValuesFollow, InvFilled DEF Sound
<1> QED
  BY <1>1, <1>2, Inductive, ServedInductive, PTL

(* Where every slot can be addressed, the interleaved atomic accesses of   *)
(* all calls, for any number of them, amount to a log to which whole       *)
(* blocks are added and of which all threads see the same growing prefix   *)
(* (alloc_block, advance_published, checkpoint, assign, try_rollback).     *)
THEOREM SharedArenaImplementsLog ==
    ASSUME Addressable = MaxSlots
    PROVE  Spec => ImplementsSharedLog
<1>1. Init => Log!Init
  BY InitLog
<1>2. Sound /\ Sound' /\ [Next]_vars => [Log!Next]_(Log!vars)
  BY StepLog
<1>3. Spec => []Sound
  BY SoundInductive
<1> QED
  BY <1>1, <1>2, <1>3, PTL DEF Spec, ImplementsSharedLog, Log!Spec
=============================================================================
