---------------------------- MODULE SharedArena -----------------------------
(***************************************************************************)
(* The experimental concurrent arena (src/src/shared_arena.rs), with the   *)
(* identity race of SharedIdentity (src/src/segments.rs).  Threads         *)
(* allocate and take checkpoints through `&self`: each atomic access is a  *)
(* step, so all interleavings are explored.  try_rollback, reset and drain *)
(* need `&mut self`: they run while no `&self` call is in progress.        *)
(*                                                                         *)
(* Memory order.  `birth`, `current` and `published` are read without a    *)
(* lock; a load may return an older value than the latest one, as long as  *)
(* the thread has not already seen a newer.  view[t] is what thread t must *)
(* see at least.  Within one `&self` phase birth and current change once,  *)
(* from 0 to their stamp, so their view is a Boolean.                      *)
(*                                                                         *)
(* A value is a serial number, stored once.  Storage is the array of slots *)
(* that ChunkedStorage implements (SlotArray): `set` on an empty slot is   *)
(* one step, and panics where the chunk of the slot cannot be allocated.   *)
(***************************************************************************)
EXTENDS Segments, FiniteSets

CONSTANTS
    Threads,
    Empty,          \* an empty OnceLock slot
    MaxSlots,       \* usize::MAX: the largest value `reserved` can hold
    Addressable,    \* slots from here on lie in a chunk too large to allocate
    MaxValues,      \* bound: values stored in the whole run
    MaxBlock        \* bound: values in one block

ASSUME SharedAssumption ==
    /\ MaxSlots \in Nat /\ MaxValues \in Nat /\ MaxBlock \in Nat
    /\ Addressable \in 0 .. MaxSlots
    /\ Empty \notin Nat

VARIABLES
    identity,       \* the SharedIdentity; birth and current are atomics
    storage,        \* storage[slot]: the value in the slot, or Empty
    reserved,       \* atomic: slots handed out
    published,      \* atomic: the contiguous prefix readers may see
    pc,             \* pc[t]: the next atomic access of t's `&self` call
    job,            \* job[t]: the locals of that call
    view,           \* view[t]: what t's loads must at least return
    used,           \* stamps drawn from the process-wide sequence
    serial,         \* values stored so far
    live, stale,    \* history: indices returned, and those revoked since
    saved, spoiled  \* history: checkpoints returned, and those revoked since

history == <<live, stale, saved, spoiled>>
vars == <<identity, storage, reserved, published, pc, job, view, used, serial,
          live, stale, saved, spoiled>>

Slots == 0 .. MaxSlots - 1

(* The capabilities; value and prefix are what the client expects of them. *)
Index(stamp, slot, value) == [stamp |-> stamp, slot |-> slot, value |-> value]

Checkpoint(owner, len, tail) ==
    [owner |-> owner, len |-> len, tail |-> tail,
     prefix |-> [s \in 0 .. len - 1 |-> storage[s]]]

(* The locals of a call: what it is for, and the block or checkpoint it    *)
(* is building.                                                            *)
NoJob == [ret |-> "none", n |-> 0, stamp |-> NoStamp, fresh |-> NoStamp,
          start |-> 0, done |-> 0, first |-> 0, p |-> 0]

Init ==
    /\ identity = Unassigned
    /\ storage = [s \in Slots |-> Empty]
    /\ reserved = 0
    /\ published = 0
    /\ pc = [t \in Threads |-> "idle"]
    /\ job = [t \in Threads |-> NoJob]
    /\ view = [t \in Threads |-> [birth |-> FALSE, current |-> FALSE, published |-> 0]]
    /\ used = {}
    /\ serial = 0
    /\ live = {} /\ stale = {}
    /\ saved = {} /\ spoiled = {}

Goto(t, l) == pc' = [pc EXCEPT ![t] = l]

TailStamp(id, len) == IF len = 0 THEN NoStamp ELSE StampOf(id, len - 1)

(* SharedIdentity::matches: the current stamp first.                       *)
Matches(slot, stamp) ==
    \/ stamp = identity.current
    \/ MatchesArchived(identity, slot, stamp)

(* is_valid: published first, then the stamp.                              *)
IsValid(idx) == idx.slot < published /\ Matches(idx.slot, idx.stamp)

ValidateCheckpoint(cp) ==
    IF identity.birth # cp.owner THEN "ForeignArena"
    ELSE IF cp.len > published THEN "BeyondCurrent"
    ELSE IF TailStamp(identity, cp.len) # cp.tail THEN "DivergedPrefix"
    ELSE "Ok"

-----------------------------------------------------------------------------
(***************************************************************************)
(* The identity: SharedIdentity::current, ::birth and ::assign.            *)
(***************************************************************************)

(* The call had been waiting for a stamp: it goes on where it asked.       *)
Resume(t, stamp) ==
    CASE job[t].ret = "alloc" ->
           /\ job' = [job EXCEPT ![t].stamp = stamp]
           /\ Goto(t, "reserve")
           /\ UNCHANGED saved
      [] job[t].ret = "tail" ->
           /\ job' = [job EXCEPT ![t].stamp = stamp, ![t].ret = "owner"]
           /\ Goto(t, "birth")
           /\ UNCHANGED saved
      [] job[t].ret = "owner" ->
           /\ saved' = saved \cup {Checkpoint(stamp, job[t].p, job[t].stamp)}
           /\ job' = [job EXCEPT ![t] = NoJob]
           /\ Goto(t, "idle")

(* A Relaxed load of `current` that returns a stamp.                       *)
LoadCurrent(t) ==
    /\ pc[t] = "current" /\ identity.current # NoStamp
    /\ view' = [view EXCEPT ![t].current = TRUE]
    /\ Resume(t, identity.current)
    /\ UNCHANGED <<identity, storage, reserved, published, used, serial, live, stale, spoiled>>

(* A Relaxed load of `birth` that returns a stamp.                         *)
LoadBirth(t) ==
    /\ pc[t] = "birth" /\ identity.birth # NoStamp
    /\ view' = [view EXCEPT ![t].birth = TRUE]
    /\ Resume(t, identity.birth)
    /\ UNCHANGED <<identity, storage, reserved, published, used, serial, live, stale, spoiled>>

(* The load returns 0, which it may until the thread has seen the stamp:   *)
(* the call goes to `assign`.                                              *)
LoadZero(t) ==
    /\ \/ pc[t] = "current" /\ ~view[t].current
       \/ pc[t] = "birth" /\ ~view[t].birth
    /\ Goto(t, "assign")
    /\ UNCHANGED <<identity, storage, reserved, published, job, view, used, serial, history>>

(* Faulty variant: the claim is a load followed by a store.                *)
AssignWithoutCAS(t) ==
    /\ pc[t] = "assign"
    /\ \E s \in Stamp \ used :
         /\ used' = used \cup {s}
         /\ identity' = [identity EXCEPT !.birth = s]
         /\ job' = [job EXCEPT ![t].fresh = s]
         /\ Goto(t, "store")
    /\ view' = [view EXCEPT ![t].birth = TRUE]
    /\ UNCHANGED <<storage, reserved, published, serial, history>>

(* assign draws a stamp and races to make it the birth stamp.  The loser's *)
(* stamp is wasted.                                                        *)
Assign(t) ==
    /\ pc[t] = "assign"
    /\ \E s \in Stamp \ used :
         /\ used' = used \cup {s}
         /\ IF identity.birth = NoStamp
            THEN /\ identity' = [identity EXCEPT !.birth = s]
                 /\ job' = [job EXCEPT ![t].fresh = s]
                 /\ Goto(t, "store")
            ELSE /\ Goto(t, "await")
                 /\ UNCHANGED <<identity, job>>
    /\ view' = [view EXCEPT ![t].birth = TRUE]
    /\ UNCHANGED <<storage, reserved, published, serial, history>>

(* The winner publishes its stamp as the current one too.                  *)
StoreCurrent(t) ==
    /\ pc[t] = "store"
    /\ identity' = [identity EXCEPT !.current = job[t].fresh]
    /\ view' = [view EXCEPT ![t].current = TRUE]
    /\ job' = [job EXCEPT ![t].fresh = NoStamp]
    /\ Goto(t, "await")
    /\ UNCHANGED <<storage, reserved, published, used, serial, history>>

(* Winner and losers alike spin until a load of `current` returns a stamp, *)
(* and take that one.  The turns of the loop that read 0 change nothing.   *)
Await(t) ==
    /\ pc[t] = "await" /\ identity.current # NoStamp
    /\ view' = [view EXCEPT ![t].current = TRUE]
    /\ Resume(t, identity.current)
    /\ UNCHANGED <<identity, storage, reserved, published, used, serial, live, stale, spoiled>>

(* The draw finds the stamp sequence exhausted: the call panics before it  *)
(* reserved anything.                                                      *)
StampsExhausted(t) ==
    /\ pc[t] = "assign"
    /\ job' = [job EXCEPT ![t] = NoJob]
    /\ Goto(t, "idle")
    /\ UNCHANGED <<identity, storage, reserved, published, view, used, serial, history>>

-----------------------------------------------------------------------------
(***************************************************************************)
(* alloc and alloc_block.                                                  *)
(***************************************************************************)

(* The input of a block is collected before anything else; an empty block  *)
(* and an iterator that panics change nothing.  alloc is the block of one. *)
StartAlloc(t, n) ==
    /\ pc[t] = "idle"
    /\ serial + n <= MaxValues
    /\ serial' = serial + n
    /\ job' = [job EXCEPT ![t] = [NoJob EXCEPT !.ret = "alloc", !.n = n, !.first = serial + 1]]
    /\ Goto(t, "current")
    /\ UNCHANGED <<identity, storage, reserved, published, view, used, history>>

(* Faulty variant: the block reserves a single slot.                       *)
ReserveOne(t) ==
    /\ pc[t] = "reserve" /\ reserved + job[t].n <= MaxSlots
    /\ job' = [job EXCEPT ![t].start = reserved]
    /\ reserved' = reserved + 1
    /\ Goto(t, "set")
    /\ UNCHANGED <<identity, storage, published, view, used, serial, history>>

(* Faulty variant: one slot too many is reserved, and never filled.        *)
ReserveOneMore(t) ==
    /\ pc[t] = "reserve" /\ reserved + job[t].n <= MaxSlots
    /\ job' = [job EXCEPT ![t].start = reserved]
    /\ reserved' = reserved + job[t].n + 1
    /\ Goto(t, "set")
    /\ UNCHANGED <<identity, storage, published, view, used, serial, history>>

(* reserve_range: one fetch_update for the whole block.                    *)
Reserve(t) ==
    /\ pc[t] = "reserve" /\ reserved + job[t].n <= MaxSlots
    /\ job' = [job EXCEPT ![t].start = reserved]
    /\ reserved' = reserved + job[t].n
    /\ Goto(t, "set")
    /\ UNCHANGED <<identity, storage, published, view, used, serial, history>>

(* checked_add overflows: the call panics, the counter is unchanged.       *)
SlotsExhausted(t) ==
    /\ pc[t] = "reserve" /\ reserved + job[t].n > MaxSlots
    /\ job' = [job EXCEPT ![t] = NoJob]
    /\ Goto(t, "idle")
    /\ UNCHANGED <<identity, storage, reserved, published, view, used, serial, history>>

NextSlot(t) == job[t].start + job[t].done

CanSet(slot) == slot < Addressable /\ storage[slot] = Empty

(* The values go into their slots one by one.                              *)
SetSlot(t) ==
    /\ pc[t] = "set" /\ CanSet(NextSlot(t))
    /\ storage' = [storage EXCEPT ![NextSlot(t)] = job[t].first + job[t].done]
    /\ job' = [job EXCEPT ![t].done = @ + 1]
    /\ Goto(t, IF job[t].done + 1 = job[t].n THEN "load" ELSE "set")
    /\ UNCHANGED <<identity, reserved, published, view, used, serial, history>>

(* The call panics in the middle of its range: the chunk cannot be         *)
(* allocated, or the slot is occupied and the assertion of alloc and       *)
(* alloc_block fires.  The range stays reserved, partly filled.            *)
SetPanics(t) ==
    /\ pc[t] = "set" /\ ~CanSet(NextSlot(t))
    /\ job' = [job EXCEPT ![t] = NoJob]
    /\ Goto(t, "idle")
    /\ UNCHANGED <<identity, storage, reserved, published, view, used, serial, history>>

Last(t) == job[t].start + job[t].n - 1

(* Faulty variant: the call returns as soon as its last slot is reached.   *)
LoadPublishedEarly(t, p) ==
    /\ pc[t] = "load" /\ p \in view[t].published .. published
    /\ view' = [view EXCEPT ![t].published = p, ![t].current = @ \/ p > 0]
    /\ IF p >= Last(t)
       THEN /\ live' = live \cup
                 { Index(job[t].stamp, job[t].start + k - 1, job[t].first + k - 1) : k \in 1 .. job[t].n }
            /\ job' = [job EXCEPT ![t] = NoJob]
            /\ Goto(t, "idle")
       ELSE /\ job' = [job EXCEPT ![t].p = p]
            /\ Goto(t, "probe")
            /\ UNCHANGED live
    /\ UNCHANGED <<identity, storage, reserved, published, used, serial, stale, saved, spoiled>>

(* advance_published, first access: load `published`.  Once it is past the *)
(* call's last slot the call returns its indices.                          *)
LoadPublished(t, p) ==
    /\ pc[t] = "load" /\ p \in view[t].published .. published
    /\ view' = [view EXCEPT ![t].published = p, ![t].current = @ \/ p > 0]
    /\ IF p > Last(t)
       THEN /\ live' = live \cup
                 { Index(job[t].stamp, job[t].start + k - 1, job[t].first + k - 1) : k \in 1 .. job[t].n }
            /\ job' = [job EXCEPT ![t] = NoJob]
            /\ Goto(t, "idle")
       ELSE /\ job' = [job EXCEPT ![t].p = p]
            /\ Goto(t, "probe")
            /\ UNCHANGED live
    /\ UNCHANGED <<identity, storage, reserved, published, used, serial, stale, saved, spoiled>>

(* The next turn of the loop: the position loaded goes out of scope.       *)
Again(t) ==
    /\ job' = [job EXCEPT ![t].p = 0]
    /\ Goto(t, "load")

(* Second access: is the slot at the loaded position set?  A thread may    *)
(* not see a set slot at once, and spins.                                  *)
Probe(t) ==
    /\ pc[t] = "probe"
    /\ storage[job[t].p] # Empty
    /\ Goto(t, "advance")
    /\ UNCHANGED <<identity, storage, reserved, published, job, view, used, serial, history>>

Spin(t) ==
    /\ pc[t] = "probe"
    /\ Again(t)
    /\ UNCHANGED <<identity, storage, reserved, published, view, used, serial, history>>

(* Faulty variant: a plain store moves the prefix.                         *)
AdvanceByStore(t) ==
    /\ pc[t] = "advance"
    /\ published' = job[t].p + 1
    /\ view' = [view EXCEPT ![t].published = published', ![t].current = TRUE]
    /\ Again(t)
    /\ UNCHANGED <<identity, storage, reserved, used, serial, history>>

(* Third access: the weak CAS moves the prefix over that slot.             *)
Advance(t) ==
    /\ pc[t] = "advance"
    /\ published = job[t].p
    /\ published' = published + 1
    /\ view' = [view EXCEPT ![t].published = published', ![t].current = TRUE]
    /\ Again(t)
    /\ UNCHANGED <<identity, storage, reserved, used, serial, history>>

(* It fails, spuriously or because another thread moved the prefix.        *)
AdvanceFails(t) ==
    /\ pc[t] = "advance"
    /\ Again(t)
    /\ UNCHANGED <<identity, storage, reserved, published, view, used, serial, history>>

-----------------------------------------------------------------------------
(***************************************************************************)
(* checkpoint and iter_indexed, concurrent with allocation.                *)
(***************************************************************************)

(* checkpoint loads `published`; the tail's stamp is the current one or,   *)
(* for a slot below the current segment, one that no thread can change.    *)
StartCheckpoint(t, p) ==
    /\ pc[t] = "idle" /\ p \in view[t].published .. published
    /\ view' = [view EXCEPT ![t].published = p, ![t].current = @ \/ p > 0]
    /\ IF p > 0 /\ p - 1 >= identity.current_start
       THEN /\ job' = [job EXCEPT ![t] = [NoJob EXCEPT !.ret = "tail", !.p = p]]
            /\ Goto(t, "current")
       ELSE /\ job' = [job EXCEPT ![t] = [NoJob EXCEPT !.ret = "owner", !.p = p,
                                            !.stamp = TailStamp(identity, p)]]
            /\ Goto(t, "birth")
    /\ UNCHANGED <<identity, storage, reserved, published, used, serial, history>>

(* One turn of an iter_indexed whose one load of `published` returned p:   *)
(* it yields a slot below p, whichever it has come to, with the stamp it   *)
(* reads now, while others allocate.                                       *)
IterIndexed(t, p, slot) ==
    /\ pc[t] = "idle" /\ p \in view[t].published .. published
    /\ slot < p
    /\ view' = [view EXCEPT ![t].published = p, ![t].current = TRUE]
    /\ live' = live \cup {Index(StampOf(identity, slot), slot, storage[slot])}
    /\ UNCHANGED <<identity, storage, reserved, published, pc, job, used, serial, stale, saved, spoiled>>

-----------------------------------------------------------------------------
(***************************************************************************)
(* The exclusive operations.                                               *)
(***************************************************************************)

Exclusive == \A t \in Threads : pc[t] = "idle"

(* SharedIdentity::commit; nothing to do for an arena without identity.    *)
CommitBoundary(n) ==
    \E s \in Stamp \ used :
        /\ identity' = Commit(identity, n, s)
        /\ used' = used \cup {s}

(* Faulty variant: `reserved` is left where it was.                        *)
UnpublishKeepsReserved(n) ==
    \E keep \in n .. published :
        /\ keep = n \/ keep < published
        /\ published' = keep
        /\ reserved' = reserved
        /\ storage' = [s \in Slots |-> IF keep <= s /\ s < published THEN Empty ELSE storage[s]]
        /\ view' = [t \in Threads |-> [birth |-> TRUE, current |-> TRUE, published |-> keep]]

(* The drop loop lowers both counters before it takes each slot, from the  *)
(* highest down.  A destructor that panics stops it with the counters on   *)
(* the prefix still in place.  Handing out `&mut self` and taking it back  *)
(* synchronizes every thread.                                              *)
Unpublish(n) ==
    \E keep \in n .. published :
        /\ keep = n \/ keep < published
        /\ published' = keep
        /\ reserved' = IF keep < published THEN keep ELSE reserved
        /\ storage' = [s \in Slots |-> IF keep <= s /\ s < published THEN Empty ELSE storage[s]]
        /\ view' = [t \in Threads |-> [birth |-> TRUE, current |-> TRUE, published |-> keep]]

Revoke(n) ==
    LET idxs == { i \in live : i.slot >= n }
        cps  == { cp \in saved : cp.len > n }
    IN  /\ live' = live \ idxs
        /\ stale' = stale \cup idxs
        /\ saved' = saved \ cps
        /\ spoiled' = spoiled \cup cps

(* Faulty variant: the boundary is committed after the loop, so a panic in *)
(* a destructor leaves it uncommitted.                                     *)
TryRollbackDropsFirst(cp) ==
    /\ Exclusive
    /\ ValidateCheckpoint(cp) = "Ok"
    /\ Unpublish(cp.len)
    /\ IF published' = cp.len THEN CommitBoundary(cp.len) ELSE UNCHANGED <<identity, used>>
    /\ Revoke(cp.len)
    /\ UNCHANGED <<pc, job, serial>>

TryRollback(cp) ==
    /\ Exclusive
    /\ ValidateCheckpoint(cp) = "Ok"
    /\ CommitBoundary(cp.len)
    /\ Unpublish(cp.len)
    /\ Revoke(cp.len)
    /\ UNCHANGED <<pc, job, serial>>

(* reset, and drain with no panic.  Without an identity both are no-ops.   *)
Reset ==
    /\ Exclusive
    /\ identity.birth # NoStamp
    /\ CommitBoundary(0)
    /\ Unpublish(0)
    /\ Revoke(0)
    /\ UNCHANGED <<pc, job, serial>>

(* drain takes every slot; nothing is dropped inside the loop.             *)
Drain ==
    /\ Exclusive
    /\ identity.birth # NoStamp
    /\ CommitBoundary(0)
    /\ published' = 0
    /\ reserved' = IF published > 0 THEN 0 ELSE reserved
    /\ storage' = [s \in Slots |-> IF s < published THEN Empty ELSE storage[s]]
    /\ view' = [t \in Threads |-> [birth |-> TRUE, current |-> TRUE, published |-> 0]]
    /\ Revoke(0)
    /\ UNCHANGED <<pc, job, serial>>

(* An exclusive operation unwinds because no stamp is left.                *)
CommitExhausted ==
    /\ Exclusive
    /\ identity.birth # NoStamp
    /\ identity' = CommitUnwound(identity)
    /\ UNCHANGED <<storage, reserved, published, pc, job, view, used, serial, history>>

-----------------------------------------------------------------------------

(* The steps of a call in progress.                                        *)
Step(t) ==
    \/ LoadCurrent(t) \/ LoadBirth(t) \/ LoadZero(t)
    \/ Assign(t) \/ StoreCurrent(t) \/ Await(t) \/ StampsExhausted(t)
    \/ Reserve(t) \/ SlotsExhausted(t) \/ SetSlot(t) \/ SetPanics(t)
    \/ \E p \in 0 .. published : LoadPublished(t, p)
    \/ Probe(t) \/ Spin(t) \/ Advance(t) \/ AdvanceFails(t)

Next ==
    \/ \E t \in Threads :
         \/ \E n \in 1 .. MaxBlock : StartAlloc(t, n)
         \/ \E p \in 0 .. published :
              StartCheckpoint(t, p) \/ \E slot \in 0 .. p - 1 : IterIndexed(t, p, slot)
         \/ Step(t)
    \/ \E cp \in saved \cup spoiled : TryRollback(cp)
    \/ Reset
    \/ Drain
    \/ CommitExhausted

Spec == Init /\ [][Next]_vars

(* The scheduler runs every thread; a store becomes visible to a thread    *)
(* that keeps loading; a weak CAS does not fail spuriously forever.        *)
Fairness ==
    \A t \in Threads :
        /\ WF_vars(Step(t))
        /\ SF_vars(LoadPublished(t, published))
        /\ SF_vars(Probe(t))
        /\ SF_vars(Advance(t))

FairSpec == Spec /\ Fairness

-----------------------------------------------------------------------------
(***************************************************************************)
(* Properties.                                                             *)
(***************************************************************************)

Calls == {"idle", "current", "birth", "assign", "store", "await",
          "reserve", "set", "load", "probe", "advance"}

Jobs ==
    [ret : {"none", "alloc", "tail", "owner"}, n : Nat,
     stamp : Stamp \cup {NoStamp}, fresh : Stamp \cup {NoStamp},
     start : Nat, done : Nat, first : Nat, p : Nat]

IndexSet == [stamp : Stamp, slot : Nat, value : Nat]

TypeOK ==
    /\ identity \in [birth : Stamp \cup {NoStamp}, current : Stamp \cup {NoStamp},
                     current_start : Nat, prefix_tail : Stamp \cup {NoStamp},
                     table : Seq(Segment)]
    /\ identity.birth # NoStamp /\ identity.current # NoStamp => WellFormed(identity)
    /\ storage \in [Slots -> Nat \cup {Empty}]
    /\ reserved \in 0 .. MaxSlots /\ published \in 0 .. MaxSlots
    /\ pc \in [Threads -> Calls] /\ job \in [Threads -> Jobs]
    /\ view \in [Threads -> [birth : BOOLEAN, current : BOOLEAN, published : 0 .. published]]
    /\ used \subseteq Stamp /\ serial \in Nat
    /\ live \subseteq IndexSet /\ stale \subseteq IndexSet
    /\ \A cp \in saved \cup spoiled :
         cp.owner \in Stamp /\ cp.len \in Nat /\ cp.tail \in Stamp \cup {NoStamp}

(* Readers follow `published` without a lock: below it every slot is set,  *)
(* at or above `reserved` none is, and once no call is in progress the two *)
(* counters agree (SharedArena::get, advance_published, reserve_range).    *)
(* A call that panics in the middle of its range breaks the last two, so   *)
(* this is for instances where every slot can be set.                      *)
PublishedFilled ==
    /\ published <= reserved
    /\ \A s \in Slots : s < published => storage[s] # Empty
    /\ \A s \in Slots : s >= reserved => storage[s] = Empty
    /\ Exclusive => reserved = published

(* No call ever meets an occupied slot in the range it reserved: the       *)
(* assertions of alloc and alloc_block never fire, provided every slot can *)
(* be set; SharedClaims shows what happens otherwise.                      *)
NoSlotOccupied ==
    \A t \in Threads :
        pc[t] = "set" => NextSlot(t) \in Slots /\ storage[NextSlot(t)] = Empty

(* Slots of a block are contiguous and hold its values in order, and every *)
(* index returned names its value until an exclusive operation revokes it, *)
(* for good, whatever other threads are in the middle of (is_valid,        *)
(* try_get).                                                               *)
IndicesExact ==
    /\ \A i \in live : IsValid(i) /\ storage[i.slot] = i.value
    /\ \A i \in stale : ~IsValid(i)

(* A checkpoint is accepted exactly until an exclusive operation cuts      *)
(* below its length, and while it is accepted the prefix it saved is in    *)
(* place; concurrent allocation does not change the answer                 *)
(* (validate_checkpoint).                                                  *)
CheckpointsExact ==
    /\ \A cp \in saved :
         /\ ValidateCheckpoint(cp) = "Ok"
         /\ \A s \in DOMAIN cp.prefix : storage[s] = cp.prefix[s]
    /\ \A cp \in spoiled : ValidateCheckpoint(cp) # "Ok"

(* However many threads race to assign the identity, all of them go on     *)
(* with the one stamp that won: every call holds the arena's current       *)
(* stamp, and every checkpoint its birth stamp (SharedIdentity::assign).   *)
IdentityAgreed ==
    /\ \A t \in Threads :
         /\ job[t].ret = "alloc" /\ pc[t] \in {"reserve", "set", "load", "probe", "advance"} =>
               job[t].stamp = identity.current
         /\ job[t].fresh # NoStamp => job[t].fresh = identity.birth
    /\ \A cp \in saved \cup spoiled : cp.owner = identity.birth
    /\ identity.current = NoStamp \/ identity.birth # NoStamp

(* The arena as a log of tagged entries: a reserved slot that is not yet   *)
(* filled holds the value its thread is about to store.                    *)
Pending(t) == pc[t] \in {"set", "load", "probe", "advance"}

ValueAt(slot) ==
    IF storage[slot] # Empty THEN storage[slot]
    ELSE LET t == CHOOSE t \in Threads : Pending(t) /\ slot \in job[t].start .. Last(t)
         IN  job[t].first + (slot - job[t].start)

Log == INSTANCE SharedLog WITH
    log <- [k \in 1 .. reserved |->
              [tag |-> StampOf(identity, k - 1), value |-> ValueAt(k - 1)]],
    visible <- published,
    call <- [t \in Threads |->
               IF Pending(t) THEN [first |-> job[t].start, n |-> job[t].n] ELSE NoJob],
    tag <- IF identity.current = NoStamp THEN identity.birth ELSE identity.current,
    owner <- identity.birth,
    known <- live,
    marks <- saved,
    Value <- 1 .. MaxValues,
    NoCall <- NoJob

(* The interleaved atomic accesses of all calls amount to a log to which   *)
(* whole blocks are added: the values of a block stay together and in      *)
(* order, the prefix all threads see only grows until an exclusive cut,    *)
(* and a call returns the indices of its own block once all of it can be   *)
(* seen; the two-step identity is one step (alloc_block, advance_published,*)
(* checkpoint, assign).  Holds as long as no chunk allocation panics.      *)
ImplementsSharedLog == Log!Spec

(* No call waits for a slot that nobody will fill: below its last slot     *)
(* every slot that is not yet filled belongs to a thread that is filling   *)
(* its range and cannot panic before it gets there, even when calls have   *)
(* panicked in the middle of theirs and exclusive operations have recycled *)
(* what they left (advance_published, reserve_range, set).                 *)
WaitsServed ==
    \A t \in Threads : pc[t] \in {"load", "probe", "advance"} =>
        \A s \in published .. Last(t) :
            \/ storage[s] # Empty
            \/ \E u \in Threads :
                 /\ pc[u] = "set" /\ s \in NextSlot(u) .. Last(u)
                 /\ \A r \in NextSlot(u) .. s : CanSet(r)

(* While a `&self` call is in progress the published prefix only grows,    *)
(* and no slot in it is overwritten or emptied: a reference handed out by  *)
(* get stays what it was (advance_published, ChunkedStorage::set).         *)
PublishedStable ==
    [][~Exclusive =>
         /\ published' >= published
         /\ \A s \in Slots : s < published => storage'[s] = storage[s]]_vars

(* Every call returns or panics: the wait for an earlier block's slots     *)
(* ends because its thread fills them, the wait for the identity because   *)
(* the winner stores it (advance_published, assign).                       *)
CallsReturn ==
    \A t \in Threads : pc[t] # "idle" ~> pc[t] = "idle"

=============================================================================
