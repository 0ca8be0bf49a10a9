------------------------------- MODULE Arena --------------------------------
(***************************************************************************)
(* The single-thread arena (src/src/arena.rs).  Several arenas live in one *)
(* process; all of them draw their stamps from the same sequence, which is *)
(* what lets an index be checked by one comparison.  Every operation takes *)
(* `&mut self` or is a read, so each is one atomic step; what interleaves  *)
(* is the client's operations on several arenas, and what can interrupt    *)
(* them is a panicking destructor or an exhausted stamp sequence.          *)
(*                                                                         *)
(* A value is a serial number: a value stored twice is two values.  The    *)
(* history variables record every capability the client was given and      *)
(* whether an operation has revoked it since; no guard reads them except   *)
(* to pick the checkpoint a client passes.                                 *)
(***************************************************************************)
EXTENDS Segments, FiniteSets

CONSTANTS
    Arenas,         \* the client's arena variables
    MaxValues,      \* bound: values stored in the whole run
    MaxBlock        \* bound: values in one block

ASSUME ArenaAssumption == MaxValues \in Nat /\ MaxBlock \in Nat \ {0}

VARIABLES
    items,          \* items[a]: the Vec of values, in slot order
    identity,       \* identity[a]: the OnceLock<Box<Identity>>
    mirror,         \* mirror[a]: the inline copy of the current stamp
    used,           \* stamps drawn from the process-wide sequence
    serial,         \* values stored so far
    live,           \* history: indices issued and not revoked
    stale,          \* history: indices revoked
    saved,          \* history: checkpoints taken whose prefix still exists
    spoiled         \* history: checkpoints whose prefix was discarded

state == <<items, identity, mirror, used>>
history == <<live, stale, saved, spoiled>>
vars == <<items, identity, mirror, used, serial, live, stale, saved, spoiled>>

Index(a, stamp, slot, value) ==
    [arena |-> a, stamp |-> stamp, slot |-> slot, value |-> value]

Size(a) == Len(items[a])
Indices == live \cup stale
Checkpoints == saved \cup spoiled

-----------------------------------------------------------------------------
(***************************************************************************)
(* Validation, through shared references only.                             *)
(***************************************************************************)

(* is_valid and try_get: the mirror is compared first, and a match alone   *)
(* is taken as proof that the slot lies in the current segment.            *)
IsValid(a, idx) ==
    /\ idx.slot < Size(a)
    /\ \/ idx.stamp = mirror[a]
       \/ /\ identity[a] # Unassigned
          /\ MatchesArchived(identity[a], idx.slot, idx.stamp)

TailStamp(id, len) == IF len = 0 THEN NoStamp ELSE StampOf(id, len - 1)

(* Faulty variant: only the owner and the length are compared.             *)
ValidateWithoutTail(a, cp) ==
    IF identity[a] = Unassigned \/ identity[a].birth # cp.owner THEN "ForeignArena"
    ELSE IF cp.len > Size(a) THEN "BeyondCurrent" ELSE "Ok"

ValidateCheckpoint(a, cp) ==
    IF identity[a] = Unassigned \/ identity[a].birth # cp.owner THEN "ForeignArena"
    ELSE IF cp.len > Size(a) THEN "BeyondCurrent"
    ELSE IF TailStamp(identity[a], cp.len) # cp.tail THEN "DivergedPrefix"
    ELSE "Ok"

-----------------------------------------------------------------------------
(***************************************************************************)
(* Steps shared by several operations.                                     *)
(***************************************************************************)

(* Faulty variant: the lazy assignment does not publish the mirror.        *)
EnsureIdentityUnmirrored(a) ==
    \/ /\ identity[a] # Unassigned
       /\ UNCHANGED <<identity, mirror, used>>
    \/ /\ identity[a] = Unassigned
       /\ \E s \in Stamp \ used :
            /\ identity' = [identity EXCEPT ![a] = NewIdentity(s)]
            /\ mirror' = mirror
            /\ used' = used \cup {s}

(* current_stamp / identity(): the first capability an arena issues        *)
(* assigns its identity and publishes the mirror.  A draw that finds the   *)
(* sequence exhausted panics before anything changed: no step.             *)
EnsureIdentity(a) ==
    \/ /\ identity[a] # Unassigned
       /\ UNCHANGED <<identity, mirror, used>>
    \/ /\ identity[a] = Unassigned
       /\ \E s \in Stamp \ used :
            /\ identity' = [identity EXCEPT ![a] = NewIdentity(s)]
            /\ mirror' = [mirror EXCEPT ![a] = s]
            /\ used' = used \cup {s}

(* n values are appended under the stamp now current.                      *)
Store(a, n) ==
    /\ serial + n <= MaxValues
    /\ items' = [items EXCEPT ![a] = @ \o [k \in 1 .. n |-> serial + k]]
    /\ serial' = serial + n
    /\ live' = live \cup { Index(a, mirror'[a], Size(a) + k - 1, serial + k) : k \in 1 .. n }
    /\ UNCHANGED <<stale, saved, spoiled>>

(* Faulty variant: stamps are recycled once drawn.                         *)
CommitBoundaryRecycled(a, n) ==
    \E s \in Stamp :
        /\ identity' = [identity EXCEPT ![a] = Commit(@, n, s)]
        /\ used' = used \cup {s}
        /\ mirror' = [mirror EXCEPT ![a] = s]

(* The new boundary is committed with a fresh stamp, and the mirror        *)
(* follows, before any value is dropped.                                   *)
CommitBoundary(a, n) ==
    \E s \in Stamp \ used :
        /\ identity' = [identity EXCEPT ![a] = Commit(@, n, s)]
        /\ used' = used \cup {s}
        /\ mirror' = [mirror EXCEPT ![a] = s]

(* The drop loop pops from the highest slot down to n.  A destructor that  *)
(* panics leaves the values below its own slot in place.                   *)
DropSuffix(a, n) ==
    \E keep \in n .. Size(a) :
        /\ keep = n \/ keep < Size(a)
        /\ items' = [items EXCEPT ![a] = SubSeq(@, 1, keep)]

(* What the operation promises: indices at or above slot n, and the        *)
(* checkpoints that reach above it, are revoked for good.                  *)
Revoke(a, n) ==
    LET idxs == { i \in live : i.arena = a /\ i.slot >= n }
        cps  == { cp \in saved : cp.arena = a /\ cp.len > n }
    IN  /\ live' = live \ idxs
        /\ stale' = stale \cup idxs
        /\ saved' = saved \ cps
        /\ spoiled' = spoiled \cup cps

-----------------------------------------------------------------------------
(***************************************************************************)
(* The operations.                                                         *)
(***************************************************************************)

Alloc(a) ==
    /\ EnsureIdentity(a)
    /\ Store(a, 1)

(* The input is collected first: an empty block, and an iterator that      *)
(* panics, change nothing.  Extend and FromIterator are this operation     *)
(* with the block thrown away.                                             *)
AllocBlock(a, n) ==
    /\ EnsureIdentity(a)
    /\ Store(a, n)

TakeCheckpoint(a) ==
    /\ EnsureIdentity(a)
    /\ saved' = saved \cup
         { [arena |-> a, owner |-> identity'[a].birth, len |-> Size(a),
            tail |-> TailStamp(identity'[a], Size(a)), prefix |-> items[a]] }
    /\ UNCHANGED <<items, serial, live, stale, spoiled>>

(* Faulty variant: the boundary is committed after the drop loop, so a     *)
(* destructor's panic leaves it uncommitted.                               *)
TryRollbackDropsFirst(a, cp) ==
    /\ ValidateCheckpoint(a, cp) = "Ok"
    /\ DropSuffix(a, cp.len)
    /\ IF Len(items'[a]) = cp.len
       THEN CommitBoundary(a, cp.len)
       ELSE UNCHANGED <<identity, mirror, used>>
    /\ Revoke(a, cp.len)
    /\ UNCHANGED serial

TryRollback(a, cp) ==
    /\ ValidateCheckpoint(a, cp) = "Ok"
    /\ CommitBoundary(a, cp.len)
    /\ DropSuffix(a, cp.len)
    /\ Revoke(a, cp.len)
    /\ UNCHANGED serial

(* Faulty variant: reset forgets the commit.                               *)
ResetUncommitted(a) ==
    /\ identity[a] # Unassigned
    /\ DropSuffix(a, 0)
    /\ Revoke(a, 0)
    /\ UNCHANGED <<identity, mirror, used, serial>>

(* An arena without identity is empty: reset and drain leave it as it is.  *)
Reset(a) ==
    /\ identity[a] # Unassigned
    /\ CommitBoundary(a, 0)
    /\ DropSuffix(a, 0)
    /\ Revoke(a, 0)
    /\ UNCHANGED serial

(* drain empties the Vec at once, whatever becomes of the iterator.        *)
Drain(a) ==
    /\ identity[a] # Unassigned
    /\ CommitBoundary(a, 0)
    /\ items' = [items EXCEPT ![a] = << >>]
    /\ Revoke(a, 0)
    /\ UNCHANGED serial

(* try_rollback, reset or drain unwinds because no stamp is left: the      *)
(* segment is archived, and nothing is revoked or dropped.  A draw may     *)
(* fail on one thread and succeed on another whose pool still holds        *)
(* stamps, so the arena may live on.                                       *)
CommitExhausted(a) ==
    /\ identity[a] # Unassigned
    /\ identity' = [identity EXCEPT ![a] = CommitUnwound(@)]
    /\ UNCHANGED <<items, mirror, used, serial, history>>

(* iter_indexed and iter_indexed_mut hand out an index for every slot,     *)
(* including the slots a panicking destructor left above the boundary.     *)
IterIndexed(a) ==
    /\ Size(a) > 0
    /\ live' = live \cup
         { Index(a, StampOf(identity[a], slot), slot, items[a][slot + 1]) :
             slot \in 0 .. Size(a) - 1 }
    /\ UNCHANGED <<items, identity, mirror, used, serial, stale, saved, spoiled>>

(* The arena is dropped, or consumed by into_iter, and its variable holds  *)
(* a new one.  Its stamps are not recycled.                                *)
Replace(a) ==
    LET idxs == { i \in live : i.arena = a }
        cps  == { cp \in saved : cp.arena = a }
    IN  /\ identity[a] # Unassigned
        /\ items' = [items EXCEPT ![a] = << >>]
        /\ identity' = [identity EXCEPT ![a] = Unassigned]
        /\ mirror' = [mirror EXCEPT ![a] = NoStamp]
        /\ live' = live \ idxs
        /\ stale' = stale \cup idxs
        /\ saved' = saved \ cps
        /\ spoiled' = spoiled \cup cps
        /\ UNCHANGED <<used, serial>>

Init ==
    /\ items = [a \in Arenas |-> << >>]
    /\ identity = [a \in Arenas |-> Unassigned]
    /\ mirror = [a \in Arenas |-> NoStamp]
    /\ used = {}
    /\ serial = 0
    /\ live = {} /\ stale = {}
    /\ saved = {} /\ spoiled = {}

Next ==
    \E a \in Arenas :
        \/ Alloc(a)
        \/ \E n \in 2 .. MaxBlock : AllocBlock(a, n)
        \/ TakeCheckpoint(a)
        \/ \E cp \in Checkpoints : TryRollback(a, cp)
        \/ Reset(a)
        \/ Drain(a)
        \/ CommitExhausted(a)
        \/ IterIndexed(a)
        \/ Replace(a)

Spec == Init /\ [][Next]_vars

-----------------------------------------------------------------------------
(***************************************************************************)
(* Properties.                                                             *)
(***************************************************************************)

IndexSet ==
    [arena : Arenas, stamp : Stamp, slot : Nat, value : Nat]

CheckpointSet ==
    [arena : Arenas, owner : Stamp, len : Nat, tail : Stamp \cup {NoStamp},
     prefix : Seq(Nat)]

TypeOK ==
    /\ items \in [Arenas -> Seq(Nat)]
    /\ identity \in [Arenas -> Identity \cup {Unassigned}]
    /\ mirror \in [Arenas -> Stamp \cup {NoStamp}]
    /\ used \subseteq Stamp
    /\ serial \in Nat
    /\ live \subseteq IndexSet /\ stale \subseteq IndexSet
    /\ saved \subseteq CheckpointSet /\ spoiled \subseteq CheckpointSet

(* An index is accepted exactly until an operation revokes it, and names   *)
(* the value it was issued for: no ABA after any mix of rollbacks, resets, *)
(* drains, destructor panics and regrowth (is_valid, try_get).             *)
IndicesExact ==
    /\ \A i \in live :
         /\ IsValid(i.arena, i)
         /\ items[i.arena][i.slot + 1] = i.value
    /\ \A i \in stale : ~IsValid(i.arena, i)

(* An arena accepts no index and no checkpoint issued by another arena,    *)
(* not even an empty checkpoint (is_valid, validate_checkpoint).           *)
ForeignRejected ==
    \A a \in Arenas :
        /\ \A i \in Indices : i.arena # a => ~IsValid(a, i)
        /\ \A cp \in Checkpoints : cp.arena # a => ValidateCheckpoint(a, cp) = "ForeignArena"

(* A checkpoint is accepted exactly until an operation cuts below its      *)
(* length, and while it is accepted the prefix it saved is the arena's,    *)
(* value for value (validate_checkpoint).  A panicking destructor may      *)
(* leave the prefix of a rejected one in place.                            *)
CheckpointsExact ==
    /\ \A cp \in saved :
         /\ ValidateCheckpoint(cp.arena, cp) = "Ok"
         /\ SubSeq(items[cp.arena], 1, cp.len) = cp.prefix
    /\ \A cp \in spoiled : ValidateCheckpoint(cp.arena, cp) # "Ok"

(* The two caches agree with what they cache: the mirror with the          *)
(* identity's current stamp, prefix_tail with the binary search; and the   *)
(* table stays sorted with one entry per start (Identity::commit).         *)
CachesCoherent ==
    \A a \in Arenas :
        /\ mirror[a] = identity[a].current
        /\ identity[a] # Unassigned => WellFormed(identity[a])

(* Once an arena rejects an index it was ever shown, it never accepts it   *)
(* again: retries, regrowth to the same slot and a new identity included.  *)
RejectedForever ==
    [][\A a \in Arenas : \A i \in Indices :
          ~IsValid(a, i) => ~IsValid(a, i)']_vars

(* The equalities of idx.rs and checkpoint.rs.                             *)
SameIdx(i, j) == i.stamp = j.stamp /\ i.slot = j.slot
SameCheckpoint(c, d) == c.owner = d.owner /\ c.len = d.len /\ c.tail = d.tail

(* Capabilities that compare equal are the same capability, for the whole  *)
(* run and over all arenas: equal indices were issued for one value of one *)
(* arena, equal checkpoints saved one prefix, so a client may use them as  *)
(* keys even after a rollback revoked them (Idx::eq, Checkpoint::eq).      *)
CapabilitiesUnique ==
    /\ \A i, j \in Indices : SameIdx(i, j) => i = j
    /\ \A c, d \in Checkpoints : SameCheckpoint(c, d) => c = d

(* The arenas as a log of tagged entries: the tag of a slot is not stored  *)
(* but searched for.                                                       *)
Log == INSTANCE CapabilityLog WITH
    log <- [a \in Arenas |->
              [k \in 1 .. Size(a) |->
                 [tag |-> StampOf(identity[a], k - 1), value |-> items[a][k]]]],
    tag <- [a \in Arenas |-> identity[a].current],
    owner <- [a \in Arenas |-> identity[a].birth],
    Value <- 1 .. MaxValues

(* Segments, archive, compaction and the prefix_tail cache implement a tag *)
(* per slot: no commit, compaction or unwound commit changes the tag of a  *)
(* slot it should not (Identity::commit, stamp_of).                        *)
ImplementsLog == Log!Spec

(* The reordered validation, which looks at the current stamp before it    *)
(* knows the segment of the slot, accepts an index in an arena precisely   *)
(* when the entry at its slot has its stamp (is_valid, matches_archived).  *)
AnswersAgree ==
    \A a \in Arenas : \A i \in Indices :
        IsValid(a, i) <=> Log!Accepts(a, i.stamp, i.slot)

-----------------------------------------------------------------------------
(***************************************************************************)
(* The inductive invariant: what the mechanism keeps true so that one      *)
(* stamp comparison is enough.                                             *)
(***************************************************************************)

Assigned(a) == identity[a] # Unassigned

(* An identity is well formed, covers no slot beyond the arena's end with  *)
(* an archived segment, and answers its current stamp only from            *)
(* current_start upwards.                                                  *)
IdentitiesSound ==
    \A a \in Arenas : Assigned(a) =>
        LET id == identity[a]
        IN  /\ WellFormed(id)
            /\ id.current_start <= Size(a)
            /\ \A slot \in 0 .. id.current_start - 1 : StampOf(id, slot) # id.current
            /\ OwnStamps(id) \subseteq used

MirrorsIdentity ==
    \A a \in Arenas :
        /\ mirror[a] = identity[a].current
        /\ ~Assigned(a) => items[a] = << >>

StampsApart ==
    \A a, b \in Arenas :
        a # b /\ Assigned(a) /\ Assigned(b) =>
            OwnStamps(identity[a]) \cap OwnStamps(identity[b]) = {}

(* Every index ever issued carries a drawn stamp that no other arena owns, *)
(* and lies in the current segment when it carries the current stamp.      *)
IndicesKnown ==
    \A i \in Indices :
        /\ i.stamp \in used
        /\ \A b \in Arenas :
             b # i.arena /\ Assigned(b) => i.stamp \notin OwnStamps(identity[b])
        /\ i.stamp = identity[i.arena].current =>
             i.slot >= identity[i.arena].current_start

LiveCovered ==
    \A i \in live :
        /\ Assigned(i.arena)
        /\ i.slot < Size(i.arena)
        /\ StampOf(identity[i.arena], i.slot) = i.stamp
        /\ items[i.arena][i.slot + 1] = i.value

StaleUncovered ==
    \A i \in stale :
        Assigned(i.arena) => StampOf(identity[i.arena], i.slot) # i.stamp

CheckpointsKnown ==
    \A cp \in Checkpoints :
        /\ cp.owner \in used
        /\ cp.tail \in used \cup {NoStamp}
        /\ \A b \in Arenas :
             b # cp.arena /\ Assigned(b) => cp.owner \notin OwnStamps(identity[b])

SavedCovered ==
    \A cp \in saved :
        /\ Assigned(cp.arena)
        /\ cp.owner = identity[cp.arena].birth
        /\ cp.len <= Size(cp.arena)
        /\ cp.tail = TailStamp(identity[cp.arena], cp.len)
        /\ cp.prefix = SubSeq(items[cp.arena], 1, cp.len)

SpoiledUncovered ==
    \A cp \in spoiled :
        Assigned(cp.arena) /\ cp.owner = identity[cp.arena].birth =>
            cp.len > 0 /\ StampOf(identity[cp.arena], cp.len - 1) # cp.tail

IInv ==
    /\ TypeOK
    /\ IdentitiesSound
    /\ MirrorsIdentity
    /\ StampsApart
    /\ IndicesKnown
    /\ LiveCovered
    /\ StaleUncovered
    /\ CheckpointsKnown
    /\ SavedCovered
    /\ SpoiledUncovered
=============================================================================
