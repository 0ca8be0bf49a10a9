--------------------------- MODULE CapabilityLog ----------------------------
(***************************************************************************)
(* What an arena promises its client, without segments, caches or search:  *)
(* a log of values, each entry with a tag of its own.  A capability names  *)
(* a position and a tag, and is accepted as long as the entry there still  *)
(* has that tag.  Cutting the log below some position gives every later    *)
(* entry a tag never used before, the entries a panicking destructor left  *)
(* in place included.  Arena shows that src/src/arena.rs and segments.rs   *)
(* implement it without storing a tag per slot.                            *)
(***************************************************************************)
EXTENDS Integers, Sequences

CONSTANTS
    Arenas,
    Stamp, NoStamp,     \* the tags, and the tag of an arena without one
    Value,              \* what the entries hold
    MaxBlock            \* values in one block

VARIABLES
    log,        \* log[a]: the entries of arena a, [tag, value], in slot order
    tag,        \* tag[a]: the tag of the next entry
    owner,      \* owner[a]: the tag that names the arena itself
    used        \* tags ever handed out

vars == <<log, tag, owner, used>>

Init ==
    /\ log = [a \in Arenas |-> << >>]
    /\ tag = [a \in Arenas |-> NoStamp]
    /\ owner = [a \in Arenas |-> NoStamp]
    /\ used = {}

(* An arena gets its name, and its first tag, when it issues its first     *)
(* capability.                                                             *)
Open(a) ==
    \/ /\ owner[a] # NoStamp
       /\ UNCHANGED <<tag, owner, used>>
    \/ /\ owner[a] = NoStamp
       /\ \E t \in Stamp \ used :
            /\ tag' = [tag EXCEPT ![a] = t]
            /\ owner' = [owner EXCEPT ![a] = t]
            /\ used' = used \cup {t}

(* A block of values goes to the end of the log.                           *)
Put(a, values) ==
    /\ Open(a)
    /\ log' = [log EXCEPT ![a] =
                 @ \o [k \in DOMAIN values |-> [tag |-> tag'[a], value |-> values[k]]]]

(* A checkpoint reads the log and needs the arena's name.                  *)
Mark(a) == Open(a) /\ UNCHANGED log

(* The log is cut at n.  The entries from n up to `keep`, if any, stay and *)
(* get the fresh tag.                                                      *)
Cut(a, n, keep) ==
    /\ owner[a] # NoStamp
    /\ \E t \in Stamp \ used :
         /\ tag' = [tag EXCEPT ![a] = t]
         /\ used' = used \cup {t}
         /\ log' = [log EXCEPT ![a] =
                      [k \in 1 .. keep |-> IF k <= n THEN @[k] ELSE [@[k] EXCEPT !.tag = t]]]
    /\ UNCHANGED owner

(* The arena is dropped; its variable holds a new one.                     *)
Drop(a) ==
    /\ log' = [log EXCEPT ![a] = << >>]
    /\ tag' = [tag EXCEPT ![a] = NoStamp]
    /\ owner' = [owner EXCEPT ![a] = NoStamp]
    /\ UNCHANGED used

Next ==
    \E a \in Arenas :
        \/ \E n \in 1 .. MaxBlock : \E values \in [1 .. n -> Value] : Put(a, values)
        \/ Mark(a)
        \/ \E n \in 0 .. Len(log[a]) : \E keep \in n .. Len(log[a]) : Cut(a, n, keep)
        \/ Drop(a)

Spec == Init /\ [][Next]_vars

(* The one test an index needs.                                            *)
Accepts(a, stamp, slot) ==
    /\ slot < Len(log[a])
    /\ log[a][slot + 1].tag = stamp
=============================================================================
