----------------------------- MODULE SharedLog ------------------------------
(***************************************************************************)
(* What SharedArena promises the threads that share it: a log to which a   *)
(* block of values is added in one piece, of which everybody sees the same *)
(* growing prefix.  A call gives its indices back only when the whole      *)
(* block can be seen.  Whoever holds the arena exclusively may cut the     *)
(* log; what is left above the cut, and what is added later, has a tag     *)
(* never used before.  SharedArena shows that the atomics, the spinning    *)
(* and the lazy identity of src/src/shared_arena.rs implement it.          *)
(***************************************************************************)
EXTENDS Integers, Sequences

CONSTANTS
    Threads,
    Stamp, NoStamp,     \* the tags, and the tag of an arena without one
    Value,              \* what the entries hold
    MaxBlock,           \* values in one block
    NoCall              \* the thread is not adding a block

VARIABLES
    log,        \* the entries, [tag, value], in slot order
    visible,    \* how many of them can be seen
    call,       \* call[t]: the block t is adding, [first, n], or NoCall
    tag,        \* the tag of the next entry
    owner,      \* the tag that names the arena
    used,       \* tags ever handed out
    known,      \* indices given to the client and not revoked
    marks       \* checkpoints given to the client and not revoked

vars == <<log, visible, call, tag, owner, used, known, marks>>

Init ==
    /\ log = << >> /\ visible = 0
    /\ call = [t \in Threads |-> NoCall]
    /\ tag = NoStamp /\ owner = NoStamp /\ used = {}
    /\ known = {} /\ marks = {}

Name(slot) ==
    [stamp |-> log[slot + 1].tag, slot |-> slot, value |-> log[slot + 1].value]

(* One tag names the arena, whoever asks for it first.                     *)
Open ==
    /\ owner = NoStamp
    /\ \E s \in Stamp \ used :
         tag' = s /\ owner' = s /\ used' = used \cup {s}
    /\ UNCHANGED <<log, visible, call, known, marks>>

(* A tag drawn by a thread that asked too late is lost.                    *)
Waste ==
    /\ owner # NoStamp
    /\ \E s \in Stamp \ used : used' = used \cup {s}
    /\ UNCHANGED <<log, visible, call, tag, owner, known, marks>>

(* The block gets its place in the log, all of it at once.                 *)
Add(t, values) ==
    /\ call[t] = NoCall /\ tag # NoStamp
    /\ log' = log \o [k \in DOMAIN values |-> [tag |-> tag, value |-> values[k]]]
    /\ call' = [call EXCEPT ![t] = [first |-> Len(log), n |-> Len(values)]]
    /\ UNCHANGED <<visible, tag, owner, used, known, marks>>

Reveal ==
    /\ visible < Len(log)
    /\ visible' = visible + 1
    /\ UNCHANGED <<log, call, tag, owner, used, known, marks>>

(* The call returns the indices of its block.                              *)
Return(t) ==
    /\ call[t] # NoCall
    /\ call[t].first + call[t].n <= visible
    /\ known' = known \cup { Name(call[t].first + k - 1) : k \in 1 .. call[t].n }
    /\ call' = [call EXCEPT ![t] = NoCall]
    /\ UNCHANGED <<log, visible, tag, owner, used, marks>>

(* An iterator names an entry that can be seen.                            *)
Read(slot) ==
    /\ slot < visible
    /\ known' = known \cup {Name(slot)}
    /\ UNCHANGED <<log, visible, call, tag, owner, used, marks>>

(* A checkpoint of the first n entries, all of which can be seen.          *)
Mark(n) ==
    /\ owner # NoStamp /\ n <= visible
    /\ marks' = marks \cup
         {[owner |-> owner, len |-> n, tail |-> IF n = 0 THEN NoStamp ELSE log[n].tag,
           prefix |-> [s \in 0 .. n - 1 |-> log[s + 1].value]]}
    /\ UNCHANGED <<log, visible, call, tag, owner, used, known>>

(* The log is cut at n while nobody is adding to it; the entries up to     *)
(* `keep`, which a panicking destructor left, get the fresh tag.           *)
Cut(n, keep) ==
    /\ \A t \in Threads : call[t] = NoCall
    /\ owner # NoStamp
    /\ \E s \in Stamp \ used :
         /\ tag' = s /\ used' = used \cup {s}
         /\ log' = [k \in 1 .. keep |-> IF k <= n THEN log[k] ELSE [log[k] EXCEPT !.tag = s]]
    /\ visible' = keep
    /\ known' = { i \in known : i.slot < n }
    /\ marks' = { m \in marks : m.len <= n }
    /\ UNCHANGED <<call, owner>>

Next ==
    \/ Open \/ Waste \/ Reveal
    \/ \E t \in Threads :
         \/ \E n \in 1 .. MaxBlock : \E values \in [1 .. n -> Value] : Add(t, values)
         \/ Return(t)
    \/ \E slot \in 0 .. visible - 1 : Read(slot)
    \/ \E n \in 0 .. visible : Mark(n)
    \/ \E n \in 0 .. visible : \E keep \in n .. visible : Cut(n, keep)

Spec == Init /\ [][Next]_vars
=============================================================================
