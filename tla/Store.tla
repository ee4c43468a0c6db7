------------------------------- MODULE Store -------------------------------
(***************************************************************************)
(* What btFiles promises its callers: one flat array of bytes. A write     *)
(* changes the bytes it names, from the first on, and no other; a write    *)
(* that is refused leaves the rest of its bytes undefined; nothing else    *)
(* changes a byte, neither the merging of staging files nor a restart,     *)
(* except for bytes that are loose (see Staging): a start may lose them,   *)
(* and so may a merge of staging files that are tangled.                   *)
(***************************************************************************)
EXTENDS Integers

CONSTANTS
  Cells,     \* the offsets of the torrent's bytes, from 0 on
  Versions,  \* what may be written in a byte
  Unknown    \* the value of a byte that was not, or not successfully, written

VARIABLES
  store,     \* the value of each byte
  writing,   \* the part of the current write that is not done: [off, len, v]
  starting,  \* the program is not running yet
  loose,     \* bytes that a start may lose
  risky      \* bytes that are written may be lost

NoWrite == [off |-> 0, len |-> 0, v |-> Unknown]
\* The first n bytes of what is being written.
First(n) == writing.off .. writing.off + n - 1

Init ==
  /\ store = [c \in Cells |-> Unknown]
  /\ writing = NoWrite
  /\ starting = TRUE

Begin ==
  /\ starting /\ ~starting'
  /\ UNCHANGED <<store, writing>>

Ask ==
  /\ ~starting /\ writing = NoWrite
  /\ writing'.off .. writing'.off + writing'.len - 1 \subseteq Cells
  /\ writing'.v \in Versions
  /\ UNCHANGED <<store, starting>>

Do(n) ==
  /\ writing' = IF n = writing.len THEN NoWrite
                ELSE [writing EXCEPT !.off = @ + n, !.len = @ - n]
  /\ \E lost \in IF risky THEN SUBSET First(n) ELSE {{}} :
        store' = [c \in Cells |-> IF c \in First(n) \ lost THEN writing.v ELSE store[c]]
  /\ UNCHANGED starting

Refuse ==
  /\ writing # NoWrite /\ writing' = NoWrite
  /\ \E lost \in SUBSET First(writing.len) :
        store' = [c \in Cells |-> IF c \in lost THEN Unknown ELSE store[c]]
  /\ UNCHANGED starting

Holding == \A c \in Cells : store'[c] = store[c] \/ c \in loose

Restart ==
  /\ starting' /\ writing' = NoWrite
  /\ Holding

Settle ==
  /\ risky /\ Holding
  /\ UNCHANGED <<writing, starting>>

Next == Begin \/ Ask \/ (\E n \in 1 .. writing.len : Do(n)) \/ Refuse \/ Restart \/ Settle

\* What is loose is decided elsewhere; whatever becomes of it, no byte changes with it.
Spec == Init /\ [][Next]_<<store, writing, starting>>
=============================================================================
