----------------------------- MODULE MCDownload -----------------------------
(* Values of Download's function-valued constants for TLC. *)
EXTENDS Download

CONSTANTS a, b

\* Two peers with every piece.
TwoSeeds     == [p \in Peers |-> Pieces]
\* a is three times as fast as b, or not.
FastA        == [p \in Peers |-> IF p = a THEN 3 ELSE 1]
SameSpeed    == [p \in Peers |-> 1]
\* a has every piece, b only the first.
SeedAndLeech == [p \in Peers |-> IF p = a THEN Pieces ELSE {1}]

=============================================================================
