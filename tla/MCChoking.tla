----------------------------- MODULE MCChoking -----------------------------
\* An instance of Choking for TLC.
EXTENDS Choking, TLC
CONSTANTS p1, p2, p3
Symmetric == Permutations(Peers)

\* Bound: who asked for something is noted once we have everything. Choke looks at it only then, and
\* a peer that asked earlier may as well ask after the last piece.
AskedWhenFull == mode' # "full" => requested' = {}
=============================================================================
