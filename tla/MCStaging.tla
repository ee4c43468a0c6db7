----------------------------- MODULE MCStaging -----------------------------
(* Staging for TLC: a file with room for two staging files and the gaps before them, and one  *)
(* behind it.                                                                                 *)
EXTENDS Staging, TLC

CONSTANTS v1, v2

Files4 == <<3, 1>>
Symmetry == Permutations(Versions)

\* Bound: only the last byte of the first file is written in two versions. The code never looks at a byte,
\* and this one may be in the file, in a staging file behind one gap or another, or in both.
OneRewritten ==
  op = Idle /\ op'.kind = "write" /\ op'.v = v2 => op'.off = 2 /\ op'.len = 1
=============================================================================
