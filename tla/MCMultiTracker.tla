--------------------------- MODULE MCMultiTracker ---------------------------
(* Values of MultiTracker's constants for TLC. *)
EXTENDS MultiTracker

\* Two tiers of one tracker; one tier of one, two and three trackers.
OneEach == << <<"a">>, <<"b">> >>
One     == << <<"a">> >>
Pair    == << <<"a", "b">> >>
Triple  == << <<"a", "b", "c">> >>

=============================================================================
