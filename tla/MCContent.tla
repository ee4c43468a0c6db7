----------------------------- MODULE MCContent -----------------------------
(* Content for TLC: two files that share the middle one of three pieces. *)
EXTENDS Content

Files3 == <<3, 2>>
\* No list; the second file; the second and then the rest; no such file.
SomeLists == {<< >>, <<{2}>>, <<{1}, {2}>>, <<{2}, {}>>, <<{3}>>}
FewLists  == {<< >>, <<{2}>>}
=============================================================================
