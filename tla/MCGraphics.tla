----------------------------- MODULE MCGraphics -----------------------------
(* Small instances of Graphics for TLC. *)
EXTENDS Graphics, TLC

\* Ids a program chose itself, and the first two lib-vt gives a program that
\* chose none.
Chosen     == {1, 2}
Unspecified == {0, 1}

Symm == Permutations(Images) \cup Permutations(Spots)
=============================================================================
