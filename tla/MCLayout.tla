------------------------------ MODULE MCLayout ------------------------------
EXTENDS Layout

Symmetry == Permutations(Pane) \cup Permutations(Split) \cup Permutations(Tab)
=============================================================================
