------------------------------ MODULE MCInput ------------------------------
(* The decoder with every gesture of AllGestures, three of them at a time.  *)
EXTENDS Input
MCGestures == AllGestures
=============================================================================
