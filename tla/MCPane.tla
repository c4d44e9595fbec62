------------------------------- MODULE MCPane -------------------------------
(* The pane as it is: its constants are two bounds. *)
EXTENDS Pane

\* Nothing comes on the line but by a key press (pane_home.cfg).
KeysOnly == line' > line => astray' = astray

KeysSpec == Init /\ [][Next /\ KeysOnly]_vars
=============================================================================
