-------------------------------- MODULE MCKeys --------------------------------
(* A small instance of Keys. *)
EXTENDS Keys, TLC

(* Two tabs; a binding that needs no prefix. *)
MCTabOf == 1 :> 11 @@ 3 :> 12
MCDirect == "alt-f" :> "finder"
=============================================================================
