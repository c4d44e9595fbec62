------------------------------- MODULE Mirror -------------------------------
(***************************************************************************)
(* What an attached terminal is promised of the session's picture: what it *)
(* shows is a picture the session had, never an older one than it showed   *)
(* before, and if it keeps reading it comes to show the last one.  How     *)
(* many pictures it skips on the way is nobody's business.                 *)
(***************************************************************************)
EXTENDS Naturals

CONSTANTS Clients, Patient

VARIABLES
  latest,    \* the picture now; pictures are numbered as they come
  attached,  \* the clients looking
  shown      \* the picture each one's terminal shows; 0 before the first

mvars == <<latest, attached, shown>>

Init == latest \in Nat /\ attached = {} /\ shown = [c \in Clients |-> 0]

Draw == latest' > latest /\ UNCHANGED <<attached, shown>>

Attach(c) ==
  /\ c \notin attached
  /\ attached' = attached \cup {c}
  /\ shown' = [shown EXCEPT ![c] = 0]
  /\ UNCHANGED latest

Leave(c) ==
  /\ c \in attached
  /\ attached' = attached \ {c}
  /\ shown' = [shown EXCEPT ![c] = 0]
  /\ UNCHANGED latest

Show(c) ==
  /\ c \in attached
  /\ \E v \in shown[c]..latest : shown' = [shown EXCEPT ![c] = v]
  /\ UNCHANGED <<latest, attached>>

Next == Draw \/ \E c \in Clients : Attach(c) \/ Leave(c) \/ Show(c)

\* Once the picture is the last one, whoever stays and reads comes to show it.
Settles == \A c \in Patient : <>[](c \notin attached \/ shown[c] = latest)

Spec == Init /\ [][Next]_mvars
=============================================================================
