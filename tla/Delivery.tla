------------------------------ MODULE Delivery ------------------------------
(***************************************************************************)
(* How a composed frame reaches the terminals: push_clients, push_display, *)
(* conn_send and conn_flush of src/src/server.c, msg_reader of             *)
(* src/src/proto.c, and the loop of src/src/client.c.                      *)
(*                                                                         *)
(* Every client has its own idea of what its terminal shows (view.prev) and*)
(* is sent the difference.  A frame the outbox refuses is dropped, not     *)
(* queued: the difference is lost, and the next frame must be a full one.  *)
(* The socket takes as much as it has room for, wherever in a frame that   *)
(* falls.  Pictures are numbered; cells are left to Screen, images to      *)
(* Graphics.                                                               *)
(***************************************************************************)
EXTENDS Integers, Sequences, FiniteSets, FiniteSetsExt

CONSTANTS
  Clients,   \* display connections
  Patient,   \* those whose client keeps reading
  Cap,       \* MAX_OUTBOX, in units
  Room,      \* what a socket buffer holds, in units
  FrameLen,  \* units to a frame: header and payload
  Last,      \* bound: pictures drawn
  Budget,    \* bound: redraws, attachments, departures and resizes
  Garbled    \* a terminal that was sent what makes no sense to it

ASSUME DeliveryAssumption ==
  /\ Patient \subseteq Clients
  /\ Cap \in Nat /\ Room \in Nat \ {0} /\ FrameLen \in Nat \ {0}
  /\ Last \in Nat /\ Budget \in Nat
  /\ Garbled \notin Nat

VARIABLES
  picture,   \* what app_compose would draw now
  redraw,    \* screen.force_full
  pending,   \* pending_paint
  attached,  \* connections whose `display' is set
  prev,      \* view.prev: what the last rendered frame showed
  force,     \* view.force_full
  outbox,    \* conn_t.out, from out_off to out_len
  wire,      \* the socket
  buffer,    \* the client's msg_reader
  term,      \* what its terminal shows
  budget

server == <<picture, redraw, pending, prev, force>>
stream == <<outbox, wire, buffer, term>>
vars   == <<server, stream, attached, budget>>

Frames == [full: BOOLEAN, from: Nat, to: Nat]

\* A frame goes over the wire in pieces.
Units == Frames \X (1..FrameLen)

(***************************************************************************)
(* The types, and the bound on memory conn_send claims: a client that does *)
(* not read costs at most MAX_OUTBOX and one message.                      *)
(***************************************************************************)
TypeOK ==
  /\ picture \in Nat
  /\ redraw \in BOOLEAN /\ pending \in BOOLEAN
  /\ attached \subseteq Clients
  /\ prev \in [Clients -> Nat]
  /\ force \in [Clients -> BOOLEAN]
  /\ outbox \in [Clients -> Seq(Units)]
  /\ wire \in [Clients -> Seq(Units)]
  /\ buffer \in [Clients -> Seq(Units)]
  /\ term \in [Clients -> Nat \cup {Garbled}]
  /\ budget \in Nat
  /\ \A c \in Clients : Len(outbox[c]) <= Cap + FrameLen /\ Len(wire[c]) <= Room

Init ==
  /\ picture = 1 /\ redraw = TRUE /\ pending = TRUE
  /\ attached = {}
  /\ prev = [c \in Clients |-> 0]
  /\ force = [c \in Clients |-> FALSE]
  /\ outbox = [c \in Clients |-> <<>>]
  /\ wire = [c \in Clients |-> <<>>]
  /\ buffer = [c \in Clients |-> <<>>]
  /\ term = [c \in Clients |-> 0]
  /\ budget = Budget

Spend == budget > 0 /\ budget' = budget - 1

-----------------------------------------------------------------------------
(* What makes a frame due.                                                 *)

\* A pane said something, or a clock did.
Draw ==
  /\ picture < Last
  /\ picture' = picture + 1
  /\ pending' = TRUE
  /\ UNCHANGED <<redraw, prev, force, stream, attached, budget>>

\* A command, a reload or a new canvas asks for a terminal reset.
Redraw ==
  /\ Spend
  /\ redraw' = TRUE /\ pending' = TRUE
  /\ UNCHANGED <<picture, prev, force, stream, attached>>

\* A new view starts blank and owes a full frame.
FreshView(c) ==
  /\ prev' = [prev EXCEPT ![c] = 0]
  /\ force' = [force EXCEPT ![c] = TRUE]
  /\ pending' = TRUE

NewStream(c) ==
  /\ outbox' = [outbox EXCEPT ![c] = <<>>]
  /\ wire' = [wire EXCEPT ![c] = <<>>]
  /\ buffer' = [buffer EXCEPT ![c] = <<>>]
  /\ term' = [term EXCEPT ![c] = 0]

Attach(c) ==
  /\ Spend
  /\ c \notin attached
  /\ attached' = attached \cup {c}
  /\ FreshView(c) /\ NewStream(c)
  /\ UNCHANGED <<picture, redraw>>

\* Detached, replaced, or gone.  The canvas may have been sized by it.
Leave(c) ==
  /\ Spend
  /\ c \in attached
  /\ attached' = attached \ {c}
  /\ pending' = TRUE
  /\ NewStream(c)
  /\ UNCHANGED <<picture, redraw, prev, force>>

\* screen_resize on the client's own view.
Resize(c) ==
  /\ Spend
  /\ c \in attached
  /\ FreshView(c)
  /\ UNCHANGED <<picture, redraw, stream, attached>>

-----------------------------------------------------------------------------
(* Painting.                                                               *)

\* As much of the queue as the socket has room for.
Taken(c, q) == Min({Room - Len(wire[c]), Len(q)})

Flushed(c, q) == SubSeq(q, 1, Taken(c, q))
Kept(c, q)    == SubSeq(q, Taken(c, q) + 1, Len(q))

\* conn_send's cap is on the backlog, not on the message.
Refused(c) == Len(outbox[c]) > Cap

Full(c) == force[c] \/ redraw

\* screen_render and the images came to at least one byte.
Changed(c) == Full(c) \/ prev[c] # picture

Message(c) ==
  LET frame == [full |-> Full(c), from |-> prev[c], to |-> picture] IN
  [i \in 1..FrameLen |-> <<frame, i>>]

Sent(c) == c \in attached /\ Changed(c) /\ ~Refused(c)

\* Mutant: the refused frame is taken for delivered.
OwesNothing(c) == FALSE

\* The frame never entered this client's stream.
Owes(c) == c \in attached /\ Changed(c) /\ Refused(c)

\* Mutant: a refused frame is not tried again.
RetryNever == FALSE

Retry == \E c \in Clients : Owes(c)

Paint ==
  /\ pending
  /\ pending' = Retry
  /\ redraw' = FALSE
  /\ prev' = [c \in Clients |-> IF c \in attached THEN picture ELSE prev[c]]
  /\ force' = [c \in Clients |-> IF c \in attached THEN Owes(c) ELSE force[c]]
  /\ outbox' = [c \in Clients |->
                  IF Sent(c) THEN Kept(c, outbox[c] \o Message(c)) ELSE outbox[c]]
  /\ wire' = [c \in Clients |->
                IF Sent(c)
                THEN wire[c] \o Flushed(c, outbox[c] \o Message(c))
                ELSE wire[c]]
  /\ UNCHANGED <<picture, buffer, term, attached, budget>>

\* POLLOUT: the socket has room again.
Drain(c) ==
  /\ outbox[c] # <<>> /\ Len(wire[c]) < Room
  /\ outbox' = [outbox EXCEPT ![c] = Kept(c, @)]
  /\ wire' = [wire EXCEPT ![c] = @ \o Flushed(c, outbox[c])]
  /\ UNCHANGED <<server, buffer, term, attached, budget>>

-----------------------------------------------------------------------------
(* The client.                                                             *)

\* A read takes some of what is there.
Read(c) ==
  /\ wire[c] # <<>>
  /\ \E n \in 1..Len(wire[c]) :
       /\ buffer' = [buffer EXCEPT ![c] = @ \o SubSeq(wire[c], 1, n)]
       /\ wire' = [wire EXCEPT ![c] = SubSeq(@, n + 1, Len(@))]
  /\ UNCHANGED <<server, outbox, term, attached, budget>>

\* Mutant: whatever has come is taken for a message.
CompletePart(b) == b # <<>>

\* The header says how much is to come.
Complete(b) == Len(b) >= FrameLen

\* The terminal makes of a frame what it was: a whole one, on what it changes.
Shown(b, t) ==
  LET frame == b[1][1] IN
  IF \E i \in 1..FrameLen : i > Len(b) \/ b[i] # <<frame, i>>
  THEN Garbled
  ELSE IF frame.full \/ frame.from = t THEN frame.to ELSE Garbled

Show(c) ==
  /\ Complete(buffer[c])
  /\ term' = [term EXCEPT ![c] = Shown(buffer[c], @)]
  /\ buffer' = [buffer EXCEPT ![c] = SubSeq(@, FrameLen + 1, Len(@))]
  /\ UNCHANGED <<server, outbox, wire, attached, budget>>

-----------------------------------------------------------------------------

Next ==
  \/ Draw \/ Redraw \/ Paint
  \/ \E c \in Clients : Attach(c) \/ Leave(c) \/ Resize(c) \/ Drain(c)
                          \/ Read(c) \/ Show(c)

Spec == Init /\ [][Next]_vars

\* The loop comes round to a frame that is due and to a socket with room; a
\* patient client reads.  Nothing is asked of the others.
FairSpec ==
  /\ Spec
  /\ WF_vars(Paint)
  /\ \A c \in Clients : WF_vars(Drain(c))
  /\ \A c \in Patient : WF_vars(Read(c)) /\ WF_vars(Show(c))

-----------------------------------------------------------------------------
(* What delivery promises.                                                 *)

(***************************************************************************)
(* No terminal is ever sent half a frame, or a difference from something   *)
(* it does not show: not after a refused frame, nor after a resize, nor    *)
(* with a write cut anywhere.                                              *)
(***************************************************************************)
NeverGarbled == \A c \in Clients : term[c] # Garbled

(***************************************************************************)
(* When the server has nothing left to paint, nothing is owed: what is on  *)
(* its way to each client ends in the picture as it is now, so dropping    *)
(* frames never leaves a client with a stale screen (pending_paint).       *)
(***************************************************************************)
InFlight(c) == buffer[c] \o wire[c] \o outbox[c]

EndsIn(c) ==
  IF InFlight(c) = <<>> THEN term[c] ELSE InFlight(c)[Len(InFlight(c))][1].to

NothingOwed ==
  ~pending => \A c \in attached : EndsIn(c) = picture /\ ~force[c]

(***************************************************************************)
(* Every behaviour is one Mirror allows: no terminal goes back to an older *)
(* picture, or shows one the session never had.                            *)
(***************************************************************************)
M == INSTANCE Mirror WITH latest <- picture, shown <- term

Mirrors == M!Spec

(***************************************************************************)
(* Whoever keeps reading comes to show the last picture, however many      *)
(* frames were refused and whoever else has stopped reading.               *)
(***************************************************************************)
Settles == M!Settles
=============================================================================
