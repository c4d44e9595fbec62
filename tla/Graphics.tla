------------------------------ MODULE Graphics ------------------------------
(***************************************************************************)
(* What one client's terminal holds of the panes' kitty images, and what   *)
(* the server believes it holds: src/src/graphics.c, walked once a frame   *)
(* by app_graphics_view (src/src/app_draw.c) and committed or not by       *)
(* push_display (src/src/server.c).                                        *)
(*                                                                         *)
(* A placement is a standing instruction: said once, it stays until it is  *)
(* deleted, its image is sent anew, or the screen is cleared.  The model   *)
(* (imgs, places, dead) decides what still has to be said; the frame that  *)
(* says it may be dropped, whole.  The bytes are kept as their effect:     *)
(* `draft' is what the terminal would hold if the frame under construction *)
(* reached it.                                                             *)
(***************************************************************************)
EXTENDS Naturals, FiniteSets

CONSTANTS
  Images,   \* a pane's image: <<pane, src_id>>, and its out_id
  Ids,      \* the placement ids lib-vt reports
  Pieces,   \* the rectangles what lies over a placement cuts it into
  Spots,    \* where a piece is and what it shows of the image
  Nowhere,  \* a piece that is not visible
  Budget    \* bound: changes to the panes

ASSUME GraphicsAssumption ==
  /\ Ids \subseteq Nat /\ Nowhere \notin Spots /\ Budget \in Nat
  /\ IsFiniteSet(Images) /\ IsFiniteSet(Ids) /\ IsFiniteSet(Pieces)

VARIABLES
  scene,    \* where the panes have each piece now
  gen,      \* each image's generation in its pane
  imgs,     \* gfx_image_t: sent or not, and the generation last seen; 0 unseen
  places,   \* gfx_place_t: what the frame shows, and what the client has of it
  wires,    \* next_wire_id
  dead,     \* deletions owed to the client
  txed,     \* images transmitted in the frame being built
  placed,   \* placements emitted in it
  said,     \* the frame has bytes
  todo,     \* pieces app_graphics_view has yet to walk to
  mode,     \* "idle", "walk" or "flushed"
  draft,    \* the terminal, should this frame reach it
  terminal, \* the terminal
  settled,  \* the last frame was delivered, and nothing has changed since
  budget

panes  == <<scene, gen, budget>>
model  == <<imgs, places, wires, dead, txed, placed>>
vars   == <<panes, model, said, todo, mode, draft, terminal, settled>>

Keys == Images \X Ids \X Pieces

Places ==
  [img: Images, id: Nat, piece: Pieces, wire: Nat, at: Spots \cup {Nowhere},
   live: BOOLEAN, shown: BOOLEAN]

\* What a terminal keeps: pixels by image, and what is placed of them.
Terminals ==
  [pixels: [Images -> Nat],
   held: SUBSET [img: Images, wire: Nat, at: Spots, gen: Nat]]

(***************************************************************************)
(* The types, and what img_find and the slot search take for granted: a    *)
(* placement has one slot, and the id the client knows it by is its own.   *)
(***************************************************************************)
TypeOK ==
  /\ scene \in [Keys -> Spots \cup {Nowhere}]
  /\ gen \in [Images -> Nat]
  /\ imgs \in [Images -> [gen: Nat, sent: BOOLEAN]]
  /\ places \subseteq Places
  /\ wires \in Nat /\ dead \subseteq Images \X Nat
  /\ txed \subseteq Images /\ placed \subseteq Nat
  /\ said \in BOOLEAN /\ todo \subseteq Keys
  /\ mode \in {"idle", "walk", "flushed"}
  /\ draft \in Terminals /\ terminal \in Terminals
  /\ settled \in BOOLEAN /\ budget \in Nat
  /\ \A p, q \in places :
       (p.wire = q.wire \/ <<p.img, p.id, p.piece>> = <<q.img, q.id, q.piece>>)
         => p = q

Init ==
  /\ scene = [k \in Keys |-> Nowhere]
  /\ gen = [i \in Images |-> 1]
  /\ imgs = [i \in Images |-> [gen |-> 0, sent |-> FALSE]]
  /\ places = {} /\ wires = 1 /\ dead = {}
  /\ txed = {} /\ placed = {}
  /\ said = FALSE /\ todo = {} /\ mode = "idle"
  /\ draft = [pixels |-> [i \in Images |-> 0], held |-> {}]
  /\ terminal = draft
  /\ settled = FALSE
  /\ budget = Budget

-----------------------------------------------------------------------------
(* The panes.                                                              *)

\* A program places, moves or removes, a pane scrolls, a float comes or goes.
Move ==
  /\ mode = "idle" /\ budget > 0
  /\ \E k \in Keys, at \in Spots \cup {Nowhere} :
       at # scene[k] /\ scene' = [scene EXCEPT ![k] = at]
  /\ settled' = FALSE /\ budget' = budget - 1
  /\ UNCHANGED <<gen, model, said, todo, mode, draft, terminal>>

\* A program sends new pixels under an old id.
Replace ==
  /\ mode = "idle" /\ budget > 0
  /\ \E i \in Images : gen' = [gen EXCEPT ![i] = @ + 1]
  /\ settled' = FALSE /\ budget' = budget - 1
  /\ UNCHANGED <<scene, model, said, todo, mode, draft, terminal>>

-----------------------------------------------------------------------------
(* The terminal.                                                           *)

\* Clearing the screen takes the placements and leaves the pixels.
Cleared(t) == [t EXCEPT !.held = {}]

\* New pixels take the image's placements with them.
Received(t, i, g) ==
  [pixels |-> [t.pixels EXCEPT ![i] = g],
   held |-> {h \in t.held : h.img # i}]

Deleted(t, D) == [t EXCEPT !.held = {h \in @ : <<h.img, h.wire>> \notin D}]

\* Placing again under the same id moves; without pixels there is nothing.
Placed(t, P) ==
  [t EXCEPT !.held =
     {h \in @ : \A p \in P : <<p.img, p.wire>> # <<h.img, h.wire>>}
       \cup {[img |-> p.img, wire |-> p.wire, at |-> p.at, gen |-> t.pixels[p.img]] :
               p \in {q \in P : t.pixels[q.img] # 0}}]

-----------------------------------------------------------------------------
(* The frame.                                                              *)

Hidden(P) == {[p EXCEPT !.shown = FALSE] : p \in P}

\* gfx_commit(false): what the frame placed, the client does not have.
TakenBack(P) == {IF p.wire \in placed THEN [p EXCEPT !.shown = FALSE] ELSE p : p \in P}

Unsent(f) == [i \in Images |-> [f[i] EXCEPT !.sent = @ /\ i \notin txed]]

\* Mutant: a repaint under a picture is taken not to disturb it.
RepaintedNever(P, full) == P

\* gfx_repaint, when the cells are about to be cleared.
Repainted(P, full) == IF full THEN Hidden(P) ELSE P

\* screen_render clears if it must; gfx_begin forgets a frame nobody committed.
Begin ==
  /\ mode \in {"idle", "flushed"}
  /\ \E full \in BOOLEAN :
       /\ places' = {[p EXCEPT !.live = FALSE] :
                       p \in TakenBack(Repainted(places, full))}
       /\ draft' = IF full THEN Cleared(terminal) ELSE terminal
       /\ settled' = (settled /\ ~full /\ mode = "idle")
  /\ imgs' = Unsent(imgs)
  /\ txed' = {} /\ placed' = {} /\ said' = FALSE
  /\ todo' = {k \in Keys : scene[k] # Nowhere}
  /\ mode' = "walk"
  /\ UNCHANGED <<panes, wires, dead, terminal>>

\* A new generation is an image the client does not have.
Seen(i) ==
  IF imgs[i].gen = gen[i] THEN imgs[i] ELSE [gen |-> gen[i], sent |-> FALSE]

\* The id a placement is filed under.
PlaceId(id) == IF id = 0 THEN 1 ELSE id

Slot(k) == {p \in places : <<p.img, p.id, p.piece>> = <<k[1], PlaceId(k[2]), k[3]>>}

\* Mutant: transmitting invalidates no more than the placement at hand.
InvalidatedNone(P, i) == P

\* Every placement of a transmitted image is gone from the client.
Invalidated(P, i) == {IF p.img = i THEN [p EXCEPT !.shown = FALSE] ELSE p : p \in P}

NextWire == wires + 1

\* The client is holding it, exactly so.
Same(p, at) == p.shown /\ p.at = at

Place(k) ==
  LET i    == k[1]
      send == ~Seen(i).sent
      old  == IF send THEN Invalidated(Slot(k), i) ELSE Slot(k)
      rest == IF send THEN Invalidated(places \ Slot(k), i) ELSE places \ Slot(k)
      new  == [img |-> i, id |-> PlaceId(k[2]), piece |-> k[3], wire |-> wires,
               at |-> Nowhere, live |-> FALSE, shown |-> FALSE]
      slot == IF old = {} THEN new ELSE CHOOSE p \in old : TRUE
  IN
  /\ mode = "walk" /\ k \in todo
  /\ todo' = todo \ {k}
  /\ imgs' = [imgs EXCEPT ![i] = [gen |-> gen[i], sent |-> TRUE]]
  /\ txed' = IF send THEN txed \cup {i} ELSE txed
  /\ draft' = IF send THEN Received(draft, i, gen[i]) ELSE draft
  /\ said' = (said \/ send)
  /\ wires' = IF old = {} THEN NextWire ELSE wires
  /\ places' = rest \cup {[slot EXCEPT !.at = scene[k], !.live = TRUE,
                                       !.shown = Same(slot, scene[k])]}
  /\ UNCHANGED <<panes, dead, placed, mode, terminal, settled>>

Stale == {p \in places : ~p.live}

\* Deletions owed from dropped frames, and this one's.
Owed == dead \cup {<<p.img, p.wire>> : p \in Stale}

Emitted == {p \in places : p.live /\ ~p.shown}

\* Deletions go before placements, and only what the client lacks is said.
Flush ==
  /\ mode = "walk" /\ todo = {}
  /\ mode' = "flushed"
  /\ dead' = Owed
  /\ places' = {[p EXCEPT !.shown = TRUE] : p \in places \ Stale}
  /\ placed' = {p.wire : p \in Emitted}
  /\ draft' = Placed(Deleted(draft, Owed), Emitted)
  /\ said' = (said \/ Owed # {} \/ Emitted # {})
  /\ UNCHANGED <<panes, imgs, wires, txed, todo, terminal, settled>>

Deliver ==
  /\ mode = "flushed"
  /\ mode' = "idle"
  /\ terminal' = draft
  /\ dead' = {} /\ txed' = {} /\ placed' = {}
  /\ settled' = TRUE
  /\ UNCHANGED <<panes, imgs, places, wires, said, todo, draft>>

\* The outbox had no room.
Drop ==
  /\ mode = "flushed"
  /\ mode' = "idle"
  /\ imgs' = Unsent(imgs)
  /\ places' = TakenBack(places)
  /\ txed' = {} /\ placed' = {}
  /\ draft' = terminal
  /\ settled' = FALSE
  /\ UNCHANGED <<panes, wires, dead, said, todo, terminal>>

Next == Move \/ Replace \/ Begin \/ (\E k \in Keys : Place(k)) \/ Flush \/ Deliver \/ Drop

Spec == Init /\ [][Next]_vars

-----------------------------------------------------------------------------
(* What the model promises.                                                *)

(***************************************************************************)
(* No picture is parked on a screen for good: what a terminal holds is     *)
(* either still the model's or a deletion still owed (gfx_flush).          *)
(***************************************************************************)
NothingParked ==
  mode = "idle" => \A h \in terminal.held :
    <<h.img, h.wire>> \in dead \/ \E p \in places : p.img = h.img /\ p.wire = h.wire

(***************************************************************************)
(* `shown' is the truth: between frames a placement marked shown is held   *)
(* by the terminal where the model says and with the pixels it says,       *)
(* whatever was cleared, retransmitted or dropped since (gfx_place_t);     *)
(* and the terminal holds nothing the model has not in its books.          *)
(***************************************************************************)
Truthful ==
  /\ mode = "idle" => \A p \in places :
       p.shown => [img |-> p.img, wire |-> p.wire, at |-> p.at, gen |-> imgs[p.img].gen]
                    \in terminal.held
  /\ NothingParked

(***************************************************************************)
(* A delivered frame leaves the terminal with the panes' pictures: each    *)
(* where it is and as it is now, and no others.                            *)
(***************************************************************************)
Visible == {k \in Keys : scene[k] # Nowhere}

Exact ==
  settled /\ mode = "idle" =>
    /\ Cardinality(terminal.held) = Cardinality(Visible)
    /\ {<<h.img, h.at, h.gen>> : h \in terminal.held} =
         {<<k[1], scene[k], gen[k[1]]>> : k \in Visible}

(***************************************************************************)
(* A picture that has not changed is not said again: once a frame has been *)
(* delivered and nothing has moved, the next costs no byte (gfx_flush: "a  *)
(* still picture on a busy screen now costs zero bytes").                  *)
(***************************************************************************)
StillCostsNothing == settled /\ mode = "flushed" => ~said
=============================================================================
