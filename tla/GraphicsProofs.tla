--------------------------- MODULE GraphicsProofs ---------------------------
(***************************************************************************)
(* Theorems about Graphics, for any set of images, ids, pieces and spots.  *)
(***************************************************************************)
EXTENDS Graphics, FiniteSetTheorems, TLAPS

-----------------------------------------------------------------------------
(* What the books say of a placement, and the name a terminal knows it by. *)
Row(p) == [img |-> p.img, wire |-> p.wire, at |-> p.at, gen |-> imgs[p.img].gen]
Name(p) == <<p.img, p.wire>>

\* p is the placement the walk files k under.
Filed(p, k) == p.img = k[1] /\ p.id = PlaceId(k[2]) /\ p.piece = k[3]

(* A name is given once: what is owed or held was named before, and no     *)
(* placement is owed.                                                      *)
Named ==
  /\ \A p \in places : p.wire < wires /\ Name(p) \notin dead
  /\ \A d \in dead : d[2] < wires
  /\ \A i \in Images : gen[i] # 0

(* A terminal holds one thing under a name, and its books know of it.      *)
Booked(t, D) ==
  /\ \A h, g \in t.held : Name(h) = Name(g) => h = g
  /\ \A h \in t.held : Name(h) \in D \/ \E p \in places : Name(p) = Name(h)

(* What a dropped frame goes back to: less what it placed and sent, the    *)
(* books are true of the terminal as it is.                                *)
Behind ==
  /\ \A i \in Images : imgs[i].sent /\ i \notin txed =>
       imgs[i].gen # 0 /\ terminal.pixels[i] = imgs[i].gen
  /\ \A p \in places : p.shown /\ p.wire \notin placed =>
       imgs[p.img].sent /\ p.img \notin txed /\ Row(p) \in terminal.held
  /\ Booked(terminal, dead)

(* What a delivered frame goes on from: the books are true of the draft.   *)
Ahead ==
  mode # "idle" =>
    /\ \A i \in Images : imgs[i].sent => imgs[i].gen # 0 /\ draft.pixels[i] = imgs[i].gen
    /\ \A p \in places : /\ p.shown \/ p.live => imgs[p.img].sent
                         /\ p.shown => Row(p) \in draft.held
    /\ Booked(draft, IF mode = "walk" THEN dead ELSE {})

(* A frame's own notes are empty outside it, and it walks to what is seen.  *)
Notes ==
  /\ mode = "idle" => txed = {} /\ placed = {}
  /\ mode = "walk" => /\ placed = {}
                      /\ \A k \in todo : scene[k] # Nowhere
                      /\ \A p \in places : p.live => p.at # Nowhere

GInv == TypeOK /\ Named /\ Behind /\ Ahead /\ Notes

-----------------------------------------------------------------------------
(* The transformations the frame makes of a placement, field by field.     *)

\* The placement is taken not to be held.
Dim(p) == [p EXCEPT !.shown = FALSE]

LEMMA DimFields ==
  \A p \in Places :
    /\ Dim(p) \in Places /\ Dim(p).img = p.img /\ Dim(p).id = p.id /\ Dim(p).piece = p.piece
    /\ Dim(p).wire = p.wire /\ Dim(p).at = p.at /\ Dim(p).live = p.live /\ ~Dim(p).shown
  BY DEF Places, Dim

\* The placement is taken to be held.
Lit(p) == [p EXCEPT !.shown = TRUE]

LEMMA LitFields ==
  \A p \in Places :
    /\ Lit(p) \in Places /\ Lit(p).img = p.img /\ Lit(p).id = p.id /\ Lit(p).piece = p.piece
    /\ Lit(p).wire = p.wire /\ Lit(p).at = p.at /\ Lit(p).live = p.live /\ Lit(p).shown
  BY DEF Places, Lit

\* The placement has not been walked to.
Unseen(p) == [p EXCEPT !.live = FALSE]

LEMMA UnseenFields ==
  \A p \in Places :
    /\ Unseen(p) \in Places /\ Unseen(p).img = p.img /\ Unseen(p).id = p.id
    /\ Unseen(p).piece = p.piece /\ Unseen(p).wire = p.wire /\ Unseen(p).at = p.at
    /\ ~Unseen(p).live /\ (Unseen(p).shown <=> p.shown)
  BY DEF Places, Unseen

\* The placement is walked to, where the panes have it now.
Put(p, at) == [p EXCEPT !.at = at, !.live = TRUE, !.shown = Same(p, at)]

LEMMA PutFields ==
  \A p \in Places, at \in Spots \cup {Nowhere} :
    /\ Put(p, at) \in Places /\ Put(p, at).img = p.img /\ Put(p, at).id = p.id
    /\ Put(p, at).piece = p.piece /\ Put(p, at).wire = p.wire /\ Put(p, at).at = at
    /\ Put(p, at).live /\ (Put(p, at).shown <=> p.shown /\ p.at = at)
<1>1. \A p \in Places, at \in Spots \cup {Nowhere} : Same(p, at) \in BOOLEAN
  BY DEF Places, Same
<1>2. \A p \in Places, at \in Spots \cup {Nowhere} : Same(p, at) <=> p.shown /\ p.at = at
  BY DEF Same
<1> QED
  <2> TAKE p \in Places, at \in Spots \cup {Nowhere}
  <2> DEFINE b == Same(p, at)
  <2>1. b \in BOOLEAN /\ (b <=> p.shown /\ p.at = at) /\ b = Same(p, at)
    BY <1>1, <1>2
  <2>2. Put(p, at) = [p EXCEPT !.at = at, !.live = TRUE, !.shown = b]
    BY Zenon DEF Put, b
  <2> HIDE DEF b
  <2> DEFINE q == [p EXCEPT !.at = at, !.live = TRUE, !.shown = b]
  <2>3. /\ q \in Places /\ q.img = p.img /\ q.id = p.id /\ q.piece = p.piece
        /\ q.wire = p.wire /\ q.at = at /\ q.live /\ (q.shown <=> b)
    BY <2>1 DEF Places
  <2> HIDE DEF q
  <2> QED BY <2>1, <2>2, <2>3 DEF q

\* What the terminal is told is a row.
LEMMA RowFields ==
  \A p : Row(p).img = p.img /\ Row(p).wire = p.wire /\ Row(p).at = p.at
         /\ Row(p).gen = imgs[p.img].gen
  BY DEF Row

LEMMA UnsentFields ==
  ASSUME imgs \in [Images -> [gen: Nat, sent: BOOLEAN]]
  PROVE  /\ Unsent(imgs) \in [Images -> [gen: Nat, sent: BOOLEAN]]
         /\ \A i \in Images : /\ Unsent(imgs)[i].gen = imgs[i].gen
                              /\ Unsent(imgs)[i].sent <=> imgs[i].sent /\ i \notin txed
  BY DEF Unsent

\* Two placements that differ in nothing but what the frame notes of them.
Kin(q, p) == q.img = p.img /\ q.id = p.id /\ q.piece = p.piece /\ q.wire = p.wire

-----------------------------------------------------------------------------
\* Nothing is placed, held or owed before the first frame.
LEMMA InitGInv == ASSUME Init PROVE GInv
<1>1. TypeOK
  BY GraphicsAssumption DEF Init, TypeOK, Terminals
<1>2. Named /\ Notes
  BY DEF Init, Named, Notes
<1>3. Behind /\ Ahead
  BY DEF Init, Behind, Ahead, Booked
<1> QED BY <1>1, <1>2, <1>3 DEF GInv

\* The panes move between frames and touch no book.
LEMMA PanesGInv == ASSUME GInv, Move \/ Replace PROVE GInv'
<1>1. mode = "idle" /\ UNCHANGED <<model, said, todo, mode, draft, terminal>>
  BY DEF Move, Replace
<1>2. /\ scene' \in [Keys -> Spots \cup {Nowhere}] /\ gen' \in [Images -> Nat]
      /\ \A i \in Images : gen[i] # 0 => gen'[i] # 0
      /\ settled' \in BOOLEAN /\ budget' \in Nat
  <2>0. /\ scene \in [Keys -> Spots \cup {Nowhere}] /\ gen \in [Images -> Nat]
        /\ budget \in Nat
    BY DEF GInv, TypeOK
  <2>1. CASE Move
    <3>1. budget > 0 /\ budget' = budget - 1 /\ settled' = FALSE /\ gen' = gen
      BY <2>1 DEF Move, model
    <3>2. scene' \in [Keys -> Spots \cup {Nowhere}]
      BY <2>0, <2>1 DEF Move
    <3>3. budget' \in Nat
      BY <2>0, <3>1
    <3>4. settled' \in BOOLEAN
      BY <3>1
    <3> QED BY <2>0, <3>1, <3>2, <3>3, <3>4
  <2>2. CASE Replace
    <3>1. budget > 0 /\ budget' = budget - 1 /\ settled' = FALSE /\ scene' = scene
      BY <2>2 DEF Replace, model
    <3>2. PICK i \in Images : gen' = [gen EXCEPT ![i] = gen[i] + 1]
      BY <2>2 DEF Replace
    <3>3. budget' \in Nat
      BY <2>0, <3>1
    <3>4. settled' \in BOOLEAN
      BY <3>1
    <3> QED BY <2>0, <3>1, <3>2, <3>3, <3>4
  <2> QED BY <2>1, <2>2
<1>3. TypeOK'
  BY <1>1, <1>2 DEF GInv, TypeOK, model
<1>4. Named' /\ Notes'
  BY <1>1, <1>2 DEF GInv, Named, Notes, Name, model, TypeOK
<1>5. Behind'
  BY <1>1 DEF GInv, Behind, Booked, Row, Name, model
<1>6. Ahead'
  BY <1>1 DEF GInv, Ahead, Booked, Row, Name, model
<1> QED BY <1>3, <1>4, <1>5, <1>6 DEF GInv

\* What is delivered is what the frame went on from.
LEMMA DeliverGInv == ASSUME GInv, Deliver PROVE GInv'
<1> USE DEF Deliver
<1>1. TypeOK'
  BY DEF GInv, TypeOK, panes
<1>2. Named' /\ Notes' /\ Ahead'
  BY DEF GInv, Named, Notes, Ahead, Name, panes
<1>3. Behind'
  <2>1. /\ \A i \in Images : imgs[i].sent => imgs[i].gen # 0 /\ draft.pixels[i] = imgs[i].gen
        /\ \A p \in places : p.shown => imgs[p.img].sent /\ Row(p) \in draft.held
        /\ Booked(draft, {})
    BY DEF GInv, Ahead
  <2>2. Booked(terminal, dead)'
    BY <2>1 DEF Booked, Name
  <2>3. \A p \in places : p.shown => imgs'[p.img].sent /\ Row(p)' \in terminal'.held
    BY <2>1 DEF Row
  <2> QED BY <2>1, <2>2, <2>3 DEF Behind
<1> QED BY <1>1, <1>2, <1>3 DEF GInv

\* A placement as the walk finds it, after a clear or a dropped frame.
Found(p, full) ==
  Unseen(IF p.wire \in placed \/ full THEN Dim(p) ELSE p)

LEMMA FoundFields ==
  \A p \in Places, full \in BOOLEAN :
    /\ Found(p, full) \in Places /\ Kin(Found(p, full), p) /\ Found(p, full).at = p.at
    /\ ~Found(p, full).live
    /\ Found(p, full).shown <=> p.shown /\ p.wire \notin placed /\ ~full
<1> TAKE p \in Places, full \in BOOLEAN
<1>1. CASE p.wire \in placed \/ full
  <2>1. Found(p, full) = Unseen(Dim(p)) /\ Dim(p) \in Places
    BY <1>1, DimFields DEF Found
  <2> QED BY <1>1, <2>1, DimFields, UnseenFields DEF Kin
<1>2. CASE ~(p.wire \in placed \/ full)
  <2>1. Found(p, full) = Unseen(p)
    BY <1>2 DEF Found
  <2> QED BY <1>2, <2>1, UnseenFields DEF Kin
<1> QED BY <1>1, <1>2

\* Dimming twice is dimming.
LEMMA DimTwice == \A p \in Places : Dim(Dim(p)) = Dim(p)
  BY DEF Places, Dim

LEMMA FoundPlaces ==
  ASSUME TypeOK, NEW full \in BOOLEAN
  PROVE  {[p EXCEPT !.live = FALSE] : p \in TakenBack(Repainted(places, full))}
           = {Found(p, full) : p \in places}
<1>1. \A p \in places : p \in Places /\ Dim(p).wire = p.wire /\ Dim(Dim(p)) = Dim(p)
  BY DimFields, DimTwice DEF TypeOK
<1>2. CASE full
  <2>1. Repainted(places, full) = {Dim(p) : p \in places}
    BY <1>2 DEF Repainted, Hidden, Dim
  <2>2. TakenBack(Repainted(places, full)) = {Dim(p) : p \in places}
    BY <2>1, <1>1 DEF TakenBack, Dim
  <2> QED BY <1>2, <2>2 DEF Found, Unseen
<1>3. CASE ~full
  <2>1. Repainted(places, full) = places
    BY <1>3 DEF Repainted
  <2>2. TakenBack(places) = {IF p.wire \in placed THEN Dim(p) ELSE p : p \in places}
    BY DEF TakenBack, Dim
  <2> QED BY <1>3, <2>1, <2>2 DEF Found, Unseen
<1> QED BY <1>2, <1>3

\* What is settled about the deck when the walk has not begun.
LEMMA BeginGInv == ASSUME GInv, Begin PROVE GInv'
<1>1. PICK full \in BOOLEAN :
        /\ places' = {Found(p, full) : p \in places}
        /\ draft' = IF full THEN Cleared(terminal) ELSE terminal
        /\ settled' = (settled /\ ~full /\ mode = "idle")
  BY FoundPlaces DEF Begin, GInv
<1>2. /\ imgs' = Unsent(imgs) /\ txed' = {} /\ placed' = {} /\ said' = FALSE
      /\ todo' = {k \in Keys : scene[k] # Nowhere} /\ mode' = "walk"
      /\ UNCHANGED <<scene, gen, budget, wires, dead, terminal>>
  BY DEF Begin, panes
<1>3. /\ imgs' \in [Images -> [gen: Nat, sent: BOOLEAN]]
      /\ \A i \in Images : imgs'[i].gen = imgs[i].gen
                           /\ (imgs'[i].sent <=> imgs[i].sent /\ i \notin txed)
  BY <1>2, UnsentFields DEF GInv, TypeOK
<1>4. \A p \in places :
        /\ p \in Places /\ Found(p, full) \in Places /\ Kin(Found(p, full), p)
        /\ Found(p, full).at = p.at /\ ~Found(p, full).live
        /\ Found(p, full).shown <=> p.shown /\ p.wire \notin placed /\ ~full
  BY FoundFields DEF GInv, TypeOK
<1>5. draft' \in Terminals /\ draft'.pixels = terminal.pixels
      /\ draft'.held = (IF full THEN {} ELSE terminal.held)
  BY <1>1 DEF GInv, TypeOK, Terminals, Cleared
<1>6. TypeOK'
  <2>1. places' \subseteq Places
    BY <1>1, <1>4
  <2>2. \A p, q \in places' :
          (p.wire = q.wire \/ <<p.img, p.id, p.piece>> = <<q.img, q.id, q.piece>>) => p = q
    BY <1>1, <1>4 DEF GInv, TypeOK, Kin
  <2>3. settled' \in BOOLEAN
    BY <1>1
  <2> QED BY <1>2, <1>3, <1>5, <2>1, <2>2, <2>3 DEF GInv, TypeOK
<1>7. Named'
  BY <1>1, <1>2, <1>4 DEF GInv, Named, Name, Kin
<1>8. \A p \in places' : \E o \in places :
        /\ Name(p) = Name(o) /\ p.img \in Images /\ (p.shown => ~full) /\ p.img = o.img
        /\ p.shown => o.shown /\ o.wire \notin placed /\ Row(p)' = Row(o)
  <2> SUFFICES ASSUME NEW p \in places'
               PROVE  \E o \in places :
                        /\ Name(p) = Name(o) /\ p.img \in Images /\ (p.shown => ~full) /\ p.img = o.img
                        /\ p.shown => o.shown /\ o.wire \notin placed /\ Row(p)' = Row(o)
    OBVIOUS
  <2>1. PICK o \in places : p = Found(o, full)
    BY <1>1
  <2>2. o.img \in Images /\ p.img = o.img /\ p.wire = o.wire /\ p.at = o.at
    BY <2>1, <1>4 DEF Places, Kin
  <2>3. p.shown => o.shown /\ o.wire \notin placed /\ ~full
    BY <2>1, <1>4
  <2>4. Name(p) = Name(o) /\ Row(p)' = Row(o)
    BY <2>2, <1>3 DEF Name, Row
  <2> QED BY <2>2, <2>3, <2>4
<1>9. \A o \in places : \E p \in places' : Name(p) = Name(o)
  BY <1>1, <1>4 DEF Name, Kin
<1>10. /\ \A i \in Images : imgs'[i].sent => imgs'[i].gen # 0 /\ terminal.pixels[i] = imgs'[i].gen
       /\ \A p \in places' : p.shown => imgs'[p.img].sent /\ Row(p)' \in terminal.held /\ ~full
  BY <1>3, <1>8 DEF GInv, Behind
<1>11. Booked(terminal, dead)'
  BY <1>2, <1>9 DEF GInv, Behind, Booked, Name
<1>12. Behind'
  BY <1>2, <1>10, <1>11 DEF Behind
<1>13. Ahead'
  BY <1>1, <1>2, <1>4, <1>5, <1>10, <1>11 DEF Ahead, Booked, Name
<1>14. Notes'
  BY <1>1, <1>2, <1>4 DEF Notes
<1> QED BY <1>6, <1>7, <1>12, <1>13, <1>14 DEF GInv

\* A dropped frame leaves the books with what was true before it.
LEMMA DropGInv == ASSUME GInv, Drop PROVE GInv'
<1>1. /\ mode = "flushed" /\ mode' = "idle" /\ imgs' = Unsent(imgs)
      /\ txed' = {} /\ placed' = {} /\ draft' = terminal /\ settled' = FALSE
      /\ UNCHANGED <<scene, gen, budget, wires, dead, said, todo, terminal>>
  BY DEF Drop, panes
<1>2. places' = {IF p.wire \in placed THEN Dim(p) ELSE p : p \in places}
  BY DEF Drop, TakenBack, Dim
<1>3. /\ imgs' \in [Images -> [gen: Nat, sent: BOOLEAN]]
      /\ \A i \in Images : imgs'[i].gen = imgs[i].gen
                           /\ (imgs'[i].sent <=> imgs[i].sent /\ i \notin txed)
  BY <1>1, UnsentFields DEF GInv, TypeOK
<1>4. /\ \A p \in places' : p \in Places
      /\ \A p \in places' : \E o \in places :
           /\ Kin(p, o) /\ p.at = o.at /\ p.img \in Images
           /\ p.shown => o.shown /\ o.wire \notin placed
      /\ \A o \in places : \E p \in places' : Kin(p, o)
  BY <1>2, DimFields DEF GInv, TypeOK, Kin, Places
<1>5. TypeOK'
  <2>1. places' \subseteq Places
    BY <1>4
  <2>2. \A p, q \in places' :
          (p.wire = q.wire \/ <<p.img, p.id, p.piece>> = <<q.img, q.id, q.piece>>) => p = q
    BY <1>2, DimFields DEF GInv, TypeOK
  <2> QED BY <1>1, <1>3, <2>1, <2>2 DEF GInv, TypeOK
<1>6. Named'
  BY <1>1, <1>4 DEF GInv, Named, Name, Kin
<1>7. Behind'
  <2>1. \A i \in Images : imgs'[i].sent => imgs'[i].gen # 0 /\ terminal.pixels[i] = imgs'[i].gen
    BY <1>3 DEF GInv, Behind
  <2>2. ASSUME NEW p \in places', p.shown
        PROVE  imgs'[p.img].sent /\ Row(p)' \in terminal.held
    <3>1. PICK o \in places : /\ Kin(p, o) /\ p.at = o.at /\ p.img \in Images
                              /\ o.shown /\ o.wire \notin placed
      BY <1>4, <2>2
    <3>2. Row(p)' = Row(o)
      BY <3>1, <1>3 DEF Row, Kin
    <3> QED BY <3>1, <3>2, <1>3 DEF GInv, Behind, Kin
  <2>3. Booked(terminal, dead)'
    BY <1>1, <1>4 DEF GInv, Behind, Booked, Name, Kin
  <2> QED BY <1>1, <2>1, <2>2, <2>3 DEF Behind
<1> QED BY <1>1, <1>5, <1>6, <1>7 DEF GInv, Notes, Ahead

\* A frame says what the client lacks and takes away what is gone.
LEMMA FlushGInv == ASSUME GInv, Flush PROVE GInv'
<1>1. /\ mode = "walk" /\ mode' = "flushed" /\ dead' = Owed
      /\ placed' = {p.wire : p \in Emitted}
      /\ draft' = Placed(Deleted(draft, Owed), Emitted)
      /\ said' = (said \/ Owed # {} \/ Emitted # {})
      /\ UNCHANGED <<scene, gen, budget, imgs, wires, txed, todo, terminal, settled>>
  BY DEF Flush, panes
<1>2. places' = {Lit(p) : p \in places \ Stale}
  BY DEF Flush, Lit
<1>3. /\ \A p \in places : p \in Places /\ p.img \in Images /\ p.wire \in Nat
      /\ \A p, q \in places : p.wire = q.wire => p = q
  BY DEF GInv, TypeOK, Places
<1>4. /\ \A p \in places' : /\ p \in Places /\ p.shown /\ p.live
                            /\ \E o \in places \ Stale : p = Lit(o) /\ Kin(p, o) /\ Row(p)' = Row(o)
      /\ \A o \in places \ Stale : \E p \in places' : Kin(p, o)
  <2>1. \A o \in places \ Stale : Lit(o) \in Places /\ Kin(Lit(o), o) /\ Lit(o).shown
                                  /\ Lit(o).at = o.at /\ Lit(o).live
    BY <1>3, LitFields DEF Stale, Kin
  <2>2. \A o \in places \ Stale : \E p \in places' : Kin(p, o)
    BY <1>2, <2>1
  <2>3. ASSUME NEW p \in places'
        PROVE  /\ p \in Places /\ p.shown /\ p.live
               /\ \E o \in places \ Stale : p = Lit(o) /\ Kin(p, o) /\ Row(p)' = Row(o)
    <3>1. PICK o \in places \ Stale : p = Lit(o)
      BY <1>2
    <3>2. Row(p)' = Row(o)
      BY <3>1, <2>1, <1>1 DEF Row, Kin
    <3> QED BY <3>1, <3>2, <2>1
  <2> QED BY <2>2, <2>3
<1>5. /\ \A o \in places \ Stale : Name(o) \notin Owed
      /\ \A o \in Stale : Name(o) \in Owed
      /\ dead \subseteq Owed
      /\ \A d \in Owed : d \in Images \X Nat /\ d[2] < wires
  <2>1. Owed = dead \cup {Name(p) : p \in Stale} /\ Stale \subseteq places
    BY DEF Owed, Name, Stale
  <2>2. \A p, q \in places : Name(p) = Name(q) => p = q
    BY <1>3 DEF Name
  <2>3. \A p \in places : Name(p) \notin dead /\ Name(p) \in Images \X Nat /\ Name(p)[2] < wires
    BY <1>3 DEF GInv, Named, Name
  <2>4. \A d \in dead : d \in Images \X Nat /\ d[2] < wires
    BY DEF GInv, Named, TypeOK
  <2>5. \A o \in places \ Stale : Name(o) \notin Owed
    BY <2>1, <2>2, <2>3
  <2>6. \A d \in Owed : d \in Images \X Nat /\ d[2] < wires
    BY <2>1, <2>3, <2>4
  <2> QED BY <2>1, <2>5, <2>6
<1>6. TypeOK'
  <2>1. places' \subseteq Places /\ placed' \subseteq Nat
    BY <1>1, <1>3, <1>4 DEF Emitted
  <2>2. \A p, q \in places' :
          (p.wire = q.wire \/ <<p.img, p.id, p.piece>> = <<q.img, q.id, q.piece>>) => p = q
    BY <1>4 DEF GInv, TypeOK, Kin
  <2>3. dead' \subseteq Images \X Nat
    BY <1>1, <1>5
  <2>4. draft' \in Terminals
    <3>1. draft \in Terminals /\ Deleted(draft, Owed) \in Terminals
      BY DEF GInv, TypeOK, Terminals, Deleted
    <3>2. \A p \in Emitted : /\ p.img \in Images /\ p.wire \in Nat /\ p.at \in Spots
                             /\ draft.pixels[p.img] \in Nat
      BY <1>1, <1>3, <3>1 DEF Emitted, Terminals, GInv, Notes, Places
    <3> DEFINE t == Deleted(draft, Owed)
              rows == {[img |-> p.img, wire |-> p.wire, at |-> p.at, gen |-> t.pixels[p.img]] :
                         p \in {q \in Emitted : t.pixels[q.img] # 0}}
              kept == {h \in t.held : \A p \in Emitted : <<p.img, p.wire>> # <<h.img, h.wire>>}
    <3>3. t \in Terminals /\ t.pixels = draft.pixels
      BY <3>1 DEF Deleted, Terminals
    <3>4. draft' = [t EXCEPT !.held = kept \cup rows]
      BY <1>1 DEF Placed
    <3> HIDE DEF t
    <3>5. rows \subseteq [img: Images, wire: Nat, at: Spots, gen: Nat]
      BY <3>2, <3>3
    <3>6. kept \subseteq [img: Images, wire: Nat, at: Spots, gen: Nat]
      BY <3>3 DEF Terminals
    <3> HIDE DEF rows, kept
    <3> QED BY <3>3, <3>4, <3>5, <3>6 DEF Terminals
  <2>5. said' \in BOOLEAN
    BY <1>1 DEF GInv, TypeOK
  <2> QED BY <1>1, <2>1, <2>2, <2>3, <2>4, <2>5 DEF GInv, TypeOK
<1>7. Named'
  BY <1>1, <1>4, <1>5 DEF GInv, Named, Name, Kin
<1>8. Behind'
  <2>1. ASSUME NEW p \in places', p.wire \notin placed'
        PROVE  imgs[p.img].sent /\ p.img \notin txed /\ Row(p)' \in terminal.held
    <3>1. PICK o \in places \ Stale : p = Lit(o) /\ Kin(p, o) /\ Row(p)' = Row(o)
      BY <1>4
    <3>2. o.shown
      BY <1>1, <2>1, <3>1 DEF Emitted, Stale, Kin
    <3> QED BY <1>1, <3>1, <3>2 DEF GInv, Behind, Notes, Kin
  <2>2. Booked(terminal, dead)'
    <3>1. \A h \in terminal.held : Name(h) \in Owed \/ \E o \in places \ Stale : Name(o) = Name(h)
      BY <1>5 DEF GInv, Behind, Booked
    <3>2. \A o \in places \ Stale : \E p \in places' : Name(p) = Name(o)
      BY <1>4 DEF Name, Kin
    <3>3. \A h \in terminal.held : Name(h) \in Owed \/ \E p \in places' : Name(p) = Name(h)
      BY <3>1, <3>2
    <3> QED BY <1>1, <3>3 DEF GInv, Behind, Booked, Name
  <2> QED BY <1>1, <2>1, <2>2 DEF GInv, Behind
<1>9. Ahead'
  <2>1. /\ \A i \in Images : imgs[i].sent => imgs[i].gen # 0 /\ draft.pixels[i] = imgs[i].gen
        /\ \A p \in places : /\ p.shown \/ p.live => imgs[p.img].sent
                             /\ p.shown => Row(p) \in draft.held
        /\ Booked(draft, dead)
    BY <1>1 DEF GInv, Ahead
  <2>2. /\ draft'.pixels = draft.pixels
        /\ \A r : r \in draft'.held <=>
             \/ r \in draft.held /\ Name(r) \notin Owed /\ \A p \in Emitted : Name(p) # Name(r)
             \/ \E p \in Emitted : draft.pixels[p.img] # 0
                  /\ r = [img |-> p.img, wire |-> p.wire, at |-> p.at, gen |-> draft.pixels[p.img]]
    BY <1>1 DEF GInv, TypeOK, Terminals, Placed, Deleted, Name
  <2>3. \A p \in Emitted : /\ p \in places \ Stale /\ ~p.shown /\ draft.pixels[p.img] # 0
                           /\ Row(p) = [img |-> p.img, wire |-> p.wire, at |-> p.at,
                                        gen |-> draft.pixels[p.img]]
    BY <1>3, <2>1 DEF Emitted, Stale, Row
  <2>4. \A r : r \in draft'.held <=>
          \/ r \in draft.held /\ Name(r) \notin Owed /\ \A p \in Emitted : Name(p) # Name(r)
          \/ \E p \in Emitted : r = Row(p)
    BY <2>2, <2>3
  <2>5. \A o \in places \ Stale : Row(o) \in draft'.held
    <3> SUFFICES ASSUME NEW o \in places \ Stale PROVE Row(o) \in draft'.held
      OBVIOUS
    <3>1. CASE ~o.shown
      BY <3>1, <2>4 DEF Emitted, Stale
    <3>2. CASE o.shown
      <4>1. Row(o) \in draft.held /\ Name(Row(o)) = Name(o) /\ Name(o) \notin Owed
        BY <3>2, <2>1, <1>5 DEF Row, Name
      <4>2. \A p \in Emitted : Name(p) # Name(o)
        BY <3>2, <1>3, <2>3 DEF Name
      <4> QED BY <4>1, <4>2, <2>4
    <3> QED BY <3>1, <3>2
  <2>6. \A p \in Emitted : Name(Row(p)) = Name(p)
    BY DEF Name, Row
  <2>7. \A h, g \in draft'.held : Name(h) = Name(g) => h = g
    <3>1. \A p, q \in Emitted : Name(p) = Name(q) => p = q
      BY <1>3, <2>3 DEF Name
    <3> QED BY <2>1, <2>4, <2>6, <3>1 DEF Booked
  <2>8. \A h \in draft'.held : \E p \in places' : Name(p) = Name(h)
    <3>1. \A h \in draft'.held : \E o \in places \ Stale : Name(o) = Name(h)
      BY <2>1, <2>3, <2>4, <2>6, <1>5 DEF Booked
    <3> QED BY <3>1, <1>4 DEF Name, Kin
  <2>9. Booked(draft, {})'
    BY <2>7, <2>8 DEF Booked, Name
  <2>10. \A p \in places' : imgs'[p.img].sent /\ Row(p)' \in draft'.held
    BY <1>1, <1>4, <2>1, <2>5 DEF Stale, Kin
  <2>11. \A i \in Images : imgs'[i].sent => imgs'[i].gen # 0 /\ draft'.pixels[i] = imgs'[i].gen
    BY <1>1, <2>1, <2>2
  <2> QED BY <1>1, <2>9, <2>10, <2>11 DEF Ahead
<1> QED BY <1>1, <1>6, <1>7, <1>8, <1>9 DEF GInv, Notes

\* The walk files a key under one placement: its slot, or one newly named.
LEMMA PlaceShape ==
  ASSUME GInv, NEW k \in Keys, Place(k)
  PROVE  \E send \in BOOLEAN, s \in Places :
           /\ send <=> ~(imgs[k[1]].gen = gen[k[1]] /\ imgs[k[1]].sent)
           /\ txed' = (IF send THEN txed \cup {k[1]} ELSE txed)
           /\ draft' = (IF send THEN Received(draft, k[1], gen[k[1]]) ELSE draft)
           /\ said' = (said \/ send)
           /\ Filed(s, k) /\ (s.shown => ~send /\ s \in places)
           /\ \/ Slot(k) = {} /\ s.wire = wires /\ wires' = wires + 1
              \/ wires' = wires /\ \E o \in places : Slot(k) = {o} /\ Kin(s, o) /\ (~send => s = o)
           /\ places' = {IF send /\ p.img = k[1] THEN Dim(p) ELSE p : p \in places \ Slot(k)}
                          \cup {Put(s, scene[k])}
<1> DEFINE i    == k[1]
           send == ~Seen(i).sent
           old  == IF send THEN Invalidated(Slot(k), i) ELSE Slot(k)
           rest == IF send THEN Invalidated(places \ Slot(k), i) ELSE places \ Slot(k)
           new  == [img |-> i, id |-> PlaceId(k[2]), piece |-> k[3], wire |-> wires,
                    at |-> Nowhere, live |-> FALSE, shown |-> FALSE]
           slot == IF old = {} THEN new ELSE CHOOSE p \in old : TRUE
<1>1. /\ txed' = (IF send THEN txed \cup {i} ELSE txed)
      /\ draft' = (IF send THEN Received(draft, i, gen[i]) ELSE draft)
      /\ said' = (said \/ send)
      /\ wires' = (IF old = {} THEN wires + 1 ELSE wires)
      /\ places' = rest \cup {Put(slot, scene[k])}
  BY Zenon DEF Place, Put, NextWire
<1>2. send <=> ~(imgs[i].gen = gen[i] /\ imgs[i].sent)
  BY DEF Seen
<1>3. rest = {IF send /\ p.img = i THEN Dim(p) ELSE p : p \in places \ Slot(k)}
  BY DEF Invalidated, Dim
<1>4. /\ \A p \in Slot(k) : p \in places /\ p \in Places /\ Filed(p, k) /\ p.img = i
      /\ \A p, q \in Slot(k) : p = q
  BY DEF Slot, Filed, GInv, TypeOK
<1>5. old = {IF send THEN Dim(p) ELSE p : p \in Slot(k)}
  BY <1>4 DEF Invalidated, Dim
<1>6. i \in Images /\ PlaceId(k[2]) \in Nat /\ k[3] \in Pieces /\ wires \in Nat
  BY GraphicsAssumption DEF Keys, PlaceId, GInv, TypeOK
<1> HIDE DEF i, send, old, rest
<1>7. slot \in Places /\ Filed(slot, k) /\ (slot.shown => ~send /\ slot \in places)
      /\ (\/ Slot(k) = {} /\ slot.wire = wires /\ wires' = wires + 1
          \/ wires' = wires /\ \E o \in places : Slot(k) = {o} /\ Kin(slot, o) /\ (~send => slot = o))
  <2>1. CASE Slot(k) = {}
    <3>1. old = {} /\ slot = new
      BY <2>1, <1>5
    <3>2. new \in Places /\ new.img = i /\ new.id = PlaceId(k[2]) /\ new.piece = k[3]
          /\ new.wire = wires /\ ~new.shown
      BY <1>6 DEF Places
    <3> HIDE DEF new, slot
    <3> QED BY <2>1, <3>1, <3>2, <1>1 DEF Filed, i
  <2>2. CASE Slot(k) # {}
    <3>1. PICK o \in Slot(k) : Slot(k) = {o}
      BY <2>2, <1>4
    <3>2. old = {IF send THEN Dim(o) ELSE o}
      BY <3>1, <1>5
    <3>3. slot = IF send THEN Dim(o) ELSE o
      BY <3>2
    <3> HIDE DEF new, slot
    <3>4. o \in places /\ o \in Places /\ Filed(o, k)
      BY <1>4
    <3>5. slot \in Places /\ Kin(slot, o) /\ (slot.shown => ~send) /\ (~send => slot = o)
      BY <3>3, <3>4, DimFields DEF Kin
    <3>6. wires' = wires
      BY <3>2, <1>1
    <3> QED BY <3>1, <3>4, <3>5, <3>6 DEF Filed, Kin
  <2> QED BY <2>1, <2>2
<1> HIDE DEF slot, new
<1>8. send \in BOOLEAN
  BY DEF send
<1>9. \E t \in BOOLEAN, s \in Places :
           /\ t <=> ~(imgs[i].gen = gen[i] /\ imgs[i].sent)
           /\ txed' = (IF t THEN txed \cup {i} ELSE txed)
           /\ draft' = (IF t THEN Received(draft, i, gen[i]) ELSE draft)
           /\ said' = (said \/ t)
           /\ Filed(s, k) /\ (s.shown => ~t /\ s \in places)
           /\ \/ Slot(k) = {} /\ s.wire = wires /\ wires' = wires + 1
              \/ wires' = wires /\ \E o \in places : Slot(k) = {o} /\ Kin(s, o) /\ (~t => s = o)
           /\ places' = {IF t /\ p.img = i THEN Dim(p) ELSE p : p \in places \ Slot(k)}
                          \cup {Put(s, scene[k])}
  <2> USE <1>7, <1>8
  <2> WITNESS send \in BOOLEAN, slot \in Places
  <2> QED BY <1>1, <1>2, <1>3, <1>7
<1> QED BY <1>9 DEF i

\* A placement is filed, with the pixels it needs if the client lacks them.
LEMMA PlaceGInv == ASSUME GInv, NEW k \in Keys, Place(k) PROVE GInv'
<1> DEFINE i == k[1]
           others(send) == {IF send /\ p.img = i THEN Dim(p) ELSE p : p \in places \ Slot(k)}
<1>1. PICK send \in BOOLEAN, s \in Places :
        /\ send <=> ~(imgs[i].gen = gen[i] /\ imgs[i].sent)
        /\ txed' = (IF send THEN txed \cup {i} ELSE txed)
        /\ draft' = (IF send THEN Received(draft, i, gen[i]) ELSE draft)
        /\ said' = (said \/ send)
        /\ Filed(s, k) /\ (s.shown => ~send /\ s \in places)
        /\ \/ Slot(k) = {} /\ s.wire = wires /\ wires' = wires + 1
           \/ wires' = wires /\ \E o \in places : Slot(k) = {o} /\ Kin(s, o) /\ (~send => s = o)
        /\ places' = others(send) \cup {Put(s, scene[k])}
  BY PlaceShape
<1>2. /\ mode = "walk" /\ k \in todo /\ todo' = todo \ {k}
      /\ imgs' = [imgs EXCEPT ![i] = [gen |-> gen[i], sent |-> TRUE]]
      /\ UNCHANGED <<scene, gen, budget, dead, placed, mode, terminal, settled>>
  BY DEF Place, panes
<1>3. /\ i \in Images /\ scene[k] \in Spots \cup {Nowhere} /\ scene[k] # Nowhere
      /\ gen[i] \in Nat /\ gen[i] # 0 /\ wires \in Nat
      /\ wires' \in Nat /\ wires' >= wires
  BY <1>1, <1>2 DEF Keys, GInv, TypeOK, Named, Notes
<1>4. /\ imgs' \in [Images -> [gen: Nat, sent: BOOLEAN]]
      /\ imgs'[i].sent /\ imgs'[i].gen = gen[i]
      /\ \A j \in Images : j # i \/ ~send => imgs'[j] = imgs[j]
  BY <1>1, <1>2, <1>3 DEF GInv, TypeOK
<1> DEFINE q == Put(s, scene[k])
<1>5. /\ q \in Places /\ Filed(q, k) /\ q.wire = s.wire /\ q.at = scene[k] /\ q.live
      /\ q.img = i
      /\ q.shown <=> s.shown /\ s.at = scene[k]
  BY <1>1, <1>3, PutFields DEF Filed
<1>6. \A p \in places : p \in Places /\ p.img \in Images /\ p.wire \in Nat
  BY DEF GInv, TypeOK, Places
<1>7. \A p \in others(send) : \E o \in places \ Slot(k) :
        /\ p = (IF send /\ o.img = i THEN Dim(o) ELSE o)
        /\ p \in Places /\ Kin(p, o) /\ p.at = o.at /\ (p.live <=> o.live)
        /\ p.shown => p = o /\ ~(send /\ o.img = i)
  BY <1>6, DimFields DEF Kin
<1>8. \A o \in places \ Slot(k) : ~Filed(o, k) /\ o.wire # q.wire /\ q.wire < wires'
  <2>1. \A o \in places : o.wire < wires
    BY DEF GInv, Named
  <2>2. \A o \in places \ Slot(k) : ~Filed(o, k)
    BY DEF Slot, Filed
  <2>3. CASE Slot(k) = {} /\ s.wire = wires /\ wires' = wires + 1
    BY <2>1, <2>2, <2>3, <1>3, <1>5, <1>6
  <2>4. CASE wires' = wires /\ \E o \in places : Slot(k) = {o} /\ Kin(s, o)
    BY <2>1, <2>2, <2>4, <1>3, <1>5, <1>6 DEF Kin, GInv, TypeOK
  <2> QED BY <1>1, <2>3, <2>4
<1>9. q.wire < wires' /\ q.wire \in Nat
  <2>1. \A o \in places : o.wire < wires
    BY DEF GInv, Named
  <2> QED BY <2>1, <1>1, <1>3, <1>5, <1>6 DEF Kin
<1>10. Name(q) \notin dead
  <2>1. CASE s.wire = wires
    BY <2>1, <1>3, <1>5 DEF Name, GInv, Named
  <2>2. CASE \E o \in places : Slot(k) = {o} /\ Kin(s, o)
    BY <2>2, <1>1, <1>5 DEF Name, GInv, Named, Kin, Filed
  <2> QED BY <1>1, <2>1, <2>2
<1>11. \A o \in places : \E p \in places' : Name(p) = Name(o)
  <2>1. ASSUME NEW o \in places, o \in Slot(k) PROVE Name(q) = Name(o)
    BY <2>1, <1>1, <1>5 DEF Kin, Name, Filed
  <2>2. ASSUME NEW o \in places \ Slot(k) PROVE \E p \in others(send) : Name(p) = Name(o)
    <3>1. (IF send /\ o.img = i THEN Dim(o) ELSE o) \in others(send)
      OBVIOUS
    <3> QED BY <3>1, <1>6, DimFields DEF Name
  <2> QED BY <1>1, <2>1, <2>2
<1>12. places' = others(send) \cup {q}
  BY <1>1
<1> HIDE DEF q, others
<1>13. TypeOK'
  <2>1. places' \subseteq Places
    BY <1>5, <1>7, <1>12
  <2>2. \A p, r \in places' :
          (p.wire = r.wire \/ <<p.img, p.id, p.piece>> = <<r.img, r.id, r.piece>>) => p = r
    <3>1. \A p, r \in others(send) :
            (p.wire = r.wire \/ <<p.img, p.id, p.piece>> = <<r.img, r.id, r.piece>>) => p = r
      BY <1>7 DEF GInv, TypeOK, Kin
    <3>2. \A p \in others(send) :
            p.wire # q.wire /\ <<p.img, p.id, p.piece>> # <<q.img, q.id, q.piece>>
      BY <1>5, <1>7, <1>8 DEF Kin, Filed
    <3> QED BY <3>1, <3>2, <1>12
  <2>3. draft' \in Terminals
    BY <1>1, <1>3 DEF Received, Terminals, GInv, TypeOK
  <2>4. txed' \subseteq Images /\ said' \in BOOLEAN /\ todo' \subseteq Keys
    BY <1>1, <1>2, <1>3 DEF GInv, TypeOK
  <2> QED BY <1>2, <1>3, <1>4, <2>1, <2>2, <2>3, <2>4 DEF GInv, TypeOK
<1>14. Named'
  <2>1. \A p \in places' : p.wire < wires' /\ Name(p) \notin dead
    <3>1. \A p \in others(send) : p.wire < wires' /\ Name(p) \notin dead
      <4>1. \A o \in places : o.wire < wires' /\ Name(o) \notin dead
        BY <1>3, <1>6 DEF GInv, Named
      <4>2. \A p \in others(send) : \E o \in places : p.wire = o.wire /\ Name(p) = Name(o)
        BY <1>7 DEF Kin, Name
      <4> QED BY <4>1, <4>2
    <3> QED BY <3>1, <1>9, <1>10, <1>12
  <2>2. \A d \in dead : d[2] < wires'
    <3>1. \A d \in dead : d[2] < wires /\ d[2] \in Nat
      BY DEF GInv, Named, TypeOK
    <3> QED BY <3>1, <1>3
  <2> QED BY <2>1, <2>2, <1>2 DEF Named, GInv, Name
<1>15. \A p \in places' :
         p.shown => \E o \in places : p.img = o.img /\ o.shown /\ Row(p)' = Row(o) /\ imgs'[p.img] = imgs[p.img]
                                      /\ ~(send /\ p.img = i) /\ p.wire = o.wire
  <2>1. ASSUME NEW p \in others(send), p.shown
        PROVE  p \in places /\ ~(send /\ p.img = i) /\ p.img \in Images
    BY <2>1, <1>6, <1>7
  <2>2. ASSUME q.shown
        PROVE  /\ s \in places /\ q.img = s.img /\ s.shown /\ ~send /\ q.img \in Images
               /\ q.wire = s.wire /\ q.at = s.at
    BY <2>2, <1>1, <1>3, <1>5 DEF Filed
  <2> SUFFICES ASSUME NEW p \in places', p.shown
               PROVE  \E o \in places :
                        /\ p.img = o.img /\ o.shown /\ Row(p)' = Row(o) /\ imgs'[p.img] = imgs[p.img]
                        /\ ~(send /\ p.img = i) /\ p.wire = o.wire
    OBVIOUS
  <2>3. CASE p \in others(send)
    <3>1. p \in places /\ ~(send /\ p.img = i) /\ imgs'[p.img] = imgs[p.img]
      BY <2>1, <2>3, <1>4
    <3>2. Row(p)' = Row(p)
      BY <3>1 DEF Row
    <3> QED BY <3>1, <3>2
  <2>4. CASE p = q
    <3>1. imgs'[p.img] = imgs[p.img]
      BY <2>2, <2>4, <1>4
    <3>2. Row(p)' = Row(s)
      BY <2>2, <2>4, <3>1 DEF Row
    <3> QED BY <2>2, <2>4, <3>1, <3>2
  <2> QED BY <2>3, <2>4, <1>12
<1>16. Behind'
  <2>1. ASSUME NEW j \in Images, imgs'[j].sent, j \notin txed'
        PROVE  imgs'[j].gen # 0 /\ terminal.pixels[j] = imgs'[j].gen
    <3>1. ~(j = i /\ send) /\ j \notin txed
      BY <2>1, <1>1
    <3> QED BY <2>1, <3>1, <1>4 DEF GInv, Behind
  <2>2. ASSUME NEW p \in places', p.shown
        PROVE  imgs'[p.img].sent /\ p.img \notin txed' /\ Row(p)' \in terminal.held
    <3>1. PICK o \in places : /\ p.img = o.img /\ o.shown /\ Row(p)' = Row(o)
                              /\ imgs'[p.img] = imgs[p.img] /\ ~(send /\ p.img = i)
      BY <1>15, <2>2
    <3>2. imgs[o.img].sent /\ o.img \notin txed /\ Row(o) \in terminal.held
      BY <3>1, <1>2 DEF GInv, Behind, Notes
    <3> QED BY <3>1, <3>2, <1>1
  <2>3. Booked(terminal, dead)'
    BY <1>2, <1>11 DEF GInv, Behind, Booked, Name
  <2> QED BY <1>2, <2>1, <2>2, <2>3 DEF Behind
<1>17. Ahead'
  <2>1. /\ \A j \in Images : imgs[j].sent => imgs[j].gen # 0 /\ draft.pixels[j] = imgs[j].gen
        /\ \A p \in places : /\ p.shown \/ p.live => imgs[p.img].sent
                             /\ p.shown => Row(p) \in draft.held
        /\ Booked(draft, dead)
    BY <1>2 DEF GInv, Ahead
  <2>2. /\ draft'.pixels = IF send THEN [draft.pixels EXCEPT ![i] = gen[i]] ELSE draft.pixels
        /\ draft'.held = IF send THEN {h \in draft.held : h.img # i} ELSE draft.held
    BY <1>1 DEF Received
  <2>3. draft.pixels \in [Images -> Nat]
    BY DEF GInv, TypeOK, Terminals
  <2>4. ASSUME NEW j \in Images, imgs'[j].sent
        PROVE  imgs'[j].gen # 0 /\ draft'.pixels[j] = imgs'[j].gen
    <3>1. CASE j = i /\ send
      BY <3>1, <2>2, <2>3, <1>3, <1>4
    <3>2. CASE ~(j = i /\ send)
      BY <3>2, <2>1, <2>2, <2>3, <2>4, <1>4
    <3> QED BY <3>1, <3>2
  <2>5. ASSUME NEW p \in places', p.shown \/ p.live PROVE imgs'[p.img].sent
    <3>1. CASE p.img = i
      BY <3>1, <1>4
    <3>2. CASE p.img # i
      <4>1. PICK o \in places : /\ Kin(p, o) /\ (p.live <=> o.live) /\ (p.shown => o.shown)
        BY <3>2, <1>5, <1>7, <1>12
      <4>2. imgs[o.img].sent
        BY <4>1, <2>1, <2>5
      <4> QED BY <3>2, <4>1, <4>2, <1>4, <1>6 DEF Kin
    <3> QED BY <3>1, <3>2
  <2>6. ASSUME NEW p \in places', p.shown PROVE Row(p)' \in draft'.held
    <3>1. PICK o \in places : p.img = o.img /\ o.shown /\ Row(p)' = Row(o) /\ ~(send /\ p.img = i)
      BY <1>15, <2>6
    <3>2. Row(o) \in draft.held /\ Row(o).img = o.img
      BY <3>1, <2>1 DEF Row
    <3> QED BY <3>1, <3>2, <2>2
  <2>7. Booked(draft, dead)'
    BY <1>2, <1>11, <2>1, <2>2 DEF Booked, Name
  <2> QED BY <1>2, <2>4, <2>5, <2>6, <2>7 DEF Ahead
<1>18. Notes'
  <2>1. \A p \in places' : p.live => p.at # Nowhere
    BY <1>2, <1>3, <1>5, <1>7, <1>12 DEF GInv, Notes
  <2> QED BY <1>2, <2>1 DEF GInv, Notes
<1> QED BY <1>13, <1>14, <1>16, <1>17, <1>18 DEF GInv

\* Whatever the panes, the frames and the outbox do, the books stay right.
LEMMA StepGInv == GInv /\ [Next]_vars => GInv'
<1> SUFFICES ASSUME GInv, [Next]_vars PROVE GInv'
  OBVIOUS
<1>1. CASE Move \/ Replace
  BY <1>1, PanesGInv
<1>2. CASE Begin
  BY <1>2, BeginGInv
<1>3. CASE \E k \in Keys : Place(k)
  BY <1>3, PlaceGInv
<1>4. CASE Flush
  BY <1>4, FlushGInv
<1>5. CASE Deliver
  BY <1>5, DeliverGInv
<1>6. CASE Drop
  BY <1>6, DropGInv
<1>7. CASE UNCHANGED vars
  BY <1>7 DEF vars, panes, model, GInv, TypeOK, Named, Behind, Ahead, Notes, Booked, Name, Row
<1> QED BY <1>1, <1>2, <1>3, <1>4, <1>5, <1>6, <1>7 DEF Next

(* The inductive invariant: the books are right at every step of a frame.  *)
THEOREM BooksKept == Spec => []GInv
  BY InitGInv, StepGInv, PTL DEF Spec

(* `shown' is the truth between frames, and nothing is parked on a screen  *)
(* for good (gfx_place_t, gfx_flush).                                      *)
THEOREM BooksAreTrue == Spec => []Truthful
<1>1. GInv => Truthful
  BY DEF GInv, Truthful, NothingParked, Behind, Notes, Booked, Row, Name
<1> QED BY <1>1, BooksKept, PTL

(* Where a frame comes from and what comes of it are typed, and every       *)
(* placement has a slot and a name of its own.                             *)
THEOREM TypeCorrect == Spec => []TypeOK
<1>1. GInv => TypeOK
  BY DEF GInv
<1> QED BY <1>1, BooksKept, PTL

-----------------------------------------------------------------------------
(* No two of a program's ids are filed under one: lib-vt's first own id and *)
(* the 1 that stands for none are not both in use.                         *)
Distinct == ~({0, 1} \subseteq Ids)

(* The keys of T are the live placements, each as the panes have it.       *)
Caught(T) ==
  /\ \A p \in places : p.live => \E k \in T : Filed(p, k) /\ p.at = scene[k]
  /\ \A k \in T : /\ \E p \in places : p.live /\ Filed(p, k)
                  /\ imgs[k[1]] = [gen |-> gen[k[1]], sent |-> TRUE]

(* The walk has caught up with what it has been to, and a frame with all.  *)
Walked ==
  /\ mode = "walk" => todo \subseteq Visible /\ Caught(Visible \ todo)
  /\ mode = "flushed" \/ (mode = "idle" /\ settled) =>
       Caught(Visible) /\ \A p \in places : p.live /\ p.shown
  /\ mode = "idle" /\ settled => dead = {}

(* Nothing has moved since: what the walk comes to is already so.          *)
Still ==
  settled =>
    /\ mode # "idle" => ~said
    /\ mode # "flushed" =>
         /\ dead = {}
         /\ \A p \in places : p.shown /\ \E k \in Visible : Filed(p, k) /\ p.at = scene[k]
         /\ \A k \in Visible : /\ imgs[k[1]] = [gen |-> gen[k[1]], sent |-> TRUE]
                               /\ \E p \in places : Filed(p, k)

\* One placement, one key.
LEMMA OneKey ==
  ASSUME Distinct, NEW p, NEW j \in Keys, NEW k \in Keys, Filed(p, j), Filed(p, k)
  PROVE  j = k
<1>1. j[2] = k[2]
  BY GraphicsAssumption DEF Distinct, Filed, PlaceId, Keys
<1>2. j = <<j[1], j[2], j[3]>> /\ k = <<k[1], k[2], k[3]>>
  BY DEF Keys
<1> QED BY <1>1, <1>2 DEF Filed

\* No walk has caught up with anything before the first.
LEMMA InitWalked == ASSUME Init PROVE Walked /\ Still
  BY DEF Init, Walked, Still

\* A walk begins with everything to do.
LEMMA BeginWalked == ASSUME GInv, Walked, Still, Begin PROVE Walked' /\ Still'
<1>1. PICK full \in BOOLEAN :
        /\ places' = {Found(p, full) : p \in places}
        /\ settled' = (settled /\ ~full /\ mode = "idle")
  BY FoundPlaces DEF Begin, GInv
<1>2. /\ imgs' = Unsent(imgs) /\ said' = FALSE /\ todo' = Visible /\ mode' = "walk"
      /\ UNCHANGED <<scene, gen, dead>> /\ Visible' = Visible
  BY DEF Begin, panes, Visible
<1>3. \A p \in places :
        /\ Kin(Found(p, full), p) /\ Found(p, full).at = p.at /\ ~Found(p, full).live
        /\ Found(p, full).shown <=> p.shown /\ p.wire \notin placed /\ ~full
  BY FoundFields DEF GInv, TypeOK
<1>4. Walked'
  BY <1>1, <1>2, <1>3 DEF Walked, Caught
<1>5. ASSUME settled, ~full, mode = "idle" PROVE Still'
  <2>1. /\ dead = {}
        /\ \A p \in places : p.shown /\ \E k \in Visible : Filed(p, k) /\ p.at = scene[k]
        /\ \A k \in Visible : /\ imgs[k[1]] = [gen |-> gen[k[1]], sent |-> TRUE]
                              /\ \E p \in places : Filed(p, k)
    BY <1>5 DEF Still
  <2>2. txed = {} /\ placed = {} /\ imgs \in [Images -> [gen: Nat, sent: BOOLEAN]]
    BY <1>5 DEF GInv, Notes, TypeOK
  <2>3. imgs' = imgs
    BY <1>2, <2>2 DEF Unsent
  <2>4. \A p \in places' : p.shown /\ \E k \in Visible : Filed(p, k) /\ p.at = scene[k]
    BY <1>1, <1>3, <1>5, <2>1, <2>2 DEF Filed, Kin
  <2>5. ASSUME NEW k \in Visible PROVE \E p \in places' : Filed(p, k)
    <3>1. PICK o \in places : Filed(o, k)
      BY <2>1
    <3>2. Filed(Found(o, full), k) /\ Found(o, full) \in places'
      BY <3>1, <1>1, <1>3 DEF Filed, Kin
    <3> QED BY <3>2
  <2>6. said' = FALSE /\ mode' = "walk"
    BY <1>2
  <2> QED BY <1>2, <2>1, <2>3, <2>4, <2>5, <2>6 DEF Still, Filed
<1> QED BY <1>1, <1>4, <1>5 DEF Still

\* A key that is walked to is caught up with, and no other is lost.
LEMMA PlaceWalked ==
  ASSUME Distinct, GInv, Walked, Still, NEW k \in Keys, Place(k)
  PROVE  Walked' /\ Still'
<1> DEFINE others(send) == {IF send /\ p.img = k[1] THEN Dim(p) ELSE p : p \in places \ Slot(k)}
<1>1. PICK send \in BOOLEAN, s \in Places :
        /\ send <=> ~(imgs[k[1]].gen = gen[k[1]] /\ imgs[k[1]].sent)
        /\ said' = (said \/ send)
        /\ Filed(s, k) /\ (s.shown => ~send /\ s \in places)
        /\ \/ Slot(k) = {}
           \/ \E o \in places : Slot(k) = {o} /\ Kin(s, o) /\ (~send => s = o)
        /\ places' = others(send) \cup {Put(s, scene[k])}
  BY PlaceShape
<1>2. /\ mode = "walk" /\ k \in todo /\ todo' = todo \ {k}
      /\ imgs' = [imgs EXCEPT ![k[1]] = [gen |-> gen[k[1]], sent |-> TRUE]]
      /\ UNCHANGED <<scene, gen, dead, mode, settled>> /\ Visible' = Visible
  BY DEF Place, panes, Visible
<1>3. /\ todo \subseteq Visible /\ Visible \subseteq Keys /\ k[1] \in Images
      /\ scene[k] \in Spots \cup {Nowhere} /\ Caught(Visible \ todo)
      /\ imgs \in [Images -> [gen: Nat, sent: BOOLEAN]]
  BY <1>2 DEF Keys, GInv, TypeOK, Walked, Visible
<1> DEFINE q == Put(s, scene[k])
<1>4. /\ Filed(q, k) /\ q.at = scene[k] /\ q.live
      /\ q.shown <=> s.shown /\ s.at = scene[k]
  BY <1>1, <1>3, PutFields DEF Filed
<1>5. \A p \in others(send) : \E o \in places \ Slot(k) :
        Kin(p, o) /\ p.at = o.at /\ (p.live <=> o.live) /\ (~send => p = o)
  BY DimFields DEF Kin, GInv, TypeOK
<1>6. \A o \in places \ Slot(k) : \E p \in others(send) : Kin(p, o) /\ (p.live <=> o.live)
  <2> SUFFICES ASSUME NEW o \in places \ Slot(k)
               PROVE  \E p \in others(send) : Kin(p, o) /\ (p.live <=> o.live)
    OBVIOUS
  <2>1. (IF send /\ o.img = k[1] THEN Dim(o) ELSE o) \in others(send)
    OBVIOUS
  <2> QED BY <2>1, DimFields DEF Kin, GInv, TypeOK
<1>7. \A o \in Slot(k) : Filed(o, k)
  BY DEF Slot, Filed
<1>8. places' = others(send) \cup {q}
  BY <1>1
<1> HIDE DEF q, others
<1>9. \A j \in Visible : imgs[j[1]] = [gen |-> gen[j[1]], sent |-> TRUE] \/ j = k
                          => imgs'[j[1]] = [gen |-> gen[j[1]], sent |-> TRUE]
  BY <1>2, <1>3 DEF Keys
<1>10. \A j \in Visible : j # k /\ (\E o \in places : Filed(o, j))
                          => \E p \in places' : Filed(p, j)
  <2> SUFFICES ASSUME NEW j \in Visible, j # k, NEW o \in places, Filed(o, j)
               PROVE  \E p \in others(send) : Filed(p, j)
    BY <1>8
  <2>1. o \notin Slot(k)
    BY <1>3, <1>7, OneKey
  <2> QED BY <2>1, <1>6 DEF Filed, Kin
<1>11. Caught(Visible \ todo)'
  <2>1. ASSUME NEW p \in places', p.live
        PROVE  \E j \in Visible \ todo' : Filed(p, j) /\ p.at = scene[j]
    <3>1. CASE p = q
      BY <3>1, <1>2, <1>3, <1>4
    <3>2. CASE p \in others(send)
      <4>1. PICK o \in places \ Slot(k) : Kin(p, o) /\ p.at = o.at /\ o.live
        BY <3>2, <2>1, <1>5
      <4>2. PICK j \in Visible \ todo : Filed(o, j) /\ o.at = scene[j]
        BY <4>1, <1>3 DEF Caught
      <4> QED BY <4>1, <4>2, <1>2 DEF Filed, Kin
    <3> QED BY <3>1, <3>2, <1>8
  <2>2. ASSUME NEW j \in Visible \ todo'
        PROVE  /\ \E p \in places' : p.live /\ Filed(p, j)
               /\ imgs'[j[1]] = [gen |-> gen[j[1]], sent |-> TRUE]
    <3>1. CASE j = k
      BY <3>1, <1>3, <1>4, <1>8, <1>9
    <3>2. CASE j # k
      <4>1. j \in Visible \ todo
        BY <3>2, <1>2
      <4>2. PICK o \in places : o.live /\ Filed(o, j)
        BY <4>1, <1>3 DEF Caught
      <4>3. o \notin Slot(k)
        BY <3>2, <4>1, <4>2, <1>3, <1>7, OneKey
      <4>4. \E p \in others(send) : p.live /\ Filed(p, j)
        BY <4>2, <4>3, <1>6 DEF Filed, Kin
      <4>5. imgs[j[1]] = [gen |-> gen[j[1]], sent |-> TRUE]
        BY <4>1, <1>3 DEF Caught
      <4> QED BY <4>1, <4>4, <4>5, <1>8, <1>9
    <3> QED BY <3>1, <3>2
  <2> QED BY <1>2, <2>1, <2>2 DEF Caught, Filed
<1>12. Walked'
  BY <1>2, <1>3, <1>11 DEF Walked
<1>13. ASSUME settled PROVE Still'
  <2>1. /\ ~said /\ dead = {}
        /\ \A p \in places : p.shown /\ \E j \in Visible : Filed(p, j) /\ p.at = scene[j]
        /\ \A j \in Visible : /\ imgs[j[1]] = [gen |-> gen[j[1]], sent |-> TRUE]
                              /\ \E p \in places : Filed(p, j)
    BY <1>2, <1>13 DEF Still
  <2>2. ~send /\ ~said'
    BY <2>1, <1>1, <1>2, <1>3
  <2>3. s \in places
    <3>1. PICK o \in places : Filed(o, k)
      BY <2>1, <1>2, <1>3
    <3>2. o \in Slot(k)
      BY <3>1 DEF Slot, Filed
    <3> QED BY <3>2, <2>2, <1>1
  <2>4. s.shown /\ s.at = scene[k]
    <3>1. PICK j \in Visible : Filed(s, j) /\ s.at = scene[j]
      BY <2>1, <2>3
    <3>2. j = k
      BY <3>1, <1>1, <1>3, OneKey
    <3> QED BY <3>1, <3>2, <2>1, <2>3
  <2>5. \A p \in places' : p.shown /\ \E j \in Visible : Filed(p, j) /\ p.at = scene[j]
    <3>1. \A p \in others(send) : p \in places
      BY <1>5, <2>2
    <3> QED BY <3>1, <2>1, <2>4, <1>2, <1>3, <1>4, <1>8
  <2>6. \A j \in Visible : \E p \in places' : Filed(p, j)
    BY <2>1, <1>4, <1>8, <1>10
  <2>7. \A j \in Visible : imgs'[j[1]] = [gen |-> gen[j[1]], sent |-> TRUE]
    BY <2>1, <1>9
  <2> QED BY <1>2, <2>1, <2>2, <2>5, <2>6, <2>7 DEF Still, Filed
<1>14. ~settled => Still'
  BY <1>2 DEF Still
<1> QED BY <1>12, <1>13, <1>14

\* A frame has the keys, and all that it has is said.
LEMMA FlushWalked ==
  ASSUME GInv, Walked, Still, Flush
  PROVE  Walked' /\ Still'
<1>1. /\ mode = "walk" /\ todo = {} /\ mode' = "flushed"
      /\ places' = {Lit(p) : p \in places \ Stale}
      /\ said' = (said \/ Owed # {} \/ Emitted # {})
      /\ UNCHANGED <<scene, gen, imgs, settled>> /\ Visible' = Visible
  BY DEF Flush, panes, Visible, Lit
<1>2. Caught(Visible)
  BY <1>1 DEF Walked
<1>3. \A o \in places \ Stale : /\ Kin(Lit(o), o) /\ Lit(o).at = o.at /\ o.live
                                /\ Lit(o).live /\ Lit(o).shown
  BY LitFields DEF Kin, Stale, GInv, TypeOK
<1>4. \A p \in places' : /\ p.live /\ p.shown
                         /\ \E o \in places : Kin(p, o) /\ p.at = o.at /\ o.live
  BY <1>1, <1>3
<1>5. ASSUME NEW k \in Visible PROVE \E p \in places' : p.live /\ Filed(p, k)
  <2>1. PICK o \in places : o.live /\ Filed(o, k)
    BY <1>2 DEF Caught
  <2>2. Lit(o) \in places' /\ Kin(Lit(o), o) /\ Lit(o).live
    BY <2>1, <1>1, <1>3 DEF Stale
  <2> QED BY <2>1, <2>2 DEF Kin, Filed
<1>6. Caught(Visible)'
  <2>1. \A p \in places' : \E k \in Visible : Filed(p, k) /\ p.at = scene[k]
    BY <1>2, <1>4 DEF Caught, Kin, Filed
  <2> QED BY <2>1, <1>1, <1>2, <1>5 DEF Caught, Filed
<1>7. ASSUME settled PROVE ~said'
  <2>1. /\ ~said /\ dead = {}
        /\ \A p \in places : p.shown /\ \E k \in Visible : Filed(p, k)
    BY <1>1, <1>7 DEF Still
  <2>2. Stale = {}
    <3> SUFFICES ASSUME NEW p \in places PROVE p.live
      BY DEF Stale
    <3>1. PICK k \in Visible : Filed(p, k)
      BY <2>1
    <3>2. PICK o \in places : o.live /\ Filed(o, k)
      BY <1>2 DEF Caught
    <3>3. o = p
      BY <3>1, <3>2 DEF Filed, GInv, TypeOK
    <3> QED BY <3>2, <3>3
  <2>3. Emitted = {} /\ Owed = {}
    BY <2>1, <2>2 DEF Emitted, Owed
  <2> QED BY <2>1, <2>3, <1>1
<1> QED BY <1>1, <1>4, <1>6, <1>7 DEF Walked, Still

\* The books of a frame that was delivered are those of the screen.
LEMMA DeliverWalked == ASSUME Walked, Deliver PROVE Walked' /\ Still'
<1>1. /\ mode = "flushed" /\ mode' = "idle" /\ dead' = {}
      /\ UNCHANGED <<scene, gen, imgs, places>> /\ Visible' = Visible
  BY DEF Deliver, panes, Visible
<1>2. Caught(Visible) /\ \A p \in places : p.live /\ p.shown
  BY <1>1 DEF Walked
<1>3. Walked'
  BY <1>1, <1>2 DEF Walked, Caught, Filed
<1>4. Still'
  BY <1>1, <1>2 DEF Still, Caught, Filed
<1> QED BY <1>3, <1>4

\* With a slot for every key, a walk catches up with all the panes have.
THEOREM WalksCatchUp == ASSUME Distinct PROVE Spec => [](GInv /\ Walked /\ Still)
<1> DEFINE I == GInv /\ Walked /\ Still
<1>1. Init => I
  BY InitGInv, InitWalked
<1>2. I /\ [Next]_vars => I'
  <2> SUFFICES ASSUME I, [Next]_vars PROVE Walked' /\ Still'
    BY StepGInv
  <2>1. CASE Move \/ Replace \/ Drop
    <3>1. settled' = FALSE /\ mode' = "idle"
      BY <2>1 DEF Move, Replace, Drop
    <3> QED BY <3>1 DEF Walked, Still
  <2>2. CASE Begin
    BY <2>2, BeginWalked
  <2>3. CASE \E k \in Keys : Place(k)
    BY <2>3, PlaceWalked
  <2>4. CASE Flush
    BY <2>4, FlushWalked
  <2>5. CASE Deliver
    BY <2>5, DeliverWalked
  <2>6. CASE UNCHANGED vars
    BY <2>6 DEF vars, panes, model, Walked, Still, Caught, Filed, Visible
  <2> QED BY <2>1, <2>2, <2>3, <2>4, <2>5, <2>6 DEF Next
<1> QED BY <1>1, <1>2, PTL DEF Spec

(* A still picture costs no byte once a frame has been delivered           *)
(* (gfx_flush).                                                            *)
THEOREM StillIsFree == ASSUME Distinct PROVE Spec => []StillCostsNothing
<1>1. Still => StillCostsNothing
  BY DEF Still, StillCostsNothing
<1> QED BY <1>1, WalksCatchUp, PTL

\* There are no more keys in sight than can be counted.
LEMMA FiniteKeys == IsFiniteSet(Visible)
<1>1. IsFiniteSet(Images \X Ids) /\ IsFiniteSet((Images \X Ids) \X Pieces)
  BY GraphicsAssumption, FS_Product
<1>2. IsFiniteSet(Keys)
  <2> DEFINE f == [c \in (Images \X Ids) \X Pieces |-> <<c[1][1], c[1][2], c[2]>>]
  <2>1. f \in Surjection((Images \X Ids) \X Pieces, Keys)
    <3>1. \A c \in (Images \X Ids) \X Pieces : <<c[1][1], c[1][2], c[2]>> \in Keys
      BY DEF Keys
    <3>2. ASSUME NEW k \in Keys PROVE \E c \in (Images \X Ids) \X Pieces : f[c] = k
      <4>1. <<<<k[1], k[2]>>, k[3]>> \in (Images \X Ids) \X Pieces /\ k = <<k[1], k[2], k[3]>>
        BY DEF Keys
      <4> QED BY <4>1
    <3> QED BY <3>1, <3>2 DEF Surjection
  <2> QED BY <2>1, <1>1, FS_Surjection
<1> QED BY <1>2, FS_Subset DEF Visible

(* A delivered frame leaves the terminal with the panes' pictures, each    *)
(* where it is and as it is now, and no others (app_graphics_view).        *)
THEOREM DeliveredIsExact == ASSUME Distinct PROVE Spec => []Exact
<1>1. GInv /\ Walked => Exact
  <2> SUFFICES ASSUME GInv, Walked, settled, mode = "idle"
               PROVE  /\ Cardinality(terminal.held) = Cardinality(Visible)
                      /\ {<<h.img, h.at, h.gen>> : h \in terminal.held} =
                           {<<k[1], scene[k], gen[k[1]]>> : k \in Visible}
    BY DEF Exact
  <2>1. /\ Visible \subseteq Keys
        /\ \A p \in places : p.shown /\ \E k \in Visible : Filed(p, k) /\ p.at = scene[k]
        /\ \A k \in Visible : /\ \E p \in places : Filed(p, k)
                              /\ imgs[k[1]].gen = gen[k[1]]
    <3>1. Caught(Visible) /\ \A p \in places : p.live /\ p.shown
      BY DEF Walked
    <3>2. Visible \subseteq Keys
      BY DEF Visible
    <3>3. ASSUME NEW k \in Visible PROVE imgs[k[1]].gen = gen[k[1]]
      <4>1. imgs[k[1]] = [gen |-> gen[k[1]], sent |-> TRUE]
        BY <3>1 DEF Caught
      <4> QED BY <4>1
    <3> QED BY <3>1, <3>2, <3>3 DEF Caught
  <2>2. \A p \in places : Row(p) \in terminal.held
    BY <2>1 DEF GInv, Behind, Notes
  <2>3. ASSUME NEW h \in terminal.held PROVE \E p \in places : h = Row(p)
    <3>1. dead = {}
      BY DEF Walked
    <3>2. PICK p \in places : Name(p) = Name(h)
      BY <3>1 DEF GInv, Behind, Booked
    <3>3. Name(Row(p)) = Name(p)
      BY DEF Name, Row
    <3> QED BY <2>2, <3>2, <3>3 DEF GInv, Behind, Booked
  <2> DEFINE At(k) == CHOOSE p \in places : Filed(p, k)
             f == [k \in Visible |-> Row(At(k))]
  <2>4. ASSUME NEW k \in Visible
        PROVE  /\ At(k) \in places /\ Filed(At(k), k) /\ At(k).at = scene[k]
               /\ f[k].img = k[1] /\ f[k].at = scene[k] /\ f[k].gen = gen[k[1]]
               /\ f[k] = Row(At(k))
    <3>1. At(k) \in places /\ Filed(At(k), k)
      BY <2>1, Zenon
    <3>2. PICK j \in Visible : Filed(At(k), j) /\ At(k).at = scene[j]
      BY <2>1, <3>1
    <3>3. j = k
      BY <2>1, <3>1, <3>2, OneKey
    <3> HIDE DEF At
    <3> QED BY <2>1, <3>1, <3>2, <3>3 DEF Row, Filed
  <2>5. ASSUME NEW p \in places
        PROVE  \E k \in Visible : p = At(k)
    <3>1. PICK k \in Visible : Filed(p, k)
      BY <2>1
    <3>2. At(k) \in places /\ Filed(At(k), k)
      BY <2>4
    <3>3. p = At(k)
      BY <3>1, <3>2 DEF GInv, TypeOK, Filed
    <3> QED BY <3>3
  <2> HIDE DEF At
  <2>6. f \in Bijection(Visible, terminal.held)
    <3>1. f \in [Visible -> terminal.held]
      BY <2>2, <2>4
    <3>2. ASSUME NEW j \in Visible, NEW k \in Visible, f[j] = f[k] PROVE j = k
      <4>1. At(j).wire = At(k).wire
        BY <3>2, <2>4 DEF Row
      <4>2. At(j) = At(k)
        BY <4>1, <2>4 DEF GInv, TypeOK
      <4> QED BY <4>2, <2>1, <2>4, OneKey
    <3>3. ASSUME NEW h \in terminal.held PROVE \E k \in Visible : f[k] = h
      BY <2>3, <2>4, <2>5
    <3> HIDE DEF f
    <3>4. f \in Injection(Visible, terminal.held)
      BY <3>1, <3>2 DEF Injection, IsInjective
    <3>5. f \in Surjection(Visible, terminal.held)
      BY <3>1, <3>3 DEF Surjection
    <3> QED BY <3>4, <3>5 DEF Bijection
  <2>7. Cardinality(terminal.held) = Cardinality(Visible)
    BY <2>6, FiniteKeys, FS_Bijection DEF ExistsBijection
  <2>8. \A h \in terminal.held : \E k \in Visible : h = f[k]
    BY <2>3, <2>4, <2>5
  <2>9. \A k \in Visible : f[k] \in terminal.held
    BY <2>2, <2>4
  <2> HIDE DEF f
  <2>10. {<<h.img, h.at, h.gen>> : h \in terminal.held} =
           {<<k[1], scene[k], gen[k[1]]>> : k \in Visible}
    BY <2>4, <2>8, <2>9
  <2> QED BY <2>7, <2>10
<1> QED BY <1>1, WalksCatchUp, PTL
====
