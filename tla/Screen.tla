------------------------------- MODULE Screen -------------------------------
(***************************************************************************)
(* One row of one client's terminal and the diff that keeps it up to date: *)
(* screen_put_utf8, screen_project, screen_follow_cursor and screen_render *)
(* of src/src/screen.c, called in that order by push_display               *)
(* (src/src/server.c).                                                     *)
(*                                                                         *)
(* The hard part is the wide glyph: two columns, of which only the head is *)
(* ever compared or painted, on a terminal that blanks one half when the   *)
(* other is painted over.  A cell is what it shows (text, style and link   *)
(* are one value) and its width: 1, 2 for a head, 0 for a tail.            *)
(***************************************************************************)
EXTENDS Integers

CONSTANTS
  Widths,   \* columns the canvas can have
  Cols,     \* columns of the client
  Narrow,   \* what one column can show
  Wide,     \* what takes two
  Blank, Tag, Half, Cut,
            \* the filler, the indicator, a tail, and what an emptied half shows
  Budget    \* bound: changes to the canvas and to the number of clients

ASSUME ScreenAssumption ==
  /\ Widths \subseteq Nat \ {0} /\ Widths # {}
  /\ Cols \in Nat \ {0} /\ Budget \in Nat
  /\ Blank \in Narrow /\ Tag \notin Narrow \cup Wide
  /\ Half \notin Narrow \cup Wide /\ Cut \notin Narrow \cup Wide
  /\ Narrow \cap Wide = {}

Client == 0..Cols - 1

Hidden == -1

VARIABLES
  width,    \* the canvas's columns
  canvas,   \* the shared screen's cells, s->screen.cur
  cursor,   \* its cursor's column, or Hidden
  tagged,   \* there are others to say so of
  at,       \* conn_t.view_x
  prev,     \* view.prev: what the diff believes the terminal shows
  full,     \* view.force_full
  told,     \* shown_cursor_visible and shown_cursor_x
  row,      \* what the terminal shows
  caret,    \* where its cursor is, or Hidden
  said,     \* the last frame had bytes
  sound,    \* no frame since the last full one cut a glyph in two
  budget

Canvas == 0..width - 1

scene == <<width, canvas, cursor, tagged>>
view  == <<at, prev, full, told>>
vars  == <<scene, view, row, caret, said, sound, budget>>

Cells == [glyph: Narrow \cup Wide \cup {Tag, Half, Cut}, width: 0..2]

Cell(g)  == [glyph |-> g, width |-> IF g \in Wide THEN 2 ELSE 1]
TailCell == [glyph |-> Half, width |-> 0]
\* A cell memset to zero: it matches nothing that is painted.
NoCell   == [glyph |-> Cut, width |-> 0]

Clear(n) == [x \in 0..n - 1 |-> Cell(Blank)]

(***************************************************************************)
(* The types, and what screen_follow_cursor clamps: a view runs past the   *)
(* end of the canvas only if it is the larger.                             *)
(***************************************************************************)
TypeOK ==
  /\ width \in Widths /\ canvas \in [Canvas -> Cells]
  /\ cursor \in Canvas \cup {Hidden}
  /\ at \in Nat
  /\ (~full /\ at > 0 => at + Cols <= width)
  /\ prev \in [Client -> Cells]
  /\ told \in Client \cup {Hidden}
  /\ row \in [Client -> Cells]
  /\ caret \in Client \cup {Hidden}
  /\ {tagged, full, said, sound} \subseteq BOOLEAN
  /\ budget \in Nat

-----------------------------------------------------------------------------
(* Cells.                                                                  *)

\* screen_put_utf8: a wide glyph claims its tail, or is narrow at the edge.
Put(r, x, g) ==
  LET room == x + 1 \in DOMAIN r IN
  [y \in DOMAIN r |->
     IF y = x
     THEN [glyph |-> g, width |-> IF g \in Wide /\ room THEN 2 ELSE 1]
     ELSE IF y = x + 1 /\ g \in Wide THEN TailCell ELSE r[y]]

\* Every wide glyph has its tail and every tail its head.
Whole(r) == \A x \in DOMAIN r :
  /\ r[x].glyph \in Wide => r[x].width = 2
  /\ r[x].width = 2 => x + 1 \in DOMAIN r /\ r[x + 1].width = 0
  /\ r[x].width = 0 => x - 1 \in DOMAIN r /\ r[x - 1].width = 2

\* A terminal's own rule: painting over one half of a glyph empties the other.
Emptied(r, x) ==
  [y \in DOMAIN r |->
     IF \/ y = x - 1 /\ r[x].width = 0
        \/ y = x + 1 /\ r[x].width = 2
     THEN [glyph |-> Cut, width |-> 1] ELSE r[y]]

Painted(r, x, c) ==
  IF c.width = 2 /\ x + 1 \in DOMAIN r
  THEN [Emptied(Emptied(r, x), x + 1) EXCEPT ![x] = c, ![x + 1] = TailCell]
  ELSE [Emptied(r, x) EXCEPT ![x] = c]

-----------------------------------------------------------------------------
(* The view.                                                               *)

\* Mutant: the view ends one column short of what the client shows.
PulledShort(a, c) ==
  IF c = Hidden THEN a ELSE IF c < a THEN c ELSE IF c > a + Cols THEN c - Cols + 1 ELSE a

\* The view moves only as far as the cursor pulls it.
Pulled(a, c) ==
  IF c = Hidden THEN a ELSE IF c < a THEN c ELSE IF c >= a + Cols THEN c - Cols + 1 ELSE a

MaxAt == IF width > Cols THEN width - Cols ELSE 0

Clamp(a) == IF a > MaxAt THEN MaxAt ELSE a

\* screen_follow_cursor.
Follow(a, c) == IF MaxAt = 0 THEN 0 ELSE Clamp(Pulled(a, c))

\* screen_project: half a glyph at either edge is filler.
Project(r, a) ==
  [x \in Client |->
     LET s == a + x IN
     IF s \notin DOMAIN r THEN Cell(Blank)
     ELSE CASE r[s].width = 1 -> r[s]
            [] r[s].width = 2 ->
                 IF s + 1 \in DOMAIN r /\ x + 1 \in Client THEN r[s] ELSE Cell(Blank)
            [] OTHER ->
                 IF x > 0 /\ s > 0 /\ r[s - 1].width = 2 THEN r[s] ELSE Cell(Blank)]

\* stamp_indicator: the last column, when the view has more than that.
Stamped(r) == IF tagged /\ Cols > 1 THEN Put(r, Cols - 1, Tag) ELSE r

\* Where the cursor is in the view.
InView(a, c) == IF c # Hidden /\ c - a \in Client THEN c - a ELSE Hidden

-----------------------------------------------------------------------------
(* screen_render.                                                          *)

\* Mutant: only the head of a painted glyph is remembered.
CommittedHead(p, r, x) == [p EXCEPT ![x] = r[x]]

\* What was painted is remembered, a head's tail with it.
Committed(p, r, x) ==
  [y \in DOMAIN p |->
     IF y = x \/ (y = x + 1 /\ r[x].width = 2) THEN r[y] ELSE p[y]]

\* One cell of the new frame against what is remembered: a tail is left to
\* its head, and what is the same is not said.
Looked(d, r, x) ==
  IF r[x].width = 0 \/ r[x] = d.prev[x] THEN d
  ELSE [prev |-> Committed(d.prev, r, x), row |-> Painted(d.row, x, r[x]), painted |-> TRUE]

\* The cells from the first to the last: what the diff remembers, what the
\* terminal shows, and whether anything was painted.
Diffed(r, p, t, cleared) ==
  LET step[x \in -1..Cols - 1] ==
        IF x = -1 THEN [prev |-> p, row |-> t, painted |-> cleared]
        ELSE Looked(step[x - 1], r, x)
  IN step[Cols - 1]

Moved(c) == c # told

\* The cursor is hidden by the first cell painted, and shown last; a cursor
\* that is to be hidden with nothing painted is left on the screen.
Caret(painted, c) ==
  IF painted \/ Moved(c)
  THEN IF c # Hidden THEN c ELSE IF painted THEN Hidden ELSE caret
  ELSE caret

-----------------------------------------------------------------------------

Init ==
  /\ width \in Widths /\ canvas = Clear(width) /\ cursor = Hidden /\ tagged = FALSE
  /\ at = 0 /\ prev = Clear(Cols) /\ full = TRUE /\ told = Hidden
  /\ row = Clear(Cols) /\ caret \in {Hidden, 0}
  /\ said = FALSE /\ sound = TRUE /\ budget = Budget

Spend == budget > 0 /\ budget' = budget - 1

\* pane_draw, the frame or a float writes a cell.
Write ==
  /\ Spend
  /\ \E x \in Canvas, g \in Narrow \cup Wide : canvas' = Put(canvas, x, g)
  /\ UNCHANGED <<width, cursor, tagged, view, row, caret, said, sound>>

\* The grid a program leaves in a pane: whole glyphs.
Compose ==
  /\ Spend
  /\ canvas' \in [Canvas -> {Cell(g) : g \in Narrow \cup Wide} \cup {TailCell}]
  /\ Whole(canvas')
  /\ UNCHANGED <<width, cursor, tagged, view, row, caret, said, sound>>

MoveCursor ==
  /\ Spend
  /\ cursor' \in (Canvas \cup {Hidden}) \ {cursor}
  /\ UNCHANGED <<width, canvas, tagged, view, row, caret, said, sound>>

\* A second client comes or goes.
Others ==
  /\ Spend
  /\ tagged' = ~tagged
  /\ UNCHANGED <<width, canvas, cursor, view, row, caret, said, sound>>

\* screen_resize of the canvas: another client sizes it now.  The reset it
\* asks for is carried to every view (push_clients).
Resize ==
  /\ Spend
  /\ width' \in Widths \ {width}
  /\ canvas' = Clear(width')
  /\ cursor' \in (0..width' - 1) \cup {Hidden}
  /\ full' = TRUE
  /\ UNCHANGED <<tagged, at, prev, told, row, caret, said, sound>>

Forgotten == IF full THEN [x \in Client |-> NoCell] ELSE prev

\* push_display: a frame with nothing in it is not sent; one that conn_send
\* refuses leaves the view where the client saw it, and owes a full one.
Push(taken) ==
  LET a  == Follow(at, cursor)
      r  == Stamped(Project(canvas, a))
      c  == InView(a, cursor)
      d  == Diffed(r, Forgotten, IF full THEN Clear(Cols) ELSE row, full)
      ok == taken \/ ~said'
  IN
  /\ said' = (d.painted \/ (Moved(c) /\ c # Hidden))
  /\ at' = IF ok THEN a ELSE at
  /\ prev' = d.prev
  /\ told' = c
  /\ full' = ~ok
  /\ row' = IF ok THEN d.row ELSE row
  /\ caret' = IF ok THEN Caret(d.painted, c) ELSE caret
  /\ sound' = (Whole(r) /\ (full \/ sound))
  /\ UNCHANGED <<scene, budget>>

Next ==
  \/ Write \/ Compose \/ MoveCursor \/ Others \/ Resize
  \/ \E taken \in BOOLEAN : Push(taken)

Spec == Init /\ [][Next]_vars

-----------------------------------------------------------------------------
(* What a frame promises.  Frames are the steps that cost no budget; one   *)
(* that was refused leaves `full' behind.                                  *)

Picture == Stamped(Project(canvas, at))

Frame == UNCHANGED <<scene, budget>> /\ ~full'

(***************************************************************************)
(* A frame of whole glyphs, and as long as all since the last full one     *)
(* were, leaves the terminal with exactly the client's part of the canvas, *)
(* whatever glyphs it overwrote by halves on the way.                      *)
(***************************************************************************)
Faithful == [][Frame /\ sound' => row' = Picture']_vars

(***************************************************************************)
(* A cursor the canvas shows is on the client's screen, however little of  *)
(* the canvas that is, and the terminal's own cursor is left on it.        *)
(***************************************************************************)
CaretFollows == [][Frame /\ cursor # Hidden => caret' = cursor - at']_vars

(***************************************************************************)
(* A frame that shows what the terminal shows costs not one byte.          *)
(***************************************************************************)
NothingForNothing ==
  [][Frame /\ ~full /\ sound /\ row = Picture' /\ told = InView(at', cursor)
       => ~said']_vars

(***************************************************************************)
(* No frame leaves a hole: a cell that shows something of one column is    *)
(* painted with it (screen_render: "The difference is a one-cell hole in a *)
(* border").  Chrome put over half of a wide glyph breaks this.            *)
(***************************************************************************)
NoHole ==
  [][Frame => \A x \in Client : Picture'[x].width = 1 => row'[x] = Picture'[x]]_vars

=============================================================================
