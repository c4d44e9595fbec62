---------------------------- MODULE ScreenProofs ----------------------------
(***************************************************************************)
(* Theorems about Screen, for any widths of canvas and client and any      *)
(* glyphs.                                                                 *)
(***************************************************************************)
EXTENDS Screen, WellFoundedInduction, TLAPS

-----------------------------------------------------------------------------
(* The walk over the row.                                                  *)

Start(p, t, cleared) == [prev |-> p, row |-> t, painted |-> cleared]

\* The walk as a function of the columns behind it.
Walks(f, n, r, p, t, cleared) ==
  f = [x \in -1..n |-> IF x = -1 THEN Start(p, t, cleared) ELSE Looked(f[x - 1], r, x)]

\* What holds of the first number, and of the next if of those before, holds of
\* every one: there is no least exception.
LEMMA Onwards ==
  ASSUME NEW S \in SUBSET Nat, 0 \in S, \A n \in Nat : n \in S => n + 1 \in S
  PROVE  S = Nat
<1> SUFFICES ASSUME Nat \ S # {} PROVE FALSE
  OBVIOUS
<1>1. PICK n \in Nat \ S : \A m \in Nat \ S : ~(<<m, n>> \in OpToRel(<, Nat))
  BY WFMin, NatLessThanWellFounded
<1>2. n # 0 /\ n - 1 \in Nat
  OBVIOUS
<1>3. n - 1 \in S
  <2>1. n - 1 < n
    BY <1>2
  <2>2. <<n - 1, n>> \in OpToRel(<, Nat)
    BY <1>2, <2>1 DEF OpToRel
  <2> QED BY <1>1, <1>2, <2>2
<1> QED BY <1>2, <1>3

\* There is such a walk of any length.
LEMMA WalkExists ==
  ASSUME NEW r, NEW p, NEW t, NEW cleared
  PROVE  \A n \in Nat : \E f : Walks(f, n - 1, r, p, t, cleared)
<1> DEFINE S == {n \in Nat : \E f : Walks(f, n - 1, r, p, t, cleared)}
           Begun == Start(p, t, cleared)
<1>1. 0 \in S
  <2>1. Walks([x \in -1..0 - 1 |-> Begun], 0 - 1, r, p, t, cleared)
    BY DEF Walks
  <2> QED BY <2>1
<1>2. ASSUME NEW n \in Nat, n \in S PROVE n + 1 \in S
  <2>1. PICK f : Walks(f, n - 1, r, p, t, cleared)
    BY <1>2
  <2> DEFINE g == [x \in -1..n |-> IF x = n THEN Looked(f[n - 1], r, n) ELSE f[x]]
             At(h, x) == IF x = -1 THEN Start(p, t, cleared) ELSE Looked(h[x - 1], r, x)
  <2>2. \A x \in -1..n - 1 : f[x] = At(f, x)
    BY <2>1 DEF Walks
  <2>3. \A x \in -1..n - 1 : g[x] = f[x]
    OBVIOUS
  <2>4. \A x \in -1..n : g[x] = At(g, x)
    <3> TAKE x \in -1..n
    <3>1. CASE x = n
      <4>1. g[x] = Looked(f[n - 1], r, n) /\ g[n - 1] = f[n - 1]
        BY <3>1
      <4> QED BY <3>1, <4>1
    <3>2. CASE x # n /\ x = -1
      BY <2>2, <2>3, <3>2
    <3>3. CASE x # n /\ x # -1
      <4>1. g[x] = f[x] /\ g[x - 1] = f[x - 1] /\ f[x] = At(f, x)
        BY <2>2, <2>3, <3>3
      <4> HIDE DEF g
      <4> QED BY <3>3, <4>1
    <3> QED BY <3>1, <3>2, <3>3
  <2>5. g = [x \in -1..n |-> At(g, x)]
    <3>1. g = [x \in -1..n |-> g[x]]
      OBVIOUS
    <3> HIDE DEF g, At
    <3> QED BY <2>4, <3>1
  <2>6. Walks(g, n + 1 - 1, r, p, t, cleared)
    <3>1. n + 1 - 1 = n
      OBVIOUS
    <3> HIDE DEF g
    <3> QED BY <2>5, <3>1 DEF Walks
  <2> HIDE DEF g
  <2> QED BY <2>6
<1> HIDE DEF S
<1>3. S \in SUBSET Nat
  BY DEF S
<1>4. S = Nat
  BY <1>1, <1>2, <1>3, Onwards
<1> QED BY <1>4 DEF S

\* What the diff comes to is where a walk ends.
LEMMA DiffWalks ==
  ASSUME NEW r, NEW p, NEW t, NEW cleared
  PROVE  \E f : Walks(f, Cols - 1, r, p, t, cleared) /\ Diffed(r, p, t, cleared) = f[Cols - 1]
<1>1. \E f : Walks(f, Cols - 1, r, p, t, cleared)
  BY WalkExists, ScreenAssumption DEF ScreenAssumption
<1> DEFINE f == CHOOSE g : Walks(g, Cols - 1, r, p, t, cleared)
<1>2. Walks(f, Cols - 1, r, p, t, cleared)
  BY <1>1
<1>3. f = CHOOSE g : g = [x \in -1..Cols - 1 |->
                       IF x = -1 THEN [prev |-> p, row |-> t, painted |-> cleared]
                       ELSE Looked(g[x - 1], r, x)]
  BY DEF Walks, Start
<1>4. Diffed(r, p, t, cleared) = f[Cols - 1]
  BY <1>3 DEF Diffed
<1> QED BY <1>2, <1>4

-----------------------------------------------------------------------------
(* A terminal's own rule.                                                  *)

CutCell == [glyph |-> Cut, width |-> 1]

\* A head has its tail beside it, and a tail its head.
Paired(t) ==
  \A y \in Client :
    /\ t[y].width = 2 => y + 1 \in Client /\ t[y + 1] = TailCell
    /\ t[y].width = 0 => y - 1 \in Client /\ t[y - 1].width = 2

\* A cell's width is one of three, and what the model writes are cells.
LEMMA CellWidths ==
  /\ \A c \in Cells : c.width \in {0, 1, 2}
  /\ CutCell \in Cells /\ CutCell.width = 1
  /\ TailCell \in Cells /\ TailCell.width = 0
  /\ NoCell \in Cells /\ NoCell.width = 0
  /\ \A g \in Narrow \cup Wide : Cell(g) \in Cells
  /\ Cell(Blank) \in Cells /\ Cell(Blank).width = 1
<1>1. \A c \in Cells : c.width \in {0, 1, 2}
  BY DEF Cells
<1>2. \A g \in Narrow \cup Wide : Cell(g) \in Cells
  BY DEF Cell, Cells
<1>3. Cell(Blank) \in Cells /\ Cell(Blank).width = 1
  BY ScreenAssumption DEF ScreenAssumption, Cell, Cells
<1> QED BY <1>1, <1>2, <1>3 DEF CutCell, TailCell, NoCell, Cells

\* Painting one cell of a row whose glyphs are whole: that cell shows it, what
\* lost its other half is emptied, and nothing else changes.
LEMMA PaintOne ==
  ASSUME NEW t \in [Client -> Cells], NEW x \in Client, NEW c \in Cells,
         Paired(t), c.width = 1
  PROVE  /\ Painted(t, x, c) \in [Client -> Cells]
         /\ \A y \in Client :
              Painted(t, x, c)[y] =
                IF y = x THEN c
                ELSE IF (y = x - 1 /\ t[x].width = 0) \/ (y = x + 1 /\ t[x].width = 2)
                THEN CutCell ELSE t[y]
<1> DEFINE e == Emptied(t, x)
<1>1. Painted(t, x, c) = [e EXCEPT ![x] = c]
  BY DEF Painted
<1>2. e \in [Client -> Cells]
  BY CellWidths DEF Emptied, CutCell
<1>3. \A y \in Client :
        e[y] = IF (y = x - 1 /\ t[x].width = 0) \/ (y = x + 1 /\ t[x].width = 2)
               THEN CutCell ELSE t[y]
  BY DEF Emptied, CutCell
<1> HIDE DEF e
<1> QED BY <1>1, <1>2, <1>3

\* The same of a cell that takes two columns.
LEMMA PaintTwo ==
  ASSUME NEW t \in [Client -> Cells], NEW x \in Client, NEW c \in Cells,
         Paired(t), c.width = 2, x + 1 \in Client
  PROVE  /\ Painted(t, x, c) \in [Client -> Cells]
         /\ \A y \in Client :
              Painted(t, x, c)[y] =
                IF y = x THEN c
                ELSE IF y = x + 1 THEN TailCell
                ELSE IF (y = x - 1 /\ t[x].width = 0) \/ (y = x + 2 /\ t[x + 1].width = 2)
                THEN CutCell ELSE t[y]
<1> DEFINE e == Emptied(t, x)
           f == Emptied(e, x + 1)
<1>1. Painted(t, x, c) = [f EXCEPT ![x] = c, ![x + 1] = TailCell]
  BY DEF Painted
<1>2. e \in [Client -> Cells]
  BY CellWidths DEF Emptied, CutCell
<1>3. \A y \in Client :
        e[y] = IF (y = x - 1 /\ t[x].width = 0) \/ (y = x + 1 /\ t[x].width = 2)
               THEN CutCell ELSE t[y]
  BY DEF Emptied, CutCell
<1>4. e[x + 1].width = 2 <=> t[x + 1].width = 2
  <2>1. CASE t[x].width = 2
    BY <1>3, <2>1, CellWidths DEF Paired
  <2>2. CASE t[x].width # 2
    <3>1. x + 1 # x - 1
      BY DEF Client
    <3> QED BY <1>3, <2>2, <3>1
  <2> QED BY <2>1, <2>2
<1> HIDE DEF e
<1>5. f \in [Client -> Cells]
  BY <1>2, CellWidths DEF Emptied, CutCell
<1>6. \A y \in Client :
        f[y] = IF (y = (x + 1) - 1 /\ e[x + 1].width = 0) \/ (y = (x + 1) + 1 /\ e[x + 1].width = 2)
               THEN CutCell ELSE e[y]
  BY <1>2 DEF Emptied, CutCell
<1> HIDE DEF f
<1>7. (x + 1) - 1 = x /\ (x + 1) + 1 = x + 2
  BY DEF Client
<1>8. TailCell \in Cells
  BY CellWidths
<1>9. Painted(t, x, c) \in [Client -> Cells]
  BY <1>1, <1>5, <1>8
<1>10. \A y \in Client : Painted(t, x, c)[y] =
         IF y = x THEN c ELSE IF y = x + 1 THEN TailCell ELSE f[y]
  <2>1. x # x + 1
    BY DEF Client
  <2> QED BY <1>1, <1>5, <2>1
<1> QED BY <1>3, <1>4, <1>6, <1>7, <1>9, <1>10

\* Whatever is painted whole leaves a row of whole glyphs.
LEMMA PaintKeepsPairs ==
  ASSUME NEW t \in [Client -> Cells], NEW x \in Client, NEW c \in Cells,
         Paired(t), c.width # 0, c.width = 2 => x + 1 \in Client
  PROVE  Paired(Painted(t, x, c))
<1> DEFINE p == Painted(t, x, c)
<1>1. CASE c.width = 1
  <2>1. \A y \in Client :
          p[y] = IF y = x THEN c
                 ELSE IF (y = x - 1 /\ t[x].width = 0) \/ (y = x + 1 /\ t[x].width = 2)
                 THEN CutCell ELSE t[y]
    BY <1>1, PaintOne
  <2> HIDE DEF p
  <2>2. ASSUME NEW y \in Client, p[y].width = 2 PROVE y + 1 \in Client /\ p[y + 1] = TailCell
    BY <1>1, <2>1, <2>2, CellWidths DEF Paired, Client
  <2>3. ASSUME NEW y \in Client, p[y].width = 0 PROVE y - 1 \in Client /\ p[y - 1].width = 2
    BY <1>1, <2>1, <2>3, CellWidths DEF Paired, Client
  <2> QED BY <2>2, <2>3 DEF Paired, p
<1>2. CASE c.width = 2
  <2>1. \A y \in Client :
          p[y] = IF y = x THEN c
                 ELSE IF y = x + 1 THEN TailCell
                 ELSE IF (y = x - 1 /\ t[x].width = 0) \/ (y = x + 2 /\ t[x + 1].width = 2)
                 THEN CutCell ELSE t[y]
    BY <1>2, PaintTwo
  <2> HIDE DEF p
  <2>2. ASSUME NEW y \in Client, p[y].width = 2 PROVE y + 1 \in Client /\ p[y + 1] = TailCell
    BY <1>2, <2>1, <2>2, CellWidths DEF Paired, Client
  <2>3. ASSUME NEW y \in Client, p[y].width = 0 PROVE y - 1 \in Client /\ p[y - 1].width = 2
    BY <1>2, <2>1, <2>3, CellWidths DEF Paired, Client
  <2> QED BY <2>2, <2>3 DEF Paired, p
<1> QED BY <1>1, <1>2, CellWidths

-----------------------------------------------------------------------------
(* The diff, in the middle of the row.                                     *)

\* A frame that can be painted whole.
Paintable(r) == r \in [Client -> Cells] /\ Whole(r) /\ Paired(r)

\* The columns the walk has settled when it has been past x: a head settles
\* its tail.
Done(r, x) == {y \in Client : y <= x \/ (y = x + 1 /\ x \in Client /\ r[x].width = 2)}

(***************************************************************************)
(* Behind the walk memory and terminal are the frame.  Ahead of it what is *)
(* remembered is on the terminal, glyph by glyph; a column remembered as   *)
(* half of something says nothing, since nothing painted is like it.       *)
(***************************************************************************)
Level(d, r, x) ==
  /\ d.prev \in [Client -> Cells] /\ d.row \in [Client -> Cells]
  /\ Paired(d.row)
  /\ \A y \in Done(r, x) : d.prev[y] = r[y] /\ d.row[y] = r[y]
  /\ \A y \in Client \ Done(r, x) :
       /\ d.prev[y].width # 0 => d.row[y] = d.prev[y]
       /\ d.prev[y].width = 2 => y + 1 \in Client /\ d.prev[y + 1] = TailCell

\* What the walk has settled is one column more, or two.
LEMMA DoneNext ==
  ASSUME NEW r, Paintable(r), NEW x \in Client
  PROVE  /\ r[x].width = 0 => x \in Done(r, x - 1) /\ Done(r, x) = Done(r, x - 1)
         /\ r[x].width # 0 => x \notin Done(r, x - 1)
         /\ r[x].width = 1 => Done(r, x) = Done(r, x - 1) \cup {x}
         /\ r[x].width = 2 => Done(r, x) = Done(r, x - 1) \cup {x, x + 1}
                              /\ x + 1 \notin Done(r, x - 1)
                              /\ x + 1 \in Client /\ r[x + 1] = TailCell
<1>1. \A y \in Client : /\ r[y].width = 2 => y + 1 \in Client /\ r[y + 1] = TailCell
                        /\ r[y].width = 0 => y - 1 \in Client /\ r[y - 1].width = 2
  BY DEF Paintable, Paired
<1>2. TailCell.width = 0
  BY CellWidths
<1>3. x - 1 + 1 = x /\ x \in Int
  BY DEF Client
<1>4. r[x].width = 0 => x \in Done(r, x - 1) /\ Done(r, x) = Done(r, x - 1)
  BY <1>1, <1>3 DEF Done, Client
<1>5. r[x].width # 0 => x \notin Done(r, x - 1)
  BY <1>1, <1>2, <1>3 DEF Done, Client
<1>6. r[x].width # 0 => \A y \in Client : y \in Done(r, x - 1) <=> y <= x - 1
  BY <1>1, <1>2, <1>3 DEF Done, Client
<1>7. r[x].width = 1 => Done(r, x) = Done(r, x - 1) \cup {x}
  BY <1>6 DEF Done, Client
<1>8. r[x].width = 2 => Done(r, x) = Done(r, x - 1) \cup {x, x + 1} /\ x + 1 \notin Done(r, x - 1)
  BY <1>1, <1>6 DEF Done, Client
<1> QED BY <1>1, <1>4, <1>5, <1>7, <1>8

\* A column more.
LEMMA LevelNext ==
  ASSUME NEW r, Paintable(r), NEW x \in Client, NEW d, Level(d, r, x - 1)
  PROVE  Level(Looked(d, r, x), r, x)
<1> DEFINE was == Done(r, x - 1)
           q   == Committed(d.prev, r, x)
           p   == Painted(d.row, x, r[x])
           e   == [prev |-> q, row |-> p, painted |-> TRUE]
<1>0. /\ r \in [Client -> Cells] /\ r[x] \in Cells /\ r[x].width \in {0, 1, 2}
      /\ d.prev \in [Client -> Cells] /\ d.row \in [Client -> Cells] /\ Paired(d.row)
      /\ \A y \in was : d.prev[y] = r[y] /\ d.row[y] = r[y]
      /\ \A y \in Client \ was :
           /\ d.prev[y].width # 0 => d.row[y] = d.prev[y]
           /\ d.prev[y].width = 2 => y + 1 \in Client /\ d.prev[y + 1] = TailCell
  BY CellWidths DEF Level, Paintable
<1>1. CASE r[x].width = 0
  <2>1. Looked(d, r, x) = d
    BY <1>1 DEF Looked
  <2>2. Done(r, x) = Done(r, x - 1)
    BY <1>1, DoneNext
  <2> QED BY <2>1, <2>2 DEF Level
<1>2. CASE r[x].width # 0 /\ r[x] = d.prev[x]
  <2>1. Looked(d, r, x) = d
    BY <1>2 DEF Looked
  <2>2. x \notin was /\ d.row[x] = r[x]
    BY <1>0, <1>2, DoneNext
  <2>3. CASE r[x].width = 1
    <3>1. Done(r, x) = was \cup {x}
      BY <2>3, DoneNext
    <3> QED BY <1>0, <1>2, <2>1, <2>2, <3>1 DEF Level
  <2>4. CASE r[x].width = 2
    <3>1. Done(r, x) = was \cup {x, x + 1} /\ x + 1 \in Client /\ r[x + 1] = TailCell
      BY <2>4, DoneNext
    <3>2. d.prev[x + 1] = TailCell
      BY <1>0, <1>2, <2>2, <2>4
    <3>3. d.row[x + 1] = TailCell
      BY <1>0, <2>2, <2>4 DEF Paired
    <3> QED BY <1>0, <1>2, <2>1, <2>2, <3>1, <3>2, <3>3 DEF Level
  <2> QED BY <1>0, <1>2, <2>3, <2>4
<1>3. CASE r[x].width # 0 /\ r[x] # d.prev[x]
  <2>1. Looked(d, r, x) = e
    BY <1>3 DEF Looked
  <2>2. x \notin was
    BY <1>3, DoneNext
  <2>3. \A y \in Client : y \in was => y <= x - 1
    BY <2>2, <1>0 DEF Done, Client
  \* The column before is settled, and is no head: painting here spares it.
  <2>4. d.row[x].width # 0 \/ x - 1 \notin was
    <3>1. ASSUME d.row[x].width = 0, x - 1 \in was PROVE FALSE
      <4>1. r[x - 1].width = 2 /\ x - 1 \in Client
        BY <1>0, <3>1 DEF Paired
      <4>2. r[x] = TailCell
        <5>1. x - 1 + 1 = x
          BY DEF Client
        <5> QED BY <4>1, <5>1 DEF Paintable, Paired
      <4> QED BY <1>3, <4>2, CellWidths
    <3> QED BY <3>1
  <2>5. q \in [Client -> Cells]
    BY <1>0 DEF Committed
  <2>6. \A y \in Client : q[y] = IF y = x \/ (y = x + 1 /\ r[x].width = 2) THEN r[y] ELSE d.prev[y]
    BY <1>0 DEF Committed
  <2>7. CASE r[x].width = 1
    <3>1. Done(r, x) = was \cup {x}
      BY <2>7, DoneNext
    <3>2. /\ p \in [Client -> Cells]
          /\ \A y \in Client :
               p[y] = IF y = x THEN r[x]
                      ELSE IF (y = x - 1 /\ d.row[x].width = 0) \/ (y = x + 1 /\ d.row[x].width = 2)
                      THEN CutCell ELSE d.row[y]
      BY <1>0, <2>7, PaintOne
    <3>3. Paired(p)
      <4>1. r[x].width # 0 /\ r[x].width # 2
        BY <2>7
      <4> QED BY <1>0, <4>1, PaintKeepsPairs
    <3> HIDE DEF p, q
    <3>4. ASSUME NEW y \in Done(r, x) PROVE q[y] = r[y] /\ p[y] = r[y]
      <4>1. CASE y = x
        BY <2>6, <3>2, <4>1
      <4>2. CASE y \in was /\ y # x
        <5>1. y \in Client /\ y <= x - 1 /\ y # x + 1
          BY <2>3, <4>2 DEF Done, Client
        <5>2. ~(y = x - 1 /\ d.row[x].width = 0)
          BY <2>4, <4>2
        <5> QED BY <1>0, <2>6, <3>2, <4>2, <5>1, <5>2
      <4> QED BY <3>1, <4>1, <4>2
    <3>5. ASSUME NEW y \in Client \ Done(r, x), q[y].width # 0 PROVE p[y] = q[y]
      <4>1. y # x /\ y \notin was
        BY <3>1
      <4>2. q[y] = d.prev[y] /\ d.row[y] = d.prev[y]
        BY <1>0, <2>6, <2>7, <3>5, <4>1
      <4>3. y # x - 1
        BY <4>1 DEF Done, Client
      <4>4. ~(y = x + 1 /\ d.row[x].width = 2)
        BY <1>0, <3>5, <4>2, CellWidths DEF Paired
      <4> QED BY <3>2, <4>1, <4>2, <4>3, <4>4
    <3>6. ASSUME NEW y \in Client \ Done(r, x), q[y].width = 2
          PROVE  y + 1 \in Client /\ q[y + 1] = TailCell
      <4>1. y # x /\ y \notin was
        BY <3>1
      <4>2. q[y] = d.prev[y]
        BY <2>6, <2>7, <4>1
      <4>3. y + 1 # x
        BY <4>1 DEF Done, Client
      <4>4. y + 1 \in Client /\ d.prev[y + 1] = TailCell
        BY <1>0, <3>6, <4>1, <4>2
      <4> QED BY <2>6, <2>7, <4>3, <4>4
    <3>7. e.prev = q /\ e.row = p
      OBVIOUS
    <3> HIDE DEF e
    <3> QED BY <2>1, <2>5, <3>2, <3>3, <3>4, <3>5, <3>6, <3>7 DEF Level
  <2>8. CASE r[x].width = 2
    <3>1. Done(r, x) = was \cup {x, x + 1} /\ x + 1 \in Client /\ r[x + 1] = TailCell
      BY <2>8, DoneNext
    <3>2. /\ p \in [Client -> Cells]
          /\ \A y \in Client :
               p[y] = IF y = x THEN r[x]
                      ELSE IF y = x + 1 THEN TailCell
                      ELSE IF \/ (y = x - 1 /\ d.row[x].width = 0)
                              \/ (y = x + 2 /\ d.row[x + 1].width = 2)
                      THEN CutCell ELSE d.row[y]
      BY <1>0, <2>8, <3>1, PaintTwo
    <3>3. Paired(p)
      BY <1>0, <2>8, <3>1, PaintKeepsPairs
    <3> HIDE DEF p, q
    <3>4. ASSUME NEW y \in Done(r, x) PROVE q[y] = r[y] /\ p[y] = r[y]
      <4>1. CASE y = x
        BY <2>6, <3>2, <4>1
      <4>2. CASE y = x + 1
        <5>1. x + 1 # x
          BY DEF Client
        <5> QED BY <2>6, <2>8, <3>1, <3>2, <4>2, <5>1
      <4>3. CASE y \in was /\ y # x /\ y # x + 1
        <5>1. y \in Client /\ y <= x - 1 /\ y # x + 2
          BY <2>3, <4>3 DEF Done, Client
        <5>2. ~(y = x - 1 /\ d.row[x].width = 0)
          BY <2>4, <4>3
        <5> QED BY <1>0, <2>6, <3>2, <4>3, <5>1, <5>2
      <4> QED BY <3>1, <4>1, <4>2, <4>3
    <3>5. ASSUME NEW y \in Client \ Done(r, x), q[y].width # 0 PROVE p[y] = q[y]
      <4>1. y # x /\ y # x + 1 /\ y \notin was
        BY <3>1
      <4>2. q[y] = d.prev[y] /\ d.row[y] = d.prev[y]
        BY <1>0, <2>6, <3>5, <4>1
      <4>3. y # x - 1
        BY <4>1 DEF Done, Client
      <4>4. ~(y = x + 2 /\ d.row[x + 1].width = 2)
        <5>1. (x + 1) + 1 = x + 2
          BY DEF Client
        <5>2. d.row[x + 1].width = 2 => d.row[x + 2].width = 0
          BY <1>0, <3>1, <5>1, CellWidths DEF Paired
        <5> QED BY <3>5, <4>2, <5>2
      <4> QED BY <3>2, <4>1, <4>2, <4>3, <4>4
    <3>6. ASSUME NEW y \in Client \ Done(r, x), q[y].width = 2
          PROVE  y + 1 \in Client /\ q[y + 1] = TailCell
      <4>1. y # x /\ y # x + 1 /\ y \notin was
        BY <3>1
      <4>2. q[y] = d.prev[y]
        BY <2>6, <4>1
      <4>3. y + 1 # x /\ y + 1 # x + 1
        BY <4>1 DEF Done, Client
      <4>4. y + 1 \in Client /\ d.prev[y + 1] = TailCell
        BY <1>0, <3>6, <4>1, <4>2
      <4> QED BY <2>6, <4>3, <4>4
    <3>7. e.prev = q /\ e.row = p
      OBVIOUS
    <3> HIDE DEF e
    <3> QED BY <2>1, <2>5, <3>2, <3>3, <3>4, <3>5, <3>6, <3>7 DEF Level
  <2> QED BY <1>0, <1>3, <2>7, <2>8
<1> QED BY <1>1, <1>2, <1>3

\* Painting never leaves the types, whatever it is made to overwrite.
LEMMA PaintTyped ==
  ASSUME NEW t \in [Client -> Cells], NEW x \in Client, NEW c \in Cells
  PROVE  Painted(t, x, c) \in [Client -> Cells]
<1>1. ASSUME NEW s \in [Client -> Cells], NEW y \in Client PROVE Emptied(s, y) \in [Client -> Cells]
  BY CellWidths DEF Emptied, CutCell
<1>2. Emptied(t, x) \in [Client -> Cells]
  BY <1>1
<1>3. TailCell \in Cells /\ DOMAIN t = Client
  BY CellWidths
<1>4. CASE c.width = 2 /\ x + 1 \in DOMAIN t
  <2>1. Emptied(Emptied(t, x), x + 1) \in [Client -> Cells]
    BY <1>1, <1>2, <1>3, <1>4
  <2>2. Painted(t, x, c) = [Emptied(Emptied(t, x), x + 1) EXCEPT ![x] = c, ![x + 1] = TailCell]
    BY <1>4 DEF Painted
  <2> QED BY <1>3, <2>1, <2>2
<1>5. CASE ~(c.width = 2 /\ x + 1 \in DOMAIN t)
  <2>1. Painted(t, x, c) = [Emptied(t, x) EXCEPT ![x] = c]
    BY <1>5 DEF Painted
  <2> QED BY <1>2, <2>1
<1> QED BY <1>4, <1>5

Typed(d) == d.prev \in [Client -> Cells] /\ d.row \in [Client -> Cells] /\ d.painted \in BOOLEAN

Same(r, p) == \A y \in Client : r[y].width = 0 \/ r[y] = p[y]

\* What is true of the walk when it has been past x.
Along(d, r, p, t, cleared, x) ==
  /\ Typed(d)
  /\ cleared => d.painted
  /\ Paintable(r) /\ Level(Start(p, t, cleared), r, -1) => Level(d, r, x)
  /\ Same(r, p) => d = Start(p, t, cleared)

\* It stays true.
LEMMA AlongNext ==
  ASSUME NEW r \in [Client -> Cells], NEW p, NEW t, NEW cleared \in BOOLEAN, NEW x \in Client,
         NEW d, Along(d, r, p, t, cleared, x - 1)
  PROVE  Along(Looked(d, r, x), r, p, t, cleared, x)
<1>1. Typed(Looked(d, r, x)) /\ (d.painted => Looked(d, r, x).painted)
  <2>1. Committed(d.prev, r, x) \in [Client -> Cells]
    BY DEF Committed, Along, Typed
  <2>2. Painted(d.row, x, r[x]) \in [Client -> Cells]
    BY PaintTyped DEF Along, Typed
  <2> QED BY <2>1, <2>2 DEF Looked, Along, Typed
<1>2. Paintable(r) /\ Level(Start(p, t, cleared), r, -1) => Level(Looked(d, r, x), r, x)
  BY LevelNext DEF Along
<1>3. Same(r, p) => Looked(d, r, x) = Start(p, t, cleared)
  <2>1. Start(p, t, cleared).prev = p
    BY DEF Start
  <2> QED BY <2>1 DEF Looked, Along, Same
<1> QED BY <1>1, <1>2, <1>3 DEF Along

\* So it is true at the end of the row.
LEMMA DiffAlong ==
  ASSUME NEW r \in [Client -> Cells], NEW p \in [Client -> Cells], NEW t \in [Client -> Cells],
         NEW cleared \in BOOLEAN
  PROVE  Along(Diffed(r, p, t, cleared), r, p, t, cleared, Cols - 1)
<1>0. Cols \in Nat \ {0}
  BY ScreenAssumption DEF ScreenAssumption
<1>1. PICK f : Walks(f, Cols - 1, r, p, t, cleared) /\ Diffed(r, p, t, cleared) = f[Cols - 1]
  BY DiffWalks
<1>2. f[-1] = Start(p, t, cleared) /\ \A x \in Client : f[x] = Looked(f[x - 1], r, x)
  <2>1. f = [x \in -1..Cols - 1 |-> IF x = -1 THEN Start(p, t, cleared) ELSE Looked(f[x - 1], r, x)]
    BY <1>1 DEF Walks
  <2>2. -1 \in -1..Cols - 1 /\ \A x \in Client : x \in -1..Cols - 1 /\ x # -1
    BY <1>0 DEF Client
  <2> QED BY <2>1, <2>2
<1> DEFINE S == {n \in Nat : n <= Cols => Along(f[n - 1], r, p, t, cleared, n - 1)}
<1>3. 0 \in S
  <2>1. Typed(Start(p, t, cleared)) /\ (cleared => Start(p, t, cleared).painted)
    BY DEF Typed, Start
  <2>2. Along(f[-1], r, p, t, cleared, -1)
    BY <1>2, <2>1 DEF Along
  <2>3. 0 - 1 = -1
    OBVIOUS
  <2> QED BY <2>2, <2>3
<1>4. ASSUME NEW n \in Nat, n \in S PROVE n + 1 \in S
  <2>1. CASE n + 1 <= Cols
    <3>1. n \in Client /\ n <= Cols
      BY <1>0, <2>1 DEF Client
    <3>2. Along(f[n - 1], r, p, t, cleared, n - 1) /\ f[n] = Looked(f[n - 1], r, n)
      BY <1>2, <1>4, <3>1
    <3>3. Along(f[n], r, p, t, cleared, n)
      BY <3>1, <3>2, AlongNext
    <3>4. n + 1 - 1 = n
      OBVIOUS
    <3> QED BY <3>3, <3>4
  <2>2. CASE ~(n + 1 <= Cols)
    BY <2>2
  <2> QED BY <2>1, <2>2
<1>5. S = Nat
  <2>1. S \in SUBSET Nat
    OBVIOUS
  <2> HIDE DEF S
  <2> QED BY <1>3, <1>4, <2>1, Onwards
<1>6. Cols \in S
  BY <1>0, <1>5
<1> QED BY <1>0, <1>1, <1>6

\* A frame of whole glyphs, over a terminal that shows what is remembered or
\* has been cleared, leaves both as the frame.
LEMMA DiffExact ==
  ASSUME NEW r, Paintable(r), NEW p \in [Client -> Cells], NEW t \in [Client -> Cells],
         NEW cleared \in BOOLEAN, Paired(t),
         (p = t) \/ (\A y \in Client : p[y].width = 0)
  PROVE  Diffed(r, p, t, cleared).prev = r /\ Diffed(r, p, t, cleared).row = r
<1> DEFINE s == Start(p, t, cleared)
           d == Diffed(r, p, t, cleared)
<1>0. Cols \in Nat \ {0} /\ r \in [Client -> Cells]
  BY ScreenAssumption DEF ScreenAssumption, Paintable
<1>1. Level(s, r, -1)
  <2>1. s.prev = p /\ s.row = t
    BY DEF Start
  <2>2. Done(r, -1) = {}
    BY <1>0 DEF Done, Client
  <2> HIDE DEF s
  <2>3. ASSUME NEW y \in Client
        PROVE  /\ p[y].width # 0 => t[y] = p[y]
               /\ p[y].width = 2 => y + 1 \in Client /\ p[y + 1] = TailCell
    BY DEF Paired
  <2> QED BY <2>1, <2>2, <2>3 DEF Level
<1>2. Level(d, r, Cols - 1)
  BY <1>0, <1>1, DiffAlong DEF Along
<1> HIDE DEF d
<1>3. \A y \in Client : y \in Done(r, Cols - 1)
  BY <1>0 DEF Done, Client
<1>4. d.prev \in [Client -> Cells] /\ d.row \in [Client -> Cells]
      /\ \A y \in Client : d.prev[y] = r[y] /\ d.row[y] = r[y]
  BY <1>2, <1>3 DEF Level
<1>5. d.prev = r /\ d.row = r
  BY <1>0, <1>4
<1> QED BY <1>5 DEF d

-----------------------------------------------------------------------------
(* The frame.                                                              *)

\* A tail shows one thing.
Tails(r) == \A x \in DOMAIN r : r[x].width = 0 => r[x] = TailCell

\* A row stays one when a glyph is put into it.
LEMMA PutOK ==
  ASSUME NEW D, NEW r \in [D -> Cells], NEW x, NEW g \in Narrow \cup Wide \cup {Tag}, Tails(r)
  PROVE  Put(r, x, g) \in [D -> Cells] /\ Tails(Put(r, x, g))
<1> DEFINE c == [glyph |-> g, width |-> IF g \in Wide /\ x + 1 \in D THEN 2 ELSE 1]
           q == [y \in D |-> IF y = x THEN c ELSE IF y = x + 1 /\ g \in Wide THEN TailCell ELSE r[y]]
<1>1. c \in Cells /\ c.width # 0
  BY DEF Cells
<1>2. Put(r, x, g) = q
  BY DEF Put
<1> HIDE DEF c
<1>3. q \in [D -> Cells]
  BY <1>1, CellWidths
<1>4. Tails(q)
  BY <1>1 DEF Tails
<1> QED BY <1>2, <1>3, <1>4

\* What a client is shown of a canvas is a row, and its tails show one thing.
LEMMA ViewOK ==
  ASSUME NEW a \in Nat, canvas \in [Canvas -> Cells], Tails(canvas)
  PROVE  Stamped(Project(canvas, a)) \in [Client -> Cells] /\ Tails(Stamped(Project(canvas, a)))
<1> DEFINE q == Project(canvas, a)
<1>1. ASSUME NEW x \in Client
      PROVE  q[x] \in Cells /\ (q[x].width = 0 => q[x] = TailCell)
  <2>1. q[x] = Cell(Blank) \/ (a + x \in Canvas /\ q[x] = canvas[a + x])
    <3>1. CASE a + x \notin DOMAIN canvas
      BY <3>1 DEF Project
    <3>2. CASE a + x \in DOMAIN canvas
      <4>1. canvas[a + x].width \in {0, 1, 2} /\ DOMAIN canvas = Canvas
        BY <3>2, CellWidths
      <4> QED BY <3>2, <4>1 DEF Project
    <3> QED BY <3>1, <3>2
  <2> HIDE DEF q
  <2> QED BY <2>1, CellWidths DEF Tails
<1>2. q \in [Client -> Cells]
  <2>1. q = [x \in Client |-> q[x]]
    BY DEF Project
  <2> HIDE DEF q
  <2> QED BY <1>1, <2>1
<1> HIDE DEF q
<1>3. Tails(q)
  BY <1>1, <1>2 DEF Tails
<1>4. Stamped(q) \in {q, Put(q, Cols - 1, Tag)}
  BY DEF Stamped
<1>5. Stamped(q) \in [Client -> Cells] /\ Tails(Stamped(q))
  BY <1>2, <1>3, <1>4, PutOK
<1> QED BY <1>5 DEF q

\* Whole glyphs can be painted whole.
LEMMA WholePaints ==
  ASSUME NEW r \in [Client -> Cells], Tails(r), Whole(r)
  PROVE  Paintable(r)
  BY DEF Paintable, Paired, Whole, Tails

\* The view goes where the cursor is, and no further than the canvas does.
LEMMA FollowOK ==
  ASSUME NEW a \in Nat, NEW c \in Canvas \cup {Hidden}, width \in Widths
  PROVE  /\ Follow(a, c) \in Nat
         /\ Follow(a, c) > 0 => Follow(a, c) + Cols <= width
         /\ c # Hidden => c - Follow(a, c) \in Client
<1>1. Cols \in Nat \ {0} /\ width \in Nat \ {0}
  BY ScreenAssumption DEF ScreenAssumption
<1>2. c \in Int /\ (c # Hidden => c \in Nat /\ c < width)
  BY <1>1 DEF Canvas, Hidden
<1>3. Pulled(a, c) \in Nat /\ (c # Hidden => Pulled(a, c) <= c /\ c < Pulled(a, c) + Cols)
  BY <1>1, <1>2 DEF Pulled
<1>4. MaxAt = IF width > Cols THEN width - Cols ELSE 0
  BY DEF MaxAt
<1>5. Follow(a, c) = IF MaxAt = 0 THEN 0 ELSE IF Pulled(a, c) > MaxAt THEN MaxAt ELSE Pulled(a, c)
  BY DEF Follow, Clamp
<1> QED BY <1>1, <1>2, <1>3, <1>4, <1>5 DEF Client

-----------------------------------------------------------------------------
(***************************************************************************)
(* The invariant.  While no full frame is owed and no glyph has been cut,  *)
(* the terminal shows what the diff believes it does, in whole glyphs, and *)
(* its cursor is where the view last put it.                               *)
(***************************************************************************)
Believed ==
  /\ sound /\ ~full => prev = row /\ Paired(row)
  /\ ~full /\ told # Hidden => caret = told

SInv == TypeOK /\ Tails(canvas) /\ Believed

\* A canvas wiped, of any width.
LEMMA ClearOK ==
  ASSUME NEW n
  PROVE  Clear(n) \in [0..n - 1 -> Cells] /\ Tails(Clear(n))
  BY CellWidths DEF Clear, Tails

\* What a frame makes of the view and of the terminal.
LEMMA PushSays ==
  ASSUME SInv, NEW taken \in BOOLEAN, Push(taken)
  PROVE  LET a == Follow(at, cursor)
             r == Stamped(Project(canvas, a))
             c == InView(a, cursor)
             d == Diffed(r, Forgotten, IF full THEN Clear(Cols) ELSE row, full)
         IN /\ a \in Nat /\ (a > 0 => a + Cols <= width)
            /\ r \in [Client -> Cells] /\ Tails(r)
            /\ c \in Client \cup {Hidden} /\ (cursor # Hidden => c = cursor - a /\ c # Hidden)
            /\ Typed(d) /\ (full => d.painted)
            /\ Whole(r) /\ (full \/ sound) => d.prev = r /\ d.row = r
            /\ Same(r, prev) /\ ~full => ~d.painted
<1> DEFINE a == Follow(at, cursor)
           r == Stamped(Project(canvas, a))
           c == InView(a, cursor)
           t == IF full THEN Clear(Cols) ELSE row
           d == Diffed(r, Forgotten, t, full)
<1>1. a \in Nat /\ (a > 0 => a + Cols <= width) /\ (cursor # Hidden => cursor - a \in Client)
  BY FollowOK DEF SInv, TypeOK
<1>2. r \in [Client -> Cells] /\ Tails(r)
  BY <1>1, ViewOK DEF SInv, TypeOK
<1>3. c \in Client \cup {Hidden} /\ (cursor # Hidden => c = cursor - a /\ c # Hidden)
  BY <1>1 DEF InView, Hidden, Client
<1>4. Forgotten \in [Client -> Cells] /\ t \in [Client -> Cells] /\ full \in BOOLEAN
  BY CellWidths, ClearOK DEF SInv, TypeOK, Forgotten, Client
<1>5. (full \/ sound) => Paired(t)
  <2>1. Paired(Clear(Cols))
    BY CellWidths DEF Paired, Clear, Client
  <2> QED BY <2>1 DEF SInv, Believed
<1>6. (full \/ sound) => Forgotten = t \/ \A y \in Client : Forgotten[y].width = 0
  BY CellWidths DEF Forgotten, SInv, Believed
<1>7. Along(d, r, Forgotten, t, full, Cols - 1)
  BY <1>2, <1>4, DiffAlong
<1>8. Whole(r) /\ (full \/ sound) => d.prev = r /\ d.row = r
  BY <1>2, <1>4, <1>5, <1>6, WholePaints, DiffExact
<1>9. Same(r, prev) /\ ~full => ~d.painted
  <2>1. ~full => Forgotten = prev
    BY DEF Forgotten
  <2>2. ~full => ~Start(Forgotten, t, full).painted
    BY DEF Start
  <2> QED BY <1>7, <2>1, <2>2 DEF Along
<1> HIDE DEF d, r, c, a, t
<1>10. Typed(d) /\ (full => d.painted)
  BY <1>7 DEF Along
<1> QED BY <1>1, <1>2, <1>3, <1>8, <1>9, <1>10 DEF d, r, c, a, t

\* A frame keeps the invariant.
LEMMA PushKeeps == ASSUME SInv, NEW taken \in BOOLEAN, Push(taken) PROVE SInv'
<1> DEFINE a == Follow(at, cursor)
           r == Stamped(Project(canvas, a))
           c == InView(a, cursor)
           d == Diffed(r, Forgotten, IF full THEN Clear(Cols) ELSE row, full)
           ok == taken \/ ~said'
<1>1. /\ a \in Nat /\ (a > 0 => a + Cols <= width)
      /\ c \in Client \cup {Hidden}
      /\ Typed(d) /\ (full => d.painted)
      /\ Whole(r) /\ (full \/ sound) => d.prev = r /\ d.row = r
      /\ r \in [Client -> Cells] /\ Tails(r)
  BY PushSays
<1>2. /\ said' = (d.painted \/ (Moved(c) /\ c # Hidden))
      /\ at' = IF ok THEN a ELSE at
      /\ prev' = d.prev /\ told' = c /\ full' = ~ok
      /\ row' = IF ok THEN d.row ELSE row
      /\ caret' = IF ok THEN Caret(d.painted, c) ELSE caret
      /\ sound' = (Whole(r) /\ (full \/ sound))
      /\ UNCHANGED <<scene, budget>>
  BY DEF Push
<1> HIDE DEF d, r, c, a
<1>3. Whole(r) \in BOOLEAN /\ Moved(c) \in BOOLEAN
  BY DEF Whole, Moved
<1>4. Caret(d.painted, c) \in Client \cup {Hidden}
  BY <1>1 DEF Caret, SInv, TypeOK
<1>5. TypeOK'
  <2>1. width' = width /\ canvas' = canvas /\ cursor' = cursor /\ tagged' = tagged /\ budget' = budget
    BY <1>2 DEF scene
  <2>2. said' \in BOOLEAN
    BY <1>1, <1>2, <1>3 DEF Typed
  <2>3. full' \in BOOLEAN /\ sound' \in BOOLEAN
    BY <1>2, <1>3, <2>2 DEF SInv, TypeOK
  <2>4. prev' \in [Client -> Cells] /\ row' \in [Client -> Cells]
    BY <1>1, <1>2 DEF Typed, SInv, TypeOK
  <2>5. told' \in Client \cup {Hidden} /\ caret' \in Client \cup {Hidden}
    BY <1>1, <1>2, <1>4 DEF SInv, TypeOK
  <2>6. at' \in Nat /\ (~full' /\ at' > 0 => at' + Cols <= width)
    BY <1>1, <1>2 DEF SInv, TypeOK
  <2> QED BY <2>1, <2>2, <2>3, <2>4, <2>5, <2>6 DEF SInv, TypeOK, Canvas
<1>6. Tails(canvas)'
  BY <1>2 DEF SInv, scene, Tails
<1>7. (sound /\ ~full => prev = row /\ Paired(row))'
  <2> SUFFICES ASSUME sound', ~full' PROVE prev' = row' /\ Paired(row')
    BY DEF Paired
  <2>1. prev' = r /\ row' = r /\ Whole(r)
    BY <1>1, <1>2
  <2> QED BY <1>1, <2>1, WholePaints DEF Paintable
<1>8. (~full /\ told # Hidden => caret = told)'
  <2> SUFFICES ASSUME ~full', told' # Hidden PROVE caret' = told'
    OBVIOUS
  <2>1. c # Hidden /\ caret' = Caret(d.painted, c) /\ told' = c
    BY <1>2
  <2>2. CASE d.painted \/ Moved(c)
    BY <2>1, <2>2 DEF Caret
  <2>3. CASE ~(d.painted \/ Moved(c))
    <3>1. ~full /\ told = c
      BY <1>1, <2>3 DEF Moved
    <3>2. caret = told
      BY <2>1, <3>1 DEF SInv, Believed
    <3> QED BY <2>1, <2>3, <3>1, <3>2 DEF Caret
  <2> QED BY <2>2, <2>3
<1>9. Believed'
  BY <1>7, <1>8 DEF Believed
<1> QED BY <1>5, <1>6, <1>9 DEF SInv

\* The scene changes, and nothing else does but that a frame may be owed whole.
LEMMA SceneKeeps ==
  ASSUME SInv, UNCHANGED <<at, prev, told, row, caret, said, sound>>, budget' \in Nat,
         width' \in Widths, canvas' \in [Canvas' -> Cells], Tails(canvas'),
         cursor' \in Canvas' \cup {Hidden}, tagged' \in BOOLEAN,
         full' \/ (full' = full /\ width' = width), full' \in BOOLEAN
  PROVE  SInv'
<1>1. TypeOK'
  BY DEF SInv, TypeOK
<1>2. Believed'
  BY DEF SInv, Believed, Paired
<1> QED BY <1>1, <1>2 DEF SInv, Tails

\* Every step keeps it.
LEMMA StepKeeps == ASSUME SInv, [Next]_vars PROVE SInv'
<1> USE DEF SInv
<1>0. /\ width \in Widths /\ width \in Nat \ {0} /\ canvas \in [Canvas -> Cells]
      /\ cursor \in Canvas \cup {Hidden} /\ tagged \in BOOLEAN /\ full \in BOOLEAN
      /\ budget \in Nat /\ Tails(canvas)
  BY ScreenAssumption DEF TypeOK, ScreenAssumption
<1>1. ASSUME Spend PROVE budget' \in Nat
  BY <1>0, <1>1 DEF Spend
<1>2. CASE Write
  <2>1. PICK x \in Canvas, g \in Narrow \cup Wide : canvas' = Put(canvas, x, g)
    BY <1>2 DEF Write
  <2>2. canvas' \in [Canvas -> Cells] /\ Tails(canvas')
    BY <1>0, <2>1, PutOK
  <2>3. width' = width /\ cursor' = cursor /\ tagged' = tagged /\ full' = full /\ Canvas' = Canvas
    BY <1>2 DEF Write, view, Canvas
  <2> QED BY <1>0, <1>1, <1>2, <2>2, <2>3, SceneKeeps DEF Write, view
<1>3. CASE Compose
  <2>1. /\ canvas' \in [Canvas -> {Cell(g) : g \in Narrow \cup Wide} \cup {TailCell}]
        /\ width' = width /\ cursor' = cursor /\ tagged' = tagged /\ full' = full /\ Canvas' = Canvas
    BY <1>3 DEF Compose, view, Canvas
  <2>2. \A g \in Narrow \cup Wide : Cell(g).width # 0
    BY DEF Cell
  <2>3. canvas' \in [Canvas -> Cells] /\ Tails(canvas')
    BY <2>1, <2>2, CellWidths DEF Tails
  <2> QED BY <1>0, <1>1, <1>3, <2>1, <2>3, SceneKeeps DEF Compose, view
<1>4. CASE MoveCursor
  <2>1. /\ cursor' \in Canvas \cup {Hidden} /\ width' = width /\ canvas' = canvas
        /\ tagged' = tagged /\ full' = full /\ Canvas' = Canvas
    BY <1>4 DEF MoveCursor, view, Canvas
  <2> QED BY <1>0, <1>1, <1>4, <2>1, SceneKeeps DEF MoveCursor, view
<1>5. CASE Others
  <2>1. /\ cursor' = cursor /\ width' = width /\ canvas' = canvas
        /\ tagged' \in BOOLEAN /\ full' = full /\ Canvas' = Canvas
    BY <1>5 DEF Others, view, Canvas
  <2> QED BY <1>0, <1>1, <1>5, <2>1, SceneKeeps DEF Others, view
<1>6. CASE Resize
  <2>1. /\ width' \in Widths /\ canvas' = Clear(width') /\ full' = TRUE /\ tagged' = tagged
        /\ Canvas' = 0..width' - 1 /\ cursor' \in Canvas' \cup {Hidden}
    BY <1>6 DEF Resize, Canvas
  <2>2. canvas' \in [Canvas' -> Cells] /\ Tails(canvas')
    BY <2>1, ClearOK
  <2> QED BY <1>0, <1>1, <1>6, <2>1, <2>2, SceneKeeps DEF Resize
<1>7. CASE \E taken \in BOOLEAN : Push(taken)
  BY <1>7, PushKeeps
<1>8. CASE UNCHANGED vars
  BY <1>8 DEF vars, scene, view, TypeOK, Believed, Tails, Paired, Canvas
<1> QED BY <1>2, <1>3, <1>4, <1>5, <1>6, <1>7, <1>8 DEF Next

\* Nothing has been shown, and a full frame is owed.
LEMMA InitKeeps == ASSUME Init PROVE SInv
<1>0. Cols \in Nat \ {0} /\ width \in Nat \ {0} /\ Budget \in Nat
  BY ScreenAssumption DEF ScreenAssumption, Init
<1>1. canvas \in [Canvas -> Cells] /\ Tails(canvas)
  BY ClearOK DEF Init, Canvas
<1>2. prev \in [Client -> Cells] /\ row \in [Client -> Cells]
  BY ClearOK DEF Init, Client
<1>3. 0 \in Client
  BY <1>0 DEF Client
<1> QED BY <1>0, <1>1, <1>2, <1>3 DEF Init, SInv, TypeOK, Believed

(* What the diff believes, it may believe (view.prev, shown_cursor_x).     *)
THEOREM Inductive == Spec => []SInv
  BY InitKeeps, StepKeeps, PTL DEF Spec

(* The view stays on the canvas, and everything on the row is a cell.      *)
THEOREM TypeCorrect == Spec => []TypeOK
<1>1. SInv => TypeOK
  BY DEF SInv
<1> QED BY <1>1, Inductive, PTL

\* Only a push costs no budget and leaves no full frame owed.
LEMMA FramesPush ==
  ASSUME SInv, Next, Frame
  PROVE  \E taken \in BOOLEAN : Push(taken) /\ (taken \/ ~said')
<1>1. ~Spend
  BY DEF SInv, TypeOK, Spend, Frame
<1>2. PICK taken \in BOOLEAN : Push(taken)
  BY <1>1 DEF Next, Write, Compose, MoveCursor, Others, Resize
<1> QED BY <1>2 DEF Push, Frame

(***************************************************************************)
(* A frame leaves the terminal with exactly the client's part of the       *)
(* canvas, for any widths and glyphs, as long as no frame since the last   *)
(* full one cut a glyph in two (screen_render).                            *)
(***************************************************************************)
THEOREM FramesAreFaithful == Spec => Faithful
<1>1. SInv /\ [Next]_vars => [Frame /\ sound' => row' = Picture']_vars
  <2> SUFFICES ASSUME SInv, Next, Frame, sound' PROVE row' = Picture'
    OBVIOUS
  <2>1. PICK taken \in BOOLEAN : Push(taken) /\ (taken \/ ~said')
    BY FramesPush
  <2> DEFINE a == Follow(at, cursor)
             r == Stamped(Project(canvas, a))
             d == Diffed(r, Forgotten, IF full THEN Clear(Cols) ELSE row, full)
  <2>2. Whole(r) /\ (full \/ sound) => d.row = r
    BY <2>1, PushSays
  <2>3. at' = a /\ row' = d.row /\ Whole(r) /\ (full \/ sound) /\ scene' = scene
    BY <2>1 DEF Push
  <2>4. Picture' = r
    BY <2>3 DEF Picture, scene, Stamped, Project, Client
  <2> QED BY <2>2, <2>3, <2>4
<1> QED BY <1>1, Inductive, PTL DEF Spec, Faithful

(***************************************************************************)
(* The cursor a canvas shows is on the client's screen, where it belongs   *)
(* (screen_follow_cursor, screen_render).                                  *)
(***************************************************************************)
THEOREM CaretIsFollowed == Spec => CaretFollows
<1>1. SInv /\ [Next]_vars => [Frame /\ cursor # Hidden => caret' = cursor - at']_vars
  <2> SUFFICES ASSUME SInv, Next, Frame, cursor # Hidden PROVE caret' = cursor - at'
    OBVIOUS
  <2>1. PICK taken \in BOOLEAN : Push(taken) /\ (taken \/ ~said')
    BY FramesPush
  <2> DEFINE a == Follow(at, cursor)
             c == InView(a, cursor)
  <2>2. c = cursor - a /\ c # Hidden
    BY <2>1, PushSays
  <2>3. at' = a /\ told' = c /\ ~full'
    BY <2>1 DEF Push, Frame
  <2>4. caret' = told'
    <3>1. SInv'
      BY <2>1, PushKeeps
    <3> QED BY <2>2, <2>3, <3>1 DEF SInv, Believed
  <2> QED BY <2>2, <2>3, <2>4
<1> QED BY <1>1, Inductive, PTL DEF Spec, CaretFollows

(***************************************************************************)
(* A frame that would show what is shown has not one byte.                 *)
(***************************************************************************)
THEOREM SilenceIsKept == Spec => NothingForNothing
<1> DEFINE Step == Frame /\ ~full /\ sound /\ row = Picture' /\ told = InView(at', cursor) => ~said'
<1>1. SInv /\ [Next]_vars => [Step]_vars
  <2> SUFFICES ASSUME SInv, Next, Frame, ~full, sound, row = Picture', told = InView(at', cursor)
               PROVE  ~said'
    OBVIOUS
  <2>1. PICK taken \in BOOLEAN : Push(taken) /\ (taken \/ ~said')
    BY FramesPush
  <2> DEFINE a == Follow(at, cursor)
             r == Stamped(Project(canvas, a))
             c == InView(a, cursor)
             d == Diffed(r, Forgotten, IF full THEN Clear(Cols) ELSE row, full)
  <2>2. Same(r, prev) /\ ~full => ~d.painted
    BY <2>1, PushSays
  <2>3. at' = a /\ scene' = scene /\ said' = (d.painted \/ (Moved(c) /\ c # Hidden))
    BY <2>1 DEF Push
  <2>4. Picture' = r
    BY <2>3 DEF Picture, scene, Stamped, Project, Client
  <2>5. prev = r
    BY <2>4 DEF SInv, Believed
  <2>6. ~Moved(c)
    BY <2>3 DEF Moved
  <2> QED BY <2>2, <2>3, <2>5, <2>6 DEF Same
<1> QED BY <1>1, Inductive, PTL DEF Spec, NothingForNothing
=============================================================================
