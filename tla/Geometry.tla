------------------------------ MODULE Geometry ------------------------------
(***************************************************************************)
(* Where everything goes: the division of a tab into rectangles, from the  *)
(* first half of src/src/app_layout.c.  The whole of it is a function of   *)
(* the tree, the terminal and the settings, recomputed for every frame, so *)
(* it is stated as one.                                                    *)
(*                                                                         *)
(* A node is a pane, [pane, weight], or a split, [dir, weight, kids].  A   *)
(* view `v' is what the arrangement looks at: the settings `set', the      *)
(* terminal's `size', and `pane', which says of every pane whether it is   *)
(* minimised (`mini'), floating (`up') and where it wants to float         *)
(* (`want').                                                               *)
(***************************************************************************)
EXTENDS Integers, Sequences, FiniteSets, SequencesExt, TLC

CONSTANTS
  MinCols, MinRows,  \* min_pane: below this the tab becomes a list
  Aspect,            \* gap_aspect: columns to a row
  Centre             \* FLOAT_CENTRE: an axis nobody has given

Rect(x, y, w, h) == [x |-> x, y |-> y, w |-> w, h |-> h]
Unplaced == Rect(0, 0, 0, 0)
Least(a, b) == IF a < b THEN a ELSE b
Most(a, b) == IF a > b THEN a ELSE b
IsLeaf(n) == "pane" \in DOMAIN n
The(S) == CHOOSE x \in S : TRUE
Along(dir, cols, rows) == IF dir = "cols" THEN cols ELSE rows

\* collect_leaves: the panes under a node, in tree order.
RECURSIVE LeavesOf(_)
LeavesOf(n) == IF IsLeaf(n) THEN <<n.pane>>
               ELSE FlattenSeq([i \in DOMAIN n.kids |-> LeavesOf(n.kids[i])])

\* Neither minimised nor floating: a pane that wants space of the tree.
Tiled(v, p) == ~v.pane[p].mini /\ ~v.pane[p].up
LiveUnder(v, n) == \E i \in DOMAIN LeavesOf(n) : Tiled(v, LeavesOf(n)[i])

EffGap(v, dir) == IF v.set.compact THEN 1 ELSE v.set.gap * Along(dir, Aspect, 1)

-----------------------------------------------------------------------------
(* The strip or the sidebar, and what is left of the screen. *)

TabBarMin == 8
TabBarFit == 14
TabBarMax == 60

\* The sidebar's width, or 0 when the panes can spare nothing legible.
BarCols(v) ==
  LET w     == Least(Most(v.set.width, TabBarMin), TabBarMax)
      spare == Least(Most(v.size.cols - MinCols - 4, 0), v.size.cols \div 3)
  IN IF spare < Least(w, TabBarFit) THEN 0 ELSE Least(w, spare)

\* A row for every tab, the frame, the `+' and the line under it.
BarMinRows(v, ntabs) ==
  (IF v.set.compact THEN 0 ELSE v.set.gap) + 2 + 1 + v.set.line + ntabs

BarSide(v, ntabs) ==
  IF \/ v.set.side = "top" \/ BarCols(v) = 0
     \/ v.size.rows < BarMinRows(v, ntabs) /\ ntabs * 8 <= v.size.cols
  THEN "top" ELSE v.set.side

\* tab_area.  STRIP_ROWS is 1: the strip is on.
AreaOf(v, ntabs) ==
  LET gx   == IF v.set.compact THEN 1 ELSE v.set.gap * Aspect
      gy   == IF v.set.compact THEN 1 ELSE v.set.gap
      side == BarSide(v, ntabs)
      bar  == IF side = "top" THEN 0 ELSE BarCols(v)
      top  == gy + (IF side = "top" THEN 1 ELSE 0)
      off  == top + gy + v.set.line
  IN Rect(gx + (IF side = "left" THEN bar ELSE 0), top,
          IF v.size.cols > 2 * gx + bar THEN v.size.cols - 2 * gx - bar ELSE v.size.cols,
          IF v.size.rows > off THEN v.size.rows - off ELSE 1)

-----------------------------------------------------------------------------
(* Dividing a length by weights. *)

Total(s) == FoldLeft(+, 0, s)

\* Cells taken back one at a time, in turn, never the last one of a child.
RECURSIVE Trimmed(_, _, _)
Trimmed(s, over, i) ==
  IF over = 0 THEN s
  ELSE IF s[i] > 1 THEN Trimmed([s EXCEPT ![i] = @ - 1], over - 1, (i % Len(s)) + 1)
  ELSE Trimmed(s, over, (i % Len(s)) + 1)

\* In proportion, at least a cell each.
Wanted(avail, weights) ==
  The({[i \in DOMAIN weights |-> Most((avail * weights[i]) \div all, 1)] :
       all \in {Most(Total(weights), 1)}})

\* What is over is given out, and what the least cells have taken too much is
\* taken back, from the first child on.
Settled(avail, want) ==
  The({IF used > avail THEN Trimmed(want, used - avail, 1)
       ELSE [i \in DOMAIN want |-> want[i] + (avail - used + Len(want) - i) \div Len(want)] :
       used \in {Total(want)}})

\* Mutant: what the rounding leaves over is nobody's.
SharesRounded(avail, weights) == Wanted(avail, weights)

\* layout_node's division of a length by weights.
Shares(avail, weights) == The({Settled(avail, want) : want \in {Wanted(avail, weights)}})

-----------------------------------------------------------------------------
(* The tree: layout_node.  `over' says some node could not give its         *)
(* children, or some pane both its sides, the least they need.              *)

Nothing == [over |-> FALSE, pane |-> <<>>, split |-> <<>>]
Both(a, b) == [over |-> a.over \/ b.over, pane |-> a.pane @@ b.pane, split |-> a.split @@ b.split]

\* The rectangles of consecutive children of these lengths.
Cut(dir, r, gap, sizes) ==
  [j \in DOMAIN sizes |->
    The({IF dir = "cols" THEN Rect(r.x + o, r.y, sizes[j], r.h) ELSE Rect(r.x, r.y + o, r.w, sizes[j]) :
         o \in {Total(SubSeq(sizes, 1, j - 1)) + gap * (j - 1)}})]

\* A node is over when its length does not buy the least of every child.
Short(dir, gap, k, total) ==
  k > 1 /\ (total < k * Along(dir, MinCols, MinRows) + gap * (k - 1) \/ total - gap * (k - 1) < k)

RECURSIVE Fill(_, _, _, _)
Fill(v, n, path, r) ==
  LET here == [Nothing EXCEPT !.split = path :> r]
      parts(alive, rects) ==
        FoldLeft(Both, here, [j \in DOMAIN alive |->
          Fill(v, n.kids[alive[j]], Append(path, alive[j]), rects[j])])
      given(alive, gap) ==
        IF Len(alive) = 1 THEN <<r>>
        ELSE Cut(n.dir, r, gap, Shares(Along(n.dir, r.w, r.h) - gap * (Len(alive) - 1),
                                       [j \in DOMAIN alive |-> n.kids[alive[j]].weight]))
      within(alive, gap) ==
        IF Short(n.dir, gap, Len(alive), Along(n.dir, r.w, r.h)) THEN [here EXCEPT !.over = TRUE]
        ELSE IF alive = <<>> THEN here ELSE parts(alive, given(alive, gap))
  IN IF IsLeaf(n)
     THEN IF ~Tiled(v, n.pane) THEN Nothing
          ELSE [over |-> r.w < MinCols \/ r.h < MinRows, pane |-> n.pane :> r, split |-> <<>>]
     ELSE The({within(alive, EffGap(v, n.dir)) :
               alive \in {SelectSeq([i \in DOMAIN n.kids |-> i], LAMBDA i : LiveUnder(v, n.kids[i]))}})

\* span_splits: above a list, every split covers the whole area.
RECURSIVE Spanned(_, _, _)
Spanned(n, path, r) ==
  IF IsLeaf(n) THEN <<>>
  ELSE FoldLeft(LAMBDA a, b : a @@ b, path :> r,
                [i \in DOMAIN n.kids |-> Spanned(n.kids[i], Append(path, i), r)])

\* layout_stack: a row for each pane in order, and the open one under them.
Stack(n, focus, r) ==
  LET all  == LeavesOf(n)
      rest == SelectSeq(all, LAMBDA p : p # focus)
      body == Rect(r.x, r.y + Len(rest), r.w, IF r.h > Len(rest) THEN r.h - Len(rest) ELSE 1)
  IN focus :> body @@ [p \in ToSet(rest) |->
       Rect(r.x, r.y + (CHOOSE i \in DOMAIN rest : rest[i] = p) - 1, r.w, 1)]

-----------------------------------------------------------------------------
(* The floats. *)

Within(lo, x, hi) == Least(Most(x, lo), hi)

\* float_clamp: what a wanted rect comes to in this area.
Clamped(want, r) ==
  LET none == want.w = 0 \/ want.h = 0
      w == Least(Most(IF none THEN (r.w * 2) \div 3 ELSE want.w, MinCols), r.w)
      h == Least(Most(IF none THEN (r.h * 2) \div 3 ELSE want.h, MinRows), r.h)
      w0 == IF none THEN (r.w * 2) \div 3 ELSE w
      h0 == IF none THEN (r.h * 2) \div 3 ELSE h
      x == IF none \/ want.x = Centre THEN r.x + (r.w - w0) \div 2 ELSE want.x
      y == IF none \/ want.y = Centre THEN r.y + (r.h - h0) \div 2 ELSE want.y
  IN Rect(Within(r.x, x, r.x + r.w - w), Within(r.y, y, r.y + r.h - h), w, h)

-----------------------------------------------------------------------------
(* A layout pass over one tab.  `how' is "tree", "list", "solo" or "zoom".  *)
(* A pane with no rect of its own is not in DOMAIN pane.                    *)

Arrangement(v, tab, r, all, how, tree) ==
  CASE how \in {"zoom", "solo"} ->
         [how |-> how, pane |-> (IF how = "zoom" THEN tab.zoom ELSE tab.focus) :> r,
          split |-> Spanned(tab.root, <<>>, r)]
    [] how = "list" ->
         [how |-> how, pane |-> Stack(tab.root, tab.focus, r), split |-> Spanned(tab.root, <<>>, r)]
    [] OTHER ->
         [how |-> how, split |-> tree.split,
          pane |-> [p \in {p \in all : v.pane[p].up /\ ~v.pane[p].mini} |->
                    Clamped(v.pane[p].want, r)] @@ tree.pane]

\* The bar of what is put away takes its rows of the tree.
BarRows(v, all) ==
  IF \A p \in all : ~v.pane[p].mini THEN 0 ELSE IF v.set.compact THEN 4 ELSE 3

ArrangedIn(v, tab, r, all, bar) ==
  LET fits == bar = 0 \/ r.h >= MinRows + 2 + bar
      trees == {Fill(v, tab.root, <<>>, IF fits THEN [r EXCEPT !.h = @ - bar] ELSE r)}
      how(tree) == CASE tab.zoom # 0 -> "zoom"
                     [] tab.zoom = 0 /\ fits /\ ~tree.over -> "tree"
                     [] OTHER -> IF r.h >= Cardinality(all) + 2 THEN "list" ELSE "solo"
  IN The({Arrangement(v, tab, r, all, how(tree), tree) : tree \in trees})

Arranged(v, tab, ntabs) ==
  LET all == ToSet(LeavesOf(tab.root))
  IN The({ArrangedIn(v, tab, r, all, BarRows(v, all)) : r \in {AreaOf(v, ntabs)}})
=============================================================================
