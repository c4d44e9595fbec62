------------------------------- MODULE Layout -------------------------------
(***************************************************************************)
(* The tabs and their trees of panes: src/src/app_layout.c, with what      *)
(* src/src/app.c does to them on a drag.                                   *)
(*                                                                         *)
(* A tab is a tree of splits over panes, one of which has the keyboard.    *)
(* Panes are put away, lifted out, zoomed, moved between tabs, and go away *)
(* by themselves when their program ends, in tabs nobody is looking at     *)
(* too.  `cur' is a place in the strip, `zoom' and a drag name panes by id *)
(* and may outlive them, `focus' is a pointer.  Every verb ends in         *)
(* layout(), which mends what it can of the tab on screen only.            *)
(*                                                                         *)
(* Sizes are left out: that a split, a turn or a float may be refused for  *)
(* want of room is a choice here.                                          *)
(***************************************************************************)
EXTENDS Integers, Sequences, FiniteSets, SequencesExt

CONSTANTS
  Pane,      \* ids of leaves.  An id is free again when nothing names it
  Split,     \* split nodes the allocator can return
  Tab,       \* ids of tabs
  Nil,       \* no node, no zoom: NULL, 0
  NoDrag,    \* DRAG_NONE
  NewTab,    \* the strip's `+', as somewhere to drop a pane
  Straying   \* what may happen that the code is not ready for: a re-run or a
             \* drop in a tab that is not on screen, a key over the strip

Node == Pane \cup Split

ASSUME LayoutAssumption ==
  /\ Pane \cap Split = {} /\ Node \cap Tab = {}
  /\ Nil \notin Node \cup Tab
  /\ NewTab \notin Tab /\ Nil # NewTab
  /\ IsFiniteSet(Pane) /\ IsFiniteSet(Split)
  /\ Cardinality(Split) + 1 >= Cardinality(Pane)
  /\ Straying \subseteq {"drag", "rerun", "key"}

Dirs == {"cols", "rows"}

VARIABLES
  app,   \* app_t, as far as the trees go
  drag,  \* a->drag: NoDrag, or the pane held
  strip  \* drag.tab_target and new_tab_target, left over from an earlier drag

vars == <<app, drag, strip>>

(***************************************************************************)
(* tabs[cur] is the tab on screen.  `live' are the allocated nodes; `mini' *)
(* the minimised panes; `floats' the floating ones, in order of `raised'.  *)
(***************************************************************************)
Apps ==
  [tabs: Seq(Tab), cur: Nat, root: [Tab -> Node \cup {Nil}],
   focus: [Tab -> Pane \cup {Nil}], zoom: [Tab -> Pane \cup {Nil}],
   live: SUBSET Node, parent: [Node -> Split \cup {Nil}],
   kids: [Split -> Seq(Node)], dir: [Split -> Dirs],
   mini: SUBSET Pane, floats: Seq(Pane), quit: BOOLEAN]

\* A title or a border is held.  What a motion pointed at (drag.target,
\* tab_target) is chosen when the release looks at it.
Drags == [kind: {"title", "border"}, src: Pane, moved: BOOLEAN]

(***************************************************************************)
(* The types.                                                              *)
(***************************************************************************)
TypeOK ==
  app \in Apps /\ drag \in Drags \cup {NoDrag} /\ strip \in Tab \cup {Nil, NewTab}

-----------------------------------------------------------------------------
(* Asking the tree. *)

Tabs(a) == ToSet(a.tabs)
Cur(a) == a.tabs[a.cur]
IndexOf(s, e) == CHOOSE i \in DOMAIN s : s[i] = e

\* What is left of a sequence, and of it without one of its members.  (The
\* prover knows nothing of SelectSeq, nor so of SequencesExt's Remove.)
Kept(s, S) ==
  LET kept[i \in 0..Len(s)] ==
        IF i = 0 THEN <<>>
        ELSE IF s[i] \in S THEN Append(kept[i - 1], s[i]) ELSE kept[i - 1]
  IN kept[Len(s)]

Without(s, e) == IF Contains(s, e) THEN RemoveAt(s, IndexOf(s, e)) ELSE s

Floating(a) == ToSet(a.floats)
Tiled(a, p) == p \notin a.mini /\ ~Contains(a.floats, p)

\* The nodes under a node, itself included.
NodesOf(a) ==
  LET under[n \in Node] ==
        {n} \cup IF n \in Pane THEN {}
                 ELSE UNION {under[k] : k \in ToSet(a.kids[n])}
  IN under
Leaves(a, t) == IF a.root[t] = Nil THEN {} ELSE NodesOf(a)[a.root[t]] \cap Pane

\* The leaves of a tab as walk() meets them.
LeafSeq(a, t) ==
  LET under[n \in Node] ==
        IF n \in Pane THEN <<n>>
        ELSE FlattenSeq([i \in DOMAIN a.kids[n] |-> under[a.kids[n][i]]])
  IN IF a.root[t] = Nil THEN <<>> ELSE under[a.root[t]]

FirstLeaf(a, n) ==
  LET first[m \in a.live] == IF m \in Pane THEN m ELSE first[Head(a.kids[m])]
  IN first[n]

\* tab_of: up to the top, and the tab whose root that is, or Nil.
TabOf(a, n) ==
  LET top[m \in Node] == IF a.parent[m] = Nil THEN m ELSE top[a.parent[m]]
      root == top[n]
      holds == {t \in Tabs(a) : a.root[t] = root}
  IN IF holds = {} THEN Nil ELSE CHOOSE t \in holds : TRUE

\* pane_by_id: a walk over every tab.
Exists(a, p) == \E t \in Tabs(a) : p \in Leaves(a, t)

-----------------------------------------------------------------------------
(* layout(): what a pass over the tab on screen mends. *)

\* ensure_tiled: with nothing tiled left, the top float lands.
Landed(a) ==
  LET here == Leaves(a, Cur(a))
      ups  == {i \in DOMAIN a.floats : a.floats[i] \in here \ a.mini}
  IN IF ups = {} \/ \E p \in here : Tiled(a, p) THEN a
     ELSE [a EXCEPT !.floats = RemoveAt(@, Max(ups))]

\* Focusing a minimised pane restores it.
Restored(a) == [a EXCEPT !.mini = @ \ {a.focus[Cur(a)]}]

\* Focusing a float raises it.
Raised(a) ==
  LET f == a.focus[Cur(a)]
  IN IF f \in Floating(a) THEN [a EXCEPT !.floats = Append(Without(@, f), f)]
     ELSE a

\* A zoom cannot outlive its pane, nor its pane's being here.
Unzoomed(a) ==
  LET t == Cur(a) z == a.zoom[t]
  IN IF z # Nil /\ ~(Exists(a, z) /\ TabOf(a, z) = t)
     THEN [a EXCEPT !.zoom[t] = Nil] ELSE a

Laid(a) ==
  IF a.tabs = <<>> THEN a ELSE Unzoomed(Raised(Restored(Landed(a))))

\* layout_tab: borrow the cursor for one pass.
LaidTab(a, t) ==
  IF t = Cur(a) THEN Laid(a)
  ELSE Laid([Laid([a EXCEPT !.cur = IndexOf(a.tabs, t)]) EXCEPT !.cur = a.cur])

-----------------------------------------------------------------------------
(* Cutting and joining. *)

Freed(a, nodes) ==
  [a EXCEPT !.live = @ \ nodes, !.mini = @ \ nodes,
            !.floats = Kept(@, Pane \ nodes),
            !.parent = [n \in Node |-> IF n \in nodes THEN Nil ELSE @[n]],
            !.dir = [s \in Split |-> IF s \in nodes THEN "cols" ELSE @[s]],
            !.kids = [s \in Split |-> IF s \in nodes THEN <<>> ELSE @[s]]]

Allocated(a) == CHOOSE s \in Split : s \notin a.live

\* replace_child, or t->root where there is no parent.
Replaced(a, t, old, new) ==
  LET p == a.parent[old]
  IN [a EXCEPT !.parent[new] = p,
               !.root[t] = IF p = Nil THEN new ELSE @,
               !.kids = [s \in Split |-> IF s = p THEN ReplaceAll(@[s], old, new)
                                         ELSE @[s]]]

\* Mutant: the split's place is not handed to the survivor's parent.
UnhookedKeepingSplit(a, t, leaf) ==
  LET p    == a.parent[leaf]
      cut  == [a EXCEPT !.kids[p] = Without(@, leaf), !.parent[leaf] = Nil]
      kept == Head(cut.kids[p])
  IN [cut EXCEPT !.focus[t] = IF @ = leaf THEN FirstLeaf(cut, kept) ELSE @]

\* Mutant: the survivor goes to the end of the row it is hooked into.
UnhookedToEnd(a, t, leaf) ==
  LET p    == a.parent[leaf]
      up   == a.parent[p]
      cut  == [a EXCEPT !.kids[p] = Without(@, leaf), !.parent[leaf] = Nil]
      kept == Head(cut.kids[p])
      hook == IF up = Nil THEN Replaced(cut, t, p, kept)
              ELSE [cut EXCEPT !.kids[up] = Append(Without(@, p), kept),
                               !.parent[kept] = up]
      one  == IF Len(cut.kids[p]) = 1 THEN Freed(hook, {p}) ELSE cut
  IN [one EXCEPT !.focus[t] = IF @ = leaf THEN FirstLeaf(one, kept) ELSE @]

(***************************************************************************)
(* A leaf out of a split: what close_leaf and detach_leaf share.  A split  *)
(* with one child left is that child; the focus goes to the first leaf of  *)
(* the first child.                                                        *)
(***************************************************************************)
Unhooked(a, t, leaf) ==
  LET p    == a.parent[leaf]
      cut  == [a EXCEPT !.kids[p] = Without(@, leaf), !.parent[leaf] = Nil]
      kept == Head(cut.kids[p])
      one  == IF Len(cut.kids[p]) = 1
              THEN Freed(Replaced(cut, t, p, kept), {p}) ELSE cut
  IN [one EXCEPT !.focus[t] = IF @ = leaf THEN FirstLeaf(one, kept) ELSE @]

\* tab_remove.  The cursor is a place in the strip, and is only clamped.
TabRemoved(a, t) ==
  LET nodes == IF a.root[t] = Nil THEN {} ELSE NodesOf(a)[a.root[t]]
      left  == Without(a.tabs, t)
  IN [Freed(a, nodes) EXCEPT
        !.tabs = left, !.root[t] = Nil, !.focus[t] = Nil, !.zoom[t] = Nil,
        !.cur = IF left # <<>> /\ @ > Len(left) THEN Len(left) ELSE @,
        !.quit = @ \/ left = <<>>]

CloseLeaf(a, leaf) ==
  LET t == TabOf(a, leaf)
  IN IF a.parent[leaf] = Nil THEN TabRemoved(a, t)
     ELSE Laid(Freed(Unhooked(a, t, leaf), {leaf}))

\* detach_leaf: nothing about the pane still says where it used to be.
Detached(a, leaf) ==
  LET t    == TabOf(a, leaf)
      here == [a EXCEPT !.zoom[t] = IF @ = leaf THEN Nil ELSE @,
                        !.mini = @ \ {leaf}, !.floats = Without(@, leaf)]
  IN IF a.parent[leaf] # Nil THEN Unhooked(here, t, leaf)
     ELSE TabRemoved([here EXCEPT !.root[t] = Nil], t)

\* place_beside: a join along the same axis keeps the tree flat.
Placed(a, t, leaf, node, d, before) ==
  LET p    == a.parent[leaf]
      s    == Allocated(a)
      shown == [a EXCEPT !.zoom[t] = Nil]
      at   == IndexOf(a.kids[p], leaf)
  IN IF p # Nil /\ a.dir[p] = d
     THEN [shown EXCEPT !.parent[node] = p,
             !.kids[p] = InsertAt(@, IF before THEN at ELSE at + 1, node)]
     ELSE [Replaced(shown, t, leaf, s) EXCEPT
             !.live = @ \cup {s}, !.dir[s] = d,
             !.kids[s] = IF before THEN <<node, leaf>> ELSE <<leaf, node>>,
             !.parent[leaf] = s, !.parent[node] = s]

-----------------------------------------------------------------------------
(* The verbs: the next app. *)

Focused(a, t, p) == [a EXCEPT !.cur = IndexOf(a.tabs, t), !.focus[t] = p]

\* split_node_with, into the tab on screen whatever tab the leaf is in.
SplitAt(a, leaf, new, d, before) ==
  LET t == Cur(a)
      born == [a EXCEPT !.live = @ \cup {new}]
  IN Laid([Placed(born, t, leaf, new, d, before) EXCEPT !.focus[t] = new])

\* app_new_float: a seat beside the focused pane, and lifted from the start.
FloatedNew(a, new, d) ==
  LET t == Cur(a)
      born == [a EXCEPT !.live = @ \cup {new}]
  IN Laid([Placed(born, t, a.focus[t], new, d, FALSE) EXCEPT
             !.floats = Append(@, new), !.focus[t] = new])

Opened(a, new, t) ==
  [a EXCEPT !.tabs = Append(@, t), !.root[t] = new, !.focus[t] = new]

TabAdded(a, new, t) ==
  LET open == Opened([a EXCEPT !.live = @ \cup {new}], new, t)
  IN Laid([open EXCEPT !.cur = Len(open.tabs)])

\* move_tab: the cursor is a position, and has to be recomputed.
TabMoved(a, from, to) ==
  [a EXCEPT !.tabs = InsertAt(RemoveAt(@, from), to, a.tabs[from]),
            !.cur = IF @ = from THEN to
                    ELSE IF @ > from /\ @ <= to THEN @ - 1
                    ELSE IF @ >= to /\ @ < from THEN @ + 1 ELSE @]

\* The nodes a tab would still show were p put away or lifted.
Backdrop(a, t, p) == {q \in Leaves(a, t) \ {p} : Tiled(a, q)}

\* app_minimize.  The focus goes to the first pane still tiled.
PutAway(a, p) ==
  LET t == TabOf(a, p)
      row  == LeafSeq(a, t)
      next == row[Min({i \in DOMAIN row : row[i] \in Backdrop(a, t, p)})]
  IN Laid([a EXCEPT !.mini = @ \cup {p}, !.cur = IndexOf(a.tabs, t),
                    !.zoom[t] = IF @ = p THEN Nil ELSE @,
                    !.focus[t] = IF @ = p THEN next ELSE @])

ZoomToggled(a, p) ==
  LET t == TabOf(a, p)
  IN Laid([Focused(a, t, p) EXCEPT !.zoom[t] = IF @ = p THEN Nil ELSE p])

FloatToggled(a, p) ==
  LET t == TabOf(a, p)
      lift == IF p \in Floating(a) THEN [a EXCEPT !.floats = Without(@, p)]
              ELSE [a EXCEPT !.mini = @ \ {p}, !.floats = Append(@, p)]
  IN Laid(Focused(lift, t, p))

\* Mutant: the view is left where the removal's clamp put it.
SeenAs(a, b) == b

\* Stay where we were looking, unless that tab is the one that went.
SeenFrom(a, b) ==
  IF Cur(a) \in Tabs(b) THEN [b EXCEPT !.cur = IndexOf(b.tabs, Cur(a))] ELSE b

\* app_move_pane_beside.
MovedBeside(a, leaf, dest, want, d, take) ==
  LET off    == Detached(a, leaf)
      had    == off.focus[dest]
      beside == IF want # Nil THEN want
                ELSE IF had # Nil THEN had ELSE FirstLeaf(off, off.root[dest])
      on     == [Placed(off, dest, beside, leaf, d, FALSE) EXCEPT
                   !.focus[dest] = IF take \/ had = Nil THEN leaf ELSE had]
  IN Laid(SeenFrom(a, LaidTab(on, dest)))

MovedToNew(a, leaf, t) ==
  Laid(SeenFrom(a, Opened(Detached(a, leaf), leaf, t)))

\* insert_pane_beside.
Inserted(a, src, dst, d, before) ==
  LET t == TabOf(a, src)
  IN Laid([Placed(Detached(a, src), t, dst, src, d, before) EXCEPT
             !.focus[t] = src])

\* swap_panes.  Nobody's focus is looked at.
Swapped(a, x, y) ==
  LET At(n) == IF n = x THEN y ELSE IF n = y THEN x ELSE n
  IN Laid([a EXCEPT !.kids = [s \in Split |-> [i \in DOMAIN @[s] |-> At(@[s][i])]],
                    !.parent[x] = a.parent[y], !.parent[y] = a.parent[x]])

\* rotate_node: a quarter turn.  Rows read backwards become columns.
Turned(a, t) ==
  LET here == NodesOf(a)[a.root[t]]
      Rows(s) == s \in here /\ a.dir[s] = "rows"
  IN [a EXCEPT !.kids = [s \in Split |-> IF Rows(s) THEN Reverse(@[s]) ELSE @[s]],
               !.dir = [s \in Split |-> IF s \notin here THEN @[s]
                                        ELSE IF Rows(s) THEN "cols" ELSE "rows"]]

\* A turn that would flatten the tab is put back by three more.
TurnedBack(a, t) == Turned(Turned(Turned(a, t), t), t)

-----------------------------------------------------------------------------
Init ==
  \E p \in Pane, t \in Tab :
    /\ app = [tabs |-> <<t>>, cur |-> 1, live |-> {p}, quit |-> FALSE,
              root |-> [u \in Tab |-> IF u = t THEN p ELSE Nil],
              focus |-> [u \in Tab |-> IF u = t THEN p ELSE Nil],
              zoom |-> [u \in Tab |-> Nil], parent |-> [n \in Node |-> Nil],
              kids |-> [s \in Split |-> <<>>],
              dir |-> [s \in Split |-> "cols"], mini |-> {}, floats |-> <<>>]
    /\ drag = NoDrag /\ strip = Nil

Here == Leaves(app, Cur(app))
Focus == app.focus[Cur(app)]
LivePanes(a) == a.live \cap Pane

\* What a drag still names.
Held == IF drag = NoDrag THEN {} ELSE {drag.src}

\* An id nothing in the program knows: next_id only grows.
Fresh == {p \in Pane \ (app.live \cup Held) :
            \A t \in Tab : app.zoom[t] # p}
FreshTab == Tab \ (Tabs(app) \cup {strip})

\* Where a pane can be moved to: not the tab it is already in.
Elsewhere(p) == Tabs(app) \ {TabOf(app, p)}

\* A verb a script can give.  By a key it comes after EndDrag.
Verb(next) == app' = next /\ UNCHANGED <<drag, strip>>

\* A verb only a key gives: any keystroke ends a drag.
Key(next) == app' = next /\ drag' = NoDrag /\ UNCHANGED strip

-----------------------------------------------------------------------------
(* New panes and tabs. *)

SplitFocus(new, d) ==
  /\ Focus \notin Floating(app)
  /\ Verb(SplitAt(app, Focus, new, d, FALSE))

\* app_split_pane: the view has moved by the time a float refuses.
SplitPane(p, new, d) ==
  LET f == Laid(Focused(app, TabOf(app, p), p))
  IN Verb(IF p \in Floating(f) THEN f ELSE SplitAt(f, p, new, d, FALSE))

NewFloat(new, d) == Verb(FloatedNew(app, new, d))

AddTab(new, t) == Verb(TabAdded(app, new, t))

-----------------------------------------------------------------------------
(* Where one is looking. *)

SelectTab(i) == Verb(Laid([app EXCEPT !.cur = i]))

FocusPane(p) == Verb(Laid(Focused(app, TabOf(app, p), p)))

\* focus_dir, focus_next: no layout, and no question asked of the zoom.
FocusTo(p) == p \in Here /\ Key([app EXCEPT !.focus[Cur(app)] = p])

\* app_rerun_pane gives the focus, and does not look where the pane lives.
Rerun(p) ==
  /\ p \in Here \/ "rerun" \in Straying
  /\ Verb([app EXCEPT !.focus[Cur(app)] = p])

-----------------------------------------------------------------------------
(* Rearranging. *)

MoveTab(from, to) == from # to /\ Verb(TabMoved(app, from, to))

Minimize(p) ==
  /\ p \notin app.mini /\ Backdrop(app, TabOf(app, p), p) # {}
  /\ Verb(PutAway(app, p))

ToggleZoom(p) == Verb(ZoomToggled(app, p))

ToggleFloat(p) ==
  /\ p \in Floating(app) \/ Backdrop(app, TabOf(app, p), p) # {}
  /\ Verb(FloatToggled(app, p))

\* app_move_pane_beside: want is a pane of the destination.  A caller who
\* names none gets the one with the focus, which is one of them.
MovePane(p, t, want, d, take) == Verb(MovedBeside(app, p, t, want, d, take))

\* A pane alone in its tab is already in a tab of its own.
MovePaneToNewTab(p, t) ==
  app.parent[p] # Nil /\ Verb(MovedToNew(app, p, t))

Turns == app.root[Cur(app)] \in Split

Rotate == Turns /\ Key(Laid(Turned(app, Cur(app))))

RotateRefused ==
  /\ Turns
  /\ Key(Laid(TurnedBack(Laid(Turned(app, Cur(app))), Cur(app))))

-----------------------------------------------------------------------------
(* What goes away, of itself or by a verb. *)

Close(p) == Verb(CloseLeaf(app, p))

CloseTab(t) == Verb(Laid(TabRemoved(app, t)))

-----------------------------------------------------------------------------
(* The mouse.  A drag owns it until the button comes up. *)

Press(kind, p) ==
  /\ drag = NoDrag /\ p \in Here \ Floating(app)
  /\ drag' = [kind |-> kind, src |-> p, moved |-> FALSE]
  /\ UNCHANGED strip

PressTitle(p) ==
  Press("title", p) /\ app' = Laid(Focused(app, Cur(app), p))

PressBorder(p) == Press("border", p) /\ UNCHANGED app

\* Over a pane what an earlier drag left of the strip is forgotten, over a gap
\* it is not.
MotionTitle ==
  /\ drag # NoDrag /\ drag.kind = "title"
  /\ drag' = [drag EXCEPT !.moved = TRUE]
  /\ strip' \in {Nil, strip}
  /\ UNCHANGED app

\* A border that has moved is a boundary: only sizes are left in it.
MotionBorder ==
  /\ drag # NoDrag /\ drag.kind = "border"
  /\ drag' = NoDrag /\ strip' \in {Nil, strip}
  /\ UNCHANGED app

Over(target) == drag.kind = "title" /\ (drag.moved \/ strip = target)

\* The button comes up, over what was picked up and where it was seen.
Drop(next) ==
  /\ drag.src \in app.live
  /\ drag.src \in Here \/ "drag" \in Straying
  /\ app' = next
  /\ drag' = NoDrag

\* A click on an edge splits toward it.  The rest of a->drag is not looked at.
ReleaseClick(new, d, before) ==
  /\ drag # NoDrag /\ ~drag.moved
  /\ drag.src \notin Floating(app)
  /\ Drop(SplitAt(app, drag.src, new, d, before))
  /\ UNCHANGED strip

ReleaseOnTab(t) ==
  /\ drag # NoDrag /\ Over(t)
  /\ t \in Elsewhere(drag.src)
  /\ Drop(MovedBeside(app, drag.src, t, Nil, "cols", TRUE))
  /\ strip' = Nil

ReleaseOnNewTab(t) ==
  /\ drag # NoDrag /\ Over(NewTab)
  /\ app.parent[drag.src] # Nil
  /\ Drop(MovedToNew(app, drag.src, t))
  /\ strip' = Nil

\* A drop zone is one of the frame on screen, whatever the last motion said.
ReleaseOnZone(dst, d, before) ==
  /\ drag # NoDrag /\ drag.moved /\ strip = Nil
  /\ dst \in Here \ (Floating(app) \cup {drag.src})
  /\ TabOf(app, drag.src) = TabOf(app, dst)
  /\ Drop(Inserted(app, drag.src, dst, d, before))
  /\ UNCHANGED strip

\* The pane pointed at may have been lifted, or gone to another tab, since.
ReleaseOnPane(dst) ==
  /\ drag # NoDrag /\ drag.moved /\ dst # drag.src /\ strip = Nil
  /\ dst \in Here \/ "drag" \in Straying
  /\ app.parent[drag.src] # Nil /\ app.parent[dst] # Nil
  /\ Drop(Swapped(app, drag.src, dst))
  /\ UNCHANGED strip

\* A key ends a drag, and does not forget the tab it was over.
LeftOver ==
  IF /\ "key" \in Straying /\ drag # NoDrag
     /\ drag.kind = "title" /\ drag.moved
  THEN Tabs(app) \cup {NewTab} ELSE {}

\* Released with nothing to do or nowhere to do it; a key; the client went.
EndDrag ==
  /\ drag # NoDrag \/ strip # Nil
  /\ drag' = NoDrag
  /\ strip' \in {Nil, strip} \cup LeftOver
  /\ UNCHANGED app

-----------------------------------------------------------------------------
\* app_compose ends in a layout of the tab it is about to draw.
Compose == app' = Laid(app) /\ UNCHANGED <<drag, strip>>

Live == LivePanes(app)

Births ==
  \/ \E new \in Fresh, d \in Dirs :
       \/ SplitFocus(new, d) \/ NewFloat(new, d)
       \/ \E p \in Live : SplitPane(p, new, d)
       \/ \E before \in BOOLEAN : ReleaseClick(new, d, before)
  \/ \E t \in FreshTab :
       \/ \E p \in Fresh : AddTab(p, t)
       \/ \E p \in Live : MovePaneToNewTab(p, t)
       \/ ReleaseOnNewTab(t)

OnPane(p) ==
  \/ FocusPane(p) \/ FocusTo(p) \/ Rerun(p) \/ Close(p)
  \/ Minimize(p) \/ ToggleZoom(p) \/ ToggleFloat(p)
  \/ PressTitle(p) \/ PressBorder(p)
  \/ ReleaseOnPane(p)
  \/ \E d \in Dirs, before \in BOOLEAN : ReleaseOnZone(p, d, before)
  \/ \E t \in Elsewhere(p) :
       \E want \in Leaves(app, t), d \in Dirs, take \in BOOLEAN :
         MovePane(p, t, want, d, take)

\* After quit nothing here matters: the program is saying goodbye.
Next ==
  /\ ~app.quit
  /\ \/ Births
     \/ \E p \in Live : OnPane(p)
     \/ \E i \in DOMAIN app.tabs :
          SelectTab(i) \/ \E j \in DOMAIN app.tabs : MoveTab(i, j)
     \/ \E t \in Tabs(app) : CloseTab(t) \/ ReleaseOnTab(t)
     \/ MotionTitle \/ MotionBorder \/ EndDrag
     \/ Rotate \/ RotateRefused \/ Compose

Spec == Init /\ [][Next]_vars

-----------------------------------------------------------------------------
(***************************************************************************)
(* Every tab's focus is a leaf of that tab's own tree: what focus_check    *)
(* aborts on (src/src/app.c), in tabs nobody is looking at too.            *)
(***************************************************************************)
FocusHome ==
  \A t \in Tab :
    IF t \in Tabs(app) THEN app.focus[t] \in Leaves(app, t)
    ELSE app.focus[t] = Nil

(***************************************************************************)
(* A zoom is its tab's opinion about one of its own panes: it may outlive  *)
(* the pane until somebody looks, but never names another tab's.           *)
(***************************************************************************)
ZoomHome ==
  \A t \in Tabs(app) :
    app.zoom[t] \in LivePanes(app) => app.zoom[t] \in Leaves(app, t)

(***************************************************************************)
(* Whenever a frame is drawn, the keyboard is in a pane of the tab it      *)
(* shows that is not put away, and a zoom, if there is one, fills it with  *)
(* a pane that is alive and lives there (app_compose ends in layout()).    *)
(***************************************************************************)
FrameShows ==
  ~app.quit =>
    LET f == Laid(app)  t == Cur(f)
    IN /\ f.focus[t] \in Leaves(f, t) \ f.mini
       /\ f.zoom[t] \in Leaves(f, t) \cup {Nil}

(***************************************************************************)
(* The trees hang together whatever is done to them, and a split is worth  *)
(* its node: parents and children name each other, every allocated node is *)
(* in exactly one tab, a split has two children or more, focus and zoom    *)
(* are at home in it, and a program with no tabs left is leaving.          *)
(* (close_leaf and place_beside act on it.)                                *)
(***************************************************************************)
TreeSound ==
  /\ IsInjective(app.tabs)
  /\ IF app.tabs = <<>> THEN app.quit ELSE app.cur \in DOMAIN app.tabs
  /\ \A t \in Tab : t \in Tabs(app) <=> app.root[t] # Nil
  /\ \A t \in Tabs(app) : app.parent[app.root[t]] = Nil
  /\ \A s \in Split \cap app.live :
       /\ Len(app.kids[s]) >= 2 /\ IsInjective(app.kids[s])
       /\ \A k \in ToSet(app.kids[s]) : app.parent[k] = s
  /\ app.live = UNION {NodesOf(app)[app.root[t]] : t \in Tabs(app)}
  /\ \A t, u \in Tabs(app) : t # u => Leaves(app, t) \cap Leaves(app, u) = {}
  /\ FocusHome /\ ZoomHome /\ FrameShows

\* The step cuts or joins.
Reshapes == <<app'.root, app'.kids>> # <<app.root, app.kids>>

LeavesChange(t) == Leaves(app', t) # Leaves(app, t)

\* The same panes and tabs, elsewhere.
Rearranges ==
  /\ LivePanes(app') = LivePanes(app)
  /\ \/ app'.tabs # app.tabs
     \/ Reshapes /\ \E t \in Tab : LeavesChange(t)

(***************************************************************************)
(* Moving panes between tabs, and tabs along the strip, does not move the  *)
(* view, unless the tab one was looking at is the one that went.           *)
(***************************************************************************)
ViewStays ==
  [][Cur(app) \in Tabs(app') /\ Cur(app') # Cur(app) => ~Rearranges]_vars

(***************************************************************************)
(* A pane that comes into a tab or leaves it leaves the others in the      *)
(* order they were in, however many splits that made or unmade.            *)
(***************************************************************************)
OrderKept ==
  [][Reshapes =>
       \A t \in Tab : LeavesChange(t) =>
         LET both == Leaves(app, t) \cap Leaves(app', t)
             In(p) == p \in both
         IN SelectSeq(LeafSeq(app, t), In) = SelectSeq(LeafSeq(app', t), In)
    ]_vars

(***************************************************************************)
(* A press that never moved is a click, and a click puts no pane anywhere  *)
(* else: at most it splits (do_action: `a click that never moved does      *)
(* nothing there').                                                        *)
(***************************************************************************)
ClickMovesNothing ==
  [][drag # NoDrag /\ ~drag.moved /\ drag' = NoDrag => ~Rearranges]_vars

=============================================================================
