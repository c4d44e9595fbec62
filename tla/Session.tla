------------------------------ MODULE Session -------------------------------
(***************************************************************************)
(* A session written down and read back: src/src/app_session.c with        *)
(* src/src/project.c and the commands of src/src/cmd.c that reach them.    *)
(*                                                                         *)
(* A layout file is a document of tabs and panes.  It is applied over a    *)
(* running session, dumped out of one, kept in a project's directory and   *)
(* opened as that project's workspace; a restart is a dump, an exit and a  *)
(* start from the file.  What a document cannot say is lost on the way,    *)
(* and panes may fail to be made half way through.  The edits that change  *)
(* what there is to write (sizes, splits, floats) are those of             *)
(* src/src/app_layout.c, over the arrangement of module Geometry.          *)
(*                                                                         *)
(* A node of a document is [p, kids]: its properties by name, and the      *)
(* nodes in it.  A project's directory, its name and its slug are one      *)
(* value here; `Foreign' is a slug of no project in the roots.             *)
(***************************************************************************)
EXTENDS Geometry

CONSTANTS
  Ids,         \* pane ids; one is free again when no tree names it
  Projects,    \* what a scan of the roots finds
  Foreign,     \* a `project:' purpose from some other machine
  Home,        \* where the session was started
  Unparsable,  \* a file kdl_parse refuses
  None,        \* no pane, no file, no directory
  Unit, WeightMin, Step,   \* WEIGHT_UNIT, WEIGHT_MIN, WEIGHT_STEP
  SplitCols, SplitRows,    \* min_split
  Scenes       \* a sequence: how a run starts and what happens in it: see Init

VARIABLES
  app,    \* app_t: tabs, cur, pane; the terminal's size and the settings
  keep,   \* a->layout_keep_view
  disk,   \* the layout file of each project: its text, and whether save-workspace wrote it
  scene,  \* the scene played: its number
  left    \* steps left to it

vars == <<app, keep, disk, scene, left>>

IsProject(q) == q \in Projects \cup {Foreign}
Get(n, k, otherwise) == IF k \in DOMAIN n.p THEN n.p[k] ELSE otherwise
Is(n, k) == Get(n, k, "false") = "true"
Say(k, v, when) == IF when THEN k :> v ELSE <<>>

Used(a) == UNION {ToSet(LeavesOf(a.tabs[i].root)) : i \in DOMAIN a.tabs}
Cur(a) == a.tabs[a.cur]
FirstLeaf(n) == Head(LeavesOf(n))
TabOf(a, p) == CHOOSE i \in DOMAIN a.tabs : p \in ToSet(LeavesOf(a.tabs[i].root))
TopRaise(a) == Max({0} \cup {a.pane[p].raised : p \in {q \in Ids : a.pane[q] # None}})

\* What no tree names is freed.
Swept(a) == [a EXCEPT !.pane = [p \in Ids |-> IF p \in Used(a) THEN @[p] ELSE None]]

-----------------------------------------------------------------------------
(* Trees by path. *)

RECURSIVE PathsOf(_)
PathsOf(n) ==
  {<<>>} \cup IF IsLeaf(n) THEN {}
              ELSE UNION {{<<i>> \o q : q \in PathsOf(n.kids[i])} : i \in DOMAIN n.kids}

RECURSIVE NodeAt(_, _)
NodeAt(n, path) == IF path = <<>> THEN n ELSE NodeAt(n.kids[Head(path)], Tail(path))

RECURSIVE SetAt(_, _, _)
SetAt(n, path, new) ==
  IF path = <<>> THEN new
  ELSE [n EXCEPT !.kids[Head(path)] = SetAt(@, Tail(path), new)]

PathTo(root, p) ==
  CHOOSE q \in PathsOf(root) : IsLeaf(NodeAt(root, q)) /\ NodeAt(root, q).pane = p

-----------------------------------------------------------------------------
(* layout(), as far as it changes what is kept: the top float lands when    *)
(* nothing is tiled, the focused pane is restored, and raised if it floats. *)

\* ensure_tiled.
Grounded(a, all) ==
  LET ups == {p \in all : a.pane[p].up /\ ~a.pane[p].mini}
      top == The({p \in ups : \A q \in ups : a.pane[q].raised <= a.pane[p].raised})
  IN IF ups = {} \/ \E p \in all : Tiled(a, p) THEN a.pane
     ELSE [a.pane EXCEPT ![top].up = FALSE]

LaidAt(a, i) ==
  LET f == a.tabs[i].focus
      focused(pane) ==
        [pane EXCEPT ![f].mini = FALSE,
                     ![f].raised = IF pane[f].up /\ @ < TopRaise(a) THEN TopRaise(a) + 1 ELSE @]
  IN [a EXCEPT !.pane = focused(Grounded(a, ToSet(LeavesOf(a.tabs[i].root))))]

Laid(a) == IF a.tabs = <<>> THEN a ELSE LaidAt(a, a.cur)

\* tab_remove; with the last tab the session ends.
TabRemoved(a, i) ==
  LET rest == RemoveAt(a.tabs, i)
  IN [a EXCEPT !.tabs = rest, !.cur = IF @ > Len(rest) THEN Most(Len(rest), 1) ELSE @]

-----------------------------------------------------------------------------
(* Reading a document: build_pane.  `e' is what is being built with: the    *)
(* panes there are, how many more can be made, what was built last, and     *)
(* the pane that asked for the focus.                                       *)

Resolved(dir, base) == IF dir = "." THEN (IF base = None THEN Home ELSE base) ELSE dir

\* leaf_new_ex: an id, a terminal and a program, or nothing.
Spawned(e, rec) ==
  IF e.room = 0 THEN [e EXCEPT !.node = None]
  ELSE LET id == Min({p \in Ids : e.pane[p] = None})
       IN [e EXCEPT !.pane[id] = rec, !.room = @ - 1, !.node = [pane |-> id, weight |-> Unit]]

Weighed(n) == IF Get(n, "weight", Unit) < WeightMin THEN Unit ELSE Get(n, "weight", Unit)

Shell(cwd) ==
  [run |-> "", fg |-> "", asleep |-> FALSE, task |-> FALSE, purpose |-> "", locked |-> FALSE,
   up |-> FALSE, mini |-> FALSE, raised |-> 0, want |-> Unplaced, cwd |-> cwd, said |-> "",
   from |-> ""]

\* `from' is a note of where the pane comes from, `said' of what was declared.
LeafRec(e, n, cwd) ==
  LET sized == Get(n, "w", 0) > 0 /\ Get(n, "h", 0) > 0
      up    == Is(n, "floating")
  IN [Shell(cwd) EXCEPT
       !.run = Get(n, "command", ""), !.asleep = e.force \/ Is(n, "suspended"),
       !.purpose = Get(n, "purpose", ""), !.locked = "purpose" \in DOMAIN n.p,
       !.said = Get(n, "purpose", ""), !.from = e.from,
       !.up = up, !.raised = IF up THEN TopRaise(e) + 1 ELSE 0,
       !.want = IF up /\ sized
                THEN Rect(Get(n, "x", Centre), Get(n, "y", Centre), n.p.w, n.p.h)
                ELSE Unplaced]

Leafed(e, n, cwd) ==
  The({IF b.node = None THEN b
       ELSE [b EXCEPT !.node.weight = Weighed(n),
                      !.focus = IF Is(n, "focus") THEN b.node.pane ELSE @] :
       b \in {Spawned(e, LeafRec(e, n, cwd))}})

\* A child that cannot be made is left out; a split of one is that one.
RECURSIVE Built(_, _, _, _)
Built(e, n, cwd, base) ==
  LET dir == IF "cwd" \in DOMAIN n.p THEN Resolved(n.p.cwd, base) ELSE cwd
      more(acc, kid) ==
        The({[e |-> b, kids |-> IF b.node = None THEN acc.kids ELSE Append(acc.kids, b.node)] :
             b \in {Built(acc.e, kid, dir, base)}})
  IN IF n.kids = <<>> THEN Leafed(e, n, dir)
     ELSE The({[acc.e EXCEPT !.node =
                 CASE acc.kids = <<>>    -> None
                   [] Len(acc.kids) = 1  -> Head(acc.kids)
                   [] OTHER -> [dir |-> IF Get(n, "split", "cols") = "rows" THEN "rows" ELSE "cols",
                                weight |-> Weighed(n), kids |-> acc.kids]] :
               acc \in {FoldLeft(more, [e |-> e, kids |-> <<>>], n.kids)}})

\* tab_add, the tree, and its focus.  None when not even a shell can be made.
BuiltTab(e, t, base) ==
  LET b == Built([e EXCEPT !.focus = 0], t, IF base = None THEN Home ELSE base, base)
      s == The({IF x.node = None THEN Spawned(x, Shell(Home)) ELSE x : x \in {b}})
  IN The({[e |-> x,
           tab |-> IF x.node = None THEN None
                   ELSE [name |-> Get(t, "name", ""), purpose |-> Get(t, "purpose", ""),
                         locked |-> "purpose" \in DOMAIN t.p, root |-> x.node,
                         focus |-> IF x.focus # 0 THEN x.focus ELSE FirstLeaf(x.node),
                         zoom |-> 0, born |-> 0,
                         said |-> IF IsProject(Get(t, "purpose", "")) THEN ""
                                  ELSE Get(t, "purpose", "")]] : x \in {s}})

\* Mutant: the tab to land on is where it was recorded, before the move.
LandedUnshifted(marked, before, replace, made) == IF marked # 0 THEN marked ELSE 0

\* Where the tab marked active ends up once `replace' has dropped the old ones.
LandsOn(marked, before, replace, made) ==
  IF marked = 0 THEN 0 ELSE IF replace THEN marked - before ELSE marked

(***************************************************************************)
(* app_apply_layout.  `with' says what is asked: replace, base, force      *)
(* (suspended), keep (the view), room, from.  A tab that cannot be built   *)
(* ends it, and the tabs built before it stay.                             *)
(***************************************************************************)
Applied(a, doc, with) ==
  LET before == Len(a.tabs)
      start == [e |-> [pane |-> a.pane, room |-> with.room, force |-> with.force,
                       from |-> with.from, node |-> None, focus |-> 0],
                tabs |-> a.tabs, marked |-> 0, ok |-> TRUE]
      more(acc, t) ==
        IF ~acc.ok THEN acc
        ELSE The({IF b.tab = None THEN [acc EXCEPT !.ok = FALSE]
                  ELSE [acc EXCEPT !.e = b.e, !.tabs = Append(@, b.tab),
                                   !.marked = IF Is(t, "active") THEN Len(acc.tabs) + 1 ELSE @] :
                  b \in {BuiltTab(acc.e, t, with.base)}})
      done(acc) ==
        LET made == Len(acc.tabs) - before
            tabs == IF with.replace THEN SubSeq(acc.tabs, before + 1, Len(acc.tabs)) ELSE acc.tabs
            land == LandsOn(acc.marked, before, with.replace, made)
            b == [a EXCEPT !.tabs = tabs, !.pane = acc.e.pane,
                   !.cur = IF land \in DOMAIN tabs THEN land
                           ELSE IF ~with.keep THEN (IF with.replace THEN 1 ELSE before + 1)
                           ELSE Least(@, Len(tabs))]
        IN The({IF with.keep /\ ~with.replace
                THEN FoldLeft(LaidAt, c, [i \in 1..made |-> before + i]) ELSE c :
                c \in {Laid(Swept(x)) : x \in {b}}})
  IN The({IF ~acc.ok THEN [ok |-> FALSE, app |-> [a EXCEPT !.tabs = acc.tabs, !.pane = acc.e.pane]]
          ELSE IF Len(acc.tabs) = before THEN [ok |-> FALSE, app |-> a]
          ELSE [ok |-> TRUE, app |-> done(acc)] :
          acc \in {FoldLeft(more, start, doc)}})

Plain(replace, base, room) ==
  [replace |-> replace, base |-> base, force |-> FALSE, keep |-> FALSE, room |-> room, from |-> ""]

-----------------------------------------------------------------------------
(* Writing one: app_dump_layout. *)

Policies == {"as-is", "none", "commands", "all"}

\* What the pane was told to run, or else what its terminal runs now.
DumpCommand(r) == IF r.task THEN "" ELSE IF r.run # "" THEN r.run ELSE r.fg

\* Mutant: only what was declared counts as a command.
DumpAsleepDeclared(r, policy) ==
  CASE policy = "none" -> FALSE [] policy = "all" -> TRUE
    [] policy = "commands" -> r.run # "" [] OTHER -> r.asleep

DumpAsleep(r, policy) ==
  CASE policy = "none" -> FALSE [] policy = "all" -> TRUE
    [] policy = "commands" -> DumpCommand(r) # "" [] OTHER -> r.asleep

Relative(dir, base) == IF base # None /\ dir = base THEN "." ELSE dir

\* A float's rect is what was wanted, an axis still centred left out.
LeafProps(a, p, tab, base, policy) ==
  LET r == a.pane[p]
      sized == r.up /\ r.want.w > 0
  IN "cwd" :> Relative(r.cwd, base) @@ Say("command", DumpCommand(r), DumpCommand(r) # "")
     @@ Say("purpose", r.purpose, r.purpose # "") @@ Say("suspended", "true", DumpAsleep(r, policy))
     @@ Say("floating", "true", r.up)
     @@ Say("x", r.want.x, sized /\ r.want.x # Centre) @@ Say("y", r.want.y, sized /\ r.want.y # Centre)
     @@ Say("w", r.want.w, sized) @@ Say("h", r.want.h, sized)
     @@ Say("focus", "true", p = tab.focus)

RECURSIVE DumpNode(_, _, _, _, _)
DumpNode(a, n, tab, base, policy) ==
  LET weight == Say("weight", n.weight, n # tab.root)
  IN IF IsLeaf(n)
     THEN [p |-> weight @@ LeafProps(a, n.pane, tab, base, policy), kids |-> <<>>]
     ELSE [p |-> weight @@ "split" :> n.dir,
           kids |-> [i \in DOMAIN n.kids |-> DumpNode(a, n.kids[i], tab, base, policy)]]

\* A tab's properties are its root's; a project's file does not repeat its purpose.
DumpTab(a, i, base, policy, project, whole) ==
  LET t == a.tabs[i]
      root == DumpNode(a, t.root, t, base, policy)
  IN [p |-> Say("name", t.name, t.name # "")
            @@ Say("purpose", t.purpose, t.purpose # "" /\ ~(project /\ IsProject(t.purpose)))
            @@ Say("active", "true", whole /\ i = a.cur)
            @@ (IF IsLeaf(t.root) THEN <<>> ELSE root.p),
      kids |-> IF IsLeaf(t.root) THEN <<root>> ELSE root.kids]

Dump(a, policy) == [i \in DOMAIN a.tabs |-> DumpTab(a, i, None, policy, FALSE, TRUE)]
DumpProject(a, i, base, policy) == <<DumpTab(a, i, base, policy, TRUE, FALSE)>>

(***************************************************************************)
(* What layout_check says of a document: the lines it would print.         *)
(***************************************************************************)
LeafOnly == {"command", "suspended", "focus", "floating", "x", "y", "w", "h"}
PaneProps == LeafOnly \cup {"split", "weight", "cwd", "purpose"}
TabProps == {"name", "active"}
Yesno(n) == DOMAIN n.p \cap {"suspended", "focus", "floating", "active"}

RECURSIVE PropComplaints(_, _)
PropComplaints(n, isTab) ==
  {<<"unknown", k>> : k \in DOMAIN n.p \ (PaneProps \cup IF isTab THEN TabProps ELSE {})}
  \cup {<<"ignored with panes", k>> :
        k \in IF n.kids = <<>> THEN {}
              ELSE DOMAIN n.p \cap (LeafOnly \cup IF isTab THEN {} ELSE {"purpose"})}
  \cup {<<"nothing to split", k>> : k \in IF n.kids = <<>> THEN DOMAIN n.p \cap {"split"} ELSE {}}
  \cup {<<"not floating", k>> : k \in IF n.kids = <<>> /\ ~Is(n, "floating")
                                      THEN DOMAIN n.p \cap {"x", "y", "w", "h"} ELSE {}}
  \cup {<<"weight", k>> : k \in {j \in DOMAIN n.p : j = "weight" /\ n.p[j] < WeightMin}}
  \cup {<<"cols or rows", k>> : k \in {j \in DOMAIN n.p : j = "split" /\ n.p[j] \notin {"cols", "rows"}}}
  \cup {<<"yes or no", k>> : k \in {j \in Yesno(n) : n.p[j] \notin {"true", "false"}}}
  \cup UNION {PropComplaints(n.kids[i], FALSE) : i \in DOMAIN n.kids}

Complaints(doc) ==
  UNION {PropComplaints(doc[i], TRUE) : i \in DOMAIN doc}
  \cup IF doc = <<>> THEN {<<"no tabs", "">>} ELSE {}

-----------------------------------------------------------------------------
(* Workspaces. *)

\* Mutant: only the tab on screen is asked.
HeldInView(a, slug) == IF Cur(a).purpose = slug THEN a.cur ELSE 0

\* workspace_tab: the first tab of this workspace, or 0.
HeldAt(a, slug) ==
  LET all == {i \in DOMAIN a.tabs : a.tabs[i].purpose = slug}
  IN IF all = {} THEN 0 ELSE Min(all)

\* Mutant: every tab of the layout is made a member.
AdoptableAny(t) == TRUE

\* A purpose of its own, outside project:, keeps a tab out.
Adoptable(t) == t.purpose = "" \/ IsProject(t.purpose)

Member(t, slug) ==
  [t EXCEPT !.purpose = slug, !.locked = TRUE, !.name = IF @ = "" THEN slug ELSE @]

\* adopt_tabs: the tabs after `before'.  `born' tells one opening from another.
Adopted(a, before, slug, born) ==
  [a EXCEPT !.tabs = [i \in DOMAIN @ |->
     IF i > before /\ Adoptable(@[i]) THEN [Member(@[i], slug) EXCEPT !.born = born] ELSE @[i]]]

\* tab_project: the path asked for, the slug carried, or where the focus is.
ProjectOf(a, t, path) ==
  IF path # None THEN path
  ELSE IF t.purpose \in Projects THEN t.purpose
  ELSE IF a.pane[t.focus].cwd \in Projects THEN a.pane[t.focus].cwd ELSE None

\* app_workspace_close: found again after each, as indices move.
RECURSIVE ClosedAll(_, _)
ClosedAll(a, slug) ==
  LET i == IF a.tabs = <<>> THEN 0 ELSE HeldAt(a, slug)
  IN IF i = 0 THEN a ELSE ClosedAll(Laid(Swept(TabRemoved(a, i))), slug)

-----------------------------------------------------------------------------
(* Edits of the tree and of its sizes. *)


Now(a) == Arranged(a, Cur(a), Len(a.tabs))
Focus(a) == Cur(a).focus
WithRoot(a, root) == [a EXCEPT !.tabs[a.cur].root = root]
WithFocus(a, p) == [a EXCEPT !.tabs[a.cur].focus = p]

\* place_beside, in the tab on screen: in the split that already goes this
\* way, or in a new one that takes the pane's share.
Beside(a, p, new, dir) ==
  LET root == Cur(a).root
      path == PathTo(root, p)
      leaf == NodeAt(root, path)
      up   == NodeAt(root, Front(path))
      flat == path # <<>> /\ up.dir = dir
      even(n) == [n EXCEPT !.weight = Unit]
  IN [WithRoot(a, IF flat
                  THEN SetAt(root, Front(path), [up EXCEPT !.kids = InsertAt(@, Last(path) + 1, new)])
                  ELSE SetAt(root, path, [dir |-> dir, weight |-> leaf.weight,
                                          kids |-> <<even(leaf), even(new)>>]))
      EXCEPT !.tabs[a.cur].zoom = 0]

\* split_fits: room for every child there would be, and the other side clear.
SplitFits(a, at, p, dir) ==
  LET root == Cur(a).root
      path == PathTo(root, p)
      flat == path # <<>> /\ NodeAt(root, Front(path)).dir = dir
      k    == IF flat THEN Len(NodeAt(root, Front(path)).kids) + 1 ELSE 2
      over == IF flat THEN at.split[Front(path)] ELSE at.pane[p]
      least == Most(Along(dir, SplitCols, SplitRows), Along(dir, MinCols, MinRows))
  IN /\ ~a.pane[p].up
     /\ Along(dir, over.w, over.h) >= k * least + EffGap(a, dir) * (k - 1)
     /\ Along(dir, at.pane[p].h, at.pane[p].w) >= Along(dir, MinRows, MinCols)

\* split_node_with: a pane beside this one, where it stands, with the focus.
SplitWith(a, p, dir, rec) ==
  The({The({Laid(WithFocus(b, e.node.pane)) : b \in {Beside([a EXCEPT !.pane = e.pane], p, e.node, dir)}}) :
       e \in {Spawned([pane |-> a.pane, room |-> 1, node |-> None], rec)}})

\* close_leaf in the tab on screen: a split left with one child is that child.
PaneClosed(a, p) ==
  LET root == Cur(a).root
      path == PathTo(root, p)
      up   == NodeAt(root, Front(path))
      kids == RemoveAt(up.kids, Last(path))
      heir == FirstLeaf(Head(kids))
      root2 == SetAt(root, Front(path), IF Len(kids) = 1 THEN Head(kids) ELSE [up EXCEPT !.kids = kids])
  IN IF path = <<>> THEN Swept(TabRemoved(a, a.cur))
     ELSE Laid(Swept([a EXCEPT !.tabs[a.cur].root = root2,
                               !.tabs[a.cur].focus = IF @ = p THEN heir ELSE @,
                               !.tabs[a.cur].zoom = IF @ = p THEN 0 ELSE @]))

\* transfer_weight between two children of the split at `up': `from' stops at
\* the weight that buys the least it needs.
Transferred(a, rect, up, from, to, amount) ==
  LET root == Cur(a).root
      sp   == NodeAt(root, up)
      span == Along(sp.dir, rect.w, rect.h)
      gaps == EffGap(a, sp.dir) * (Len(sp.kids) - 1)
      need(avail, all) == (Along(sp.dir, MinCols, MinRows) * all + avail - 1) \div avail
      give == {Least(amount, sp.kids[from].weight - Most(WeightMin, n)) :
               n \in {need(IF span > gaps THEN span - gaps ELSE span,
                          Total([k \in DOMAIN sp.kids |-> sp.kids[k].weight]))}}
      moved(n) == IF n <= 0 THEN a
                  ELSE WithRoot(a, SetAt(root, up, [sp EXCEPT !.kids[from].weight = @ - n,
                                                              !.kids[to].weight = @ + n]))
  IN The({moved(n) : n \in give})

\* resize_focus: the nearest split that divides this way; `sign' is where the
\* boundary goes.
Nudged(a, at, dir, sign) ==
  LET root == Cur(a).root
      ups(path) == {SubSeq(path, 1, d) :
                    d \in {d \in 0..(Len(path) - 1) : NodeAt(root, SubSeq(path, 1, d)).dir = dir}}
      near(all) == The({u \in all : \A w \in all : Len(w) <= Len(u)})
      beside(up, i) == IF i < Len(NodeAt(root, up).kids) THEN i + 1 ELSE i - 1
      moved(up, i, j) ==
        IF (j > i) = (sign > 0) THEN Transferred(a, at.split[up], up, j, i, Step)
        ELSE Transferred(a, at.split[up], up, i, j, Step)
      about(path, up) == The({moved(up, i, beside(up, i)) : i \in {path[Len(up) + 1]}})
  IN The({IF ups(path) = {} THEN a ELSE The({about(path, up) : up \in {near(ups(path))}}) :
          path \in {PathTo(root, Focus(a))}})

\* drag_edge: the boundary after child i, by so many cells.
Dragged(a, at, up, i, cells) ==
  LET sp   == NodeAt(Cur(a).root, up)
      all  == Total([k \in DOMAIN sp.kids |-> sp.kids[k].weight])
      far  == IF cells > 0 THEN cells ELSE -cells
      amount(rect) == Most((far * all) \div Along(sp.dir, rect.w, rect.h), 1)
      moved(n) == IF cells > 0 THEN Transferred(a, at.split[up], up, i + 1, i, n)
                  ELSE Transferred(a, at.split[up], up, i, i + 1, n)
  IN The({moved(n) : n \in {amount(at.split[up])}})

\* equalize_node: a split weighs as many shares as panes seen in it.
RECURSIVE Evened(_, _)
Evened(v, n) ==
  LET seen == Len(SelectSeq(LeavesOf(n), LAMBDA p : Tiled(v, p)))
  IN IF IsLeaf(n) THEN [n EXCEPT !.weight = Unit]
     ELSE [n EXCEPT !.weight = Unit * Most(seen, 1),
                    !.kids = [i \in DOMAIN @ |-> Evened(v, @[i])]]

\* app_toggle_float: down where it is, or up at the size it has, centred.
Floated(a, at, p) ==
  LET i == TabOf(a, p)
      had == a.pane[p].want
      drawn == IF i = a.cur /\ p \in DOMAIN at.pane THEN at.pane[p] ELSE Unplaced
      size == IF had.w > 0 THEN had
              ELSE IF drawn.w > 4 /\ drawn.h > 4 THEN [drawn EXCEPT !.w = @ - 2, !.h = @ - 2]
              ELSE Unplaced
      middle(r, w, h) == Rect(r.x + (r.w - w) \div 2, r.y + (r.h - h) \div 2, w, h)
      wish(r, z) == IF z.w = 0 THEN had ELSE middle(r, Least(z.w, r.w), Least(z.h, r.h))
      rec == IF a.pane[p].up THEN [a.pane[p] EXCEPT !.up = FALSE]
             ELSE [a.pane[p] EXCEPT !.up = TRUE, !.mini = FALSE, !.raised = TopRaise(a) + 1,
                    !.want = The({wish(r, size) : r \in {AreaOf(a, Len(a.tabs))}})]
  IN The({Laid([a EXCEPT !.pane[p] = x, !.cur = i, !.tabs[i].focus = p]) : x \in {rec}})

Backed(a, p) == \E q \in ToSet(LeavesOf(a.tabs[TabOf(a, p)].root)) \ {p} : Tiled(a, q)

\* float_editable, and what an edit of the rect comes to: laid out, and where
\* it then is, is what is wanted.
Editable(a, at, p) == a.pane[p].up /\ ~a.pane[p].mini /\ at.how = "tree"
Placed(a, p, want) ==
  LET landed(b, at) == IF Editable(b, at, p) THEN [b EXCEPT !.pane[p].want = at.pane[p]] ELSE b
      seen(b) == The({landed(b, at) : at \in {Now(b)}})
  IN The({seen(b) : b \in {Laid([a EXCEPT !.pane[p].want = want])}})

\* float_resize: only the held edges move, each up to its wall and the least size.
EdgesMoved(r, area, edges, dx, dy) ==
  LET x1 == area.x + area.w
      y1 == area.y + area.h
      l == IF "l" \in edges THEN Least(Most(r.x + dx, area.x), r.x + r.w - MinCols) ELSE r.x
      t == IF "t" \in edges THEN Least(Most(r.y + dy, area.y), r.y + r.h - MinRows) ELSE r.y
      e == IF "r" \in edges THEN Most(Least(r.x + r.w + dx, x1), l + MinCols) ELSE r.x + r.w
      b == IF "b" \in edges THEN Most(Least(r.y + r.h + dy, y1), t + MinRows) ELSE r.y + r.h
  IN Rect(Most(l, 0), Most(t, 0), e - Most(l, 0), b - Most(t, 0))

\* focus_float_grow: about its own middle, kept in the area.
Grown(r, area, sign) ==
  LET w == Least(Most(r.w + sign * 2 * Aspect, MinCols), area.w)
      h == Least(Most(r.h + sign * 2, MinRows), area.h)
      half(n) == IF n >= 0 THEN n \div 2 ELSE -((-n) \div 2)
  IN Rect(Within(area.x, r.x + half(r.w - w), area.x + area.w - w),
          Within(area.y, r.y + half(r.h - h), area.y + area.h - h), w, h)

-----------------------------------------------------------------------------
(* What happens.  A scene names the operations its run plays, the files and *)
(* the sizes it plays them with.  app_new makes one shell; --layout         *)
(* replaces it.                                                             *)

Blank(size, set) ==
  [tabs |-> <<[name |-> "", purpose |-> "", locked |-> FALSE, root |-> [pane |-> Min(Ids), weight |-> Unit],
               focus |-> Min(Ids), zoom |-> 0, born |-> 0, said |-> ""]>>,
   cur |-> 1, pane |-> [p \in Ids |-> IF p = Min(Ids) THEN Shell(Home) ELSE None],
   size |-> size, set |-> set]

Booted(doc, size, set) ==
  Applied(Blank(size, set), doc, Plain(TRUE, Home, Cardinality(Ids) - 1)).app

Play == Scenes[scene]

Init ==
  /\ scene \in DOMAIN Scenes
  /\ \E b \in {Booted(Play.doc, Play.size, Play.set)} : app = Laid(b)
  /\ keep = FALSE
  /\ disk = Play.disk
  /\ left = Play.steps

\* The session has ended with its last tab.
Can(op) == left > 0 /\ app.tabs # <<>> /\ op \in Play.ops
Plays(op) == Can(op) /\ left' = left - 1 /\ scene' = scene
Becomes(e) == \E b \in {e} : app' = b
Edits(op, e) == Plays(op) /\ Becomes(e) /\ UNCHANGED <<keep, disk>>

Everyone == Used(app)

\* The bound on panes: an id is left over for the shell a restart begins with.
Free == {p \in Ids : app.pane[p] = None}
Room(n) == Least(n, Cardinality(Free) - 1)
Here == IF app.tabs = <<>> THEN {} ELSE ToSet(LeavesOf(Cur(app).root))

\* apply-layout.  A file that does not parse is refused before the wish to
\* keep the view is taken back.
ApplyLayout ==
  \E doc \in Play.docs, replace, focus \in BOOLEAN, room \in Play.rooms :
    /\ Plays("apply")
    /\ IF doc = Unparsable THEN app' = app /\ keep' = (keep \/ ~focus)
       ELSE /\ \E r \in {Applied(app, doc, [Plain(replace, None, Room(room)) EXCEPT !.keep = keep \/ ~focus])} :
                 app' = IF r.ok THEN Laid(r.app) ELSE r.app
            /\ keep' = FALSE
    /\ UNCHANGED disk

Bare == <<[p |-> <<>>, kids |-> <<[p |-> <<>>, kids |-> <<>>]>>]>>

\* open-workspace: the tab there is, or the project's file, or the one for
\* all projects, or a shell in its directory.
OpenWorkspace ==
  \E slug \in Projects, suspended \in BOOLEAN, room \in Play.rooms :
    LET file == IF disk[slug].doc # None THEN disk[slug].doc
                ELSE IF Play.shared # None THEN Play.shared ELSE Bare
        with == [Plain(FALSE, slug, Room(room)) EXCEPT !.force = suspended, !.keep = keep,
                                                 !.from = disk[slug].by]
        have == HeldAt(app, slug)
        before == Len(app.tabs)
        select(b) == IF \E i \in DOMAIN b.tabs : i > before /\ b.tabs[i].purpose = slug
                     THEN [b EXCEPT !.cur = Min({i \in DOMAIN b.tabs : i > before /\ b.tabs[i].purpose = slug})]
                     ELSE b
    IN /\ Plays("open")
       /\ IF have # 0 THEN Becomes(Laid([app EXCEPT !.cur = have])) /\ keep' = keep
          ELSE IF file = Unparsable THEN app' = app /\ keep' = keep
          ELSE /\ \E r \in {Applied(app, file, with)} :
                    Becomes(IF r.ok THEN Laid(select(Adopted(r.app, before, slug, left))) ELSE r.app)
               /\ keep' = FALSE
       /\ UNCHANGED disk

CloseWorkspace == \E slug \in Projects : Edits("close-ws", ClosedAll(app, slug))

\* save-workspace: refused for another project's tab, and over a file unless
\* forced.  Saving is adopting.
SaveWorkspace ==
  \E i \in DOMAIN app.tabs, path \in Projects \cup {None}, policy \in Play.policies, force \in BOOLEAN :
    LET t == app.tabs[i]
        p == ProjectOf(app, t, path)
        adopts == t.purpose = "" \/ IsProject(t.purpose)
    IN /\ Plays("save") /\ p # None /\ (IsProject(t.purpose) => t.purpose = p)
       /\ disk[p].doc = None \/ force
       /\ disk' = [disk EXCEPT ![p] = [doc |-> DumpProject(app, i, p, policy), by |-> policy]]
       /\ app' = IF adopts THEN [app EXCEPT !.tabs[i] = Member(@, p)] ELSE app
       /\ UNCHANGED keep

\* Somebody edits the project's file, or takes it away.
EditFile ==
  \E p \in Projects, doc \in Play.docs \cup {None} :
    /\ Plays("edit-file") /\ disk' = [disk EXCEPT ![p] = [doc |-> doc, by |-> ""]]
    /\ UNCHANGED <<app, keep>>

\* The session is dumped, ended, and started from the file.  `born' and
\* `said', which are the reader's notes, are carried over.
Revived(a) ==
  LET b == Booted(Dump(a, "as-is"), a.size, a.set)
  IN [b EXCEPT !.tabs = [i \in DOMAIN @ |-> [@[i] EXCEPT !.born = a.tabs[i].born,
                                                         !.said = a.tabs[i].said]]]
Restart ==
  /\ Plays("restart") /\ Becomes(Laid(Revived(app))) /\ keep' = FALSE /\ UNCHANGED disk

\* set-purpose, by an operator (declared) or out of a pane (OSC 5577).
SetPurpose(rec, q, declared) ==
  IF rec.locked /\ ~declared THEN rec
  ELSE [rec EXCEPT !.purpose = q, !.locked = IF declared THEN q # "" ELSE @,
                   !.said = IF declared THEN q ELSE @]
SetPanePurpose ==
  \E p \in Everyone, q \in Play.purposes, declared \in BOOLEAN :
    Edits("purpose", [app EXCEPT !.pane[p] = SetPurpose(@, q, declared)])
SetTabPurpose ==
  \E i \in DOMAIN app.tabs, q \in Play.purposes, declared \in BOOLEAN :
    Edits("tab-purpose", [app EXCEPT !.tabs[i] = [SetPurpose(@, q, declared) EXCEPT !.born = 0]])

\* Programs: one changes directory, is typed at a shell, a sleeping one is started.
ChangeDir ==
  \E p \in Everyone, dir \in Projects \cup {Home} :
    ~app.pane[p].asleep /\ Edits("cd", [app EXCEPT !.pane[p].cwd = dir])
TypeCommand ==
  \E p \in Everyone : /\ ~app.pane[p].asleep /\ app.pane[p].run = ""
                      /\ Edits("type", [app EXCEPT !.pane[p].fg = IF @ = "" THEN "vim" ELSE ""])
Start ==
  \E p \in Here : /\ app.pane[p].asleep
                  /\ Edits("start", WithFocus([app EXCEPT !.pane[p].asleep = FALSE, !.pane[p].from = ""], p))

SelectTab == \E i \in DOMAIN app.tabs : i # app.cur /\ Edits("select", Laid([app EXCEPT !.cur = i]))
CloseTab == \E i \in DOMAIN app.tabs : Edits("close-tab", Laid(Swept(TabRemoved(app, i))))
FocusPane == \E p \in Here : p # Focus(app) /\ Edits("focus", Laid(WithFocus(app, p)))

\* app_edit_config: a pane for the editor under the focused one, if it fits.
EditConfig ==
  /\ Can("edit-config") /\ Room(1) = 1
  /\ \E at \in {Now(app)} : Focus(app) \in DOMAIN at.pane /\ SplitFits(app, at, Focus(app), "rows")
  /\ Edits("edit-config", SplitWith(app, Focus(app), "rows",
       [Shell(app.pane[Focus(app)].cwd) EXCEPT !.run = "vi", !.task = TRUE]))

\* split_focus_ui, from the keyboard or a border.
SplitFocus ==
  \E dir \in {"cols", "rows"} :
    /\ Can("split") /\ Room(1) = 1
    /\ \E at \in {Now(app)} : Focus(app) \in DOMAIN at.pane /\ SplitFits(app, at, Focus(app), dir)
    /\ Edits("split", SplitWith(app, Focus(app), dir, Shell(app.pane[Focus(app)].cwd)))

ClosePane == \E p \in Here : Edits("close", PaneClosed(app, p))
Resize == \E size \in Play.sizes \ {app.size} : Edits("resize", Laid([app EXCEPT !.size = size]))
Equalize == Can("equalize") /\ ~IsLeaf(Cur(app).root) /\ Edits("equalize", Laid(WithRoot(app, Evened(app, Cur(app).root))))

Nudge ==
  \E dir \in {"cols", "rows"}, sign \in {-1, 1} :
    Can("nudge") /\ ~app.pane[Focus(app)].up /\ Edits("nudge", Laid(Nudged(app, Now(app), dir, sign)))

DragEdge ==
  /\ Can("drag")
  /\ \E up \in PathsOf(Cur(app).root), cells \in Play.cells, at \in {Now(app)} :
       /\ at.how = "tree" /\ up \in DOMAIN at.split
       /\ \E i \in 1..(Len(NodeAt(Cur(app).root, up).kids) - 1) :
            Edits("drag", Laid(Dragged(app, at, up, i, cells)))

Minimize ==
  \E p \in Here :
    LET others == SelectSeq(LeavesOf(Cur(app).root), LAMBDA q : q # p /\ Tiled(app, q))
    IN /\ ~app.pane[p].mini /\ others # <<>>
       /\ Edits("minimize", Laid([app EXCEPT !.pane[p].mini = TRUE,
            !.tabs[app.cur].zoom = IF @ = p THEN 0 ELSE @,
            !.tabs[app.cur].focus = IF @ = p THEN Head(others) ELSE @]))
ToggleZoom ==
  \E p \in Here : Edits("zoom", Laid([WithFocus(app, p) EXCEPT
    !.tabs[app.cur].zoom = IF @ = p THEN 0 ELSE p]))
ToggleFloat ==
  \E p \in Here : (app.pane[p].up \/ Backed(app, p)) /\ Edits("float", Floated(app, Now(app), p))

\* app_float_place: the wish kept as asked, an axis or a side left out.
PlaceFloat ==
  LET or(new, was) == IF new = None THEN was ELSE new
      asked(r, old) == Rect(or(r.x, old.x), or(r.y, old.y), or(r.w, old.w), or(r.h, old.h))
  IN \E p \in Here, r \in Play.places :
       /\ app.pane[p].up \/ Backed(app, p)
       /\ \E b \in {IF app.pane[p].up THEN app ELSE Floated(app, Now(app), p)} :
            Edits("place", Laid([b EXCEPT !.pane[p].want = asked(r, @)]))

\* The rect r becomes the float's own, in an operation the scene plays.
Reshape(op, at, r) ==
  /\ Editable(app, at, Focus(app))
  /\ Edits(op, Placed(app, Focus(app), r))

MoveFloat ==
  /\ Can("move")
  /\ \E at \in {Now(app)}, dx, dy \in {-1, 0, 1} :
       LET r == at.pane[Focus(app)]
       IN /\ (dx = 0) # (dy = 0)
          /\ Reshape("move", at, Rect(Most(r.x + dx * Aspect, 0), Most(r.y + dy, 0), r.w, r.h))
ResizeFloat ==
  /\ Can("edges")
  /\ \E at \in {Now(app)}, area \in {AreaOf(app, Len(app.tabs))}, d \in Play.cells,
        edges \in {{"l"}, {"r"}, {"t"}, {"b"}, {"l", "t"}, {"r", "b"}} :
       Reshape("edges", at, EdgesMoved(at.pane[Focus(app)], area, edges, d, d))
GrowFloat ==
  /\ Can("grow")
  /\ \E at \in {Now(app)}, area \in {AreaOf(app, Len(app.tabs))}, sign \in {-1, 1} :
       Reshape("grow", at, Grown(at.pane[Focus(app)], area, sign))

Documents == ApplyLayout \/ OpenWorkspace \/ CloseWorkspace \/ SaveWorkspace \/ EditFile \/ Restart
Labels == SetPanePurpose \/ SetTabPurpose \/ ChangeDir \/ TypeCommand \/ Start
Tabs == SelectTab \/ CloseTab \/ FocusPane \/ EditConfig \/ SplitFocus \/ ClosePane
Sizes == Resize \/ Equalize \/ Nudge \/ DragEdge \/ Minimize \/ ToggleZoom
Floats == ToggleFloat \/ PlaceFloat \/ MoveFloat \/ ResizeFloat \/ GrowFloat

Next ==
  \/ Documents \/ Labels \/ Tabs \/ Sizes \/ Floats
Spec == Init /\ [][Next]_vars

-----------------------------------------------------------------------------
(* What is kept. *)

Inside(r, o) ==
  /\ r.x >= o.x /\ r.y >= o.y /\ r.w > 0 /\ r.h > 0
  /\ r.x + r.w <= o.x + o.w /\ r.y + r.h <= o.y + o.h
Apart(r, o) ==
  r.x + r.w <= o.x \/ o.x + o.w <= r.x \/ r.y + r.h <= o.y \/ o.y + o.h <= r.y

\* The children of a split that are laid out, and the cells between them.
Fills(a, at, n, path) ==
  LET live == SelectSeq([i \in DOMAIN n.kids |-> i], LAMBDA i : LiveUnder(a, n.kids[i]))
      rect(i) == IF IsLeaf(n.kids[i]) THEN at.pane[n.kids[i].pane] ELSE at.split[Append(path, i)]
      span(r) == Along(n.dir, r.w, r.h)
      used == Total([j \in DOMAIN live |-> span(rect(live[j]))])
  IN live = <<>> \/ used + EffGap(a, n.dir) * (Len(live) - 1) = span(at.split[path])

(***************************************************************************)
(* Every cell is somebody's.  As long as a tab is laid out as a tree its   *)
(* panes lie in the tab's area, none under another, none below the least   *)
(* it can be used at, and the children of a split and the gaps between     *)
(* them make up that split to the cell, whatever the weights have come to  *)
(* (app_layout.c 262-314, "nothing drifts and nothing rounds to zero");    *)
(* floats lie in the area too; and in a list every pane has its row.       *)
(***************************************************************************)
Tiles ==
  app.tabs = <<>> \/
  \E at \in {Now(app)} : LET r == AreaOf(app, Len(app.tabs)) IN
    /\ r.w >= MinCols /\ r.h >= MinRows => \A p \in DOMAIN at.pane : Inside(at.pane[p], r)
    /\ at.how = "list" => DOMAIN at.pane = Here
    /\ at.how \in {"tree", "list"} =>
         \A p, q \in DOMAIN at.pane : (p # q /\ ~app.pane[p].up /\ ~app.pane[q].up) =>
           Apart(at.pane[p], at.pane[q])
    /\ at.how = "tree" =>
         /\ \A p \in DOMAIN at.pane :
              ~app.pane[p].up => at.pane[p].w >= MinCols /\ at.pane[p].h >= MinRows
         /\ {p \in Here : ~app.pane[p].mini} = DOMAIN at.pane
         /\ \A path \in DOMAIN at.split : Fills(app, at, NodeAt(Cur(app).root, path), path)

RECURSIVE ShapeOf(_, _, _)
ShapeOf(a, n, top) ==
  IF IsLeaf(n)
  THEN LET r == a.pane[n.pane]
       IN [weight |-> IF top THEN 0 ELSE n.weight, run |-> IF r.task THEN "" ELSE IF r.run # "" THEN r.run ELSE r.fg,
           purpose |-> r.purpose, cwd |-> r.cwd, asleep |-> r.asleep, up |-> r.up,
           want |-> IF r.up /\ r.want.w > 0 /\ r.want.h > 0 THEN r.want ELSE Unplaced]
  ELSE [weight |-> IF top THEN 0 ELSE n.weight, dir |-> n.dir,
        kids |-> [i \in DOMAIN n.kids |-> ShapeOf(a, n.kids[i], FALSE)]]

Nth(n, p) == CHOOSE i \in DOMAIN LeavesOf(n) : LeavesOf(n)[i] = p
Shape(a) ==
  [cur |-> a.cur,
   tabs |-> [i \in DOMAIN a.tabs |->
     [name |-> a.tabs[i].name, purpose |-> a.tabs[i].purpose,
      focus |-> Nth(a.tabs[i].root, a.tabs[i].focus), tree |-> ShapeOf(a, a.tabs[i].root, TRUE)]]]

Drawn(a) ==
  LET at == Now(a).pane
      all == LeavesOf(Cur(a).root)
  IN [i \in DOMAIN all |-> IF all[i] \in DOMAIN at THEN at[all[i]] ELSE Unplaced]

(***************************************************************************)
(* "The inverse of apply-layout, and the thing that makes a restart        *)
(* survivable" (app_session.c:748): from any state, what dump-layout       *)
(* writes is a document layout_check has nothing to say about, and a       *)
(* session started from it has the same tabs, trees, shares, places,       *)
(* purposes, commands and focus in each tab, shows the same tab, and draws *)
(* every pane where it was.  What is put away or zoomed comes back out:    *)
(* those are the two things a dump does not say.                           *)
(***************************************************************************)
RoundTrip ==
  app.tabs = <<>> \/
  \E doc \in {Dump(app, "as-is")} :
    /\ Complaints(doc) = {}
    /\ \A i \in DOMAIN app.tabs : Complaints(DumpProject(app, i, Home, "commands")) = {}
    /\ \E b \in {Booted(doc, app.size, app.set)} :
         /\ Shape(b) = Shape(app)
         /\ (Cur(app).zoom = 0 /\ \A p \in Here : ~app.pane[p].mini) => Drawn(b) = Drawn(app)

(***************************************************************************)
(* Opening a project starts nothing: a pane that came out of a file        *)
(* save-workspace wrote under its default policy, and that nobody has      *)
(* started since, is asleep if it has a command, declared or only caught   *)
(* running when the file was written (app_session.c:855, "would start a    *)
(* dev server on every open").                                             *)
(***************************************************************************)
Asleep ==
  \A p \in Everyone :
    app.pane[p].from = "commands" /\ app.pane[p].run # "" => app.pane[p].asleep

(***************************************************************************)
(* "The same request twice is one workspace" (app_session.c:488): two tabs *)
(* that opening made members of one project were made by one opening, over *)
(* restarts, closed tabs and files that change or fail in between.         *)
(***************************************************************************)
OneWorkspace ==
  \A i, j \in DOMAIN app.tabs :
    LET s == app.tabs[i] t == app.tabs[j]
    IN s.born > 0 /\ t.born > 0 /\ s.purpose = t.purpose => s.born = t.born

(***************************************************************************)
(* A declared purpose is nobody else's to change (D8): what a layout or an *)
(* operator called a pane or a tab, outside project:, it is still called,  *)
(* whatever its program prints and whatever workspace is opened over it or *)
(* saved from it (app_layout.c:1083, app_session.c:531).                   *)
(***************************************************************************)
Declared ==
  /\ \A p \in Everyone : app.pane[p].said # "" => app.pane[p].purpose = app.pane[p].said
  /\ \A i \in DOMAIN app.tabs :
       app.tabs[i].said \notin {""} \cup Projects \cup {Foreign} => app.tabs[i].purpose = app.tabs[i].said
=============================================================================
