--------------------------------- MODULE Keys ---------------------------------
(***************************************************************************)
(* Who a key or a click belongs to: the routing of input events            *)
(* (app_event, run_action, do_action in src/src/app.c) through the four    *)
(* overlays that own the keyboard while they are open, the label editor,   *)
(* the search bar, the picker and the cheatsheet (src/src/app_ui.c), the   *)
(* prefix, the direct bindings, the drag, and the program in the focused   *)
(* pane.                                                                   *)
(*                                                                         *)
(* Texts are blank or not.  An action that only rearranges panes is in     *)
(* Layout; here a pane is live or gone, in a tab that is its own for good. *)
(* The client asks its terminal for no key releases, so there are none.    *)
(***************************************************************************)
EXTENDS Naturals, FiniteSets

CONSTANTS
  Panes,   \* the ids of all panes there will ever be, naturals from 1
  TabOf,   \* the id of each pane's tab
  First,   \* the panes of the first frame
  Actions, \* what a key can be bound to behind the prefix
  Direct   \* the chords bound without it, and to what

VARIABLES
  app,     \* the application, a record
  painted, \* the targets in the hit list of the frame on screen
  leaving  \* the person does nothing any more but press Escape

vars == <<app, painted, leaving>>

Tabs   == {TabOf[p] : p \in Panes}
Labels == ({"pane", "purpose"} \X Panes) \cup ({"tab"} \X Tabs)
NoLabel == <<"none", 0>>
Texts  == {"", "text"}

ASSUME KeysAssumption ==
  /\ Panes \subseteq Nat \ {0} /\ First \subseteq Panes /\ First # {}
  /\ Actions \subseteq {"search", "finder", "palette", "rename", "purpose", "renametab",
                        "help", "close", "open", "focus", "literal"}
  /\ \A p, q \in Panes : TabOf[p] # q

(* A key of each action's own, which types a character where nothing binds  *)
(* it; the editing keys; and one more character.                            *)
Printable == Actions \cup {"x"}
Keys == Printable \cup DOMAIN Direct
        \cup {"prefix", "escape", "enter", "erase", "down"}

(* What the input did that is seen from outside: <<"sent", what>> to the    *)
(* program in focus, or <<"named", label, text, how>>.                      *)
Did(a, what) == [a EXCEPT !.did = what]
Idle == <<"nothing">>

Fresh(panes, f) ==
  [live |-> panes, ever |-> First, focus |-> f,
   renaming |-> NoLabel, rename_buf |-> "", search_id |-> 0, search_buf |-> "",
   needle |-> [p \in Panes |-> ""], picker |-> "none", help |-> FALSE,
   prefix |-> FALSE, drag |-> "none", name_click |-> NoLabel,
   did |-> Idle, over |-> FALSE]

Init ==
  /\ \E f \in First : app = Fresh(First, f)
  /\ painted = {} /\ leaving = FALSE

(* No pane is left, and the session ends. *)
Ended == Fresh({}, 0)

(***************************************************************************)
(* Panes and tabs                                                          *)
(***************************************************************************)
Exists(a, l) == IF l[1] = "tab" THEN \E p \in a.live : TabOf[p] = l[2] ELSE l[2] \in a.live

Focused(a, p) == IF p \in a.live THEN [a EXCEPT !.focus = p] ELSE a

(* The tab's own focus is one of its panes. *)
Selected(a, t) ==
  IF TabOf[a.focus] = t \/ ~Exists(a, <<"tab", t>>) THEN {a}
  ELSE {[a EXCEPT !.focus = p] : p \in {q \in a.live : TabOf[q] = t}}

(* A pane leaves; the focus stays, or goes to a neighbour in its tab, or to *)
(* a pane of another tab when it was the last there.                        *)
Without(a, p) ==
  LET rest == a.live \ {p}
      near == {q \in rest : TabOf[q] = TabOf[p]}
      next == IF a.focus # p THEN {a.focus} ELSE IF near # {} THEN near ELSE rest
  IN IF rest = {} THEN {Ended}
     ELSE {[a EXCEPT !.live = rest, !.focus = f, !.needle[p] = ""] : f \in next}

Opened(a) ==
  LET unborn == Panes \ a.ever
      p      == CHOOSE q \in unborn : \A r \in unborn : q <= r
  IN IF unborn = {} THEN {a}
     ELSE {[a EXCEPT !.live = @ \cup {p}, !.ever = @ \cup {p}, !.focus = p]}

(***************************************************************************)
(* The label editor: rename_begin, purpose_begin, rename_tab_begin,        *)
(* rename_end, rename_key                                                  *)
(***************************************************************************)
(* The editor starts from the label on screen, which may be what a program  *)
(* last called itself.                                                      *)
RenameBegin(a, l) ==
  IF ~Exists(a, l) THEN {a}
  ELSE LET b == {[a EXCEPT !.renaming = l, !.rename_buf = t, !.name_click = NoLabel] : t \in Texts}
       IN UNION {IF l[1] = "tab" THEN Selected(c, l[2]) ELSE {Focused(c, l[2])} : c \in b}

Named(a, l, how) == IF Exists(a, l) THEN Did(a, <<"named", l, a.rename_buf, how>>) ELSE a

\* Mutant: the text lands on the label of the pane in focus.
RenameEndFocused(a, how) ==
  [(IF how # "cancel" THEN Named(a, <<"pane", a.focus>>, how) ELSE a)
     EXCEPT !.renaming = NoLabel, !.rename_buf = ""]
RenameEnd(a, how) ==
  [(IF how # "cancel" THEN Named(a, a.renaming, how) ELSE a)
     EXCEPT !.renaming = NoLabel, !.rename_buf = ""]

\* Mutant: an editor whose subject is gone cannot be cancelled.
RenameKeyLiving(a, k) ==
  IF k \in {"escape", "enter"} /\ Exists(a, a.renaming) THEN RenameEnd(a, "cancel") ELSE a
RenameKey(a, k) ==
  CASE k = "escape"       -> RenameEnd(a, "cancel")
    [] k = "enter"        -> RenameEnd(a, "enter")
    [] k = "erase"        -> [a EXCEPT !.rename_buf = ""]
    [] k \in Printable    -> [a EXCEPT !.rename_buf = "text"]
    [] OTHER              -> a

(* app_event: a pane or a tab that is gone takes its editor with it.        *)
StaleRename(a) ==
  IF a.renaming[1] \in {"pane", "tab"} /\ ~Exists(a, a.renaming) THEN RenameEnd(a, "cancel") ELSE a

(***************************************************************************)
(* The search bar: search_begin, search_end, search_key                    *)
(***************************************************************************)
SearchBegin(a) ==
  [a EXCEPT !.search_id = a.focus, !.search_buf = "", !.over = @ \/ a.search_id # 0]

\* Mutant: the matches stay lit.
SearchEndLit(a) == [a EXCEPT !.search_id = 0, !.search_buf = ""]
SearchEnd(a) ==
  LET b == IF a.search_id \in a.live THEN [a EXCEPT !.needle[a.search_id] = ""] ELSE a
  IN [b EXCEPT !.search_id = 0, !.search_buf = ""]

Sought(a, text) == [a EXCEPT !.search_buf = text, !.needle[a.search_id] = text]

SearchKey(a, k) ==
  IF a.search_id \notin a.live \/ k \in {"escape", "enter"} THEN SearchEnd(a)
  ELSE IF k = "erase" THEN Sought(a, "")
  ELSE IF k \in Printable THEN Sought(a, "text") ELSE a

(***************************************************************************)
(* The pickers: finder_rows, palette_rows, picker_accept, picker_key.      *)
(* What is typed and which row is selected only decides which row Enter    *)
(* takes, and whether there is one.                                        *)
(***************************************************************************)
RowsOf(a) ==
  CASE a.picker = "finder"  -> {<<"find", p>> : p \in a.live}
    [] a.picker = "palette" -> {<<"run", act>> : act \in Actions \ {"literal"}}
    [] OTHER                -> {}

(* A row does what it says, whether Enter or a click chose it. *)
RunAction(a, act) ==
  CASE act = "search"               -> {SearchBegin(a)}
    [] act \in {"finder", "palette"} -> {[a EXCEPT !.picker = act]}
    [] act = "rename"               -> RenameBegin(a, <<"pane", a.focus>>)
    [] act = "purpose"              -> RenameBegin(a, <<"purpose", a.focus>>)
    [] act = "renametab"            -> RenameBegin(a, <<"tab", TabOf[a.focus]>>)
    [] act = "help"                 -> {[a EXCEPT !.help = ~@]}
    [] act = "close"                -> Without(a, a.focus)
    [] act = "open"                 -> Opened(a)
    [] act = "focus"                -> {[a EXCEPT !.focus = p] : p \in a.live}
    [] OTHER                        -> {a}

PickerAccept(a, row) ==
  IF row[1] = "find" THEN {Focused(a, row[2])} ELSE RunAction(a, row[2])

PickerKey(a, k) ==
  LET closed == [a EXCEPT !.picker = "none"]
  IN CASE k = "escape" -> {closed}
       [] k = "enter"  -> {closed} \cup UNION {PickerAccept(closed, row) : row \in RowsOf(a)}
       [] OTHER        -> {a}

(***************************************************************************)
(* A key: app_event                                                        *)
(***************************************************************************)
\* Mutant: the cheatsheet does not swallow the key that closes it.
OwnerPastHelp(a, k) ==
  IF a.renaming # NoLabel THEN "rename"
  ELSE IF a.search_id # 0 THEN "search"
  ELSE IF a.picker # "none" THEN "picker" ELSE "pane"
(* Who owns the keyboard when a key comes. *)
Owner(a, k) ==
  IF a.renaming # NoLabel THEN "rename"
  ELSE IF a.search_id # 0 THEN "search"
  ELSE IF a.picker # "none" THEN "picker"
  ELSE IF a.help THEN "help" ELSE "pane"

(* Any key that no overlay owns ends a drag. *)
DragEnded(a) == [a EXCEPT !.drag = "none"]

(* The event begins: what the last one did is past. *)
Begun(a) == StaleRename([a EXCEPT !.did = Idle])

Key(k) ==
  /\ app.focus # 0
  /\ leaving => k = "escape"
  /\ LET a == Begun(app)
         o == Owner(a, k)
         b == DragEnded(a)
     IN \/ o = "rename" /\ app' = RenameKey(a, k)
        \/ o = "search" /\ app' = SearchKey(a, k)
        \/ o = "picker" /\ app' \in PickerKey(a, k)
        \/ o = "help"   /\ app' = [a EXCEPT !.help = FALSE]
        \/ /\ o = "pane" /\ b.prefix /\ k \in {"prefix", "literal"}
           /\ app' = Did([b EXCEPT !.prefix = FALSE], <<"sent", "prefix">>)
        \/ /\ o = "pane" /\ b.prefix /\ k \notin {"prefix", "literal"}
           /\ app' \in LET c == [b EXCEPT !.prefix = FALSE]
                       IN IF k \in Actions THEN RunAction(c, k)
                          ELSE IF k \in DOMAIN Direct THEN RunAction(c, Direct[k]) ELSE {c}
        \/ /\ o = "pane" /\ ~b.prefix /\ k = "prefix"
           /\ app' = [b EXCEPT !.prefix = TRUE]
        \/ /\ o = "pane" /\ ~b.prefix /\ k \in DOMAIN Direct
           /\ app' \in RunAction(b, Direct[k])
        \/ /\ o = "pane" /\ ~b.prefix /\ k \notin {"prefix"} \cup DOMAIN Direct
           /\ app' = Did(b, <<"sent", "key">>)
  /\ UNCHANGED <<painted, leaving>>

(* A paste goes to the program whatever is open. *)
Paste ==
  /\ app.focus # 0 /\ ~leaving
  /\ app' = Did(Begun(app), <<"sent", "paste">>)
  /\ UNCHANGED <<painted, leaving>>

(***************************************************************************)
(* The mouse: app_event and do_action, on a target of the painted frame    *)
(***************************************************************************)
Nothing == <<"nothing", 0>>

(* The label whose own press does not end its editor. *)
OwnLabel(l) == IF l[1] = "pane" THEN <<"panetitle", l[2]>> ELSE <<"tab", l[2]>>

PickerOwn(h) == h[1] \in {"find", "run", "closepicker"}

(* A press that is not on the own label keeps the name; one that is not on  *)
(* the bar, and not the wheel, keeps the view.                              *)
PressedAway(a, h, b) ==
  LET r == IF a.renaming # NoLabel /\ h # OwnLabel(a.renaming) THEN RenameEnd(a, "away") ELSE a
  IN IF r.search_id # 0 /\ b # "wheel" /\ h # <<"search", r.search_id>> THEN SearchEnd(r) ELSE r

(* Two presses on a label, close together, edit it; one holds it. *)
LabelAt(h) == IF h[1] = "tab" THEN <<"tab", h[2]>> ELSE <<"pane", h[2]>>

PressLabel(a, h, again) ==
  LET l == LabelAt(h)
      b == [a EXCEPT !.name_click = l, !.drag = "label"]
  IN IF again THEN RenameBegin(a, l)
     ELSE IF h[1] = "tab" THEN Selected(b, h[2]) ELSE {Focused(b, h[2])}

(* Content: the left button selects, the middle one pastes, the wheel       *)
(* scrolls or is arrow keys, and a program that tracks the mouse is sent    *)
(* all of them.                                                             *)
PressPane(a, h, b) ==
  IF h[2] \notin a.live THEN {a}
  ELSE {Focused(a, h[2])} \cup
       {[Focused(a, h[2]) EXCEPT !.drag = "select"] : x \in {b} \cap {"left"}}

DoPress(a, h, b, again) ==
  CASE h[1] \in {"panetitle", "tab"} -> PressLabel(a, h, again)
    [] h[1] \in {"find", "run"}      -> PickerAccept([a EXCEPT !.picker = "none"], h)
    [] h[1] = "closepicker"          -> {[a EXCEPT !.picker = "none"]}
    [] h[1] = "close" /\ h[2] \in a.live -> Without(a, h[2])
    [] h[1] = "pane"                 -> PressPane(a, h, b)
    [] OTHER                         -> {a}

Press(h, b, again) ==
  /\ app.focus # 0 /\ ~leaving /\ h \in painted
  /\ again => h[1] \in {"panetitle", "tab"} /\ app.name_click = LabelAt(h)
  /\ LET a == PressedAway(Begun(app), h, b)
     IN \/ a.drag # "none" /\ app' = a
        \/ a.drag = "none" /\ a.help /\ app' = [a EXCEPT !.help = FALSE]
        \/ /\ a.drag = "none" /\ ~a.help /\ a.picker # "none" /\ ~PickerOwn(h)
           /\ app' = [a EXCEPT !.picker = "none"]
        \/ /\ a.drag = "none" /\ ~a.help /\ (a.picker = "none" \/ PickerOwn(h))
           /\ app' \in DoPress(a, h, b, again)
  /\ UNCHANGED <<painted, leaving>>

(* Focus follows the pointer, but not in the middle of something. *)
HoverAllowed(a) ==
  ~a.prefix /\ a.picker = "none" /\ a.renaming = NoLabel /\ a.drag = "none"

Motion(h) ==
  /\ app.focus # 0 /\ ~leaving /\ h \in painted
  /\ LET a     == Begun(app)
         hover == IF HoverAllowed(a) THEN Focused(a, h[2]) ELSE a
     IN app' = IF a.drag # "none" \/ a.help THEN a
               ELSE IF h[1] \in {"panetitle", "pane"} THEN hover
               ELSE a
  /\ UNCHANGED <<painted, leaving>>

(* The button comes up: the drag is over, and what it did to the layout is  *)
(* in Layout.  Without one, only a program hears of it.                     *)
Release(h) ==
  /\ app.focus # 0 /\ ~leaving /\ h \in painted
  /\ LET a == Begun(app)
     IN app' = IF a.drag # "none" THEN DragEnded(a)
               ELSE IF ~a.help /\ a.picker = "none" /\ h[1] = "pane" THEN Focused(a, h[2])
               ELSE a
  /\ UNCHANGED <<painted, leaving>>

(***************************************************************************)
(* app_compose, and the rest of the session                                *)
(***************************************************************************)
PickerHits(a) ==
  IF a.picker = "none" THEN {} ELSE {<<"closepicker", 0>>} \cup RowsOf(a)

Hits(a) ==
  LET here == {p \in a.live : TabOf[p] = TabOf[a.focus]}
      tabs == {TabOf[p] : p \in a.live}
  IN {Nothing} \cup ({"panetitle", "pane", "close"} \X here) \cup ({"tab"} \X tabs)
     \cup {<<"search", p>> : p \in here \cap {a.search_id}} \cup PickerHits(a)

Compose ==
  /\ app' = [(IF app.search_id \in app.live THEN app ELSE SearchEnd(app)) EXCEPT !.did = Idle]
  /\ app.focus # 0 /\ painted' = IF leaving THEN {} ELSE Hits(app')
  /\ UNCHANGED leaving

(* A pane's program ends, or a script closes the pane. *)
Dies(p) ==
  /\ p \in app.live /\ app' \in Without([app EXCEPT !.did = Idle], p)
  /\ UNCHANGED <<painted, leaving>>

(* Another client takes over: app_cancel_client_interaction. *)
Cancelled ==
  /\ ~leaving /\ (app.prefix \/ app.drag # "none")
  /\ app' = [DragEnded(app) EXCEPT !.prefix = FALSE, !.did = Idle]
  /\ UNCHANGED <<painted, leaving>>

(* The pointer is gone too, so what it could be on no longer matters. *)
Leaves ==
  /\ ~leaving /\ leaving' = TRUE /\ painted' = {}
  /\ app' = [app EXCEPT !.name_click = NoLabel, !.did = Idle]

Next ==
  \/ \E k \in Keys : Key(k)
  \/ Paste
  \/ \E h \in painted, b \in {"left", "wheel"}, again \in BOOLEAN : Press(h, b, again)
  \/ \E h \in painted : Motion(h)
  \/ \E h \in painted : Release(h)
  \/ Compose
  \/ \E p \in Panes : Dies(p)
  \/ Cancelled
  \/ Leaves

(* The person who only presses Escape goes on doing it. *)
Spec == Init /\ [][Next]_vars /\ WF_vars(leaving /\ Key("escape"))

(***************************************************************************)
(* Properties                                                              *)
(***************************************************************************)
Open(a) ==
  {o \in {"rename", "search", "picker", "help"} :
     \/ o = "rename" /\ a.renaming # NoLabel
     \/ o = "search" /\ a.search_id # 0
     \/ o = "picker" /\ a.picker # "none"
     \/ o = "help" /\ a.help}

(* The keyboard never has two of the label editor, the picker and the       *)
(* cheatsheet to choose from, whatever the mouse, the dying panes and the   *)
(* frames behind the events did in between.  Only the search bar can lie    *)
(* under another: the wheel does not end it, and is a press to every other  *)
(* target.                                                                  *)
OneField == Cardinality(Open(app) \ {"search"}) <= 1

(* Matches are lit in the pane the bar searches and nowhere else, and they  *)
(* are those of the text in the bar: no way out of a search leaves a pane   *)
(* marked, and none loses the marks of a search that goes on.  The one way  *)
(* in that does is a search begun over an open one: a wheel notch on a row  *)
(* of a palette that is closed and not yet painted away.                    *)
Highlight ==
  app.over \/ \A p \in app.live : app.needle[p] = IF app.search_id = p THEN app.search_buf ELSE ""

(* What lies over the panes is one thing, and marks what it is about.       *)
Overlays == OneField /\ Highlight

(* A label is set only to the text in an editor opened on that label, by    *)
(* Enter or by a press elsewhere, and never by Escape or because the editor *)
(* lost its subject; and the text is what was last in it.                   *)
NamesKept ==
  [][app' # app /\ app'.did[1] = "named" =>
       /\ app.renaming = app'.did[2] /\ app.rename_buf = app'.did[3]
       /\ Exists(app, app.renaming) /\ app'.did[4] \in {"enter", "away"}]_vars

(* No key reaches a program while an overlay with a subject is open, nor    *)
(* after a prefix other than as the prefix itself, nor with a drag left in  *)
(* progress.                                                                *)
KeysAimed ==
  [][app' # app /\ app'.did[1] = "sent" /\ app'.did[2] # "paste" =>
       /\ Open(StaleRename(app)) = {}
       /\ app'.did[2] = "prefix" <=> app.prefix
       /\ ~app'.prefix /\ app'.drag = "none"]_vars

(* No keyboard traps: somebody who does nothing but press Escape gets the   *)
(* program back, out of any overlay, prefix or lost drag, though the panes  *)
(* they were about may be gone.                                             *)
NoTrap ==
  leaving ~> app.focus = 0
             \/ (Open(app) = {} /\ ~app.prefix /\ app.drag = "none")
=============================================================================
