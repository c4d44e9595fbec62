----------------------------- MODULE MCSession -----------------------------
(* Scenes for Session.  Sizes, floors, gaps and weights are the program's   *)
(* own defaults.                                                            *)
EXTENDS Session

N(p, kids) == [p |-> p, kids |-> kids]
Pane(p) == N(p, <<>>)
Size(c, r) == [cols |-> c, rows |-> r]
Set(compact, gap, side) == [compact |-> compact, gap |-> gap, side |-> side, width |-> 18, line |-> 1]
Usual == Set(FALSE, 1, "top")

\* A column beside a stack, uneven; and with a row of two in the stack.
Three == <<N("split" :> "cols", <<
  Pane("weight" :> 1000), N("weight" :> 1700 @@ "split" :> "rows", <<Pane("focus" :> "true"), Pane(<<>>)>>)>>)>>
Row == <<N("split" :> "cols", <<Pane("weight" :> 500), Pane("weight" :> 700 @@ "focus" :> "true"), Pane("weight" :> 160)>>)>>

\* What projects and people write.
Dev == <<N("split" :> "cols", <<Pane("command" :> "dev" @@ "suspended" :> "true"), Pane("purpose" :> "agent")>>)>>
Tasks == <<N("name" :> "one", <<Pane("cwd" :> ".")>>),
           N("purpose" :> "notes" @@ "active" :> "true" @@ "split" :> "rows",
             <<Pane("command" :> "dev"), Pane("focus" :> "true" @@ "purpose" :> "agent")>>)>>
Elsewhere == <<N("purpose" :> Foreign, <<Pane("floating" :> "true" @@ "w" :> 30 @@ "h" :> 9), Pane("weight" :> 90)>>)>>

Aside == <<N("name" :> "aside", <<Pane("suspended" :> "true" @@ "command" :> "top")>>)>>

Place(x, y, w, h) == Rect(x, y, w, h)
NoFiles == [p \in Projects |-> [doc |-> None, by |-> ""]]

Scene(doc, size, set, ops, steps) ==
  [doc |-> doc, size |-> size, set |-> set, ops |-> ops, steps |-> steps, disk |-> NoFiles,
   docs |-> {}, shared |-> None, rooms |-> {9}, sizes |-> {}, purposes |-> {}, policies |-> {"commands"},
   cells |-> {}, places |-> {}]

TheSizes == {"resize", "nudge", "drag", "equalize", "split", "close", "minimize", "zoom"}
Stretch(doc, size, set, steps) ==
  [Scene(doc, size, set, TheSizes, steps) EXCEPT !.sizes = {Size(61, 24), Size(131, 40)}, !.cells = {-9, 4}]
Lift ==
  [Scene(Three, Size(80, 24), Usual, {"float", "place", "move", "edges", "grow", "resize", "focus", "split", "edit-config"}, 3)
   EXCEPT !.sizes = {Size(61, 24)}, !.cells = {-30, 7},
          !.places = {Place(500, 3, None, None), Place(None, None, 40, 8), Place(None, 2, 200, 200)}]
Work ==
  [Scene(<<>>, Size(120, 40), Usual, {"apply", "open", "close-ws", "save", "edit-file", "restart", "close-tab"}, 4)
   EXCEPT !.docs = {Dev, Tasks}, !.rooms = {9, 1}]
Life ==
  [Scene(Dev \o Aside, Size(120, 40), Usual, {"open", "save", "type", "cd", "start", "restart", "close-ws"}, 4)
   EXCEPT !.shared = Elsewhere, !.policies = Policies]
Names ==
  [Scene(Tasks, Size(120, 40), Usual, {"purpose", "tab-purpose", "open", "save", "apply", "restart", "select"}, 3)
   EXCEPT !.docs = {Tasks, Elsewhere, Unparsable}, !.purposes = {"", "agent", "own"},
          !.disk = [p \in Projects |-> [doc |-> Tasks, by |-> ""]]]

MCScenes ==
  <<Stretch(Three, Size(100, 30), Usual, 4), Stretch(Row, Size(131, 40), Usual, 4),
   Stretch(Three, Size(90, 26), Set(TRUE, 1, "left"), 3), Stretch(Row, Size(110, 12), Set(FALSE, 0, "right"), 3),
   Lift, Work, Life, Names>>
=============================================================================
