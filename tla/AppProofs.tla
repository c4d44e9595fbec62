------------------------------- MODULE AppProofs -------------------------------
(***************************************************************************)
(* Who a key belongs to, for any panes in any tabs, any actions behind the *)
(* prefix and any chords bound without it: the keyboard is never two       *)
(* overlays' at once, a search leaves no marks, a label is set to what was *)
(* typed for it and to nothing else, and a key reaches a program only when *)
(* nothing on screen was waiting for it.                                   *)
(*                                                                         *)
(* Then the configuration, for any files however they include and name     *)
(* each other: whose word a setting is, what is mixed from what, what      *)
(* Escape gives back, and that a theme put on stays on.                    *)
(***************************************************************************)
EXTENDS Keys, Config, FiniteSetTheorems, WellFoundedInduction, TLAPS

(***************************************************************************)
(* The strengthening.  A pane's id is never used again, so the bar that    *)
(* searches a pane that is gone can never come to mark another; a pane     *)
(* that is gone, or not yet there, is not marked; and somebody always has  *)
(* the focus until the last pane goes.                                     *)
(***************************************************************************)
Dids == {Idle} \cup ({"sent"} \X {"prefix", "key", "paste"})
          \cup ({"named"} \X Labels \X Texts \X {"enter", "away"})

AppType ==
  [live : SUBSET Panes, ever : SUBSET Panes, focus : Panes \cup {0},
   renaming : Labels \cup {NoLabel}, rename_buf : Texts,
   search_id : Panes \cup {0}, search_buf : Texts, needle : [Panes -> Texts],
   picker : {"none", "finder", "palette"}, help : BOOLEAN, prefix : BOOLEAN,
   drag : {"none", "label", "select"}, name_click : Labels \cup {NoLabel},
   did : Dids, over : BOOLEAN]

Housed(a) ==
  /\ a.live \subseteq a.ever
  /\ a.focus \in a.live \/ (a.focus = 0 /\ a.live = {})
  /\ a.search_id \in a.ever \cup {0}

One(a) ==
  /\ a.renaming = NoLabel \/ a.picker = "none"
  /\ a.renaming = NoLabel \/ ~a.help
  /\ a.picker = "none" \/ ~a.help

Marked(a) ==
  \A p \in Panes : a.needle[p] = IF p \in a.live /\ a.search_id = p THEN a.search_buf ELSE ""

Lit(a) ==
  /\ \A p \in Panes : p \notin a.live => a.needle[p] = ""
  /\ a.over \/ Marked(a)

Good(a) == a \in AppType /\ Housed(a) /\ One(a) /\ Lit(a)

(* What a label on the screen names there will ever be.                    *)
Shown ==
  \A h \in painted :
    (h[1] = "tab" => h[2] \in Tabs) /\ (h[1] = "panetitle" => h[2] \in Panes)

Inv == Good(app) /\ Shown

\* Something with the focus to do it to, and no overlay over it.
Clear(a) == a.focus \in a.live /\ a.renaming = NoLabel /\ a.picker = "none" /\ ~a.help

\* What a step says of itself it says afresh.
Quiet(a, b) == b.did \in {a.did, Idle}

-----------------------------------------------------------------------------
(* Lemmas about the operators.                                             *)

\* Marks depend on these and on nothing else.
LEMMA LitKept ==
  ASSUME NEW a, NEW b, Lit(a), b.live = a.live, b.needle = a.needle,
         b.search_id = a.search_id, b.search_buf = a.search_buf, b.over = a.over
  PROVE  Lit(b)
<1>1. Marked(a) => Marked(b)
  BY DEF Marked
<1> QED BY <1>1 DEF Lit

\* A pane is not called 0.
LEMMA Numbers == 0 \notin Panes /\ First \subseteq Panes /\ First # {}
  BY KeysAssumption DEF KeysAssumption

\* The application with nothing open is good.
LEMMA FreshGood ==
  ASSUME NEW panes, panes \subseteq First, NEW f,
         f \in panes \/ (f = 0 /\ panes = {})
  PROVE  Good(Fresh(panes, f)) /\ Fresh(panes, f).did = Idle
<1> DEFINE a == Fresh(panes, f)
<1>1. a \in AppType
  BY Numbers DEF Fresh, AppType, Dids, Texts
<1>2. Housed(a) /\ One(a)
  BY Numbers DEF Fresh, Housed, One
<1>3. Lit(a)
  BY Numbers DEF Fresh, Marked, Lit
<1> QED BY <1>1, <1>2, <1>3 DEF Good, Fresh

\* The focus moves among the living.
LEMMA FocusGood ==
  ASSUME NEW a, Good(a), NEW p \in a.live
  PROVE  /\ Good([a EXCEPT !.focus = p])
         /\ Quiet(a, [a EXCEPT !.focus = p])
         /\ [a EXCEPT !.focus = p].live = a.live
         /\ [a EXCEPT !.focus = p].focus = p
<1> DEFINE b == [a EXCEPT !.focus = p]
<1>1. b \in AppType
  BY DEF Good, AppType
<1>2. /\ b.focus = p /\ b.did = a.did /\ b.live = a.live /\ b.ever = a.ever
      /\ b.search_id = a.search_id /\ b.renaming = a.renaming
      /\ b.picker = a.picker /\ b.help = a.help /\ b.needle = a.needle
      /\ b.over = a.over /\ b.search_buf = a.search_buf
  BY DEF Good, AppType
<1> HIDE DEF b
<1>3. Housed(b) /\ One(b)
  BY <1>2 DEF Good, Housed, One
<1>4. Lit(b)
  BY <1>2, LitKept DEF Good
<1> QED BY <1>1, <1>2, <1>3, <1>4 DEF Good, Quiet, b

\* A pane leaves, and perhaps the session with it.
LEMMA WithoutGood ==
  ASSUME NEW a, Good(a), NEW p \in a.live, NEW b \in Without(a, p)
  PROVE  Good(b) /\ Quiet(a, b)
<1> DEFINE rest == a.live \ {p}
<1>0. a \in AppType /\ a.focus \in a.live /\ p \in Panes
  BY DEF Good, Housed, AppType
<1>1. CASE rest = {}
  <2>1. b = Ended
    BY <1>1 DEF Without
  <2> QED BY <2>1, FreshGood DEF Ended, Quiet
<1>2. CASE rest # {}
  <2>1. PICK f \in rest : b = [a EXCEPT !.live = rest, !.focus = f, !.needle[p] = ""]
    BY <1>0, <1>2 DEF Without
  <2>2. b \in AppType
    BY <1>0, <2>1 DEF AppType, Texts
  <2>3. /\ b.live = rest /\ b.focus = f /\ b.needle = [a.needle EXCEPT ![p] = ""]
        /\ b.did = a.did /\ b.ever = a.ever
        /\ b.search_id = a.search_id /\ b.renaming = a.renaming
        /\ b.picker = a.picker /\ b.help = a.help
        /\ b.over = a.over /\ b.search_buf = a.search_buf
    BY <1>0, <2>1 DEF AppType
  <2>4. \A q \in Panes : b.needle[q] = IF q = p THEN "" ELSE a.needle[q]
    BY <1>0, <2>3 DEF AppType
  <2>5. Housed(b) /\ One(b)
    BY <2>3 DEF Good, Housed, One
  <2>6. Lit(b)
    <3>1. \A q \in Panes : q \notin b.live => b.needle[q] = ""
      BY <2>3, <2>4 DEF Good, Lit
    <3>2. ASSUME Marked(a) PROVE Marked(b)
      BY <2>3, <2>4, <3>2 DEF Marked
    <3> QED BY <2>3, <3>1, <3>2 DEF Good, Lit
  <2> QED BY <2>2, <2>3, <2>5, <2>6 DEF Good, Quiet
<1> QED BY <1>1, <1>2

\* A new pane has an id that was never used, and takes the focus.
LEMMA OpenedGood ==
  ASSUME NEW a, Good(a), NEW b \in Opened(a)
  PROVE  Good(b) /\ Quiet(a, b)
<1> DEFINE unborn == Panes \ a.ever
           n      == CHOOSE q \in unborn : \A r \in unborn : q <= r
<1>0. a \in AppType
  BY DEF Good
<1>1. CASE unborn = {}
  <2>1. b = a
    BY <1>1 DEF Opened
  <2> QED BY <2>1 DEF Quiet
<1>2. CASE unborn # {}
  <2>1. n \in unborn
    <3>1. unborn \subseteq Nat
      BY KeysAssumption DEF KeysAssumption
    <3>2. \E q \in unborn : \A r \in unborn : q <= r
      <4>1. PICK q \in unborn : \A r \in unborn : ~ (<<r, q>> \in OpToRel(<, Nat))
        BY <1>2, <3>1, WFMin, NatLessThanWellFounded
      <4>2. ASSUME NEW r \in unborn PROVE q <= r
        <5>1. r \in Nat /\ q \in Nat
          BY <3>1
        <5>2. ~ (r < q)
          BY <4>1, <5>1 DEF OpToRel
        <5> QED BY <5>1, <5>2
      <4> QED BY <4>2
    <3> QED BY <3>2
  <2> HIDE DEF n
  <2>2. b = [a EXCEPT !.live = @ \cup {n}, !.ever = @ \cup {n}, !.focus = n]
    BY <1>2 DEF Opened, n
  <2>3. b \in AppType
    BY <1>0, <2>1, <2>2 DEF AppType
  <2>4. /\ b.live = a.live \cup {n} /\ b.ever = a.ever \cup {n} /\ b.focus = n
        /\ b.needle = a.needle /\ b.did = a.did
        /\ b.search_id = a.search_id /\ b.renaming = a.renaming
        /\ b.picker = a.picker /\ b.help = a.help
        /\ b.over = a.over /\ b.search_buf = a.search_buf
    BY <1>0, <2>2 DEF AppType
  <2>5. Housed(b) /\ One(b)
    BY <2>4 DEF Good, Housed, One
  <2>6. Lit(b)
    <3>1. n \notin a.live /\ n # a.search_id /\ n \in Panes
      BY <2>1, Numbers DEF Good, Housed
    <3>2. a.needle[n] = ""
      BY <3>1 DEF Good, Lit
    <3>3. ASSUME Marked(a) PROVE Marked(b)
      BY <2>4, <3>1, <3>2, <3>3 DEF Marked
    <3>4. \A q \in Panes : q \notin b.live => b.needle[q] = ""
      BY <2>4 DEF Good, Lit
    <3> QED BY <2>4, <3>3, <3>4 DEF Good, Lit
  <2> QED BY <2>3, <2>4, <2>5, <2>6 DEF Good, Quiet
<1> QED BY <1>1, <1>2


\* The tab's own focus is one of its panes.
LEMMA SelectedGood ==
  ASSUME NEW a, Good(a), a.focus \in a.live, NEW t, NEW b \in Selected(a, t)
  PROVE  Good(b) /\ Quiet(a, b) /\ b.live = a.live /\ b.focus \in a.live
<1>1. CASE b = a
  BY <1>1 DEF Quiet
<1>2. CASE \E p \in a.live : b = [a EXCEPT !.focus = p]
  BY <1>2, FocusGood
<1> QED BY <1>1, <1>2 DEF Selected

\* Focusing what is not there leaves the focus where it was.
LEMMA FocusedGood ==
  ASSUME NEW a, Good(a), NEW p
  PROVE  /\ Good(Focused(a, p)) /\ Quiet(a, Focused(a, p))
         /\ Focused(a, p).live = a.live
         /\ a.focus \in a.live => Focused(a, p).focus \in a.live
  BY FocusGood DEF Focused, Quiet

\* The editor opens on a label that is there, under nothing else.
LEMMA RenameBeginGood ==
  ASSUME NEW a, Good(a), a.focus \in a.live, a.picker = "none", ~a.help, NEW kind \in {"pane", "purpose", "tab"}, NEW n,
         NEW b \in RenameBegin(a, <<kind, n>>)
  PROVE  Good(b) /\ Quiet(a, b)
<1> DEFINE l == <<kind, n>>
<1>0. a \in AppType
  BY DEF Good
<1>1. CASE ~Exists(a, l)
  <2>1. b = a
    BY <1>1 DEF RenameBegin
  <2> QED BY <2>1 DEF Quiet
<1>2. CASE Exists(a, l)
  <2>1. l \in Labels
    BY <1>0, <1>2 DEF Exists, Labels, Tabs, AppType
  <2> DEFINE c(t) == [a EXCEPT !.renaming = l, !.rename_buf = t, !.name_click = NoLabel]
  <2>2. PICK t \in Texts :
          b \in IF l[1] = "tab" THEN Selected(c(t), l[2]) ELSE {Focused(c(t), l[2])}
    BY <1>2 DEF RenameBegin
  <2>3. c(t) \in AppType
    BY <1>0, <2>1 DEF AppType
  <2>4. /\ c(t).live = a.live /\ c(t).focus = a.focus /\ c(t).needle = a.needle
        /\ c(t).did = a.did /\ c(t).ever = a.ever
        /\ c(t).search_id = a.search_id
        /\ c(t).picker = a.picker /\ c(t).help = a.help
        /\ c(t).over = a.over /\ c(t).search_buf = a.search_buf
    BY <1>0 DEF AppType
  <2> HIDE DEF c
  <2>5. Housed(c(t)) /\ One(c(t)) /\ Lit(c(t))
    <3>1. Housed(c(t)) /\ One(c(t))
      BY <2>4 DEF Good, Housed, One
    <3> QED BY <2>4, <3>1, LitKept DEF Good
  <2>6. Good(c(t)) /\ c(t).focus \in c(t).live
    BY <2>3, <2>4, <2>5 DEF Good
  <2>7. Good(b) /\ Quiet(c(t), b)
    BY <2>2, <2>6, SelectedGood, FocusedGood
  <2> QED BY <2>4, <2>7 DEF Quiet
<1> QED BY <1>1, <1>2

\* Closing the editor leaves the rest alone; only "cancel" says nothing.
LEMMA RenameEndGood ==
  ASSUME NEW a, Good(a), a.renaming # NoLabel, NEW how \in {"cancel", "enter", "away"}
  PROVE  /\ Good(RenameEnd(a, how))
         /\ RenameEnd(a, how).renaming = NoLabel
         /\ \A f \in {"live", "ever", "focus", "search_id", "search_buf", "needle",
                      "picker", "help", "prefix", "drag", "name_click", "over"} :
              RenameEnd(a, how)[f] = a[f]
         /\ IF how # "cancel" /\ Exists(a, a.renaming)
            THEN RenameEnd(a, how).did = <<"named", a.renaming, a.rename_buf, how>>
            ELSE RenameEnd(a, how).did = a.did
<1> DEFINE d == IF how # "cancel" /\ Exists(a, a.renaming)
                THEN <<"named", a.renaming, a.rename_buf, how>> ELSE a.did
           b == RenameEnd(a, how)
<1>0. a \in AppType
  BY DEF Good
<1>1. b = [a EXCEPT !.did = d, !.renaming = NoLabel, !.rename_buf = ""]
  BY <1>0 DEF RenameEnd, Named, Did, AppType
<1>2. d \in Dids
  BY <1>0 DEF AppType, Dids
<1> HIDE DEF d, b
<1>3. b \in AppType
  BY <1>0, <1>1, <1>2 DEF AppType, Texts
<1>4. /\ b.live = a.live /\ b.ever = a.ever /\ b.focus = a.focus
      /\ b.search_id = a.search_id /\ b.search_buf = a.search_buf
      /\ b.needle = a.needle /\ b.picker = a.picker /\ b.help = a.help
      /\ b.prefix = a.prefix /\ b.drag = a.drag /\ b.name_click = a.name_click
      /\ b.over = a.over /\ b.did = d /\ b.renaming = NoLabel
  BY <1>0, <1>1 DEF AppType
<1>5. Housed(b) /\ One(b) /\ Lit(b)
  <2>1. Housed(b) /\ One(b)
    BY <1>4 DEF Good, Housed, One
  <2> QED BY <1>4, <2>1, LitKept DEF Good
<1> QED BY <1>3, <1>4, <1>5 DEF Good, b, d

\* The bar opens over the pane in focus.
LEMMA SearchBeginGood ==
  ASSUME NEW a, Good(a), Clear(a)
  PROVE  Good(SearchBegin(a)) /\ Quiet(a, SearchBegin(a))
<1> DEFINE b == SearchBegin(a)
<1>0. a \in AppType /\ a.focus \in Panes
  BY DEF Good, Clear, AppType
<1>1. b \in AppType
  BY <1>0 DEF SearchBegin, AppType, Texts
<1>2. /\ b.live = a.live /\ b.focus = a.focus /\ b.ever = a.ever
      /\ b.needle = a.needle /\ b.did = a.did /\ b.renaming = a.renaming
      /\ b.picker = a.picker /\ b.help = a.help
      /\ b.search_id = a.focus /\ b.search_buf = ""
      /\ b.over <=> a.over \/ a.search_id # 0
  BY <1>0 DEF SearchBegin, AppType
<1> HIDE DEF b
<1>3. Housed(b) /\ One(b)
  BY <1>2 DEF Good, Clear, Housed, One
<1>4. Lit(b)
  <2>1. \A q \in Panes : q \notin b.live => b.needle[q] = ""
    BY <1>2 DEF Good, Lit
  <2>2. ASSUME Marked(a), a.search_id = 0 PROVE Marked(b)
    BY <1>2, <2>2, Numbers DEF Marked
  <2> QED BY <1>2, <2>1, <2>2 DEF Good, Lit
<1> QED BY <1>1, <1>2, <1>3, <1>4 DEF Good, Quiet, b

\* The bar closes, and its marks go.
LEMMA SearchEndGood ==
  ASSUME NEW a, Good(a)
  PROVE  /\ Good(SearchEnd(a))
         /\ SearchEnd(a).search_id = 0
         /\ \A f \in {"live", "ever", "focus", "renaming", "rename_buf", "picker",
                      "help", "prefix", "drag", "name_click", "did", "over"} :
              SearchEnd(a)[f] = a[f]
<1> DEFINE b == SearchEnd(a)
           s == a.search_id
<1>0. a \in AppType
  BY DEF Good
<1>1. b \in AppType
  BY <1>0 DEF SearchEnd, AppType, Texts
<1>2. /\ b.live = a.live /\ b.ever = a.ever /\ b.focus = a.focus
      /\ b.renaming = a.renaming /\ b.rename_buf = a.rename_buf
      /\ b.picker = a.picker /\ b.help = a.help
      /\ b.prefix = a.prefix /\ b.drag = a.drag /\ b.name_click = a.name_click
      /\ b.did = a.did /\ b.over = a.over
      /\ b.search_id = 0 /\ b.search_buf = ""
      /\ \A p \in Panes : b.needle[p] = IF s \in a.live /\ p = s THEN "" ELSE a.needle[p]
  BY <1>0 DEF SearchEnd, AppType
<1> HIDE DEF b
<1>3. Housed(b) /\ One(b)
  BY <1>2 DEF Good, Housed, One
<1>4. Lit(b)
  <2>1. \A q \in Panes : q \notin b.live => b.needle[q] = ""
    BY <1>2 DEF Good, Lit
  <2>2. ASSUME Marked(a) PROVE Marked(b)
    BY <1>2, <2>2, Numbers DEF Marked
  <2> QED BY <1>2, <2>1, <2>2 DEF Good, Lit
<1> QED BY <1>1, <1>2, <1>3, <1>4 DEF Good, b

\* What is typed in the bar is what is marked.
LEMMA SoughtGood ==
  ASSUME NEW a, Good(a), a.search_id \in a.live, NEW text \in Texts
  PROVE  Good(Sought(a, text)) /\ Quiet(a, Sought(a, text))
<1> DEFINE b == Sought(a, text)
           s == a.search_id
<1>0. a \in AppType
  BY DEF Good
<1>1. b \in AppType
  BY <1>0 DEF Sought, AppType
<1>2. /\ b.live = a.live /\ b.ever = a.ever /\ b.focus = a.focus
      /\ b.renaming = a.renaming /\ b.picker = a.picker /\ b.help = a.help
      /\ b.did = a.did /\ b.over = a.over
      /\ b.search_id = s /\ b.search_buf = text
      /\ \A p \in Panes : b.needle[p] = IF p = s THEN text ELSE a.needle[p]
  BY <1>0 DEF Sought, AppType
<1> HIDE DEF b
<1>3. Housed(b) /\ One(b)
  BY <1>2 DEF Good, Housed, One
<1>4. Lit(b)
  <2>1. \A q \in Panes : q \notin b.live => b.needle[q] = ""
    BY <1>2 DEF Good, Lit
  <2>2. ASSUME Marked(a) PROVE Marked(b)
    BY <1>2, <2>2, Numbers DEF Marked
  <2> QED BY <1>2, <2>1, <2>2 DEF Good, Lit
<1> QED BY <1>1, <1>2, <1>3, <1>4 DEF Good, Quiet, b

\* Each key in the bar.
LEMMA SearchKeyGood ==
  ASSUME NEW a, Good(a), NEW k
  PROVE  Good(SearchKey(a, k)) /\ Quiet(a, SearchKey(a, k))
<1>1. Good(SearchEnd(a)) /\ Quiet(a, SearchEnd(a))
  <2>1. SearchEnd(a).did = a.did
    BY SearchEndGood
  <2> QED BY <2>1, SearchEndGood DEF Quiet
<1>2. a.search_id \in a.live =>
        \A text \in Texts : Good(Sought(a, text)) /\ Quiet(a, Sought(a, text))
  BY SoughtGood
<1>3. Quiet(a, a) /\ "" \in Texts /\ "text" \in Texts
  BY DEF Quiet, Texts
<1>4. CASE a.search_id \notin a.live \/ k \in {"escape", "enter"}
  <2>1. SearchKey(a, k) = SearchEnd(a)
    BY <1>4 DEF SearchKey
  <2> QED BY <1>1, <2>1
<1>5. CASE a.search_id \in a.live /\ k \notin {"escape", "enter"}
  <2>1. \/ SearchKey(a, k) = Sought(a, "")
        \/ SearchKey(a, k) = Sought(a, "text")
        \/ SearchKey(a, k) = a
    BY <1>5 DEF SearchKey
  <2> QED BY <1>2, <1>3, <1>5, <2>1
<1> QED BY <1>4, <1>5

\* An overlay opened where there was none.
LEMMA OverlayGood ==
  ASSUME NEW a, Good(a), Clear(a), NEW p \in {"none", "finder", "palette"},
         NEW h \in BOOLEAN, p = "none" \/ ~h
  PROVE  /\ Good([a EXCEPT !.picker = p, !.help = h])
         /\ [a EXCEPT !.picker = p, !.help = h].did = a.did
<1> DEFINE b == [a EXCEPT !.picker = p, !.help = h]
<1>0. a \in AppType
  BY DEF Good
<1>1. b \in AppType
  BY <1>0 DEF AppType
<1>2. /\ b.live = a.live /\ b.ever = a.ever /\ b.focus = a.focus
      /\ b.renaming = a.renaming /\ b.picker = p /\ b.help = h
      /\ b.did = a.did /\ b.over = a.over /\ b.needle = a.needle
      /\ b.search_id = a.search_id /\ b.search_buf = a.search_buf
  BY <1>0 DEF AppType
<1> HIDE DEF b
<1>3. Housed(b) /\ One(b) /\ Lit(b)
  <2>1. Housed(b) /\ One(b)
    BY <1>2 DEF Good, Clear, Housed, One
  <2> QED BY <1>2, <2>1, LitKept DEF Good
<1> QED BY <1>1, <1>2, <1>3 DEF Good, b


\* Whatever an action does, it starts with nothing open.
LEMMA RunActionGood ==
  ASSUME NEW a, Good(a), Clear(a), NEW act, NEW b \in RunAction(a, act)
  PROVE  Good(b) /\ Quiet(a, b)
<1>1. CASE act = "search"
  <2>1. b = SearchBegin(a)
    BY <1>1 DEF RunAction
  <2> QED BY <2>1, SearchBeginGood
<1>2. CASE act \in {"finder", "palette"}
  <2>1. b = [a EXCEPT !.picker = act]
    BY <1>2 DEF RunAction
  <2>2. b = [a EXCEPT !.picker = act, !.help = FALSE]
    BY <2>1 DEF Good, AppType, Clear
  <2> QED BY <1>2, <2>2, OverlayGood DEF Quiet
<1>3. CASE act \in {"rename", "purpose", "renametab"}
  <2>1. PICK kind \in {"pane", "purpose", "tab"}, n \in {a.focus, TabOf[a.focus]} :
          b \in RenameBegin(a, <<kind, n>>)
    BY <1>3 DEF RunAction
  <2> QED BY <2>1, RenameBeginGood DEF Clear
<1>4. CASE act = "help"
  <2>1. b = [a EXCEPT !.help = ~@]
    BY <1>4 DEF RunAction
  <2>2. b = [a EXCEPT !.picker = "none", !.help = TRUE]
    BY <2>1 DEF Good, AppType, Clear
  <2>3. b = [a EXCEPT !.picker = "none", !.help = TRUE] => Good(b) /\ b.did = a.did
    BY OverlayGood
  <2> QED BY <2>2, <2>3 DEF Quiet
<1>5. CASE act = "close"
  <2>1. b \in Without(a, a.focus)
    BY <1>5 DEF RunAction
  <2> QED BY <2>1, WithoutGood DEF Clear
<1>6. CASE act = "open"
  <2>1. b \in Opened(a)
    BY <1>6 DEF RunAction
  <2> QED BY <2>1, OpenedGood
<1>7. CASE act = "focus"
  <2>1. \E p \in a.live : b = [a EXCEPT !.focus = p]
    BY <1>7 DEF RunAction
  <2> QED BY <2>1, FocusGood
<1>8. CASE act \notin {"search", "finder", "palette", "rename", "purpose", "renametab",
                       "help", "close", "open", "focus"}
  <2>1. b = a
    BY <1>8 DEF RunAction
  <2> QED BY <2>1 DEF Quiet
<1> QED BY <1>1, <1>2, <1>3, <1>4, <1>5, <1>6, <1>7, <1>8

\* A row of a picker that has just closed.
LEMMA PickerAcceptGood ==
  ASSUME NEW a, Good(a), Clear(a), NEW row, NEW b \in PickerAccept(a, row)
  PROVE  Good(b) /\ Quiet(a, b)
<1>1. CASE row[1] = "find"
  <2>1. b = Focused(a, row[2])
    BY <1>1 DEF PickerAccept
  <2> QED BY <2>1, FocusedGood
<1>2. CASE row[1] # "find"
  <2>1. b \in RunAction(a, row[2])
    BY <1>2 DEF PickerAccept
  <2> QED BY <2>1, RunActionGood
<1> QED BY <1>1, <1>2

\* A picker closed leaves nothing open.
LEMMA PickerClosed ==
  ASSUME NEW a, Good(a), a.focus \in a.live, a.renaming = NoLabel, ~a.help
  PROVE  /\ Good([a EXCEPT !.picker = "none"]) /\ Clear([a EXCEPT !.picker = "none"])
         /\ [a EXCEPT !.picker = "none"].did = a.did
<1> DEFINE b == [a EXCEPT !.picker = "none"]
<1>0. a \in AppType
  BY DEF Good
<1>1. b \in AppType
  BY <1>0 DEF AppType
<1>2. /\ b.live = a.live /\ b.ever = a.ever /\ b.focus = a.focus
      /\ b.renaming = a.renaming /\ b.picker = "none" /\ b.help = a.help
      /\ b.did = a.did /\ b.over = a.over /\ b.needle = a.needle
      /\ b.search_id = a.search_id /\ b.search_buf = a.search_buf
  BY <1>0 DEF AppType
<1> HIDE DEF b
<1>3. Housed(b) /\ One(b) /\ Lit(b) /\ Clear(b)
  <2>1. Housed(b) /\ One(b) /\ Clear(b)
    BY <1>2 DEF Good, Clear, Housed, One
  <2> QED BY <1>2, <2>1, LitKept DEF Good
<1> QED BY <1>1, <1>2, <1>3 DEF Good, b

\* Each key in a picker.
LEMMA PickerKeyGood ==
  ASSUME NEW a, Good(a), a.focus \in a.live, a.renaming = NoLabel, a.picker # "none",
         NEW k, NEW b \in PickerKey(a, k)
  PROVE  Good(b) /\ Quiet(a, b)
<1> DEFINE closed == [a EXCEPT !.picker = "none"]
<1>1. Good(closed) /\ Clear(closed) /\ closed.did = a.did
  BY PickerClosed DEF Good, One
<1>2. \/ b = closed \/ b = a
      \/ \E row \in RowsOf(a) : b \in PickerAccept(closed, row)
  <2>1. CASE k = "escape"
    BY <2>1 DEF PickerKey
  <2>2. CASE k = "enter"
    BY <2>2 DEF PickerKey
  <2>3. CASE k \notin {"escape", "enter"}
    BY <2>3 DEF PickerKey
  <2> QED BY <2>1, <2>2, <2>3
<1> HIDE DEF closed
<1>3. ASSUME NEW row \in RowsOf(a), b \in PickerAccept(closed, row)
      PROVE  Good(b) /\ Quiet(closed, b)
  BY <1>1, <1>3, PickerAcceptGood
<1> QED BY <1>1, <1>2, <1>3 DEF Quiet


\* Saying something changes nothing else.
LEMMA DidGood ==
  ASSUME NEW a, Good(a), NEW d \in Dids
  PROVE  /\ Good([a EXCEPT !.did = d])
         /\ [a EXCEPT !.did = d].did = d
         /\ \A f \in {"live", "ever", "focus", "renaming", "rename_buf", "search_id",
                      "search_buf", "needle", "picker", "help", "prefix", "drag",
                      "name_click", "over"} : [a EXCEPT !.did = d][f] = a[f]
<1> DEFINE b == [a EXCEPT !.did = d]
<1>0. a \in AppType
  BY DEF Good
<1>1. b \in AppType
  BY <1>0 DEF AppType
<1>2. /\ b.live = a.live /\ b.ever = a.ever /\ b.focus = a.focus
      /\ b.renaming = a.renaming /\ b.rename_buf = a.rename_buf
      /\ b.search_id = a.search_id /\ b.search_buf = a.search_buf
      /\ b.needle = a.needle /\ b.picker = a.picker /\ b.help = a.help
      /\ b.prefix = a.prefix /\ b.drag = a.drag /\ b.name_click = a.name_click
      /\ b.over = a.over /\ b.did = d
  BY <1>0 DEF AppType
<1> HIDE DEF b
<1>3. Housed(b) /\ One(b) /\ Lit(b)
  <2>1. Housed(b) /\ One(b)
    BY <1>2 DEF Good, Housed, One
  <2> QED BY <1>2, <2>1, LitKept DEF Good
<1> QED BY <1>1, <1>2, <1>3 DEF Good, b

\* The prefix, the drag and the label that may be pressed again, and no more.
Gestured(a, b, p, g) ==
  \E c \in Labels \cup {NoLabel} :
    b = [a EXCEPT !.prefix = p, !.drag = g, !.name_click = c]

\* The gestures half done are over, or under way.
LEMMA GestureGood ==
  ASSUME NEW a, Good(a), NEW p \in BOOLEAN, NEW g \in {"none", "label", "select"},
         NEW b, Gestured(a, b, p, g)
  PROVE  /\ Good(b) /\ b.drag = g /\ (b.prefix <=> p)
         /\ b.live = a.live /\ b.focus = a.focus /\ b.did = a.did
         /\ (Clear(a) => Clear(b))
<1>0. a \in AppType
  BY DEF Good
<1>1. b \in AppType
  BY <1>0 DEF Gestured, AppType
<1>2. /\ b.live = a.live /\ b.ever = a.ever /\ b.focus = a.focus
      /\ b.renaming = a.renaming /\ b.picker = a.picker /\ b.help = a.help
      /\ b.did = a.did /\ b.over = a.over /\ b.needle = a.needle
      /\ b.search_id = a.search_id /\ b.search_buf = a.search_buf
      /\ b.prefix = p /\ b.drag = g
  BY <1>0 DEF Gestured, AppType
<1>3. Housed(b) /\ One(b) /\ Lit(b) /\ (Clear(a) => Clear(b))
  <2>1. Housed(b) /\ One(b) /\ (Clear(a) => Clear(b))
    BY <1>2 DEF Good, Clear, Housed, One
  <2> QED BY <1>2, <2>1, LitKept DEF Good
<1> QED BY <1>1, <1>2, <1>3 DEF Good

\* The cheatsheet closes.
LEMMA HelpClosed ==
  ASSUME NEW a, Good(a)
  PROVE  /\ Good([a EXCEPT !.help = FALSE])
         /\ [a EXCEPT !.help = FALSE].did = a.did
<1> DEFINE b == [a EXCEPT !.help = FALSE]
<1>0. a \in AppType
  BY DEF Good
<1>1. b \in AppType
  BY <1>0 DEF AppType
<1>2. /\ b.live = a.live /\ b.ever = a.ever /\ b.focus = a.focus
      /\ b.renaming = a.renaming /\ b.picker = a.picker /\ b.help = FALSE
      /\ b.did = a.did /\ b.over = a.over /\ b.needle = a.needle
      /\ b.search_id = a.search_id /\ b.search_buf = a.search_buf
  BY <1>0 DEF AppType
<1> HIDE DEF b
<1>3. Housed(b) /\ One(b) /\ Lit(b)
  <2>1. Housed(b) /\ One(b)
    BY <1>2 DEF Good, Housed, One
  <2> QED BY <1>2, <2>1, LitKept DEF Good
<1> QED BY <1>1, <1>2, <1>3 DEF Good, b

\* An editor whose subject is gone is gone, and has said nothing.
LEMMA StaleGood ==
  ASSUME NEW a, Good(a)
  PROVE  /\ Good(StaleRename(a))
         /\ \A f \in {"live", "ever", "focus", "search_id", "search_buf", "needle",
                      "picker", "help", "prefix", "drag", "name_click", "over", "did"} :
              StaleRename(a)[f] = a[f]
         /\ StaleRename(a).renaming # NoLabel => StaleRename(a) = a
<1>1. CASE a.renaming[1] \in {"pane", "tab"} /\ ~Exists(a, a.renaming)
  <2>1. a.renaming # NoLabel
    BY <1>1 DEF NoLabel
  <2>2. StaleRename(a) = RenameEnd(a, "cancel")
    BY <1>1 DEF StaleRename
  <2> QED BY <2>1, <2>2, RenameEndGood
<1>2. CASE ~ (a.renaming[1] \in {"pane", "tab"} /\ ~Exists(a, a.renaming))
  <2>1. StaleRename(a) = a
    BY <1>2 DEF StaleRename
  <2> QED BY <2>1
<1> QED BY <1>1, <1>2

\* Where an event begins.
LEMMA BegunGood ==
  ASSUME NEW x, Good(x), x.focus # 0
  PROVE  LET a == Begun(x)
         IN /\ Good(a) /\ a.did = Idle /\ a.focus \in a.live
            /\ a.live = x.live /\ (a.prefix <=> x.prefix) /\ a.drag = x.drag
            /\ a.renaming # NoLabel =>
                 a.renaming = x.renaming /\ a.rename_buf = x.rename_buf
            /\ Open(a) = Open(StaleRename(x))
<1> DEFINE y == [x EXCEPT !.did = Idle]
           a == Begun(x)
<1>1. Idle \in Dids /\ a = StaleRename(y)
  BY DEF Dids, Begun
<1>2. /\ Good(y) /\ y.did = Idle
      /\ \A f \in {"live", "ever", "focus", "renaming", "rename_buf", "search_id",
                   "search_buf", "needle", "picker", "help", "prefix", "drag",
                   "name_click", "over"} : y[f] = x[f]
  BY <1>1, DidGood
<1> HIDE DEF y, a
<1>3. /\ Good(a) /\ a.did = Idle
      /\ a.live = x.live /\ a.focus = x.focus /\ a.prefix = x.prefix /\ a.drag = x.drag
      /\ a.search_id = x.search_id /\ a.picker = x.picker /\ a.help = x.help
      /\ a.renaming # NoLabel => a = y
  BY <1>1, <1>2, StaleGood
<1>4. LET z == StaleRename(x)
      IN /\ z.search_id = x.search_id /\ z.picker = x.picker /\ z.help = x.help
  BY StaleGood
<1>5. a.renaming = NoLabel <=> StaleRename(x).renaming = NoLabel
  <2>1. Exists(y, y.renaming) <=> Exists(x, x.renaming)
    BY <1>2 DEF Exists
  <2>2. CASE x.renaming[1] \in {"pane", "tab"} /\ ~Exists(x, x.renaming)
    <3>1. x.renaming # NoLabel /\ y.renaming # NoLabel
      BY <1>2, <2>2 DEF NoLabel
    <3>2. StaleRename(x) = RenameEnd(x, "cancel") /\ a = RenameEnd(y, "cancel")
      BY <1>1, <1>2, <2>1, <2>2 DEF StaleRename
    <3> QED BY <1>2, <3>1, <3>2, RenameEndGood
  <2>3. CASE ~ (x.renaming[1] \in {"pane", "tab"} /\ ~Exists(x, x.renaming))
    BY <1>1, <1>2, <2>1, <2>3 DEF StaleRename
  <2> QED BY <2>2, <2>3
<1>6. Open(a) = Open(StaleRename(x))
  BY <1>3, <1>4, <1>5 DEF Open
<1>7. a.focus \in a.live
  BY <1>3 DEF Good, Housed
<1> QED BY <1>2, <1>3, <1>6, <1>7 DEF a


-----------------------------------------------------------------------------
(* One lemma per action: what it leaves is good, and what it says it may.  *)

NameSaid(a, b) ==
  b.did[1] = "named" =>
    /\ a.renaming = b.did[2] /\ a.rename_buf = b.did[3]
    /\ Exists(a, a.renaming) /\ b.did[4] \in {"enter", "away"}

KeySaid(a, b) ==
  b.did[1] = "sent" /\ b.did[2] # "paste" =>
    /\ Open(StaleRename(a)) = {}
    /\ b.did[2] = "prefix" <=> a.prefix
    /\ ~b.prefix /\ b.drag = "none"

Says(a, b) == NameSaid(a, b) /\ KeySaid(a, b)

\* A step that does nothing seen from outside.
LEMMA SaysNothing ==
  ASSUME NEW a, NEW b, b.did = Idle
  PROVE  Says(a, b)
  BY DEF Says, NameSaid, KeySaid, Idle

\* A key in the label editor: Enter sets the label to what is in it.
LEMMA RenameKeyGood ==
  ASSUME NEW x, Good(x), x.focus # 0, NEW k, Begun(x).renaming # NoLabel
  PROVE  /\ Good(RenameKey(Begun(x), k))
         /\ Says(x, RenameKey(Begun(x), k))
<1> DEFINE a == Begun(x)
<1>1. /\ Good(a) /\ a.did = Idle /\ a.live = x.live
      /\ a.renaming = x.renaming /\ a.rename_buf = x.rename_buf
  BY BegunGood
<1>2. a.renaming # NoLabel
  OBVIOUS
<1> HIDE DEF a
<1>3. Exists(a, a.renaming) <=> Exists(x, x.renaming)
  BY <1>1 DEF Exists
<1>4. a \in AppType
  BY <1>1 DEF Good
<1>5. CASE k = "escape"
  <2>1. RenameKey(a, k) = RenameEnd(a, "cancel")
    BY <1>5, KeysAssumption DEF RenameKey, Printable, KeysAssumption
  <2>2. RenameEnd(a, "cancel").did = Idle /\ Good(RenameEnd(a, "cancel"))
    BY <1>1, <1>2, RenameEndGood
  <2> QED BY <2>1, <2>2, SaysNothing DEF a
<1>6. CASE k = "enter"
  <2> DEFINE b == RenameEnd(a, "enter")
  <2>1. RenameKey(a, k) = b
    BY <1>6, KeysAssumption DEF RenameKey, Printable, KeysAssumption
  <2>2. /\ Good(b)
        /\ IF Exists(a, a.renaming)
           THEN b.did = <<"named", a.renaming, a.rename_buf, "enter">>
           ELSE b.did = Idle
    BY <1>1, <1>2, RenameEndGood
  <2> HIDE DEF b
  <2>3. CASE Exists(a, a.renaming)
    <3>1. b.did[1] = "named" /\ b.did[2] = x.renaming /\ b.did[3] = x.rename_buf
          /\ b.did[4] = "enter"
      BY <1>1, <2>2, <2>3
    <3>2. Says(x, b)
      BY <1>3, <2>3, <3>1 DEF Says, NameSaid, KeySaid
    <3> QED BY <2>1, <2>2, <3>2 DEF a
  <2>4. CASE ~Exists(a, a.renaming)
    BY <2>1, <2>2, <2>4, SaysNothing DEF a
  <2> QED BY <2>3, <2>4
<1>7. CASE k \notin {"escape", "enter"}
  <2>1. PICK t \in {"", "text", a.rename_buf} :
          RenameKey(a, k) = [a EXCEPT !.rename_buf = t]
    <3>1. a = [a EXCEPT !.rename_buf = a.rename_buf]
      BY <1>4 DEF AppType
    <3>2. CASE k = "erase"
      <4>1. RenameKey(a, k) = [a EXCEPT !.rename_buf = ""]
        BY <3>2, KeysAssumption DEF RenameKey, Printable, KeysAssumption
      <4> QED BY <4>1
    <3>3. CASE k \in Printable
      <4>1. RenameKey(a, k) = [a EXCEPT !.rename_buf = "text"]
        BY <3>3, KeysAssumption DEF RenameKey, Printable, KeysAssumption
      <4> QED BY <4>1
    <3>4. CASE k \notin Printable /\ k # "erase"
      <4>1. RenameKey(a, k) = a
        BY <1>7, <3>4 DEF RenameKey
      <4> QED BY <3>1, <4>1
    <3> QED BY <3>2, <3>3, <3>4
  <2> DEFINE b == [a EXCEPT !.rename_buf = t]
  <2>2. b \in AppType
    BY <1>4 DEF AppType, Texts
  <2>3. /\ b.live = a.live /\ b.ever = a.ever /\ b.focus = a.focus
        /\ b.renaming = a.renaming /\ b.picker = a.picker /\ b.help = a.help
        /\ b.did = a.did /\ b.over = a.over /\ b.needle = a.needle
        /\ b.search_id = a.search_id /\ b.search_buf = a.search_buf
    BY <1>4 DEF AppType
  <2> HIDE DEF b
  <2>4. Housed(b) /\ One(b)
    BY <1>1, <2>3 DEF Good, Housed, One
  <2>5. Good(b) /\ b.did = Idle
    BY <1>1, <2>2, <2>3, <2>4, LitKept DEF Good
  <2> QED BY <2>1, <2>5, SaysNothing DEF a, b
<1> QED BY <1>5, <1>6, <1>7

\* A key: whoever has the keyboard, and nobody else.
LEMMA KeyStep ==
  ASSUME Good(app), NEW k, Key(k)
  PROVE  Good(app') /\ Says(app, app')
<1> DEFINE a == Begun(app)
           o == Owner(a, k)
           b == DragEnded(a)
<1>1. /\ Good(a) /\ a.did = Idle /\ a.focus \in a.live
      /\ (a.prefix <=> app.prefix) /\ Open(a) = Open(StaleRename(app))
  BY BegunGood DEF Key
<1>2. \/ o = "rename" /\ app' = RenameKey(a, k)
      \/ o = "search" /\ app' = SearchKey(a, k)
      \/ o = "picker" /\ app' \in PickerKey(a, k)
      \/ o = "help"   /\ app' = [a EXCEPT !.help = FALSE]
      \/ /\ o = "pane" /\ b.prefix
         /\ app' = Did([b EXCEPT !.prefix = FALSE], <<"sent", "prefix">>)
      \/ /\ o = "pane"
         /\ \E act : app' \in RunAction([b EXCEPT !.prefix = FALSE], act)
      \/ /\ o = "pane" /\ app' = [b EXCEPT !.prefix = FALSE]
      \/ /\ o = "pane" /\ app' = [b EXCEPT !.prefix = TRUE]
      \/ /\ o = "pane" /\ ~b.prefix /\ \E act : app' \in RunAction(b, act)
      \/ /\ o = "pane" /\ ~b.prefix /\ app' = Did(b, <<"sent", "key">>)
  BY DEF Key
<1>3. /\ o = "rename" => a.renaming # NoLabel
      /\ o = "picker" => a.renaming = NoLabel /\ a.picker # "none"
      /\ o = "pane" => Clear(a) /\ a.search_id = 0
  BY <1>1 DEF Owner, Clear
<1>4. CASE o = "rename"
  <2>1. app' = RenameKey(a, k) /\ app.focus # 0
    BY <1>2, <1>4 DEF Key
  <2> QED BY <1>3, <1>4, <2>1, RenameKeyGood
<1> DEFINE c(p) == [b EXCEPT !.prefix = p]
<1>5. /\ Gestured(a, b, a.prefix, "none") /\ a.prefix \in BOOLEAN
      /\ \A p \in BOOLEAN : Gestured(a, c(p), p, "none")
  <2>1. a \in AppType
    BY <1>1 DEF Good
  <2>2. b = [a EXCEPT !.prefix = a.prefix, !.drag = "none", !.name_click = a.name_click]
    BY <2>1 DEF DragEnded, AppType
  <2>3. ASSUME NEW p \in BOOLEAN
        PROVE  c(p) = [a EXCEPT !.prefix = p, !.drag = "none", !.name_click = a.name_click]
    BY <2>1 DEF DragEnded, AppType
  <2>4. a.name_click \in Labels \cup {NoLabel} /\ a.prefix \in BOOLEAN
    BY <2>1 DEF AppType
  <2> HIDE DEF a, b, c
  <2> QED BY <2>2, <2>3, <2>4 DEF Gestured
<1>6. /\ Good(b) /\ b.drag = "none" /\ (b.prefix <=> a.prefix) /\ b.did = Idle
      /\ Clear(a) => Clear(b)
      /\ \A p \in BOOLEAN :
           /\ Good(c(p)) /\ c(p).drag = "none" /\ (c(p).prefix <=> p) /\ c(p).did = Idle
           /\ Clear(a) => Clear(c(p))
  <2>1. /\ Good(b) /\ b.drag = "none" /\ (b.prefix <=> a.prefix) /\ b.did = a.did
        /\ Clear(a) => Clear(b)
    BY <1>1, <1>5, GestureGood
  <2>2. ASSUME NEW p \in BOOLEAN
        PROVE  /\ Good(c(p)) /\ c(p).drag = "none" /\ (c(p).prefix <=> p)
               /\ c(p).did = a.did /\ (Clear(a) => Clear(c(p)))
    <3>1. Gestured(a, c(p), p, "none")
      BY <1>5
    <3> HIDE DEF c
    <3> QED BY <1>1, <3>1, GestureGood
  <2> QED BY <1>1, <2>1, <2>2
<1>7. Quiet(a, app') => Says(app, app')
  BY <1>1, SaysNothing DEF Quiet
<1>8. CASE o = "search"
  <2>1. app' = SearchKey(a, k)
    BY <1>2, <1>8
  <2> QED BY <1>1, <1>7, <2>1, SearchKeyGood
<1>9. CASE o = "picker"
  <2>1. app' \in PickerKey(a, k)
    BY <1>2, <1>9
  <2> QED BY <1>1, <1>3, <1>7, <1>9, <2>1, PickerKeyGood
<1>10. CASE o = "help"
  <2>1. app' = [a EXCEPT !.help = FALSE]
    BY <1>2, <1>10
  <2> QED BY <1>1, <1>7, <2>1, HelpClosed DEF Quiet
<1>11. Clear(a) /\ a.search_id = 0 => Open(StaleRename(app)) = {}
  BY <1>1 DEF Open, Clear
<1>12. ASSUME o = "pane", NEW y, Good(y), y.drag = "none", ~y.prefix, NEW d \in {"prefix", "key"},
              (d = "prefix") <=> app.prefix, app' = Did(y, <<"sent", d>>)
       PROVE  Good(app') /\ Says(app, app')
  <2>1. <<"sent", d>> \in Dids /\ app' = [y EXCEPT !.did = <<"sent", d>>]
    BY <1>12 DEF Dids, Did
  <2>2. Good(app') /\ app'.did = <<"sent", d>> /\ (app'.prefix <=> y.prefix) /\ app'.drag = y.drag
    <3> DEFINE z == [y EXCEPT !.did = <<"sent", d>>]
    <3>1. /\ Good(z) /\ z.did = <<"sent", d>>
          /\ z["prefix"] = y["prefix"] /\ z["drag"] = y["drag"]
      BY <1>12, <2>1, DidGood
    <3> QED BY <2>1, <3>1
  <2>3. app'.did[1] = "sent" /\ app'.did[2] = d
    BY <2>2
  <2>4. (app'.did[2] = "prefix") <=> app.prefix
    BY <1>12, <2>3
  <2>5. NameSaid(app, app')
    BY <2>3 DEF NameSaid
  <2>6. ~app'.prefix /\ app'.drag = "none" /\ Open(StaleRename(app)) = {}
    BY <1>3, <1>11, <1>12, <2>2
  <2>7. KeySaid(app, app')
    BY <2>4, <2>6 DEF KeySaid
  <2> QED BY <2>2, <2>5, <2>7 DEF Says
<1> HIDE DEF a, o, b, c
<1>13. CASE o = "pane"
  <2>1. Clear(a) /\ Clear(b) /\ \A p \in BOOLEAN : Clear(c(p))
    BY <1>3, <1>6, <1>13
  <2>2. \/ b.prefix /\ app' = Did(c(FALSE), <<"sent", "prefix">>)
        \/ \E act : app' \in RunAction(c(FALSE), act)
        \/ app' = c(FALSE) \/ app' = c(TRUE)
        \/ \E act : app' \in RunAction(b, act)
        \/ ~b.prefix /\ app' = Did(b, <<"sent", "key">>)
    BY <1>2, <1>13 DEF c
  <2>3. CASE b.prefix /\ app' = Did(c(FALSE), <<"sent", "prefix">>)
    <3>1. Good(c(FALSE)) /\ c(FALSE).drag = "none" /\ ~c(FALSE).prefix
      BY <1>6
    <3>2. app.prefix
      BY <1>1, <1>6, <2>3
    <3> QED BY <1>12, <1>13, <2>3, <3>1, <3>2
  <2>4. CASE ~b.prefix /\ app' = Did(b, <<"sent", "key">>)
    <3>1. ~app.prefix
      BY <1>1, <1>6, <2>4
    <3> QED BY <1>6, <1>12, <1>13, <2>4, <3>1
  <2>5. CASE app' = c(FALSE) \/ app' = c(TRUE)
    BY <1>6, <2>5, SaysNothing
  <2>6. CASE \E act : app' \in RunAction(c(FALSE), act)
    <3>1. Good(c(FALSE)) /\ Clear(c(FALSE)) /\ c(FALSE).did = Idle
      BY <1>6, <2>1
    <3>2. Good(app') /\ Quiet(c(FALSE), app')
      BY <2>6, <3>1, RunActionGood
    <3> QED BY <3>1, <3>2, SaysNothing DEF Quiet
  <2>7. CASE \E act : app' \in RunAction(b, act)
    <3>1. Good(app') /\ Quiet(b, app')
      BY <1>6, <2>1, <2>7, RunActionGood
    <3> QED BY <1>6, <3>1, SaysNothing DEF Quiet
  <2> QED BY <2>2, <2>3, <2>4, <2>5, <2>6, <2>7
<1>14. o \in {"rename", "search", "picker", "help", "pane"}
  BY DEF o, Owner
<1> QED BY <1>4, <1>8, <1>9, <1>10, <1>13, <1>14


\* What was said stays said, unless nothing is.
LEMMA SaysQuiet ==
  ASSUME NEW x, NEW a, NEW b, Says(x, a), a.did[1] # "sent", Quiet(a, b)
  PROVE  Says(x, b)
<1>1. CASE b.did = a.did
  <2>1. NameSaid(x, b)
    BY <1>1 DEF Says, NameSaid
  <2>2. KeySaid(x, b)
    BY <1>1 DEF KeySaid
  <2> QED BY <2>1, <2>2 DEF Says
<1>2. CASE b.did = Idle
  BY <1>2, SaysNothing
<1> QED BY <1>1, <1>2 DEF Quiet

\* A press somewhere else keeps the name, and the view.
LEMMA PressedAwayGood ==
  ASSUME NEW x, Good(x), x.focus # 0, NEW h, NEW b
  PROVE  LET a == PressedAway(Begun(x), h, b)
         IN /\ Good(a) /\ Says(x, a) /\ a.did[1] # "sent" /\ a.focus \in a.live
            /\ a.renaming = NoLabel \/ h = OwnLabel(a.renaming)
<1> DEFINE e == Begun(x)
           r == IF e.renaming # NoLabel /\ h # OwnLabel(e.renaming)
                THEN RenameEnd(e, "away") ELSE e
           a == PressedAway(e, h, b)
<1>1. /\ Good(e) /\ e.did = Idle /\ e.focus \in e.live /\ e.live = x.live
      /\ e.renaming # NoLabel => e.renaming = x.renaming /\ e.rename_buf = x.rename_buf
  BY BegunGood
<1> HIDE DEF e
<1>2. /\ Good(r) /\ Says(x, r) /\ r.did[1] # "sent" /\ r.focus \in r.live
      /\ r.renaming = NoLabel \/ h = OwnLabel(r.renaming)
  <2>1. CASE e.renaming # NoLabel /\ h # OwnLabel(e.renaming)
    <3> DEFINE d == RenameEnd(e, "away")
    <3>1. /\ Good(d) /\ d.renaming = NoLabel /\ d.live = e.live /\ d.focus = e.focus
          /\ IF Exists(e, e.renaming)
             THEN d.did = <<"named", e.renaming, e.rename_buf, "away">>
             ELSE d.did = Idle
      BY <1>1, <2>1, RenameEndGood
    <3>2. Exists(e, e.renaming) <=> Exists(x, x.renaming)
      BY <1>1, <2>1 DEF Exists
    <3>3. r = d
      BY <2>1
    <3> HIDE DEF d, r
    <3>4. CASE Exists(e, e.renaming)
      <4>1. d.did[1] = "named" /\ d.did[2] = x.renaming /\ d.did[3] = x.rename_buf
            /\ d.did[4] = "away"
        BY <1>1, <2>1, <3>1, <3>4
      <4>2. Says(x, d)
        BY <3>2, <3>4, <4>1 DEF Says, NameSaid, KeySaid
      <4> QED BY <1>1, <3>1, <3>3, <4>1, <4>2
    <3>5. CASE ~Exists(e, e.renaming)
      <4>1. d.did = Idle /\ d.did[1] = "nothing"
        BY <3>1, <3>5 DEF Idle
      <4> QED BY <1>1, <3>1, <3>3, <4>1, SaysNothing
    <3> QED BY <3>4, <3>5
  <2>2. CASE ~ (e.renaming # NoLabel /\ h # OwnLabel(e.renaming))
    <3>1. r = e /\ e.did[1] = "nothing"
      BY <1>1, <2>2 DEF Idle
    <3> QED BY <1>1, <2>2, <3>1, SaysNothing
  <2> QED BY <2>1, <2>2
<1>3. a = r \/ a = SearchEnd(r)
  BY DEF PressedAway
<1> HIDE DEF r, a
<1>4. /\ Good(SearchEnd(r)) /\ SearchEnd(r).did = r.did
      /\ SearchEnd(r).focus = r.focus /\ SearchEnd(r).live = r.live
      /\ SearchEnd(r).renaming = r.renaming
  BY <1>2, SearchEndGood
<1>5. Says(x, SearchEnd(r))
  BY <1>2, <1>4, SaysQuiet DEF Quiet
<1> QED BY <1>2, <1>3, <1>4, <1>5 DEF a, e

\* A press on what is on the screen.
LEMMA DoPressGood ==
  ASSUME NEW a, Good(a), a.focus \in a.live, ~a.help, NEW h, NEW b, NEW again,
         h[1] = "tab" => h[2] \in Tabs, h[1] = "panetitle" => h[2] \in Panes,
         a.renaming = NoLabel \/ h = OwnLabel(a.renaming),
         a.picker = "none" \/ PickerOwn(h),
         NEW y \in DoPress(a, h, b, again)
  PROVE  Good(y) /\ Quiet(a, y)
<1>0. a \in AppType
  BY DEF Good
<1>1. CASE h[1] \in {"panetitle", "tab"}
  <2> DEFINE l == LabelAt(h)
             c == [a EXCEPT !.name_click = l, !.drag = "label"]
  <2>1. y \in PressLabel(a, h, again) /\ a.picker = "none"
    BY <1>1 DEF DoPress, PickerOwn
  <2>2. PICK kind \in {"pane", "tab"} : l = <<kind, h[2]>>
    BY DEF LabelAt
  <2>3. l \in Labels
    BY <1>1 DEF LabelAt, Labels
  <2>4. CASE again
    <3>1. y \in RenameBegin(a, <<kind, h[2]>>)
      BY <2>1, <2>2, <2>4 DEF PressLabel
    <3> QED BY <2>1, <3>1, RenameBeginGood
  <2>5. CASE ~again
    <3>1. Gestured(a, c, a.prefix, "label") /\ a.prefix \in BOOLEAN
      <4>1. c = [a EXCEPT !.prefix = a.prefix, !.drag = "label", !.name_click = l]
        BY <1>0 DEF AppType
      <4>2. a.prefix \in BOOLEAN
        BY <1>0 DEF AppType
      <4> HIDE DEF c, l
      <4> QED BY <2>3, <4>1, <4>2 DEF Gestured
    <3>2. y \in Selected(c, h[2]) \/ y = Focused(c, h[2])
      BY <2>1, <2>5 DEF PressLabel
    <3> HIDE DEF c
    <3>3. Good(c) /\ c.live = a.live /\ c.focus = a.focus /\ c.did = a.did
      BY <3>1, GestureGood
    <3>4. Good(y) /\ Quiet(c, y)
      BY <3>2, <3>3, SelectedGood, FocusedGood
    <3> QED BY <3>3, <3>4 DEF Quiet
  <2> QED BY <2>4, <2>5
<1> DEFINE z == [a EXCEPT !.picker = "none"]
<1>2. CASE h[1] \in {"find", "run", "closepicker"}
  <2>1. a.renaming = NoLabel
    BY <1>2 DEF OwnLabel
  <2>2. Good(z) /\ Clear(z) /\ z.did = a.did
    BY <2>1, PickerClosed
  <2>3. y = z \/ y \in PickerAccept(z, h)
    BY <1>2 DEF DoPress
  <2> HIDE DEF z
  <2>4. y \in PickerAccept(z, h) => Good(y) /\ Quiet(z, y)
    BY <2>2, PickerAcceptGood
  <2> QED BY <2>2, <2>3, <2>4 DEF Quiet
<1>3. CASE h[1] = "close" /\ h[2] \in a.live
  <2>1. y \in Without(a, h[2])
    BY <1>3 DEF DoPress
  <2> QED BY <1>3, <2>1, WithoutGood
<1>4. CASE h[1] = "pane"
  <2> DEFINE f == Focused(a, h[2])
             g == [f EXCEPT !.drag = "select"]
  <2>1. y \in {a, f, g}
    BY <1>4 DEF DoPress, PressPane
  <2>2. Good(f) /\ Quiet(a, f)
    BY FocusedGood
  <2>3. Gestured(f, g, f.prefix, "select") /\ f.prefix \in BOOLEAN
    <3> HIDE DEF f
    <3>1. f \in AppType
      BY <2>2 DEF Good
    <3>2. g = [f EXCEPT !.prefix = f.prefix, !.drag = "select", !.name_click = f.name_click]
      BY <3>1 DEF AppType
    <3>3. f.prefix \in BOOLEAN /\ f.name_click \in Labels \cup {NoLabel}
      BY <3>1 DEF AppType
    <3> HIDE DEF g
    <3> QED BY <3>2, <3>3 DEF Gestured
  <2> HIDE DEF f, g
  <2>4. Good(g) /\ g.did = f.did
    BY <2>2, <2>3, GestureGood
  <2> QED BY <2>1, <2>2, <2>4 DEF Quiet
<1>5. CASE /\ h[1] \notin {"panetitle", "tab", "find", "run", "closepicker", "pane"}
           /\ ~(h[1] = "close" /\ h[2] \in a.live)
  <2>1. y = a
    BY <1>5 DEF DoPress
  <2> QED BY <2>1 DEF Quiet
<1> QED BY <1>1, <1>2, <1>3, <1>4, <1>5


\* A press: the drag's, the cheatsheet's, the picker's, or the target's.
LEMMA PressStep ==
  ASSUME Inv, NEW h \in painted, NEW b, NEW again, Press(h, b, again)
  PROVE  Good(app') /\ Says(app, app')
<1> DEFINE a == PressedAway(Begun(app), h, b)
<1>1. /\ Good(a) /\ Says(app, a) /\ a.did[1] # "sent" /\ a.focus \in a.live
      /\ a.renaming = NoLabel \/ h = OwnLabel(a.renaming)
  BY PressedAwayGood DEF Press, Inv
<1>2. \/ app' = a
      \/ app' = [a EXCEPT !.help = FALSE]
      \/ ~a.help /\ a.picker # "none" /\ app' = [a EXCEPT !.picker = "none"]
      \/ /\ ~a.help /\ (a.picker = "none" \/ PickerOwn(h))
         /\ app' \in DoPress(a, h, b, again)
  BY DEF Press
<1> HIDE DEF a
<1>3. Quiet(a, app') => Says(app, app')
  BY <1>1, SaysQuiet
<1>4. CASE app' = a
  BY <1>1, <1>4
<1>5. CASE app' = [a EXCEPT !.help = FALSE]
  <2>1. Good(app') /\ app'.did = a.did
    BY <1>1, <1>5, HelpClosed
  <2> QED BY <1>3, <2>1 DEF Quiet
<1>6. CASE ~a.help /\ a.picker # "none" /\ app' = [a EXCEPT !.picker = "none"]
  <2>1. a.renaming = NoLabel
    BY <1>1, <1>6 DEF Good, One
  <2>2. Good(app') /\ app'.did = a.did
    BY <1>1, <1>6, <2>1, PickerClosed
  <2> QED BY <1>3, <2>2 DEF Quiet
<1>7. CASE /\ ~a.help /\ (a.picker = "none" \/ PickerOwn(h))
           /\ app' \in DoPress(a, h, b, again)
  <2>1. (h[1] = "tab" => h[2] \in Tabs) /\ (h[1] = "panetitle" => h[2] \in Panes)
    BY DEF Inv, Shown
  <2>2. Good(app') /\ Quiet(a, app')
    BY <1>1, <1>7, <2>1, DoPressGood
  <2> QED BY <1>3, <2>2
<1> QED BY <1>2, <1>4, <1>5, <1>6, <1>7

\* The pointer moves, or the button comes up: the focus may follow.
LEMMA PointerStep ==
  ASSUME Inv, NEW h \in painted, Motion(h) \/ Release(h)
  PROVE  Good(app') /\ Says(app, app')
<1> DEFINE a == Begun(app)
           d == DragEnded(a)
<1>1. Good(a) /\ a.did = Idle
  BY BegunGood DEF Motion, Release, Inv
<1>2. app' \in {a, Focused(a, h[2]), d}
  <2>1. Motion(h) => app' \in {a, Focused(a, h[2])}
    BY DEF Motion
  <2>2. Release(h) => app' \in {a, Focused(a, h[2]), d}
    BY DEF Release
  <2> QED BY <2>1, <2>2
<1>3. Gestured(a, d, a.prefix, "none") /\ a.prefix \in BOOLEAN
  <2> HIDE DEF a
  <2>1. a \in AppType
    BY <1>1 DEF Good
  <2>2. d = [a EXCEPT !.prefix = a.prefix, !.drag = "none", !.name_click = a.name_click]
    BY <2>1 DEF DragEnded, AppType
  <2>3. a.prefix \in BOOLEAN /\ a.name_click \in Labels \cup {NoLabel}
    BY <2>1 DEF AppType
  <2> HIDE DEF d
  <2> QED BY <2>2, <2>3 DEF Gestured
<1> HIDE DEF a, d
<1>4. Good(d) /\ d.did = Idle
  BY <1>1, <1>3, GestureGood
<1>5. Good(Focused(a, h[2])) /\ Focused(a, h[2]).did = Idle
  BY <1>1, FocusedGood DEF Quiet
<1> QED BY <1>1, <1>2, <1>4, <1>5, SaysNothing

\* The rest: a paste, a frame, a death, another client, somebody leaving.
LEMMA OtherStep ==
  ASSUME Inv, Paste \/ Compose \/ Cancelled \/ Leaves \/ \E p \in Panes : Dies(p)
  PROVE  Good(app') /\ Says(app, app')
<1> DEFINE x == [app EXCEPT !.did = Idle]
<1>0. Good(app) /\ app \in AppType /\ Idle \in Dids
  BY DEF Inv, Good, Dids
<1>1. Good(x) /\ x.did = Idle /\ x.live = app.live
  BY <1>0, DidGood
<1>2. CASE Paste
  <2> DEFINE a == Begun(app)
             y == [a EXCEPT !.did = <<"sent", "paste">>]
  <2>1. Good(a) /\ app' = y /\ <<"sent", "paste">> \in Dids
    BY <1>0, <1>2, BegunGood DEF Paste, Did, Dids
  <2>2. Good(y) /\ y.did = <<"sent", "paste">>
    BY <2>1, DidGood
  <2> HIDE DEF y
  <2>3. y.did[1] = "sent" /\ y.did[2] = "paste"
    BY <2>2
  <2>4. Says(app, y)
    BY <2>3 DEF Says, NameSaid, KeySaid
  <2> QED BY <2>1, <2>2, <2>4
<1>3. CASE Compose
  <2> DEFINE c == SearchEnd(app)
  <2>1. app' = x \/ app' = [c EXCEPT !.did = Idle]
    BY <1>3 DEF Compose
  <2>2. Good(c)
    BY <1>0, SearchEndGood
  <2>3. Good([c EXCEPT !.did = Idle]) /\ [c EXCEPT !.did = Idle].did = Idle
    BY <1>0, <2>2, DidGood
  <2> HIDE DEF c, x
  <2> QED BY <1>1, <2>1, <2>3, SaysNothing
<1>4. CASE \E p \in Panes : Dies(p)
  <2>1. PICK p \in app.live : app' \in Without(x, p)
    BY <1>4 DEF Dies
  <2> HIDE DEF x
  <2>2. Good(app') /\ Quiet(x, app')
    BY <1>1, <2>1, WithoutGood
  <2> QED BY <1>1, <2>2, SaysNothing DEF Quiet
<1>5. CASE Cancelled \/ Leaves
  <2>1. \E p \in BOOLEAN, g \in {"none", "label", "select"} : Gestured(x, app', p, g)
    <3>1. Cancelled => Gestured(x, app', FALSE, "none")
      <4>1. Cancelled => app' = [x EXCEPT !.prefix = FALSE, !.drag = "none",
                                          !.name_click = app.name_click]
        BY <1>0 DEF Cancelled, DragEnded, AppType
      <4>2. app.name_click \in Labels \cup {NoLabel}
        BY <1>0 DEF AppType
      <4> HIDE DEF x
      <4> QED BY <4>1, <4>2 DEF Gestured
    <3>2. Leaves => Gestured(x, app', app.prefix, app.drag)
      <4>1. Leaves => app' = [x EXCEPT !.prefix = app.prefix, !.drag = app.drag,
                                       !.name_click = NoLabel]
        BY <1>0 DEF Leaves, AppType
      <4> HIDE DEF x
      <4> QED BY <4>1 DEF Gestured
    <3>3. app.prefix \in BOOLEAN /\ app.drag \in {"none", "label", "select"}
      BY <1>0 DEF AppType
    <3> HIDE DEF x
    <3> QED BY <1>5, <3>1, <3>2, <3>3
  <2> HIDE DEF x
  <2>2. Good(app') /\ app'.did = Idle
    BY <1>1, <2>1, GestureGood
  <2> QED BY <2>2, SaysNothing
<1> QED BY <1>2, <1>3, <1>4, <1>5

\* What a frame shows is there.
LEMMA HitsShown ==
  ASSUME NEW a, Good(a), NEW h \in Hits(a)
  PROVE  (h[1] = "tab" => h[2] \in Tabs) /\ (h[1] = "panetitle" => h[2] \in Panes)
<1>1. a.live \subseteq Panes
  BY DEF Good, AppType
<1>2. ASSUME h \in RowsOf(a) PROVE h[1] \in {"find", "run"}
  <2>1. CASE a.picker = "finder"
    BY <1>2, <2>1 DEF RowsOf
  <2>2. CASE a.picker = "palette"
    BY <1>2, <2>2 DEF RowsOf
  <2>3. CASE a.picker \notin {"finder", "palette"}
    BY <1>2, <2>3 DEF RowsOf
  <2> QED BY <2>1, <2>2, <2>3
<1>3. h \in PickerHits(a) => h[1] \in {"find", "run", "closepicker"}
  BY <1>2 DEF PickerHits
<1> QED BY <1>1, <1>3 DEF Hits, Nothing, Tabs

\* The session starts with nothing open.
LEMMA InitGood == Init => Inv
<1> SUFFICES ASSUME Init PROVE Inv
  OBVIOUS
<1>1. PICK f \in First : app = Fresh(First, f)
  BY DEF Init
<1>2. Good(app)
  BY <1>1, FreshGood
<1> QED BY <1>2 DEF Init, Inv, Shown

\* Every step keeps it, and says only what it may.
LEMMA StepGood == Inv /\ Next => Inv' /\ Says(app, app')
<1> SUFFICES ASSUME Inv, Next PROVE Inv' /\ Says(app, app')
  OBVIOUS
<1>1. Good(app') /\ Says(app, app')
  BY KeyStep, PressStep, PointerStep, OtherStep DEF Next, Inv
<1>2. Shown'
  <2>1. painted' = painted \/ painted' = {} \/ painted' = Hits(app')
    BY DEF Next, Key, Paste, Press, Motion, Release, Compose, Dies, Cancelled, Leaves
  <2> QED BY <1>1, <2>1, HitsShown DEF Inv, Shown
<1> QED BY <1>1, <1>2 DEF Inv

-----------------------------------------------------------------------------
(* The theorems.                                                           *)

(***************************************************************************)
(* The strengthened invariant holds of every state of the application.     *)
(***************************************************************************)
THEOREM Inductive == Spec => []Inv
<1>1. Inv /\ UNCHANGED vars => Inv'
  BY DEF vars, Inv, Shown
<1>2. Inv /\ [Next]_vars => Inv'
  BY <1>1, StepGood
<1> QED BY <1>2, InitGood, PTL DEF Spec

\* At most one of three is at most one.
LEMMA OneIsOne == ASSUME NEW a, One(a) PROVE Cardinality(Open(a) \ {"search"}) <= 1
<1> DEFINE S == Open(a) \ {"search"}
<1>1. \/ S = {} \/ S = {"rename"} \/ S = {"picker"} \/ S = {"help"}
  BY DEF One, Open
<1>2. Cardinality({}) = 0
  BY FS_EmptySet
<1>3. \A e : Cardinality({e}) = 1
  BY FS_Singleton
<1> HIDE DEF S
<1>4. Cardinality(S) = 0 \/ Cardinality(S) = 1
  <2>1. CASE S = {}
    BY <1>2, <2>1, Zenon
  <2>2. CASE S = {"rename"}
    BY <1>3, <2>2, Zenon
  <2>3. CASE S = {"picker"}
    BY <1>3, <2>3, Zenon
  <2>4. CASE S = {"help"}
    BY <1>3, <2>4, Zenon
  <2> QED BY <1>1, <2>1, <2>2, <2>3, <2>4, Zenon
<1>5. Cardinality(S) <= 1
  BY <1>4
<1> QED BY <1>5 DEF S

(***************************************************************************)
(* The keyboard never has two of the editor, the picker and the cheatsheet *)
(* to choose from, and matches are lit where a search is open and nowhere  *)
(* else, whatever the keys, the mouse, the frames and the dying panes do.  *)
(***************************************************************************)
THEOREM OverlaysKept == Spec => []Overlays
<1>1. Inv => Overlays
  <2> SUFFICES ASSUME Inv PROVE Overlays
    OBVIOUS
  <2>1. OneField
    BY OneIsOne DEF Inv, Good, OneField
  <2>2. Marked(app) => Highlight
    BY DEF Inv, Good, AppType, Marked, Highlight
  <2>3. app.over => Highlight
    BY DEF Highlight
  <2> QED BY <2>1, <2>2, <2>3 DEF Inv, Good, Lit, Overlays
<1> QED BY <1>1, Inductive, PTL

(***************************************************************************)
(* A label is set only to the text of an editor opened on that very label, *)
(* while what it names is there, by Enter or by a press elsewhere.         *)
(***************************************************************************)
THEOREM NamesAreMeant == Spec => NamesKept
<1> DEFINE Step ==
      app' # app /\ app'.did[1] = "named" =>
        /\ app.renaming = app'.did[2] /\ app.rename_buf = app'.did[3]
        /\ Exists(app, app.renaming) /\ app'.did[4] \in {"enter", "away"}
<1>1. Inv /\ [Next]_vars => [Step]_vars
  BY StepGood DEF Says, NameSaid
<1> QED BY <1>1, Inductive, PTL DEF Spec, NamesKept

(***************************************************************************)
(* A key reaches a program only when nothing with a subject was open, as   *)
(* the prefix only after the prefix, and never with a drag in progress.    *)
(***************************************************************************)
THEOREM KeysAreMeant == Spec => KeysAimed
<1> DEFINE Step ==
      app' # app /\ app'.did[1] = "sent" /\ app'.did[2] # "paste" =>
        /\ Open(StaleRename(app)) = {}
        /\ app'.did[2] = "prefix" <=> app.prefix
        /\ ~app'.prefix /\ app'.drag = "none"
<1>1. Inv /\ [Next]_vars => [Step]_vars
  BY StepGood DEF Says, KeySaid
<1> QED BY <1>1, Inductive, PTL DEF Spec, KeysAimed

-----------------------------------------------------------------------------
(* The configuration                                                       *)

\* The member of a set of one.
LEMMA TheOne == ASSUME NEW x PROVE The({x}) = x
BY DEF The

\* A set with zero and every next number holds all numbers.
LEMMA Onwards ==
  ASSUME NEW S \in SUBSET Nat, 0 \in S, \A i \in Nat : i \in S => i + 1 \in S
  PROVE  S = Nat
<1> SUFFICES ASSUME Nat \ S # {} PROVE FALSE
  OBVIOUS
<1>1. PICK x \in Nat \ S : \A y \in Nat \ S : ~(<<y, x>> \in OpToRel(<, Nat))
  BY WFMin, NatLessThanWellFounded
<1>2. x # 0 /\ x - 1 \in Nat /\ x - 1 < x /\ (x - 1) + 1 = x
  OBVIOUS
<1>3. x - 1 \in S
  BY <1>1, <1>2 DEF OpToRel
<1> QED BY <1>1, <1>2, <1>3

(* The loader that may go n deep, when inner goes one less. *)
Level(n, inner, d) ==
  [c \in Configurations |-> [f \in Files |->
     IF n = 0 THEN Refused(c) ELSE LoadInto(c, f, inner, d)]]

\* The loader's levels, as they are defined, are made of one another.
LEMMA LoaderLevels ==
  ASSUME NEW d
  PROVE  /\ \A c \in Configurations, f \in Files : Loader(d)[0][c][f] = Refused(c)
         /\ \A n \in 1 .. DepthMax + 1 : \A c \in Configurations, f \in Files :
              Loader(d)[n][c][f] = LoadInto(c, f, Loader(d)[n - 1], d)
<1> DEFINE N == DepthMax + 1
           F(h, n) == Level(n, h[n - 1], d)
           load == CHOOSE h : h = [n \in 0 .. N |-> F(h, n)]
           Has(n) == \E h : \A i \in 0 .. n : h[i] = F(h, i)
           S == {n \in Nat : Has(n)}
<1>0. N \in Nat /\ \A n \in 1 .. N : n \in 0 .. N /\ n # 0
  BY ConfigAssumption DEF ConfigAssumption
<1>a. \A x, y : Level(0, x, d) = Level(0, y, d)
  BY DEF Level
<1>1. 0 \in S
  <2> DEFINE h == [i \in {0} |-> Level(0, 0, d)]
  <2>1. h[0] = F(h, 0)
    BY <1>a
  <2>2. \A i \in 0 .. 0 : h[i] = F(h, i)
    BY <2>1
  <2> QED BY <2>2
<1>2. ASSUME NEW n \in Nat, n \in S PROVE n + 1 \in S
  <2>1. PICK h : \A i \in 0 .. n : h[i] = F(h, i)
    BY <1>2
  <2> DEFINE g == [i \in 0 .. n + 1 |-> IF i <= n THEN h[i] ELSE Level(n + 1, h[n], d)]
  <2>2. (\A i \in 0 .. n : g[i] = h[i]) /\ g[n + 1] = Level(n + 1, h[n], d)
    BY <1>2
  <2> HIDE DEF g
  <2>3. ASSUME NEW i \in 0 .. n + 1 PROVE g[i] = F(g, i)
    <3>1. CASE i = n + 1
      <4>1. i - 1 = n /\ n \in 0 .. n
        BY <3>1
      <4> QED BY <2>2, <3>1, <4>1
    <3>2. CASE i # n + 1 /\ i # 0
      <4>1. i \in 0 .. n /\ i - 1 \in 0 .. n
        BY <3>2
      <4> QED BY <2>1, <2>2, <4>1
    <3>3. CASE i = 0
      <4>1. 0 \in 0 .. n
        OBVIOUS
      <4>2. g[0] = Level(0, h[0 - 1], d)
        BY <2>1, <2>2, <4>1
      <4> QED BY <1>a, <3>3, <4>2
    <3> QED BY <3>1, <3>2, <3>3
  <2>4. Has(n + 1)
    BY <2>3
  <2> HIDE DEF Has
  <2> QED BY <2>4
<1>3. S \in SUBSET Nat
  OBVIOUS
<1> HIDE DEF S
<1>4. S = Nat
  BY <1>1, <1>2, <1>3, Onwards
<1>5. Has(N)
  BY <1>0, <1>4 DEF S
<1>6. PICK h : \A i \in 0 .. N : h[i] = F(h, i)
  BY <1>5
<1> HIDE DEF Has
<1> DEFINE g == [i \in 0 .. N |-> h[i]]
<1>7. g = [i \in 0 .. N |-> F(g, i)]
  <2>1. ASSUME NEW i \in 0 .. N PROVE g[i] = F(g, i)
    <3>1. CASE i = 0
      <4>1. g[0] = Level(0, h[0 - 1], d)
        BY <1>6, <3>1
      <4> QED BY <1>a, <3>1, <4>1
    <3>2. CASE i # 0
      <4>1. i - 1 \in 0 .. N
        BY <1>0, <3>2
      <4>2. g[i] = h[i] /\ g[i - 1] = h[i - 1]
        BY <4>1
      <4> HIDE DEF g
      <4> QED BY <1>6, <4>2
    <3> QED BY <3>1, <3>2
  <2> QED BY <2>1
<1> HIDE DEF g
<1>8. load = [i \in 0 .. N |-> F(load, i)]
  <2> DEFINE P(h1) == h1 = [i \in 0 .. N |-> F(h1, i)]
  <2>1. P(g)
    BY <1>7
  <2>2. P(CHOOSE h1 : P(h1))
    BY <2>1, Zenon
  <2> QED BY <2>2
<1>9. load = Loader(d)
  BY DEF Loader, Level
<1> HIDE DEF load
<1>10. \A n \in 0 .. N : Loader(d)[n] = Level(n, Loader(d)[n - 1], d)
  BY <1>8, <1>9
<1>11. ASSUME NEW n, NEW x, NEW c \in Configurations, NEW f \in Files
       PROVE  Level(n, x, d)[c][f] = IF n = 0 THEN Refused(c) ELSE LoadInto(c, f, x, d)
  BY DEF Level
<1>12. 0 \in 0 .. N
  BY <1>0
<1>13. ASSUME NEW c \in Configurations, NEW f \in Files
       PROVE  Loader(d)[0][c][f] = Refused(c)
  BY <1>10, <1>11, <1>12
<1>14. ASSUME NEW n \in 1 .. N, NEW c \in Configurations, NEW f \in Files
       PROVE  Loader(d)[n][c][f] = LoadInto(c, f, Loader(d)[n - 1], d)
  <2>1. n \in 0 .. N /\ n # 0
    BY <1>0
  <2> QED BY <1>10, <1>11, <2>1
<1> QED BY <1>13, <1>14

\* Files that are included are read one after another.
LEMMA IncludesFollow ==
  ASSUME NEW c, NEW files \in Seq(Files), NEW inner
  PROVE  LET over == Overlaid(c, files, inner)
         IN  over[0] = c /\ \A i \in 1 .. Len(files) : over[i] = inner[over[i - 1]][files[i]].c
<1> DEFINE N == Len(files)
           F(h, n) == IF n = 0 THEN c ELSE inner[h[n - 1]][files[n]].c
           over == CHOOSE h : h = [n \in 0 .. N |-> F(h, n)]
           Has(n) == \E h : h[0] = c /\ \A i \in 1 .. n : h[i] = inner[h[i - 1]][files[i]].c
           S == {n \in Nat : Has(n)}
<1>0. N \in Nat
  OBVIOUS
<1>1. 0 \in S
  <2> DEFINE h == [i \in {0} |-> c]
  <2>1. h[0] = c /\ \A i \in 1 .. 0 : h[i] = inner[h[i - 1]][files[i]].c
    OBVIOUS
  <2> QED BY <2>1
<1>2. ASSUME NEW n \in Nat, n \in S PROVE n + 1 \in S
  <2>1. PICK h : h[0] = c /\ \A i \in 1 .. n : h[i] = inner[h[i - 1]][files[i]].c
    BY <1>2
  <2> DEFINE g == [i \in 0 .. n + 1 |-> IF i <= n THEN h[i] ELSE inner[h[n]][files[n + 1]].c]
  <2>2. (\A i \in 0 .. n : g[i] = h[i]) /\ g[n + 1] = inner[h[n]][files[n + 1]].c
    BY <1>2
  <2> HIDE DEF g
  <2>3. ASSUME NEW i \in 1 .. n + 1 PROVE g[i] = inner[g[i - 1]][files[i]].c
    <3>1. CASE i = n + 1
      <4>1. i - 1 = n /\ n \in 0 .. n
        BY <3>1
      <4> QED BY <2>2, <3>1, <4>1
    <3>2. CASE i # n + 1
      <4>1. i \in 1 .. n /\ i \in 0 .. n /\ i - 1 \in 0 .. n
        BY <3>2
      <4> QED BY <2>1, <2>2, <4>1
    <3> QED BY <3>1, <3>2
  <2>4. g[0] = c
    <3>1. 0 \in 0 .. n
      OBVIOUS
    <3> QED BY <2>1, <2>2, <3>1
  <2>5. Has(n + 1)
    BY <2>3, <2>4
  <2> HIDE DEF Has
  <2> QED BY <2>5
<1>3. S \in SUBSET Nat
  OBVIOUS
<1> HIDE DEF S
<1>4. S = Nat
  BY <1>1, <1>2, <1>3, Onwards
<1>5. Has(N)
  BY <1>0, <1>4 DEF S
<1>6. PICK h : h[0] = c /\ \A i \in 1 .. N : h[i] = inner[h[i - 1]][files[i]].c
  BY <1>5
<1> HIDE DEF Has
<1> DEFINE g == [i \in 0 .. N |-> h[i]]
<1>7. g = [i \in 0 .. N |-> F(g, i)]
  <2>1. ASSUME NEW i \in 0 .. N PROVE g[i] = F(g, i)
    <3>1. CASE i = 0
      BY <1>6, <3>1
    <3>2. CASE i # 0
      <4>1. i - 1 \in 0 .. N /\ i \in 1 .. N
        BY <1>0, <3>2
      <4>2. g[i - 1] = h[i - 1] /\ g[i] = h[i]
        BY <4>1
      <4> HIDE DEF g
      <4> QED BY <1>6, <3>2, <4>1, <4>2
    <3> QED BY <3>1, <3>2
  <2>2. g = [i \in 0 .. N |-> g[i]]
    OBVIOUS
  <2> HIDE DEF g, F, N
  <2> QED BY <2>1, <2>2
<1>8. over = [i \in 0 .. N |-> F(over, i)]
  <2> HIDE DEF g
  <2> QED BY <1>7
<1>9. Overlaid(c, files, inner) = over
  BY DEF Overlaid
<1> HIDE DEF over
<1>10. \A i \in 0 .. N : over[i] = F(over, i)
  BY <1>8
<1>11. over[0] = c
  <2>1. 0 \in 0 .. N
    BY <1>0
  <2> QED BY <1>10, <2>1
<1>12. ASSUME NEW i \in 1 .. N PROVE over[i] = inner[over[i - 1]][files[i]].c
  <2>1. i \in 0 .. N /\ i # 0
    BY <1>0
  <2> QED BY <1>10, <2>1
<1> QED BY <1>9, <1>11, <1>12

(* Two configurations that differ in nothing but these fields. *)
Alike(a, b) == a.val = b.val /\ a.declared = b.declared /\ a.theme = b.theme /\ a.dir = b.dir

(* A configuration remembers what it asked for, and no more than it may. *)
FilesKept(c) == c.files \subseteq c.asked /\ Cardinality(c.files) <= FilesMax

Coherent(c) == c \in Configurations /\ MixedRight(c) /\ FilesKept(c)

\* A complaint changes nothing else.
LEMMA ComplaintOnly ==
  ASSUME NEW c \in Configurations
  PROVE  /\ Complained(c) \in Configurations /\ Alike(Complained(c), c)
         /\ Complained(c).files = c.files /\ Complained(c).asked = c.asked /\ Complained(c).bad = TRUE
BY DEF Complained, Configurations, Alike

\* Remembering a file changes nothing else.
LEMMA RememberOnly ==
  ASSUME NEW c \in Configurations, NEW f \in Files, NEW d
  PROVE  /\ Remember(c, f, d) \in Configurations /\ Alike(Remember(c, f, d), c)
         /\ Remember(c, f, d).bad = c.bad
BY DEF Remember, Configurations, Alike

\* What is remembered is bounded.
LEMMA RememberBounded ==
  ASSUME NEW c \in Configurations, NEW f \in Files, NEW d, FilesKept(c)
  PROVE  FilesKept(Remember(c, f, d))
<1>1. /\ Remember(c, f, d).asked = c.asked \cup {f}
      /\ Remember(c, f, d).files = IF Cardinality(c.files) < FilesMax THEN c.files \cup {f} ELSE c.files
  BY DEF Remember, Configurations
<1>2. IsFiniteSet(c.files)
  BY FS_Subset, ConfigAssumption DEF ConfigAssumption, Configurations
<1>3. Cardinality(c.files) \in Nat /\ FilesMax \in Nat
  BY <1>2, FS_CardinalityType, ConfigAssumption DEF ConfigAssumption
<1>4. Cardinality(c.files \cup {f}) = IF f \in c.files THEN Cardinality(c.files) ELSE Cardinality(c.files) + 1
  BY <1>2, FS_AddElement
<1>5. CASE Cardinality(c.files) < FilesMax
  BY <1>1, <1>3, <1>4, <1>5 DEF FilesKept
<1>6. CASE ~(Cardinality(c.files) < FilesMax)
  BY <1>1, <1>6 DEF FilesKept
<1> QED BY <1>5, <1>6

Values == [Slots -> {"set", "mixed"} \X (Files \cup {NoFile})]

\* A file gives the settings it names and leaves the others.
LEMMA NamedGiven ==
  ASSUME NEW val \in Values, NEW f \in Files, NEW t, NEW slots
  PROVE  /\ NamedBy(val, f, t, slots) \in Values
         /\ \A s \in Slots : NamedBy(val, f, t, slots)[s] = IF s \in slots /\ s \in t.sets THEN <<"set", f>> ELSE val[s]
<1>1. <<"set", f>> \in {"set", "mixed"} \X (Files \cup {NoFile})
  OBVIOUS
<1> QED BY <1>1 DEF NamedBy, Values

\* What is mixed is a value.
LEMMA MixedValue ==
  ASSUME NEW val \in Values, NEW s \in Slots
  PROVE  /\ Mixed(val[s]) \in {"set", "mixed"} \X (Files \cup {NoFile})
         /\ Mixed(val[s])[1] = "mixed"
BY DEF Mixed, Values

(* The settings after each part of a file was read. *)
SlotsAre(v, dim, bind, colour, status, scrolled, unfocused) ==
  /\ v \in Values
  /\ v["dim"] = dim /\ v["bind"] = bind /\ v["colour"] = colour
  /\ v["status"] = status /\ v["scrolled"] = scrolled /\ v["unfocused"] = unfocused

\* What each part of a file makes of the settings.
LEMMA AppliedSlots ==
  ASSUME NEW c \in Configurations, NEW f \in Files, NEW t \in FileTexts
  PROVE  LET said   == c.declared \/ "scrolled" \in t.sets
             give(s) == IF s \in t.sets THEN <<"set", f>> ELSE c.val[s]
         IN  /\ Applied(c, f, t) \in Configurations
             /\ SlotsAre(Applied(c, f, t).val, give("dim"), give("bind"), give("colour"),
                         IF "colour" \in t.sets /\ "status" \notin t.sets THEN Mixed(give("colour")) ELSE give("status"),
                         IF said THEN give("scrolled") ELSE Mixed(give("colour")),
                         IF "unfocused" \in t.sets THEN give("unfocused") ELSE Mixed(give("dim")))
             /\ Applied(c, f, t).declared = said /\ Applied(c, f, t).theme = c.theme
             /\ Applied(c, f, t).dir = c.dir /\ Applied(c, f, t).files = c.files
             /\ Applied(c, f, t).asked = c.asked /\ Applied(c, f, t).bad = (c.bad \/ t.odd)
<1> DEFINE said == c.declared \/ "scrolled" \in t.sets
           give(s) == IF s \in t.sets THEN <<"set", f>> ELSE c.val[s]
           v1 == SettingsRead(c.val, f, t)
           v2 == ChainsRead(v1, f, t)
           v3 == ThemeBlock(v2, f, t)
           v4 == Washed(v3, said)
           v5 == BindsRead(v4, f, t)
<1>0. /\ c.val \in Values /\ t.sets \subseteq Slots
      /\ \A s \in {"dim", "bind", "colour", "status", "scrolled", "unfocused"} : s \in Slots
  BY DEF Configurations, FileTexts, Values, Slots
<1>1. SlotsAre(v1, give("dim"), c.val["bind"], c.val["colour"], c.val["status"], c.val["scrolled"], c.val["unfocused"])
  BY <1>0, NamedGiven DEF SettingsRead, SlotsAre
<1>2. SlotsAre(v2, give("dim"), c.val["bind"], c.val["colour"], c.val["status"], give("scrolled"),
               IF "unfocused" \in t.sets THEN give("unfocused") ELSE Mixed(give("dim")))
  <2> DEFINE v == NamedBy(v1, f, t, {"scrolled", "unfocused"})
  <2>1. SlotsAre(v, give("dim"), c.val["bind"], c.val["colour"], c.val["status"], give("scrolled"), give("unfocused"))
    <3> HIDE DEF v1
    <3> QED BY <1>0, <1>1, NamedGiven DEF SlotsAre
  <2>2. v2 = IF "unfocused" \in t.sets THEN v ELSE [v EXCEPT !["unfocused"] = Mixed(v1["dim"])]
    BY DEF ChainsRead
  <2>3. Mixed(v1["dim"]) \in {"set", "mixed"} \X (Files \cup {NoFile}) /\ v1["dim"] = give("dim")
    BY <1>0, <1>1, MixedValue DEF SlotsAre
  <2> HIDE DEF v, v1, v2
  <2> QED BY <1>0, <2>1, <2>2, <2>3 DEF SlotsAre, Values
<1>3. SlotsAre(v3, give("dim"), c.val["bind"], give("colour"),
               IF "colour" \in t.sets /\ "status" \notin t.sets THEN Mixed(give("colour")) ELSE give("status"),
               give("scrolled"), IF "unfocused" \in t.sets THEN give("unfocused") ELSE Mixed(give("dim")))
  <2> DEFINE v == NamedBy(v2, f, t, {"colour", "status"})
  <2>1. SlotsAre(v, give("dim"), c.val["bind"], give("colour"), give("status"), give("scrolled"),
                 IF "unfocused" \in t.sets THEN give("unfocused") ELSE Mixed(give("dim")))
    <3> HIDE DEF v2
    <3> QED BY <1>0, <1>2, NamedGiven DEF SlotsAre
  <2>2. v3 = IF t.sets \cap {"colour", "status"} = {"colour"} THEN [v EXCEPT !["status"] = Mixed(v["colour"])] ELSE v
    BY DEF ThemeBlock
  <2>3. t.sets \cap {"colour", "status"} = {"colour"} <=> "colour" \in t.sets /\ "status" \notin t.sets
    OBVIOUS
  <2>4. Mixed(v["colour"]) \in {"set", "mixed"} \X (Files \cup {NoFile}) /\ v["colour"] = give("colour")
    BY <1>0, <2>1, MixedValue DEF SlotsAre
  <2> HIDE DEF v, v2, v3
  <2> QED BY <1>0, <2>1, <2>2, <2>3, <2>4 DEF SlotsAre, Values
<1>4. SlotsAre(v4, give("dim"), c.val["bind"], give("colour"),
               IF "colour" \in t.sets /\ "status" \notin t.sets THEN Mixed(give("colour")) ELSE give("status"),
               IF said THEN give("scrolled") ELSE Mixed(give("colour")),
               IF "unfocused" \in t.sets THEN give("unfocused") ELSE Mixed(give("dim")))
  <2>1. v4 = IF said THEN v3 ELSE [v3 EXCEPT !["scrolled"] = Mixed(v3["colour"])]
    BY DEF Washed
  <2>2. Mixed(v3["colour"]) \in {"set", "mixed"} \X (Files \cup {NoFile}) /\ v3["colour"] = give("colour")
    BY <1>0, <1>3, MixedValue DEF SlotsAre
  <2> HIDE DEF v3, v4, said
  <2> QED BY <1>0, <1>3, <2>1, <2>2 DEF SlotsAre, Values
<1>5. SlotsAre(v5, give("dim"), give("bind"), give("colour"),
               IF "colour" \in t.sets /\ "status" \notin t.sets THEN Mixed(give("colour")) ELSE give("status"),
               IF said THEN give("scrolled") ELSE Mixed(give("colour")),
               IF "unfocused" \in t.sets THEN give("unfocused") ELSE Mixed(give("dim")))
  <2> HIDE DEF v4, said
  <2> QED BY <1>0, <1>4, NamedGiven DEF SlotsAre, BindsRead
<1>6. Applied(c, f, t) = [c EXCEPT !.declared = said, !.bad = @ \/ t.odd, !.val = v5]
  <2>1. {SettingsRead(c.val, f, t)} = {v1}
    OBVIOUS
  <2>2. {ChainsRead(w, f, t) : w \in {v1}} = {v2}
    OBVIOUS
  <2>3. {ThemeBlock(v, f, t) : v \in {v2}} = {v3}
    OBVIOUS
  <2>4. {BindsRead(v, f, t) : v \in {Washed(w, said) : w \in {v3}}} = {v5}
    OBVIOUS
  <2>5. The({BindsRead(v, f, t) : v \in {Washed(w, said) : w \in {ThemeBlock(v, f, t) : v \in {ChainsRead(w, f, t) : w \in {SettingsRead(c.val, f, t)}}}}}) = v5
    <3> HIDE DEF v1, v2, v3, v5
    <3> QED BY <2>1, <2>2, <2>3, <2>4, TheOne
  <2> HIDE DEF v5
  <2> QED BY <2>5 DEF Applied
<1>7. v5 \in Values /\ said \in BOOLEAN /\ (c.bad \/ t.odd) \in BOOLEAN
  <2>1. v5 \in Values
    BY <1>5 DEF SlotsAre
  <2>2. said \in BOOLEAN /\ (c.bad \/ t.odd) \in BOOLEAN
    BY DEF Configurations, FileTexts
  <2> QED BY <2>1, <2>2
<1> HIDE DEF v5, said
<1>8. /\ Applied(c, f, t) \in Configurations /\ Applied(c, f, t).val = v5
      /\ Applied(c, f, t).declared = said /\ Applied(c, f, t).theme = c.theme
      /\ Applied(c, f, t).dir = c.dir /\ Applied(c, f, t).files = c.files
      /\ Applied(c, f, t).asked = c.asked /\ Applied(c, f, t).bad = (c.bad \/ t.odd)
  BY <1>6, <1>7 DEF Configurations, Values
<1> QED BY <1>5, <1>8 DEF said

\* What a file says itself leaves what is mixed mixed from what is there.
LEMMA AppliedCoherent ==
  ASSUME NEW c, Coherent(c), NEW f \in Files, NEW t \in FileTexts
  PROVE  Coherent(Applied(c, f, t))
<1>1. c \in Configurations /\ MixedRight(c) /\ FilesKept(c)
  BY DEF Coherent
<1> DEFINE a == Applied(c, f, t)
           give(s) == IF s \in t.sets THEN <<"set", f>> ELSE c.val[s]
<1>2. /\ a \in Configurations /\ a.files = c.files /\ a.asked = c.asked
      /\ a.declared = (c.declared \/ "scrolled" \in t.sets)
      /\ SlotsAre(a.val, give("dim"), give("bind"), give("colour"),
                  IF "colour" \in t.sets /\ "status" \notin t.sets THEN Mixed(give("colour")) ELSE give("status"),
                  IF c.declared \/ "scrolled" \in t.sets THEN give("scrolled") ELSE Mixed(give("colour")),
                  IF "unfocused" \in t.sets THEN give("unfocused") ELSE Mixed(give("dim")))
  BY <1>1, AppliedSlots
<1> HIDE DEF a
<1>3. FilesKept(a)
  BY <1>1, <1>2 DEF FilesKept
<1>4. /\ c.declared \in BOOLEAN
      /\ \A s \in Slots : give(s)[1] \in {"set", "mixed"} /\ Mixed(give(s))[1] = "mixed"
  BY <1>1 DEF Configurations, Mixed
<1>5. /\ a.val["status"][1] = "mixed"    => a.val["status"]    = Mixed(a.val["colour"])
      /\ a.val["unfocused"][1] = "mixed" => a.val["unfocused"] = Mixed(a.val["dim"])
  BY <1>1, <1>2 DEF SlotsAre, MixedRight
<1>6. /\ a.val["scrolled"][1] = "mixed"  => a.val["scrolled"]  = Mixed(a.val["colour"])
      /\ a.declared <=> a.val["scrolled"][1] = "set"
  <2>1. "scrolled" \in Slots /\ "colour" \in Slots
    BY DEF Slots
  <2>2. CASE "scrolled" \in t.sets
    <3>1. a.val["scrolled"] = <<"set", f>> /\ a.declared = TRUE
      BY <1>2, <2>2 DEF SlotsAre
    <3>2. <<"set", f>>[1] = "set" /\ "set" # "mixed"
      OBVIOUS
    <3> QED BY <3>1, <3>2
  <2>3. CASE "scrolled" \notin t.sets /\ c.declared
    BY <1>1, <1>2, <2>3 DEF SlotsAre, MixedRight
  <2>4. CASE "scrolled" \notin t.sets /\ ~c.declared
    BY <1>2, <1>4, <2>1, <2>4 DEF SlotsAre
  <2> QED BY <2>2, <2>3, <2>4
<1> QED BY <1>2, <1>3, <1>5, <1>6 DEF Coherent, MixedRight, a

\* Two that are alike are coherent together.
LEMMA AlikeMixed == ASSUME NEW a, NEW b, Alike(a, b), MixedRight(b) PROVE MixedRight(a)
BY DEF Alike, MixedRight

\* A complaint, and remembering a file, keep a configuration coherent.
LEMMA ComplaintCoherent == ASSUME NEW c, Coherent(c) PROVE Coherent(Complained(c))
<1>1. c \in Configurations
  BY DEF Coherent
<1>2. FilesKept(Complained(c))
  BY <1>1, ComplaintOnly DEF Coherent, FilesKept
<1> QED BY <1>1, <1>2, ComplaintOnly, AlikeMixed DEF Coherent

\* A file remembered leaves a configuration coherent.
LEMMA RememberCoherent == ASSUME NEW c, Coherent(c), NEW f \in Files, NEW d PROVE Coherent(Remember(c, f, d))
<1>1. c \in Configurations
  BY DEF Coherent
<1> QED BY <1>1, RememberOnly, RememberBounded, AlikeMixed DEF Coherent

(* What comes of reading is a configuration, coherent if it was, and with a *)
(* theme if it had one.                                                     *)
Holds(a, c) ==
  /\ a \in Configurations /\ (Coherent(c) => Coherent(a))
  /\ c.theme # None => a.theme # None

(* A loader of which that is so. *)

Sound(inner) == \A c \in Configurations : \A f \in Files : Holds(inner[c][f].c, c)

\* Holding is transitive.
LEMMA HoldsOn == ASSUME NEW a, NEW b, NEW c, Holds(b, c), Holds(a, b) PROVE Holds(a, c)
BY DEF Holds

\* A theme's file is a file.
LEMMA ThemeFileKnown == ASSUME NEW c, NEW name, NEW d PROVE ThemeFile(c, name, d) \in Files \cup {NoFile}
BY DEF ThemeFile

\* Naming a theme or its directory.
LEMMA NamingHolds ==
  ASSUME NEW c \in Configurations
  PROVE  /\ \A name \in Themes : Holds([c EXCEPT !.theme = name], c)
         /\ \A dir \in Dirs : Holds([c EXCEPT !.dir = dir], c)
<1>0. None \notin Themes
  BY ConfigAssumption DEF ConfigAssumption
<1>1. ASSUME NEW name \in Themes PROVE Holds([c EXCEPT !.theme = name], c)
  <2> DEFINE a == [c EXCEPT !.theme = name]
  <2>1. a \in Configurations /\ a.theme # None /\ a.val = c.val /\ a.declared = c.declared /\ a.files = c.files /\ a.asked = c.asked
    BY <1>0 DEF Configurations
  <2> HIDE DEF a
  <2>2. Holds(a, c)
    BY <2>1 DEF Holds, Coherent, MixedRight, FilesKept
  <2> QED BY <2>2 DEF a
<1>2. ASSUME NEW dir \in Dirs PROVE Holds([c EXCEPT !.dir = dir], c)
  <2> DEFINE a == [c EXCEPT !.dir = dir]
  <2>1. a \in Configurations /\ a.theme = c.theme /\ a.val = c.val /\ a.declared = c.declared /\ a.files = c.files /\ a.asked = c.asked
    BY DEF Configurations
  <2> HIDE DEF a
  <2>2. Holds(a, c)
    BY <2>1 DEF Holds, Coherent, MixedRight, FilesKept
  <2> QED BY <2>2 DEF a
<1> QED BY <1>1, <1>2

\* A theme applied by name comes to a configuration that holds.
LEMMA ThemeHolds ==
  ASSUME NEW c \in Configurations, NEW name \in Themes, NEW inner, Sound(inner), NEW d
  PROVE  Holds(ThemeApplied(c, name, inner, d), c)
<1>1. CASE ThemeFile(c, name, d) = NoFile
  <2>1. Holds(Complained(c), c)
    BY ComplaintOnly, ComplaintCoherent DEF Holds, Alike
  <2> QED BY <1>1, <2>1 DEF ThemeApplied
<1>2. CASE ThemeFile(c, name, d) # NoFile
  <2>1. PICK a : a = [c EXCEPT !.theme = name]
    OBVIOUS
  <2>2. PICK f : f = ThemeFile(c, name, d)
    OBVIOUS
  <2>3. Holds(a, c) /\ a \in Configurations
    BY <2>1, NamingHolds DEF Holds
  <2>4. f \in Files
    BY <1>2, <2>2, ThemeFileKnown
  <2>5. Holds(inner[a][f].c, a)
    BY <2>3, <2>4 DEF Sound
  <2>6. Holds(inner[a][f].c, c)
    BY <2>3, <2>5, HoldsOn
  <2> QED BY <1>2, <2>1, <2>2, <2>6 DEF ThemeApplied
<1> QED BY <1>1, <1>2

\* So does what a file asks for: a theme directory, a theme, or both.
LEMMA AskedHolds ==
  ASSUME NEW c \in Configurations, NEW t \in FileTexts, NEW inner, Sound(inner), NEW d
  PROVE  Holds(Asked(c, t, inner, d), c)
<1>1. PICK e : e = IF t.dir # None THEN [c EXCEPT !.dir = t.dir] ELSE c
  OBVIOUS
<1>2. t.dir \in Dirs /\ t.theme \in Themes \cup {None}
  BY DEF FileTexts
<1>3. Holds(e, c)
  <2>1. Holds(c, c)
    BY DEF Holds
  <2> QED BY <1>1, <1>2, <2>1, NamingHolds
<1>4. CASE t.theme = None
  BY <1>1, <1>3, <1>4 DEF Asked
<1>5. CASE t.theme # None
  <2>1. Asked(c, t, inner, d) = ThemeApplied(e, t.theme, inner, d)
    BY <1>1, <1>5 DEF Asked
  <2>2. e \in Configurations /\ t.theme \in Themes
    BY <1>2, <1>3, <1>5 DEF Holds
  <2>3. Holds(ThemeApplied(e, t.theme, inner, d), e)
    BY <2>2, ThemeHolds
  <2> QED BY <1>3, <2>1, <2>3, HoldsOn
<1> QED BY <1>4, <1>5

\* So does each include laid over the one before.
LEMMA OverlaidHolds ==
  ASSUME NEW c \in Configurations, NEW files \in Seq(Files), NEW inner, Sound(inner)
  PROVE  \A i \in 0 .. Len(files) : Holds(Overlaid(c, files, inner)[i], c)
<1> DEFINE over == Overlaid(c, files, inner)
           S == {i \in Nat : i <= Len(files) => Holds(over[i], c)}
<1>1. over[0] = c /\ \A i \in 1 .. Len(files) : over[i] = inner[over[i - 1]][files[i]].c
  BY IncludesFollow
<1> HIDE DEF over
<1>2. 0 \in S
  BY <1>1 DEF Holds
<1>3. ASSUME NEW i \in Nat, i \in S PROVE i + 1 \in S
  <2>1. SUFFICES ASSUME i + 1 <= Len(files) PROVE Holds(over[i + 1], c)
    OBVIOUS
  <2>2. Len(files) \in Nat /\ i + 1 \in 1 .. Len(files) /\ (i + 1) - 1 = i /\ i <= Len(files)
    BY <2>1
  <2>3. Holds(over[i], c) /\ files[i + 1] \in Files /\ over[i + 1] = inner[over[i]][files[i + 1]].c
    BY <1>1, <1>3, <2>2
  <2>4. Holds(over[i + 1], over[i])
    BY <2>3 DEF Sound, Holds
  <2> QED BY <2>3, <2>4, HoldsOn
<1>4. S \in SUBSET Nat
  OBVIOUS
<1>5. S = Nat
  <2> HIDE DEF S
  <2> QED BY <1>2, <1>3, <1>4, Onwards
<1>6. ASSUME NEW i \in 0 .. Len(files) PROVE Holds(over[i], c)
  <2>1. i \in Nat /\ i <= Len(files)
    OBVIOUS
  <2> QED BY <1>5, <2>1
<1> QED BY <1>6 DEF over

\* A file that is not read is a complaint.
LEMMA RefusedIs == ASSUME NEW c PROVE Refused(c).c = Complained(c) /\ Refused(c).ok = FALSE
BY DEF Refused

\* What comes of reading a file: its includes, the theme it asks for, what it says itself.
LEMMA LoadedText ==
  ASSUME NEW c, NEW f, NEW inner, NEW d, d[f].state = "text"
  PROVE  /\ LoadInto(c, f, inner, d).ok = TRUE
         /\ LoadInto(c, f, inner, d).c =
              Applied(Asked(Included(Remember(c, f, d), d[f].includes, inner), d[f], inner, d), f, d[f])
<1>1. PICK t : t = d[f]
  OBVIOUS
<1>2. PICK r : r = Remember(c, f, d)
  OBVIOUS
<1>3. PICK base : base = Included(r, t.includes, inner)
  OBVIOUS
<1>4. PICK e : e = Asked(base, t, inner, d)
  OBVIOUS
<1>5. OwnText(base, f, t, inner, d) = Applied(e, f, t)
  <2>1. {Applied(x, f, t) : x \in {e}} = {Applied(e, f, t)}
    OBVIOUS
  <2> QED BY <1>4, <2>1, TheOne DEF OwnText
<1>6. The({OwnText(x, f, t, inner, d) : x \in {base}}) = Applied(e, f, t)
  <2>1. {OwnText(x, f, t, inner, d) : x \in {base}} = {OwnText(base, f, t, inner, d)}
    OBVIOUS
  <2> QED BY <1>5, <2>1, TheOne
<1>7. LoadInto(c, f, inner, d) = [ok |-> TRUE, c |-> Applied(e, f, t)]
  BY <1>1, <1>2, <1>3, <1>6 DEF LoadInto
<1> QED BY <1>1, <1>2, <1>3, <1>4, <1>7

\* What is not a text is refused.
LEMMA LoadedNot ==
  ASSUME NEW c, NEW f, NEW inner, NEW d, d[f].state # "text"
  PROVE  LoadInto(c, f, inner, d) = Refused(Remember(c, f, d))
BY DEF LoadInto

\* So does a file that is loaded, whatever it includes and asks for.
LEMMA LoadHolds ==
  ASSUME NEW c \in Configurations, NEW f \in Files, NEW inner, Sound(inner), NEW d \in [Files -> FileTexts]
  PROVE  Holds(LoadInto(c, f, inner, d).c, c)
<1>1. PICK r : r = Remember(c, f, d)
  OBVIOUS
<1>2. Holds(r, c) /\ r \in Configurations
  BY <1>1, RememberOnly, RememberCoherent DEF Holds, Alike
<1>3. PICK t : t = d[f]
  OBVIOUS
<1>4. t \in FileTexts /\ t.includes \in Seq(Files)
  BY <1>3 DEF FileTexts
<1>5. CASE t.state # "text"
  <2>1. LoadInto(c, f, inner, d).c = Complained(r)
    BY <1>1, <1>3, <1>5, LoadedNot, RefusedIs
  <2>2. Holds(Complained(r), r)
    BY <1>2, ComplaintOnly, ComplaintCoherent DEF Holds, Alike
  <2> QED BY <1>2, <2>1, <2>2, HoldsOn
<1>6. CASE t.state = "text"
  <2>1. PICK base : base = Included(r, t.includes, inner)
    OBVIOUS
  <2>2. Holds(base, r)
    <3>1. Len(t.includes) \in 0 .. Len(t.includes)
      BY <1>4
    <3> QED BY <1>2, <1>4, <2>1, <3>1, OverlaidHolds DEF Included
  <2>3. PICK e : e = Asked(base, t, inner, d)
    OBVIOUS
  <2>4. Holds(e, base)
    BY <1>4, <2>2, <2>3, AskedHolds DEF Holds
  <2>5. Holds(Applied(e, f, t), e)
    BY <1>4, <2>4, AppliedSlots, AppliedCoherent DEF Holds
  <2>6. LoadInto(c, f, inner, d).c = Applied(e, f, t)
    <3>1. base = Included(Remember(c, f, d), t.includes, inner)
      BY <1>1, <2>1
    <3> QED BY <1>3, <1>6, <2>3, <3>1, LoadedText
  <2>7. Holds(e, r) /\ Holds(Applied(e, f, t), r)
    BY <2>2, <2>4, <2>5, HoldsOn
  <2> QED BY <1>2, <2>6, <2>7, HoldsOn
<1> QED BY <1>5, <1>6

\* However deep it goes, the loader gives configurations, coherent ones from coherent ones.
LEMMA LoaderSound ==
  ASSUME NEW d \in [Files -> FileTexts]
  PROVE  \A n \in 0 .. DepthMax + 1 : Sound(Loader(d)[n])
<1> DEFINE S == {n \in Nat : n <= DepthMax + 1 => Sound(Loader(d)[n])}
<1>0. DepthMax + 1 \in Nat
  BY ConfigAssumption DEF ConfigAssumption
<1>1. 0 \in S
  <2>1. ASSUME NEW c \in Configurations, NEW f \in Files PROVE Holds(Loader(d)[0][c][f].c, c)
    <3>1. Loader(d)[0][c][f].c = Complained(c)
      BY LoaderLevels, RefusedIs
    <3> QED BY <3>1, ComplaintOnly, ComplaintCoherent DEF Holds, Alike
  <2> QED BY <2>1 DEF Sound
<1>2. ASSUME NEW n \in Nat, n \in S PROVE n + 1 \in S
  <2>1. SUFFICES ASSUME n + 1 <= DepthMax + 1 PROVE Sound(Loader(d)[n + 1])
    OBVIOUS
  <2>2. n + 1 \in 1 .. DepthMax + 1 /\ (n + 1) - 1 = n /\ n <= DepthMax + 1
    BY <1>0, <2>1
  <2>3. Sound(Loader(d)[n])
    BY <1>2, <2>2
  <2>4. ASSUME NEW c \in Configurations, NEW f \in Files PROVE Holds(Loader(d)[n + 1][c][f].c, c)
    <3>1. Loader(d)[n + 1][c][f] = LoadInto(c, f, Loader(d)[n], d)
      BY <2>2, LoaderLevels
    <3> QED BY <2>3, <3>1, LoadHolds
  <2> QED BY <2>4 DEF Sound
<1>3. S \in SUBSET Nat
  OBVIOUS
<1>4. S = Nat
  <2> HIDE DEF S
  <2> QED BY <1>1, <1>2, <1>3, Onwards
<1> QED BY <1>0, <1>4

\* Levels below the root.
LEMMA Levels ==
  /\ DepthMax \in 0 .. DepthMax + 1 /\ DepthMax + 1 \in 0 .. DepthMax + 1 /\ DepthMax + 1 - 0 = DepthMax + 1
  /\ DepthMax \in 1 .. DepthMax + 1 /\ DepthMax + 1 \in 1 .. DepthMax + 1
  /\ (DepthMax + 1) - 1 = DepthMax /\ DepthMax - 1 \in 0 .. DepthMax + 1
BY ConfigAssumption DEF ConfigAssumption

\* The name of nothing is a name.
LEMMA NoneNamed == None \in Dirs
BY DEF Dirs

\* The defaults are a configuration, and nothing in them is out of date.
LEMMA DefaultsCoherent == Coherent(Defaults)
<1>1. Defaults.val = [s \in Slots |-> <<IF s \in Plain THEN "set" ELSE "mixed", NoFile>>]
  BY DEF Defaults
<1>2. /\ Defaults.declared = FALSE /\ Defaults.theme = None /\ Defaults.dir = None
      /\ Defaults.files = {} /\ Defaults.asked = {} /\ Defaults.bad = FALSE
  BY DEF Defaults
<1>3. Defaults.val \in Values
  BY <1>1 DEF Values
<1>4. Defaults \in Configurations
  BY <1>2, <1>3, NoneNamed DEF Defaults, Configurations, Values
<1>5. FilesKept(Defaults)
  BY <1>2, FS_EmptySet, ConfigAssumption DEF FilesKept, ConfigAssumption
<1>6. /\ Defaults.val["status"] = <<"mixed", NoFile>> /\ Defaults.val["scrolled"] = <<"mixed", NoFile>>
      /\ Defaults.val["unfocused"] = <<"mixed", NoFile>>
      /\ Defaults.val["colour"] = <<"set", NoFile>> /\ Defaults.val["dim"] = <<"set", NoFile>>
  BY <1>1 DEF Slots, Plain
<1>7. MixedRight(Defaults)
  BY <1>2, <1>6 DEF MixedRight, Mixed
<1> QED BY <1>4, <1>5, <1>7 DEF Coherent

\* A complaint more or less.
LEMMA BadHolds == ASSUME NEW c \in Configurations, NEW b \in BOOLEAN PROVE Holds([c EXCEPT !.bad = b], c)
<1> DEFINE a == [c EXCEPT !.bad = b]
<1>1. a \in Configurations /\ a.theme = c.theme /\ a.val = c.val /\ a.declared = c.declared /\ a.files = c.files /\ a.asked = c.asked
  BY DEF Configurations
<1> HIDE DEF a
<1>2. Holds(a, c)
  BY <1>1 DEF Holds, Coherent, MixedRight, FilesKept
<1> QED BY <1>2 DEF a

\* A load of the root file.
LEMMA LoadRoot ==
  ASSUME NEW d
  PROVE  Load(Defaults, Root, 0, d) = LoadInto(Defaults, Root, Loader(d)[DepthMax], d)
<1>1. Defaults \in Configurations /\ Root \in Files
  BY DefaultsCoherent, ConfigAssumption DEF Coherent, ConfigAssumption
<1>2. Load(Defaults, Root, 0, d) = Loader(d)[DepthMax + 1][Defaults][Root]
  BY Levels DEF Load
<1> QED BY <1>1, <1>2, Levels, LoaderLevels

\* What the session loads is coherent, and read whenever its first file parses.
LEMMA LoadCoherent ==
  ASSUME NEW d \in [Files -> FileTexts]
  PROVE  /\ Coherent(Load(Defaults, Root, 0, d).c)
         /\ Load(Defaults, Root, 0, d).ok = (d[Root].state = "text")
<1>1. Defaults \in Configurations /\ Root \in Files
  BY DefaultsCoherent, ConfigAssumption DEF Coherent, ConfigAssumption
<1>2. Sound(Loader(d)[DepthMax])
  BY Levels, LoaderSound
<1>3. Holds(LoadInto(Defaults, Root, Loader(d)[DepthMax], d).c, Defaults)
  BY <1>1, <1>2, LoadHolds
<1>4. LoadInto(Defaults, Root, Loader(d)[DepthMax], d).ok = (d[Root].state = "text")
  <2>1. PICK x : x = Loader(d)[DepthMax]
    OBVIOUS
  <2>2. CASE d[Root].state = "text"
    <3>1. PICK t, base, e : /\ t = d[Root] /\ base = Included(Remember(Defaults, Root, d), t.includes, x)
                            /\ e = Asked(base, t, x, d)
      OBVIOUS
    <3>2. LoadInto(Defaults, Root, x, d).ok = TRUE
      BY <2>2, <3>1, LoadedText
    <3> QED BY <2>1, <2>2, <3>2
  <2>3. CASE d[Root].state # "text"
    <3>1. LoadInto(Defaults, Root, x, d) = Refused(Remember(Defaults, Root, d))
      BY <2>3, LoadedNot
    <3> QED BY <2>1, <2>3, <3>1, RefusedIs
  <2> QED BY <2>2, <2>3
<1> QED BY <1>3, <1>4, LoadRoot, DefaultsCoherent DEF Holds

\* Applying a theme, taken apart.
LEMMA ThemeTried ==
  ASSUME NEW c, NEW name, NEW d
  PROVE  LET r == ThemeApplied([c EXCEPT !.bad = FALSE], name, Loader(d)[DepthMax], d)
         IN  /\ ApplyTheme(c, name, d).ok = (r.theme = name /\ ~r.bad)
             /\ ApplyTheme(c, name, d).c = [r EXCEPT !.bad = r.bad \/ c.bad]
<1> DEFINE r == ThemeApplied([c EXCEPT !.bad = FALSE], name, Loader(d)[DepthMax], d)
<1>1. ApplyTheme(c, name, d) = The({[ok |-> x.theme = name /\ ~x.bad, c |-> [x EXCEPT !.bad = x.bad \/ c.bad]] : x \in {r}})
  BY DEF ApplyTheme
<1> HIDE DEF r
<1>2. {[ok |-> x.theme = name /\ ~x.bad, c |-> [x EXCEPT !.bad = x.bad \/ c.bad]] : x \in {r}}
        = {[ok |-> r.theme = name /\ ~r.bad, c |-> [r EXCEPT !.bad = r.bad \/ c.bad]]}
  OBVIOUS
<1>3. ApplyTheme(c, name, d) = [ok |-> r.theme = name /\ ~r.bad, c |-> [r EXCEPT !.bad = r.bad \/ c.bad]]
  BY <1>1, <1>2, TheOne
<1>4. ApplyTheme(c, name, d).ok = (r.theme = name /\ ~r.bad)
  BY <1>3
<1>5. ApplyTheme(c, name, d).c = [r EXCEPT !.bad = r.bad \/ c.bad]
  BY <1>3
<1> QED BY <1>4, <1>5 DEF r

\* A theme tried over a configuration comes to one that holds.
LEMMA ApplyThemeHolds ==
  ASSUME NEW c \in Configurations, NEW name \in Themes, NEW d \in [Files -> FileTexts]
  PROVE  Holds(ApplyTheme(c, name, d).c, c)
<1>1. PICK x : x = [c EXCEPT !.bad = FALSE]
  OBVIOUS
<1>2. Holds(x, c) /\ x \in Configurations
  BY <1>1, BadHolds DEF Holds
<1>3. PICK r : r = ThemeApplied(x, name, Loader(d)[DepthMax], d)
  OBVIOUS
<1>4. Sound(Loader(d)[DepthMax])
  BY Levels, LoaderSound
<1>5. Holds(r, x) /\ r \in Configurations
  BY <1>2, <1>3, <1>4, ThemeHolds DEF Holds
<1>6. r.bad \/ c.bad \in BOOLEAN
  BY <1>5 DEF Configurations
<1>7. PICK b \in BOOLEAN : b = (r.bad \/ c.bad)
  BY <1>5 DEF Configurations
<1>8. Holds([r EXCEPT !.bad = b], r)
  BY <1>5, <1>7, BadHolds
<1>9. ApplyTheme(c, name, d).c = [r EXCEPT !.bad = b]
  BY <1>1, <1>3, <1>7, ThemeTried
<1> QED BY <1>2, <1>5, <1>8, <1>9, HoldsOn

\* Reloading, taken apart.
LEMMA ReloadedIs ==
  ASSUME NEW d, NEW name
  PROVE  LET r == Load(Defaults, Root, 0, d)
             o == ApplyTheme(r.c, name, d)
         IN  /\ ~r.ok \/ name = None => Reloaded(d, name) = r
             /\ ~(~r.ok \/ name = None) => /\ Reloaded(d, name).ok = TRUE
                                           /\ Reloaded(d, name).c = [o.c EXCEPT !.bad = o.c.bad \/ ~o.ok]
<1> DEFINE over(c) == The({[ok |-> TRUE, c |-> [o.c EXCEPT !.bad = @ \/ ~o.ok]] : o \in {ApplyTheme(c, name, d)}})
<1>1. PICK r : r = Load(Defaults, Root, 0, d)
  OBVIOUS
<1>2. PICK o : o = ApplyTheme(r.c, name, d)
  OBVIOUS
<1>3. over(r.c) = [ok |-> TRUE, c |-> [o.c EXCEPT !.bad = o.c.bad \/ ~o.ok]]
  <2>1. {[ok |-> TRUE, c |-> [x.c EXCEPT !.bad = @ \/ ~x.ok]] : x \in {o}}
          = {[ok |-> TRUE, c |-> [o.c EXCEPT !.bad = o.c.bad \/ ~o.ok]]}
    OBVIOUS
  <2> QED BY <1>2, <2>1, TheOne
<1>4. Reloaded(d, name) = The({IF ~x.ok \/ name = None THEN x ELSE over(x.c) : x \in {r}})
  BY <1>1 DEF Reloaded
<1> HIDE DEF over
<1>5. {IF ~x.ok \/ name = None THEN x ELSE over(x.c) : x \in {r}} = {IF ~r.ok \/ name = None THEN r ELSE over(r.c)}
  OBVIOUS
<1>6. Reloaded(d, name) = IF ~r.ok \/ name = None THEN r ELSE over(r.c)
  BY <1>4, <1>5, TheOne
<1>7. over(r.c).ok = TRUE /\ over(r.c).c = [o.c EXCEPT !.bad = o.c.bad \/ ~o.ok]
  BY <1>3
<1> QED BY <1>1, <1>2, <1>6, <1>7

\* What a reload comes to is coherent, and read whenever the first file parses.
LEMMA ReloadedCoherent ==
  ASSUME NEW d \in [Files -> FileTexts], NEW name \in Themes \cup {None}
  PROVE  Coherent(Reloaded(d, name).c) /\ Reloaded(d, name).ok = (d[Root].state = "text")
<1>1. PICK r : r = Load(Defaults, Root, 0, d)
  OBVIOUS
<1>2. Coherent(r.c) /\ r.ok = (d[Root].state = "text")
  BY <1>1, LoadCoherent
<1>3. CASE ~r.ok \/ name = None
  BY <1>1, <1>2, <1>3, ReloadedIs
<1>4. CASE ~(~r.ok \/ name = None)
  <2>1. PICK o : o = ApplyTheme(r.c, name, d)
    OBVIOUS
  <2>2. name \in Themes /\ r.c \in Configurations
    BY <1>2, <1>4 DEF Coherent
  <2>3. Holds(o.c, r.c)
    BY <2>1, <2>2, ApplyThemeHolds
  <2>4. o.c \in Configurations
    BY <2>3 DEF Holds
  <2>5. PICK b \in BOOLEAN : b = (o.c.bad \/ ~o.ok)
    BY <2>4 DEF Configurations
  <2>6. Holds([o.c EXCEPT !.bad = b], o.c)
    BY <2>4, BadHolds
  <2>7. Reloaded(d, name).c = [o.c EXCEPT !.bad = b] /\ Reloaded(d, name).ok = TRUE
    BY <1>1, <1>4, <2>1, <2>5, ReloadedIs
  <2> QED BY <1>2, <1>4, <2>3, <2>6, <2>7 DEF Holds
<1> QED BY <1>3, <1>4

-----------------------------------------------------------------------------
(* The session's invariant.                                                *)

Pickers ==
  [open : BOOLEAN, was : Themes \cup {None}, list : SUBSET Themes, before : Configurations,
   over : Themes \cup {None}, quiet : BOOLEAN, escaped : BOOLEAN]

PickerGood == picker \in Pickers

Watchers == [files : SUBSET Files, dirs : SUBSET Dirs, stage : {"on", "stale", "off"}]

(* No more files are watched than are remembered, in directories there are. *)
WatcherGood ==
  /\ made \in SUBSET Dirs /\ watched \in Watchers /\ due \in BOOLEAN
  /\ Cardinality(watched.files) <= FilesMax /\ watched.dirs \subseteq made

(* What nobody could hear of was written.                                  *)
NewsGood ==
  /\ news \in [files : SUBSET Files, deaf : SUBSET Files]
  /\ news.deaf \subseteq news.files

HeardGood == heard \subseteq {f[2] : f \in Files}

CInv ==
  /\ disk \in [Files -> FileTexts] /\ Coherent(cfg) /\ override \in Themes \cup {None}
  /\ WatcherGood /\ NewsGood /\ HeardGood /\ edits \in 0 .. EditsMax
  /\ PickerGood

\* Just after the files were read nothing written is unread.
LEMMA OldGood == ASSUME news' = Old PROVE NewsGood'
  BY DEF Old, NewsGood

\* The watcher, or what was written, is as good as it was while nothing touches it.
LEMMA WatcherKept ==
  ASSUME CInv
  PROVE  /\ UNCHANGED watcher => WatcherGood'
         /\ UNCHANGED news => NewsGood'
         /\ UNCHANGED heard => HeardGood'
  BY DEF CInv, watcher, WatcherGood, NewsGood, HeardGood

\* Only names of files are queued.
LEMMA QueuedGood ==
  ASSUME CInv, NEW f \in Files
  PROVE  Queued(f) \subseteq {g[2] : g \in Files}
  BY DEF CInv, HeardGood, Queued

\* What is written by saving a theme is a text.
LEMMA WrittenText ==
  ASSUME NEW d \in [Files -> FileTexts], NEW name \in Themes \cup {None}
  PROVE  Written(d, name) \in [Files -> FileTexts]
<1>1. Root \in Files /\ d[Root] \in FileTexts
  BY ConfigAssumption DEF ConfigAssumption
<1>2. [d[Root] EXCEPT !.theme = name] \in FileTexts
  BY <1>1 DEF FileTexts
<1>3. [Absent EXCEPT !.state = "text", !.theme = name] \in FileTexts
  <2>1. PICK a : a = Absent
    OBVIOUS
  <2>2. a \in FileTexts
    <3>1. <<>> \in Seq(Files) /\ {} \in SUBSET Slots /\ FALSE \in BOOLEAN
      OBVIOUS
    <3> QED BY <2>1, <3>1, NoneNamed DEF Absent, FileTexts
  <2>3. [a EXCEPT !.state = "text", !.theme = name] \in FileTexts
    BY <2>2 DEF FileTexts
  <2> QED BY <2>1, <2>3
<1> QED BY <1>1, <1>2, <1>3 DEF Written

\* Wearing a theme, or none.
LEMMA WornGood ==
  ASSUME CInv, NEW d \in [Files -> FileTexts], NEW name \in Themes \cup {None}, Worn(d, name)
  PROVE  disk' \in [Files -> FileTexts] /\ Coherent(cfg') /\ override' \in Themes \cup {None} /\ NewsGood'
<1>1. PICK r : r = Reloaded(d, name)
  OBVIOUS
<1>2. /\ override' = name /\ disk' = d
      /\ IF r.ok THEN cfg' = r.c /\ news' = Old
         ELSE /\ cfg' = IF name = None THEN cfg ELSE [ApplyTheme(cfg, name, d).c EXCEPT !.bad = cfg.bad]
              /\ news' = news
  BY <1>1 DEF Worn
<1>3. Coherent(r.c) /\ r.ok \in BOOLEAN
  BY <1>1, ReloadedCoherent
<1>4. cfg \in Configurations /\ Coherent(cfg)
  BY DEF CInv, Coherent
<1>5. ASSUME name # None PROVE Coherent([ApplyTheme(cfg, name, d).c EXCEPT !.bad = cfg.bad])
  <2>1. PICK a : a = ApplyTheme(cfg, name, d).c
    OBVIOUS
  <2>2. name \in Themes
    BY <1>5
  <2>3. Holds(a, cfg)
    BY <1>4, <2>1, <2>2, ApplyThemeHolds
  <2>4. a \in Configurations /\ cfg.bad \in BOOLEAN
    BY <1>4, <2>3 DEF Holds, Configurations
  <2>5. Holds([a EXCEPT !.bad = cfg.bad], a)
    BY <2>4, BadHolds
  <2> QED BY <1>4, <2>1, <2>3, <2>5 DEF Holds
<1>6. Coherent(cfg') /\ NewsGood'
  BY <1>2, <1>3, <1>4, <1>5, OldGood, WatcherKept
<1> QED BY <1>2, <1>6

\* Wearing a theme, in any of its ways, leaves the session well typed and coherent.
LEMMA SetThemeGood ==
  ASSUME CInv, NEW name \in Themes \cup {None}, NEW save \in BOOLEAN, SetTheme(name, save)
  PROVE  /\ disk' \in [Files -> FileTexts] /\ Coherent(cfg') /\ override' \in Themes \cup {None}
         /\ NewsGood' /\ HeardGood'
<1>1. disk \in [Files -> FileTexts] /\ Written(disk, name) \in [Files -> FileTexts]
  BY WrittenText DEF CInv
<1>2. CASE UNCHANGED <<disk, cfg, override, heard, news>>
  BY <1>2, WatcherKept DEF CInv
<1>3. CASE Worn(disk, name) /\ UNCHANGED heard
  BY <1>1, <1>3, WornGood, WatcherKept
<1>4. CASE Worn(Written(disk, name), name) /\ heard' = Queued(Root)
  <2>1. Root \in Files
    BY ConfigAssumption DEF ConfigAssumption
  <2>2. HeardGood'
    BY <1>4, <2>1, QueuedGood DEF HeardGood
  <2> QED BY <1>1, <1>4, <2>2, WornGood
<1> QED BY <1>2, <1>3, <1>4 DEF SetTheme

\* A shut picker is a picker.
LEMMA ShutGood == Shut \in Pickers
<1>1. Defaults \in Configurations
  BY DefaultsCoherent DEF Coherent
<1> QED BY <1>1 DEF Shut, Pickers

\* The session starts well typed and coherent.
LEMMA CInvInit == ConfigInit => CInv
<1> SUFFICES ASSUME ConfigInit PROVE CInv
  OBVIOUS
<1>1. /\ disk \in Disks /\ cfg = Load(Defaults, Root, 0, disk).c /\ override = None /\ watched = Unwatched
      /\ made \in SUBSET (Dirs \ {None}) /\ heard = {} /\ due = FALSE /\ news = Old /\ picker = Shut /\ edits = 0
  BY DEF ConfigInit
<1>2. disk \in [Files -> FileTexts]
  BY <1>1, ConfigAssumption DEF ConfigAssumption
<1>3. Coherent(cfg)
  BY <1>1, <1>2, LoadCoherent
<1>4. WatcherGood
  <2>1. Unwatched \in Watchers /\ Unwatched.dirs = {} /\ Unwatched.files = {}
    BY DEF Unwatched, Watchers
  <2>2. Cardinality({}) = 0 /\ FilesMax \in Nat
    BY FS_EmptySet, ConfigAssumption DEF ConfigAssumption
  <2>3. watched \in Watchers /\ watched.dirs = {} /\ watched.files = {}
    BY <1>1, <2>1
  <2>4. Cardinality(watched.files) <= FilesMax
    BY <2>2, <2>3
  <2>5. made \in SUBSET Dirs /\ due \in BOOLEAN
    BY <1>1
  <2> QED BY <2>3, <2>4, <2>5 DEF WatcherGood
<1>5. PickerGood
  BY <1>1, ShutGood DEF PickerGood
<1>6. NewsGood /\ HeardGood
  BY <1>1 DEF NewsGood, HeardGood, Old
<1>7. override \in Themes \cup {None} /\ edits \in 0 .. EditsMax
  <2>1. EditsMax \in Nat
    BY ConfigAssumption DEF ConfigAssumption
  <2> QED BY <1>1, <2>1
<1> QED BY <1>2, <1>3, <1>4, <1>5, <1>6, <1>7 DEF CInv

\* Every step keeps it so.
LEMMA CInvNext == CInv /\ [ConfigNext]_configs => CInv'
<1> SUFFICES ASSUME CInv, [ConfigNext]_configs PROVE CInv'
  OBVIOUS
<1>0. /\ disk \in [Files -> FileTexts] /\ Coherent(cfg) /\ override \in Themes \cup {None}
      /\ WatcherGood /\ NewsGood /\ HeardGood /\ edits \in 0 .. EditsMax /\ EditsMax \in Nat
      /\ PickerGood /\ picker.was \in Themes \cup {None}
  BY ConfigAssumption DEF CInv, ConfigAssumption, PickerGood, Pickers
<1>a. TRUE \in BOOLEAN /\ FALSE \in BOOLEAN
  OBVIOUS
<1>c. ASSUME picker' = Disturbed PROVE PickerGood'
  BY <1>0, <1>c DEF Disturbed, PickerGood, Pickers
<1>d. ASSUME picker' = Shut PROVE PickerGood'
  BY <1>d, ShutGood DEF PickerGood
<1>e. ASSUME UNCHANGED picker PROVE PickerGood'
  BY <1>0, <1>e DEF PickerGood
<1>f. ASSUME edits < EditsMax, edits' = edits + 1 PROVE edits' \in 0 .. EditsMax
  BY <1>0, <1>f
<1>w. /\ UNCHANGED watcher => WatcherGood'
      /\ UNCHANGED news => NewsGood'
      /\ UNCHANGED heard => HeardGood'
  BY WatcherKept
<1>1. CASE OpenPicker
  <2>1. picker' = [Shut EXCEPT !.open = TRUE, !.was = cfg.theme, !.list = ThemesListed(cfg, disk),
                               !.before = cfg, !.over = override, !.quiet = (cfg = Reloaded(disk, override).c)]
    BY <1>1 DEF OpenPicker
  <2>2. PICK q \in BOOLEAN : q = (cfg = Reloaded(disk, override).c)
    OBVIOUS
  <2>3. cfg \in Configurations /\ cfg.theme \in Themes \cup {None} /\ ThemesListed(cfg, disk) \in SUBSET Themes
    BY <1>0 DEF ThemesListed, Coherent, Configurations
  <2>4. PickerGood'
    BY <1>0, <2>1, <2>2, <2>3, ShutGood DEF PickerGood, Pickers
  <2> QED BY <1>0, <1>1, <1>w, <2>4 DEF OpenPicker, CInv
<1>2. ASSUME NEW n \in Themes, Preview(n) PROVE CInv'
  <2>1. SetTheme(n, FALSE) /\ UNCHANGED <<watcher, picker, edits>>
    BY <1>2 DEF Preview
  <2>2. /\ disk' \in [Files -> FileTexts] /\ Coherent(cfg') /\ override' \in Themes \cup {None}
        /\ NewsGood' /\ HeardGood'
    BY <1>a, <2>1, SetThemeGood
  <2> QED BY <1>0, <1>w, <1>e, <2>1, <2>2 DEF CInv
<1>3. ASSUME NEW n \in Themes \cup {None}, Accept(n) PROVE CInv'
  <2>1. picker' = Shut /\ UNCHANGED <<watcher, edits>>
        /\ (UNCHANGED <<disk, cfg, override, heard, news>> \/ SetTheme(n, FALSE))
    BY <1>3 DEF Accept
  <2>2. /\ disk' \in [Files -> FileTexts] /\ Coherent(cfg') /\ override' \in Themes \cup {None}
        /\ NewsGood' /\ HeardGood'
    <3>1. CASE UNCHANGED <<disk, cfg, override, heard, news>>
      BY <1>0, <1>w, <3>1
    <3>2. CASE SetTheme(n, FALSE)
      BY <1>a, <3>2, SetThemeGood
    <3> QED BY <2>1, <3>1, <3>2
  <2> QED BY <1>0, <1>w, <1>d, <2>1, <2>2 DEF CInv
<1>4. CASE Keep
  <2>1. CASE UNCHANGED <<disk, cfg, override, heard, news, picker, edits>> /\ UNCHANGED watcher
    BY <1>0, <1>w, <1>e, <2>1 DEF CInv
  <2>2. CASE cfg.theme # None /\ SetTheme(cfg.theme, TRUE) /\ picker' = Shut /\ edits < EditsMax /\ edits' = edits + 1
             /\ UNCHANGED watcher
    <3>1. cfg.theme \in Themes \cup {None}
      BY <1>0 DEF Coherent, Configurations
    <3>2. /\ disk' \in [Files -> FileTexts] /\ Coherent(cfg') /\ override' \in Themes \cup {None}
          /\ NewsGood' /\ HeardGood'
      BY <1>a, <2>2, <3>1, SetThemeGood
    <3> QED BY <1>0, <1>w, <1>d, <1>f, <2>2, <3>2 DEF CInv
  <2> QED BY <1>4, <2>1, <2>2 DEF Keep
<1>5. CASE Escape
  <2>1. SetTheme(picker.was, FALSE) /\ UNCHANGED <<watcher, edits>>
        /\ picker' = [picker EXCEPT !.open = FALSE, !.escaped = TRUE]
    BY <1>5 DEF Escape, EscapeUndone
  <2>2. /\ disk' \in [Files -> FileTexts] /\ Coherent(cfg') /\ override' \in Themes \cup {None}
        /\ NewsGood' /\ HeardGood'
    BY <1>0, <1>a, <2>1, SetThemeGood
  <2>3. PickerGood'
    BY <1>0, <2>1 DEF PickerGood, Pickers
  <2> QED BY <1>0, <1>w, <2>1, <2>2, <2>3 DEF CInv
<1>6. CASE Dismiss
  BY <1>0, <1>w, <1>d, <1>6 DEF Dismiss, CInv
<1>7. ASSUME NEW n \in Themes \cup {None}, NEW save \in BOOLEAN, ThemeCommand(n, save) PROVE CInv'
  <2>1. SetTheme(n, save) /\ picker' = Disturbed /\ UNCHANGED watcher /\ edits < EditsMax /\ edits' = edits + 1
    BY <1>7 DEF ThemeCommand
  <2>2. /\ disk' \in [Files -> FileTexts] /\ Coherent(cfg') /\ override' \in Themes \cup {None}
        /\ NewsGood' /\ HeardGood'
    BY <2>1, SetThemeGood
  <2> QED BY <1>0, <1>w, <1>c, <1>f, <2>1, <2>2 DEF CInv
<1>r. Coherent(Reloaded(disk, override).c) /\ Reloaded(disk, override).c.files \subseteq Files
      /\ Cardinality(Reloaded(disk, override).c.files) <= FilesMax
  <2>1. Coherent(Reloaded(disk, override).c)
    BY <1>0, ReloadedCoherent
  <2> QED BY <2>1 DEF Coherent, Configurations, FilesKept
<1>8. CASE ReloadCommand
  <2>1. /\ picker' = Disturbed /\ UNCHANGED <<disk, override, watcher, heard, edits>>
        /\ (cfg' = Reloaded(disk, override).c /\ news' = Old) \/ UNCHANGED <<cfg, news>>
    BY <1>8 DEF ReloadCommand
  <2> QED BY <1>0, <1>w, <1>c, <1>r, <2>1, OldGood DEF CInv
<1>9. CASE WatchReload
  <2>1. /\ picker' = Disturbed /\ UNCHANGED <<disk, override, made, heard, edits>> /\ due' = FALSE
        /\ \/ cfg' = Reloaded(disk, override).c /\ watched' = [watched EXCEPT !.stage = "stale"] /\ news' = Old
           \/ UNCHANGED <<cfg, watched, news>>
    BY <1>9 DEF WatchReload
  <2>2. WatcherGood'
    <3>1. CASE watched' = [watched EXCEPT !.stage = "stale"]
      <4>1. watched' \in Watchers /\ watched'.files = watched.files /\ watched'.dirs = watched.dirs
        BY <1>0, <3>1 DEF WatcherGood, Watchers
      <4> QED BY <1>0, <2>1, <4>1 DEF WatcherGood
    <3>2. CASE watched' = watched
      BY <1>0, <2>1, <3>2 DEF WatcherGood
    <3> QED BY <2>1, <3>1, <3>2
  <2> QED BY <1>0, <1>w, <1>c, <1>r, <2>1, <2>2, OldGood DEF CInv
<1>13. CASE Drain
  <2>1. /\ UNCHANGED <<disk, cfg, override, made, watched, picker, news, edits>> /\ heard' = {}
        /\ due' = (due \/ \E g \in watched.files : g[2] \in heard)
    BY <1>13 DEF Drain
  <2>2. due' \in BOOLEAN
    BY <1>0, <2>1 DEF WatcherGood
  <2>3. WatcherGood' /\ HeardGood'
    BY <1>0, <2>1, <2>2 DEF WatcherGood, HeardGood
  <2> QED BY <1>0, <1>w, <1>e, <2>1, <2>3 DEF CInv
<1>14. CASE Unwatch
  <2>1. UNCHANGED <<disk, cfg, override, made, heard, due, picker, news, edits>> /\ watched' = Unwatched
    BY <1>14 DEF Unwatch
  <2>2. Unwatched \in Watchers /\ Unwatched.dirs = {} /\ Unwatched.files = {}
    BY DEF Unwatched, Watchers
  <2>3. Cardinality({}) = 0 /\ FilesMax \in Nat
    BY FS_EmptySet, ConfigAssumption DEF ConfigAssumption
  <2>4. WatcherGood'
    BY <1>0, <2>1, <2>2, <2>3 DEF WatcherGood
  <2> QED BY <1>0, <1>w, <1>e, <2>1, <2>4 DEF CInv
<1>15. CASE Rewatch
  <2>1. /\ UNCHANGED <<disk, cfg, override, heard, due, picker, news, edits>>
        /\ made' = made \cup {Root[1]} /\ watched' = [files |-> cfg.files, dirs |-> made', stage |-> "on"]
    BY <1>15 DEF Rewatch
  <2>2. Root[1] \in Dirs
    BY ConfigAssumption DEF ConfigAssumption, Dirs
  <2>3. cfg.files \subseteq Files /\ Cardinality(cfg.files) <= FilesMax
    BY <1>0 DEF Coherent, Configurations, FilesKept
  <2>4. made' \in SUBSET Dirs
    BY <1>0, <2>1, <2>2 DEF WatcherGood
  <2>5. watched' \in Watchers /\ watched'.files = cfg.files /\ watched'.dirs = made'
    BY <2>1, <2>3, <2>4 DEF Watchers
  <2>6. WatcherGood'
    BY <1>0, <2>1, <2>3, <2>4, <2>5 DEF WatcherGood
  <2> QED BY <1>0, <1>w, <1>e, <2>1, <2>6 DEF CInv
<1>10. CASE Settle
  BY <1>0, <1>w, <1>d, <1>10 DEF Settle, CInv
<1>11. ASSUME NEW f \in Files, NEW t \in Contents[f], Edit(f, t) PROVE CInv'
  <2>1. /\ edits < EditsMax /\ edits' = edits + 1 /\ disk' = [disk EXCEPT ![f] = t] /\ picker' = Disturbed
        /\ UNCHANGED <<cfg, override, watched, due>>
    BY <1>11 DEF Edit
  <2>2. t \in FileTexts
    BY ConfigAssumption DEF ConfigAssumption
  <2>3. disk' \in [Files -> FileTexts]
    BY <1>0, <2>1, <2>2
  <2>4. WatcherGood' /\ NewsGood' /\ HeardGood'
    <3>1. CASE UNCHANGED <<made, heard, news>>
      BY <1>w, <2>1, <3>1 DEF watcher
    <3>2. CASE /\ made' = made \cup {f[1]} /\ heard' = Queued(f)
               /\ news' = [files |-> news.files \cup {f},
                           deaf  |-> IF ~Hears(f) /\ (watched.stage # "on" \/ f[1] \notin watched.dirs)
                                     THEN news.deaf \cup {f} ELSE news.deaf \ {f}]
      <4>1. f[1] \in Dirs
        BY DEF Dirs
      <4>2. WatcherGood'
        BY <1>0, <2>1, <3>2, <4>1 DEF WatcherGood
      <4>3. HeardGood'
        BY <3>2, QueuedGood DEF HeardGood
      <4>4. PICK deaf : deaf = IF ~Hears(f) /\ (watched.stage # "on" \/ f[1] \notin watched.dirs)
                               THEN news.deaf \cup {f} ELSE news.deaf \ {f}
        OBVIOUS
      <4>5. news' = [files |-> news.files \cup {f}, deaf |-> deaf]
        BY <3>2, <4>4
      <4>6. deaf \subseteq news.files \cup {f} /\ news.files \cup {f} \subseteq Files
        BY <1>0, <4>4 DEF NewsGood
      <4>7. NewsGood'
        BY <4>5, <4>6 DEF NewsGood
      <4> QED BY <4>2, <4>3, <4>7
    <3> QED BY <1>11, <3>1, <3>2 DEF Edit
  <2> QED BY <1>0, <1>c, <1>f, <2>1, <2>3, <2>4 DEF CInv
<1>12. CASE UNCHANGED configs
  BY <1>0, <1>w, <1>e, <1>12 DEF configs, CInv
<1> QED BY <1>1, <1>2, <1>3, <1>4, <1>5, <1>6, <1>7, <1>8, <1>9, <1>10, <1>11, <1>12, <1>13, <1>14, <1>15 DEF ConfigNext

\* What a file says itself of a plain setting.
LEMMA PlainApplied ==
  ASSUME NEW c \in Configurations, NEW f \in Files, NEW t \in FileTexts, NEW s \in Plain
  PROVE  Applied(c, f, t).val[s] = IF s \in t.sets THEN <<"set", f>> ELSE c.val[s]
<1>1. s = "dim" \/ s = "bind" \/ s = "colour"
  BY DEF Plain
<1>2. SlotsAre(Applied(c, f, t).val, IF "dim" \in t.sets THEN <<"set", f>> ELSE c.val["dim"],
               IF "bind" \in t.sets THEN <<"set", f>> ELSE c.val["bind"],
               IF "colour" \in t.sets THEN <<"set", f>> ELSE c.val["colour"],
               Applied(c, f, t).val["status"], Applied(c, f, t).val["scrolled"], Applied(c, f, t).val["unfocused"])
  BY AppliedSlots DEF SlotsAre
<1> QED BY <1>1, <1>2 DEF SlotsAre

\* Where a theme is looked for is a matter of the theme directory alone.
LEMMA ThemeFileOfDir == ASSUME NEW a, NEW b, a.dir = b.dir, NEW name, NEW d PROVE ThemeFile(a, name, d) = ThemeFile(b, name, d)
BY DEF ThemeFile, ThemeDirs

\* A loader one level in that reads a file, and what of that it is made of.
LEMMA Inner ==
  ASSUME NEW d \in [Files -> FileTexts], NEW c \in Configurations, NEW f \in Files, d[f].state = "text"
  PROVE  \E base, e, inner :
           /\ Sound(inner) /\ base = Included(Remember(c, f, d), d[f].includes, inner)
           /\ e = Asked(base, d[f], inner, d) /\ base \in Configurations /\ e \in Configurations
           /\ Loader(d)[DepthMax][c][f].c = Applied(e, f, d[f])
<1>1. PICK inner : inner = Loader(d)[DepthMax - 1]
  OBVIOUS
<1>2. Sound(inner)
  BY <1>1, Levels, LoaderSound
<1>3. Loader(d)[DepthMax][c][f] = LoadInto(c, f, inner, d)
  BY <1>1, Levels, LoaderLevels
<1>4. PICK t : t = d[f]
  OBVIOUS
<1>5. t \in FileTexts /\ t.includes \in Seq(Files)
  BY <1>4 DEF FileTexts
<1>6. PICK base : base = Included(Remember(c, f, d), t.includes, inner)
  OBVIOUS
<1>7. base \in Configurations
  <2>1. Len(t.includes) \in 0 .. Len(t.includes)
    BY <1>5
  <2>2. Remember(c, f, d) \in Configurations
    BY RememberOnly
  <2>3. PICK r : r = Remember(c, f, d)
    OBVIOUS
  <2>4. Holds(Overlaid(r, t.includes, inner)[Len(t.includes)], r)
    BY <1>2, <1>5, <2>1, <2>2, <2>3, OverlaidHolds
  <2> QED BY <1>6, <2>3, <2>4 DEF Included, Holds
<1>8. PICK e : e = Asked(base, t, inner, d)
  OBVIOUS
<1>9. e \in Configurations
  BY <1>2, <1>5, <1>7, <1>8, AskedHolds DEF Holds
<1>10. Loader(d)[DepthMax][c][f].c = Applied(e, f, t)
  BY <1>3, <1>4, <1>6, <1>8, LoadedText
<1> QED BY <1>2, <1>4, <1>6, <1>7, <1>8, <1>9, <1>10

\* A file that is read has the last word on the plain settings it names.
LEMMA LastWord ==
  ASSUME NEW d \in [Files -> FileTexts], NEW c \in Configurations, NEW f \in Files, d[f].state = "text",
         NEW s \in Plain, s \in d[f].sets
  PROVE  Loader(d)[DepthMax][c][f].c.val[s] = <<"set", f>>
<1>1. PICK e : e \in Configurations /\ Loader(d)[DepthMax][c][f].c = Applied(e, f, d[f])
  BY Inner
<1>2. d[f] \in FileTexts
  OBVIOUS
<1>3. PICK t \in FileTexts : t = d[f]
  BY <1>2
<1>4. Applied(e, f, t).val[s] = <<"set", f>>
  BY <1>1, <1>3, PlainApplied
<1> QED BY <1>1, <1>3, <1>4

\* A file that includes nothing and asks for no theme has a word on nothing else.
LEMMA NoWord ==
  ASSUME NEW d \in [Files -> FileTexts], NEW c \in Configurations, NEW f \in Files, NEW s \in Plain,
         d[f].theme = None, d[f].includes = <<>>, ~(d[f].state = "text" /\ s \in d[f].sets)
  PROVE  Loader(d)[DepthMax][c][f].c.val[s] = c.val[s]
<1>1. Remember(c, f, d) \in Configurations /\ Remember(c, f, d).val = c.val
  BY RememberOnly DEF Alike
<1>2. PICK r : r = Remember(c, f, d)
  OBVIOUS
<1>3. CASE d[f].state # "text"
  <2>1. PICK inner : inner = Loader(d)[DepthMax - 1]
    OBVIOUS
  <2>2. Loader(d)[DepthMax][c][f] = LoadInto(c, f, inner, d)
    BY <2>1, Levels, LoaderLevels
  <2>3. LoadInto(c, f, inner, d) = Refused(r)
    BY <1>2, <1>3, LoadedNot
  <2>4. Loader(d)[DepthMax][c][f].c = Complained(r)
    BY <2>2, <2>3, RefusedIs
  <2> QED BY <1>1, <1>2, <2>4, ComplaintOnly DEF Alike
<1>4. CASE d[f].state = "text"
  <2>1. PICK base, e, inner :
           /\ base = Included(r, d[f].includes, inner)
           /\ e = Asked(base, d[f], inner, d) /\ base \in Configurations /\ e \in Configurations
           /\ Loader(d)[DepthMax][c][f].c = Applied(e, f, d[f])
    BY <1>2, <1>4, Inner
  <2>2. base = r
    <3>1. PICK files \in Seq(Files) : files = <<>>
      <4>1. <<>> \in Seq(Files)
        OBVIOUS
      <4> QED BY <4>1
    <3>2. Overlaid(r, files, inner)[0] = r
      BY IncludesFollow
    <3>3. Len(files) = 0
      BY <3>1
    <3> QED BY <2>1, <3>1, <3>2, <3>3 DEF Included
  <2>3. e.val = r.val
    <3>1. e = IF d[f].dir # None THEN [base EXCEPT !.dir = d[f].dir] ELSE base
      BY <2>1 DEF Asked
    <3> QED BY <2>1, <2>2, <3>1 DEF Configurations
  <2>4. d[f] \in FileTexts /\ s \notin d[f].sets
    BY <1>4
  <2>5. PICK t \in FileTexts : t = d[f]
    BY <2>4
  <2>6. Applied(e, f, t).val[s] = e.val[s]
    <3>1. e \in Configurations
      BY <2>1
    <3>2. s \notin t.sets
      BY <2>4, <2>5
    <3> QED BY <3>1, <3>2, PlainApplied
  <2> QED BY <1>1, <1>2, <2>1, <2>3, <2>5, <2>6
<1> QED BY <1>3, <1>4

\* Whose word a plain setting is, once the root file was read.
LEMMA OwnWordHolds == ASSUME disk \in [Files -> FileTexts] PROVE OwnWord
<1> DEFINE r == Load(Defaults, Root, 0, disk)
           t == disk[Root]
           L == Loader(disk)[DepthMax]
           base == Included(Remember(Defaults, Root, disk), t.includes, L)
           theme == ThemeFile([base EXCEPT !.dir = IF t.dir # None THEN t.dir ELSE @], t.theme, disk)
           themed(s) == t.theme # None /\ theme # NoFile /\ s \in disk[theme].sets /\ disk[theme].state = "text"
           simple == t.theme = None \/ theme = NoFile \/ (disk[theme].theme = None /\ disk[theme].includes = <<>>)
           last == t.includes[Len(t.includes)]
           e == Asked(base, t, L, disk)
           x == IF t.dir # None THEN [base EXCEPT !.dir = t.dir] ELSE base
<1>1. SUFFICES ASSUME r.ok, NEW s \in Plain
               PROVE  /\ s \in t.sets => r.c.val[s] = <<"set", Root>>
                      /\ s \notin t.sets /\ themed(s) => r.c.val[s] = <<"set", theme>>
                      /\ s \notin t.sets /\ ~themed(s) /\ simple /\ t.includes # <<>> =>
                           (disk[last].state = "text" /\ s \in disk[last].sets => r.c.val[s] = <<"set", last>>)
  BY DEF OwnWord
<1>2. Root \in Files /\ Defaults \in Configurations /\ t \in FileTexts /\ t.includes \in Seq(Files)
      /\ t.theme \in Themes \cup {None} /\ t.dir \in Dirs
  <2>1. Root \in Files /\ Defaults \in Configurations
    BY DefaultsCoherent, ConfigAssumption DEF Coherent, ConfigAssumption
  <2> QED BY <2>1 DEF FileTexts
<1>3. t.state = "text"
  BY <1>1, LoadCoherent
<1>4. Sound(L)
  BY Levels, LoaderSound
<1>5. PICK m : m = Remember(Defaults, Root, disk)
  OBVIOUS
<1>6. m \in Configurations
  BY <1>2, <1>5, RememberOnly
<1>7. base \in Configurations
  <2>1. Len(t.includes) \in 0 .. Len(t.includes)
    BY <1>2
  <2>2. PICK inner : inner = L
    OBVIOUS
  <2>3. Holds(Overlaid(m, t.includes, inner)[Len(t.includes)], m)
    BY <1>2, <1>4, <1>6, <2>1, <2>2, OverlaidHolds
  <2> QED BY <1>5, <2>2, <2>3 DEF Included, Holds
<1>8. e \in Configurations /\ x \in Configurations /\ x.val = base.val
  <2>1. e \in Configurations
    <3> HIDE DEF base, L
    <3> QED BY <1>2, <1>4, <1>7, AskedHolds DEF Holds
  <2>2. x \in Configurations /\ x.val = base.val
    <3> HIDE DEF base
    <3> QED BY <1>2, <1>7 DEF Configurations
  <2> QED BY <2>1, <2>2
<1>9. theme = ThemeFile(x, t.theme, disk)
  <2> HIDE DEF base
  <2>1. PICK a : a = [base EXCEPT !.dir = IF t.dir # None THEN t.dir ELSE @]
    OBVIOUS
  <2>2. PICK b : b = x
    OBVIOUS
  <2>3. a.dir = b.dir
    BY <1>7, <2>1, <2>2 DEF Configurations
  <2>4. ThemeFile(a, t.theme, disk) = ThemeFile(b, t.theme, disk)
    BY <2>3, ThemeFileOfDir
  <2> QED BY <2>1, <2>2, <2>4
<1>10. r.c = Applied(e, Root, t)
  <2>1. PICK c : c = Defaults
    OBVIOUS
  <2>2. PICK f : f = Root
    OBVIOUS
  <2>3. PICK inner : inner = L
    OBVIOUS
  <2>4. PICK d : d = disk
    OBVIOUS
  <2>5. LoadInto(c, f, inner, d).c =
          Applied(Asked(Included(Remember(c, f, d), d[f].includes, inner), d[f], inner, d), f, d[f])
    <3>1. d[f].state = "text"
      BY <1>3, <2>2, <2>4
    <3> QED BY <3>1, LoadedText
  <2>6. r = LoadInto(c, f, inner, d)
    BY <2>1, <2>2, <2>3, <2>4, LoadRoot
  <2> QED BY <2>1, <2>2, <2>3, <2>4, <2>5, <2>6
<1>11. r.c.val[s] = IF s \in t.sets THEN <<"set", Root>> ELSE e.val[s]
  <2> HIDE DEF e, r, t
  <2> QED BY <1>2, <1>8, <1>10, PlainApplied
<1>12. e = IF t.theme = None THEN x ELSE ThemeApplied(x, t.theme, L, disk)
  BY DEF Asked
<1> HIDE DEF e, r, base, x
<1>13. theme \in Files \cup {NoFile}
  BY <1>9, ThemeFileKnown
<1> HIDE DEF theme
<1>14. PICK y : y = [x EXCEPT !.theme = t.theme]
  OBVIOUS
<1>15. t.theme # None => y \in Configurations /\ y.val = x.val
  BY <1>2, <1>8, <1>14 DEF Configurations
<1>16. t.theme # None /\ theme # NoFile => e = L[y][theme].c
  BY <1>9, <1>12, <1>14 DEF ThemeApplied
<1>17. ASSUME themed(s) PROVE e.val[s] = <<"set", theme>>
  <2>1. theme \in Files /\ y \in Configurations /\ disk[theme].state = "text" /\ s \in disk[theme].sets
    BY <1>13, <1>15, <1>17
  <2> QED BY <1>16, <1>17, <2>1, LastWord
<1>18. ASSUME ~themed(s), simple PROVE e.val[s] = base.val[s]
  <2>1. CASE t.theme = None
    BY <1>8, <1>12, <2>1
  <2>2. CASE t.theme # None /\ theme = NoFile
    <3>1. e = Complained(x)
      BY <1>9, <1>12, <2>2 DEF ThemeApplied
    <3> QED BY <1>8, <3>1, ComplaintOnly DEF Alike
  <2>3. CASE t.theme # None /\ theme # NoFile
    <3>1. theme \in Files /\ y \in Configurations /\ disk[theme].theme = None /\ disk[theme].includes = <<>>
          /\ ~(disk[theme].state = "text" /\ s \in disk[theme].sets)
      BY <1>13, <1>15, <1>18, <2>3
    <3>2. L[y][theme].c.val[s] = y.val[s]
      BY <3>1, NoWord
    <3> QED BY <1>8, <1>15, <1>16, <2>3, <3>2
  <2> QED BY <2>1, <2>2, <2>3
<1>19. ASSUME t.includes # <<>>, disk[last].state = "text", s \in disk[last].sets PROVE base.val[s] = <<"set", last>>
  <2>1. PICK files \in Seq(Files) : files = t.includes
    BY <1>2
  <2>2. PICK n \in Nat : n = Len(files) /\ n \in 1 .. Len(files) /\ n - 1 \in 0 .. Len(files) /\ files[n] \in Files
    <3>1. Len(files) \in Nat \ {0}
      BY <1>19, <2>1
    <3> QED BY <3>1
  <2>3. PICK inner : inner = L
    OBVIOUS
  <2>4. PICK over : over = Overlaid(m, files, inner)
    OBVIOUS
  <2>5. over[n] = inner[over[n - 1]][files[n]].c
    BY <2>2, <2>4, IncludesFollow
  <2>6. over[n - 1] \in Configurations
    BY <1>4, <1>6, <2>2, <2>3, <2>4, OverlaidHolds DEF Holds
  <2>7. PICK z \in Configurations : z = over[n - 1]
    BY <2>6
  <2>8. files[n] = last /\ last \in Files
    BY <2>1, <2>2
  <2>9. L[z][last].c.val[s] = <<"set", last>>
    <3> HIDE DEF last
    <3> QED BY <1>19, <2>8, LastWord
  <2>10. base = over[n]
    BY <1>5, <2>1, <2>2, <2>3, <2>4 DEF base, Included
  <2> QED BY <2>3, <2>5, <2>7, <2>8, <2>9, <2>10
<1> HIDE DEF last, t, L
<1> QED BY <1>11, <1>17, <1>18, <1>19

(***************************************************************************)
(* The files that are watched and remembered are no more than there is     *)
(* room for, and every variable keeps its type, whatever files there are   *)
(* and whatever becomes of them.                                           *)
(***************************************************************************)
THEOREM ConfigTypeCorrect == ConfigSpec => []ConfigTypeOK
<1>1. CInv => ConfigTypeOK
  <2> SUFFICES ASSUME CInv PROVE ConfigTypeOK
    OBVIOUS
  <2>1. \A f \in Files : disk[f].state \in {"absent", "broken", "text"}
    BY DEF CInv, FileTexts
  <2>2. cfg.theme \in Themes \cup {None} /\ cfg.files \subseteq cfg.asked
    BY DEF CInv, Coherent, Configurations, FilesKept
  <2>3. /\ watched.files \subseteq Files /\ Cardinality(watched.files) <= FilesMax
        /\ watched.dirs \subseteq made /\ watched.stage \in {"on", "stale", "off"} /\ due \in BOOLEAN
    BY DEF CInv, WatcherGood, Watchers
  <2>4. /\ news.deaf \subseteq news.files /\ news.files \subseteq Files
        /\ heard \subseteq {f[2] : f \in Files}
    BY DEF CInv, NewsGood, HeardGood
  <2> QED BY <2>1, <2>2, <2>3, <2>4 DEF CInv, ConfigTypeOK
<1> QED BY <1>1, CInvInit, CInvNext, PTL DEF ConfigSpec

(***************************************************************************)
(* A setting is the word of the nearest file that has one, or what it is   *)
(* mixed from, for any files, however they include and theme one another.  *)
(***************************************************************************)
THEOREM PrecedenceHolds == ConfigSpec => []Precedence
<1>1. CInv => Precedence
  BY OwnWordHolds DEF CInv, Coherent, Precedence, Follows
<1> QED BY <1>1, CInvInit, CInvNext, PTL DEF ConfigSpec

(***************************************************************************)
(* Reading twice.  Two configurations, each read from another by the same  *)
(* files: what is found in them was given to both by one of the files, or  *)
(* kept by both.                                                           *)
(***************************************************************************)
Twin(x, y, u, w) == x = y \/ (x = u /\ y = w)

(* No file names the chain that is mixed again by every file. *)
Unchained(d) == \A g \in Files : "unfocused" \notin d[g].sets

ScrolledTwins(a, b, c, e) ==
  \/ a.declared = TRUE /\ b.declared = TRUE /\ a.val["scrolled"] = b.val["scrolled"]
  \/ /\ a.declared = c.declared /\ b.declared = e.declared
     /\ c.declared = TRUE => a.val["scrolled"] = c.val["scrolled"]
     /\ e.declared = TRUE => b.val["scrolled"] = e.val["scrolled"]

UnfocusedTwins(a, b, c, e) ==
  \/ /\ a.val["unfocused"] = c.val["unfocused"] /\ a.val["dim"] = c.val["dim"]
     /\ b.val["unfocused"] = e.val["unfocused"] /\ b.val["dim"] = e.val["dim"]
  \/ a.val["unfocused"] = Mixed(a.val["dim"]) /\ b.val["unfocused"] = Mixed(b.val["dim"])

Twins(a, b, c, e, d) ==
  /\ Twin(a.theme, b.theme, c.theme, e.theme)
  /\ Twin(a.val["dim"], b.val["dim"], c.val["dim"], e.val["dim"])
  /\ Twin(a.val["bind"], b.val["bind"], c.val["bind"], e.val["bind"])
  /\ Twin(a.val["colour"], b.val["colour"], c.val["colour"], e.val["colour"])
  /\ Twin(a.val["status"], b.val["status"], c.val["status"], e.val["status"])
  /\ ScrolledTwins(a, b, c, e)
  /\ Unchained(d) => UnfocusedTwins(a, b, c, e)

(* Themes are looked for in D. *)
In(c, D) == c \in Configurations /\ c.dir = D

Pair(a, b, c, e, d, D) == In(a, D) /\ In(b, D) /\ Twins(a, b, c, e, d)

Pairing(inner, d, D) ==
  \A c \in Configurations : \A e \in Configurations : \A f \in Files :
    In(c, D) /\ In(e, D) => Pair(inner[c][f].c, inner[e][f].c, c, e, d, D)

\* Pairs follow one another.
LEMMA PairsOn ==
  ASSUME NEW D, NEW d, NEW c, NEW e, NEW a, NEW b, NEW x, NEW y,
         Pair(a, b, c, e, d, D), Pair(x, y, a, b, d, D)
  PROVE  Pair(x, y, c, e, d, D)
<1>1. Twins(a, b, c, e, d) /\ Twins(x, y, a, b, d) /\ In(x, D) /\ In(y, D)
  BY DEF Pair
<1>2. /\ Twin(x.theme, y.theme, c.theme, e.theme)
      /\ Twin(x.val["dim"], y.val["dim"], c.val["dim"], e.val["dim"])
      /\ Twin(x.val["bind"], y.val["bind"], c.val["bind"], e.val["bind"])
      /\ Twin(x.val["colour"], y.val["colour"], c.val["colour"], e.val["colour"])
      /\ Twin(x.val["status"], y.val["status"], c.val["status"], e.val["status"])
  BY <1>1 DEF Twins, Twin
<1>3. ScrolledTwins(x, y, c, e)
  <2>1. ScrolledTwins(a, b, c, e) /\ ScrolledTwins(x, y, a, b)
    BY <1>1 DEF Twins
  <2> QED BY <2>1 DEF ScrolledTwins
<1>4. ASSUME Unchained(d) PROVE UnfocusedTwins(x, y, c, e)
  <2>1. UnfocusedTwins(a, b, c, e) /\ UnfocusedTwins(x, y, a, b)
    BY <1>1, <1>4 DEF Twins
  <2> QED BY <2>1 DEF UnfocusedTwins
<1> QED BY <1>1, <1>2, <1>3, <1>4 DEF Pair, Twins

\* What changes neither the settings nor the directory.
LEMMA SamePair ==
  ASSUME NEW D, NEW d, NEW c, NEW e, NEW a, NEW b, In(c, D), In(e, D), In(a, D), In(b, D),
         a.val = c.val, a.declared = c.declared, b.val = e.val, b.declared = e.declared,
         Twin(a.theme, b.theme, c.theme, e.theme)
  PROVE  Pair(a, b, c, e, d, D)
<1>1. ScrolledTwins(a, b, c, e) /\ UnfocusedTwins(a, b, c, e)
  BY DEF ScrolledTwins, UnfocusedTwins
<1> QED BY <1>1 DEF Pair, Twins, Twin

\* Complaining of both, and remembering a file in both.
LEMMA ComplaintPair ==
  ASSUME NEW D, NEW d, NEW c, NEW e, In(c, D), In(e, D)
  PROVE  Pair(Complained(c), Complained(e), c, e, d, D)
<1>1. c \in Configurations /\ e \in Configurations
  BY DEF In
<1>2. PICK a : a = Complained(c)
  OBVIOUS
<1>3. PICK b : b = Complained(e)
  OBVIOUS
<1>4. a \in Configurations /\ Alike(a, c) /\ b \in Configurations /\ Alike(b, e)
  BY <1>1, <1>2, <1>3, ComplaintOnly
<1>5. Pair(a, b, c, e, d, D)
  <2>1. In(a, D) /\ In(b, D) /\ Twin(a.theme, b.theme, c.theme, e.theme)
    BY <1>4 DEF In, Alike, Twin
  <2> QED BY <1>4, <2>1, SamePair DEF Alike
<1> QED BY <1>2, <1>3, <1>5

\* The same of remembering a file.
LEMMA RememberPair ==
  ASSUME NEW D, NEW d, NEW c, NEW e, In(c, D), In(e, D), NEW f \in Files
  PROVE  Pair(Remember(c, f, d), Remember(e, f, d), c, e, d, D)
<1>1. c \in Configurations /\ e \in Configurations
  BY DEF In
<1>2. PICK a : a = Remember(c, f, d)
  OBVIOUS
<1>3. PICK b : b = Remember(e, f, d)
  OBVIOUS
<1>4. a \in Configurations /\ Alike(a, c) /\ b \in Configurations /\ Alike(b, e)
  BY <1>1, <1>2, <1>3, RememberOnly
<1>5. Pair(a, b, c, e, d, D)
  <2>1. In(a, D) /\ In(b, D) /\ Twin(a.theme, b.theme, c.theme, e.theme)
    BY <1>4 DEF In, Alike, Twin
  <2> QED BY <1>4, <2>1, SamePair DEF Alike
<1> QED BY <1>2, <1>3, <1>5

\* What a file says itself it says of both.
LEMMA AppliedPair ==
  ASSUME NEW D, NEW d \in [Files -> FileTexts], NEW c, NEW e, In(c, D), In(e, D), NEW f \in Files, NEW t, t = d[f]
  PROVE  Pair(Applied(c, f, t), Applied(e, f, t), c, e, d, D)
<1>1. c \in Configurations /\ e \in Configurations /\ t \in FileTexts /\ c.dir = D /\ e.dir = D
  BY DEF In
<1> DEFINE give(x, s) == IF s \in t.sets THEN <<"set", f>> ELSE x.val[s]
           said(x) == x.declared \/ "scrolled" \in t.sets
<1>2. PICK a : a = Applied(c, f, t)
  OBVIOUS
<1>3. PICK b : b = Applied(e, f, t)
  OBVIOUS
<1>4. /\ a \in Configurations /\ a.dir = D /\ a.theme = c.theme /\ a.declared = said(c)
      /\ SlotsAre(a.val, give(c, "dim"), give(c, "bind"), give(c, "colour"),
                  IF "colour" \in t.sets /\ "status" \notin t.sets THEN Mixed(give(c, "colour")) ELSE give(c, "status"),
                  IF said(c) THEN give(c, "scrolled") ELSE Mixed(give(c, "colour")),
                  IF "unfocused" \in t.sets THEN give(c, "unfocused") ELSE Mixed(give(c, "dim")))
  BY <1>1, <1>2, AppliedSlots
<1>5. /\ b \in Configurations /\ b.dir = D /\ b.theme = e.theme /\ b.declared = said(e)
      /\ SlotsAre(b.val, give(e, "dim"), give(e, "bind"), give(e, "colour"),
                  IF "colour" \in t.sets /\ "status" \notin t.sets THEN Mixed(give(e, "colour")) ELSE give(e, "status"),
                  IF said(e) THEN give(e, "scrolled") ELSE Mixed(give(e, "colour")),
                  IF "unfocused" \in t.sets THEN give(e, "unfocused") ELSE Mixed(give(e, "dim")))
  BY <1>1, <1>3, AppliedSlots
<1>6. /\ Twin(a.theme, b.theme, c.theme, e.theme)
      /\ Twin(a.val["dim"], b.val["dim"], c.val["dim"], e.val["dim"])
      /\ Twin(a.val["bind"], b.val["bind"], c.val["bind"], e.val["bind"])
      /\ Twin(a.val["colour"], b.val["colour"], c.val["colour"], e.val["colour"])
      /\ Twin(a.val["status"], b.val["status"], c.val["status"], e.val["status"])
  BY <1>4, <1>5 DEF SlotsAre, Twin
<1>7. ScrolledTwins(a, b, c, e)
  <2>1. c.declared \in BOOLEAN /\ e.declared \in BOOLEAN
    BY <1>1 DEF Configurations
  <2>2. CASE "scrolled" \in t.sets
    BY <1>4, <1>5, <2>2 DEF SlotsAre, ScrolledTwins
  <2>3. CASE "scrolled" \notin t.sets
    BY <1>4, <1>5, <2>1, <2>3 DEF SlotsAre, ScrolledTwins
  <2> QED BY <2>2, <2>3
<1>8. ASSUME Unchained(d) PROVE UnfocusedTwins(a, b, c, e)
  <2>1. "unfocused" \notin t.sets
    BY <1>8 DEF Unchained
  <2> QED BY <1>4, <1>5, <2>1 DEF SlotsAre, UnfocusedTwins
<1>9. Pair(a, b, c, e, d, D)
  BY <1>4, <1>5, <1>6, <1>7, <1>8 DEF Pair, Twins, In
<1> QED BY <1>2, <1>3, <1>9

\* A theme worn over both is found in the same file, as it is looked for in the same place.
LEMMA ThemePair ==
  ASSUME NEW D, NEW d, NEW inner, Pairing(inner, d, D), NEW c, NEW e, In(c, D), In(e, D), NEW name \in Themes
  PROVE  Pair(ThemeApplied(c, name, inner, d), ThemeApplied(e, name, inner, d), c, e, d, D)
<1>1. c \in Configurations /\ e \in Configurations /\ c.dir = e.dir
  BY DEF In
<1>2. ThemeFile(c, name, d) = ThemeFile(e, name, d)
  BY <1>1, ThemeFileOfDir
<1>3. CASE ThemeFile(c, name, d) = NoFile
  <2>1. ThemeApplied(c, name, inner, d) = Complained(c) /\ ThemeApplied(e, name, inner, d) = Complained(e)
    BY <1>2, <1>3 DEF ThemeApplied
  <2> QED BY <2>1, ComplaintPair
<1>4. CASE ThemeFile(c, name, d) # NoFile
  <2>1. PICK f \in Files : f = ThemeFile(c, name, d)
    BY <1>4, ThemeFileKnown
  <2>2. PICK a : a = [c EXCEPT !.theme = name]
    OBVIOUS
  <2>3. PICK b : b = [e EXCEPT !.theme = name]
    OBVIOUS
  <2>4. In(a, D) /\ a.val = c.val /\ a.declared = c.declared /\ a.theme = name
    BY <1>1, <2>2 DEF In, Configurations
  <2>5. In(b, D) /\ b.val = e.val /\ b.declared = e.declared /\ b.theme = name
    BY <1>1, <2>3 DEF In, Configurations
  <2>6. Pair(a, b, c, e, d, D)
    <3>1. Twin(a.theme, b.theme, c.theme, e.theme)
      BY <2>4, <2>5 DEF Twin
    <3> QED BY <2>4, <2>5, <3>1, SamePair
  <2>7. Pair(inner[a][f].c, inner[b][f].c, a, b, d, D)
    BY <2>4, <2>5 DEF Pairing, In
  <2>8. Pair(inner[a][f].c, inner[b][f].c, c, e, d, D)
    BY <2>6, <2>7, PairsOn
  <2>9. ThemeApplied(c, name, inner, d) = inner[a][f].c /\ ThemeApplied(e, name, inner, d) = inner[b][f].c
    BY <1>2, <1>4, <2>1, <2>2, <2>3 DEF ThemeApplied
  <2> QED BY <2>8, <2>9
<1> QED BY <1>3, <1>4

\* So are a directory and a theme that are asked for, if the directory is the same.
LEMMA AskedPair ==
  ASSUME NEW D, NEW d, NEW inner, Pairing(inner, d, D), NEW c, NEW e, In(c, D), In(e, D),
         NEW t \in FileTexts, t.dir \in {None, D}
  PROVE  Pair(Asked(c, t, inner, d), Asked(e, t, inner, d), c, e, d, D)
<1>1. c \in Configurations /\ e \in Configurations /\ c.dir = D /\ e.dir = D /\ t.theme \in Themes \cup {None}
  BY DEF In, FileTexts
<1>2. PICK a : a = IF t.dir # None THEN [c EXCEPT !.dir = t.dir] ELSE c
  OBVIOUS
<1>3. PICK b : b = IF t.dir # None THEN [e EXCEPT !.dir = t.dir] ELSE e
  OBVIOUS
<1>4. a = c /\ b = e
  BY <1>1, <1>2, <1>3 DEF Configurations
<1>5. CASE t.theme = None
  <2>1. Asked(c, t, inner, d) = a /\ Asked(e, t, inner, d) = b
    BY <1>2, <1>3, <1>5 DEF Asked
  <2>2. Pair(c, e, c, e, d, D)
    BY SamePair DEF Twin
  <2> QED BY <1>4, <2>1, <2>2
<1>6. CASE t.theme # None
  <2>1. Asked(c, t, inner, d) = ThemeApplied(a, t.theme, inner, d)
        /\ Asked(e, t, inner, d) = ThemeApplied(b, t.theme, inner, d)
    BY <1>2, <1>3, <1>6 DEF Asked
  <2>2. PICK name \in Themes : name = t.theme
    BY <1>1, <1>6
  <2>3. Pair(ThemeApplied(c, name, inner, d), ThemeApplied(e, name, inner, d), c, e, d, D)
    BY ThemePair
  <2> QED BY <1>4, <2>1, <2>2, <2>3
<1> QED BY <1>5, <1>6

\* Includes, one over the other, in both.
LEMMA OverlaidPair ==
  ASSUME NEW D, NEW d, NEW inner, Pairing(inner, d, D), NEW c, NEW e, In(c, D), In(e, D), NEW files \in Seq(Files)
  PROVE  Pair(Included(c, files, inner), Included(e, files, inner), c, e, d, D)
<1> DEFINE up == Overlaid(c, files, inner)
           vp == Overlaid(e, files, inner)
           S == {i \in Nat : i <= Len(files) => Pair(up[i], vp[i], c, e, d, D)}
<1>1. up[0] = c /\ \A i \in 1 .. Len(files) : up[i] = inner[up[i - 1]][files[i]].c
  BY IncludesFollow
<1>2. vp[0] = e /\ \A i \in 1 .. Len(files) : vp[i] = inner[vp[i - 1]][files[i]].c
  BY IncludesFollow
<1> HIDE DEF up, vp
<1>3. 0 \in S
  <2>1. Pair(c, e, c, e, d, D)
    BY SamePair DEF Twin
  <2> QED BY <1>1, <1>2, <2>1
<1>4. ASSUME NEW i \in Nat, i \in S PROVE i + 1 \in S
  <2>1. SUFFICES ASSUME i + 1 <= Len(files) PROVE Pair(up[i + 1], vp[i + 1], c, e, d, D)
    OBVIOUS
  <2>2. Len(files) \in Nat /\ i + 1 \in 1 .. Len(files) /\ (i + 1) - 1 = i /\ i <= Len(files)
    BY <2>1
  <2>3. PICK f \in Files : f = files[i + 1]
    BY <2>2
  <2>4. PICK a : a = up[i]
    OBVIOUS
  <2>5. PICK b : b = vp[i]
    OBVIOUS
  <2>6. up[i + 1] = inner[a][f].c /\ vp[i + 1] = inner[b][f].c
    BY <1>1, <1>2, <2>2, <2>3, <2>4, <2>5
  <2>7. Pair(a, b, c, e, d, D)
    BY <1>4, <2>2, <2>4, <2>5
  <2>8. Pair(inner[a][f].c, inner[b][f].c, a, b, d, D)
    BY <2>7 DEF Pair, Pairing, In
  <2> QED BY <2>6, <2>7, <2>8, PairsOn
<1>5. S \in SUBSET Nat
  OBVIOUS
<1>6. S = Nat
  <2> HIDE DEF S
  <2> QED BY <1>3, <1>4, <1>5, Onwards
<1>7. Len(files) \in Nat
  OBVIOUS
<1>8. Pair(up[Len(files)], vp[Len(files)], c, e, d, D)
  BY <1>6, <1>7
<1> QED BY <1>8 DEF up, vp, Included

(* No other directory is named anywhere. *)
OneDir(d, D) == \A g \in Files : d[g].dir \in {None, D}

\* A file read into both.
LEMMA LoadPair ==
  ASSUME NEW D, NEW d \in [Files -> FileTexts], OneDir(d, D), NEW inner, Pairing(inner, d, D),
         NEW c, NEW e, In(c, D), In(e, D), NEW f \in Files
  PROVE  Pair(LoadInto(c, f, inner, d).c, LoadInto(e, f, inner, d).c, c, e, d, D)
<1>1. PICK t : t = d[f]
  OBVIOUS
<1>2. t \in FileTexts /\ t.includes \in Seq(Files) /\ t.dir \in {None, D}
  BY <1>1 DEF FileTexts, OneDir
<1>3. PICK r : r = Remember(c, f, d)
  OBVIOUS
<1>4. PICK s : s = Remember(e, f, d)
  OBVIOUS
<1>5. Pair(r, s, c, e, d, D)
  BY <1>3, <1>4, RememberPair
<1>6. In(r, D) /\ In(s, D)
  BY <1>5 DEF Pair
<1>7. CASE t.state # "text"
  <2>1. LoadInto(c, f, inner, d).c = Complained(r) /\ LoadInto(e, f, inner, d).c = Complained(s)
    BY <1>1, <1>3, <1>4, <1>7, LoadedNot, RefusedIs
  <2>2. Pair(Complained(r), Complained(s), r, s, d, D)
    BY <1>6, ComplaintPair
  <2> QED BY <1>5, <2>1, <2>2, PairsOn
<1>8. CASE t.state = "text"
  <2>1. PICK a : a = Included(r, t.includes, inner)
    OBVIOUS
  <2>2. PICK b : b = Included(s, t.includes, inner)
    OBVIOUS
  <2>3. PICK files \in Seq(Files) : files = t.includes
    BY <1>2
  <2>4. Pair(a, b, r, s, d, D)
    BY <1>6, <2>1, <2>2, <2>3, OverlaidPair
  <2>5. PICK x : x = Asked(a, t, inner, d)
    OBVIOUS
  <2>6. PICK y : y = Asked(b, t, inner, d)
    OBVIOUS
  <2>7. In(a, D) /\ In(b, D)
    BY <2>4 DEF Pair
  <2>8. Pair(x, y, a, b, d, D)
    BY <1>2, <2>5, <2>6, <2>7, AskedPair
  <2>9. In(x, D) /\ In(y, D)
    BY <2>8 DEF Pair
  <2>10. Pair(Applied(x, f, t), Applied(y, f, t), x, y, d, D)
    BY <1>1, <2>9, AppliedPair
  <2>11. LoadInto(c, f, inner, d).c = Applied(x, f, t)
    <3>1. d[f].state = "text"
      BY <1>1, <1>8
    <3>2. LoadInto(c, f, inner, d).c =
            Applied(Asked(Included(Remember(c, f, d), d[f].includes, inner), d[f], inner, d), f, d[f])
      BY <3>1, LoadedText
    <3> QED BY <1>1, <1>3, <2>1, <2>5, <3>2
  <2>12. LoadInto(e, f, inner, d).c = Applied(y, f, t)
    <3>1. d[f].state = "text"
      BY <1>1, <1>8
    <3>2. LoadInto(e, f, inner, d).c =
            Applied(Asked(Included(Remember(e, f, d), d[f].includes, inner), d[f], inner, d), f, d[f])
      BY <3>1, LoadedText
    <3> QED BY <1>1, <1>4, <2>2, <2>6, <3>2
  <2>13. Pair(Applied(x, f, t), Applied(y, f, t), a, b, d, D)
    BY <2>8, <2>10, PairsOn
  <2>14. Pair(Applied(x, f, t), Applied(y, f, t), r, s, d, D)
    BY <2>4, <2>13, PairsOn
  <2> QED BY <1>5, <2>11, <2>12, <2>14, PairsOn
<1> QED BY <1>7, <1>8

\* However deep it goes.
LEMMA LoaderPairs ==
  ASSUME NEW D, NEW d \in [Files -> FileTexts], OneDir(d, D)
  PROVE  \A n \in 0 .. DepthMax + 1 : Pairing(Loader(d)[n], d, D)
<1> DEFINE S == {n \in Nat : n <= DepthMax + 1 => Pairing(Loader(d)[n], d, D)}
<1>0. DepthMax + 1 \in Nat
  BY ConfigAssumption DEF ConfigAssumption
<1>1. 0 \in S
  <2>1. ASSUME NEW c \in Configurations, NEW e \in Configurations, NEW f \in Files, In(c, D), In(e, D)
        PROVE  Pair(Loader(d)[0][c][f].c, Loader(d)[0][e][f].c, c, e, d, D)
    <3>1. Loader(d)[0][c][f].c = Complained(c) /\ Loader(d)[0][e][f].c = Complained(e)
      BY LoaderLevels, RefusedIs
    <3> QED BY <2>1, <3>1, ComplaintPair
  <2> QED BY <2>1 DEF Pairing
<1>2. ASSUME NEW n \in Nat, n \in S PROVE n + 1 \in S
  <2>1. SUFFICES ASSUME n + 1 <= DepthMax + 1 PROVE Pairing(Loader(d)[n + 1], d, D)
    OBVIOUS
  <2>2. n + 1 \in 1 .. DepthMax + 1 /\ (n + 1) - 1 = n /\ n <= DepthMax + 1
    BY <1>0, <2>1
  <2>3. PICK inner : inner = Loader(d)[n]
    OBVIOUS
  <2>4. Pairing(inner, d, D)
    BY <1>2, <2>2, <2>3
  <2>5. ASSUME NEW c \in Configurations, NEW e \in Configurations, NEW f \in Files, In(c, D), In(e, D)
        PROVE  Pair(Loader(d)[n + 1][c][f].c, Loader(d)[n + 1][e][f].c, c, e, d, D)
    <3>1. Loader(d)[n + 1][c][f] = LoadInto(c, f, inner, d) /\ Loader(d)[n + 1][e][f] = LoadInto(e, f, inner, d)
      BY <2>2, <2>3, LoaderLevels
    <3>2. Pair(LoadInto(c, f, inner, d).c, LoadInto(e, f, inner, d).c, c, e, d, D)
      BY <2>4, <2>5, LoadPair
    <3> QED BY <3>1, <3>2
  <2> QED BY <2>5 DEF Pairing
<1>3. S \in SUBSET Nat
  OBVIOUS
<1>4. S = Nat
  <2> HIDE DEF S
  <2> QED BY <1>1, <1>2, <1>3, Onwards
<1> QED BY <1>0, <1>4

\* What a root file that says nothing of its own but a theme comes to.
LEMMA RootOfTheme ==
  ASSUME NEW d \in [Files -> FileTexts], d[Root].state = "text", d[Root].includes = <<>>,
         NEW name \in Themes, name = d[Root].theme
  PROVE  \E x : /\ In(x, d[Root].dir) /\ Coherent(x)
                /\ Load(Defaults, Root, 0, d).c =
                     Applied(ThemeApplied(x, name, Loader(d)[DepthMax], d), Root, d[Root])
<1>1. PICK c : c = Defaults
  OBVIOUS
<1>2. c \in Configurations /\ Coherent(c) /\ c.dir = None /\ None \notin Themes
  BY <1>1, DefaultsCoherent, ConfigAssumption DEF Coherent, Defaults, ConfigAssumption
<1>3. PICK f \in Files : f = Root
  BY ConfigAssumption DEF ConfigAssumption
<1>4. PICK inner : inner = Loader(d)[DepthMax]
  OBVIOUS
<1>5. PICK t \in FileTexts : t = d[f]
  OBVIOUS
<1>6. PICK m : m = Remember(c, f, d)
  OBVIOUS
<1>7. m \in Configurations /\ Coherent(m) /\ m.dir = None
  BY <1>2, <1>6, RememberOnly, RememberCoherent DEF Alike
<1>8. Included(m, t.includes, inner) = m
  <2>1. PICK files \in Seq(Files) : files = <<>>
    <3>1. <<>> \in Seq(Files)
      OBVIOUS
    <3> QED BY <3>1
  <2>2. Overlaid(m, files, inner)[0] = m
    BY IncludesFollow
  <2>3. Len(files) = 0
    BY <2>1
  <2>4. files = t.includes
    BY <1>3, <1>5, <2>1
  <2> QED BY <2>2, <2>3, <2>4 DEF Included
<1>9. PICK x : x = IF t.dir # None THEN [m EXCEPT !.dir = t.dir] ELSE m
  OBVIOUS
<1>10. In(x, t.dir) /\ Coherent(x)
  <2>1. t.dir \in Dirs
    BY DEF FileTexts
  <2>2. Holds([m EXCEPT !.dir = t.dir], m)
    BY <1>7, <2>1, NamingHolds
  <2>3. Coherent(x)
    BY <1>7, <1>9, <2>2 DEF Holds
  <2>4. x.dir = t.dir
    BY <1>7, <1>9 DEF Configurations
  <2> QED BY <2>3, <2>4 DEF In, Coherent
<1>11. Asked(m, t, inner, d) = ThemeApplied(x, name, inner, d)
  BY <1>2, <1>3, <1>5, <1>9 DEF Asked
<1>12. LoadInto(c, f, inner, d).c = Applied(ThemeApplied(x, name, inner, d), f, t)
  <2>1. d[f].state = "text"
    BY <1>3
  <2>2. LoadInto(c, f, inner, d).c =
          Applied(Asked(Included(Remember(c, f, d), d[f].includes, inner), d[f], inner, d), f, d[f])
    BY <2>1, LoadedText
  <2> QED BY <1>5, <1>6, <1>8, <1>11, <2>2
<1>13. Load(Defaults, Root, 0, d) = LoadInto(c, f, inner, d)
  BY <1>1, <1>3, <1>4, LoadRoot
<1> QED BY <1>3, <1>4, <1>5, <1>10, <1>12, <1>13

\* What a theme laid over the configuration comes to, but for what was complained of.
LEMMA OverIs ==
  ASSUME NEW d \in [Files -> FileTexts], d[Root].state = "text", NEW name \in Themes,
         NEW r, r = Load(Defaults, Root, 0, d).c
  PROVE  \E y, g : /\ y = [r EXCEPT !.bad = FALSE] /\ Coherent(y) /\ Coherent(r)
                   /\ y.val = r.val /\ y.theme = r.theme /\ y.dir = r.dir /\ y.declared = r.declared
                   /\ g = ThemeApplied(y, name, Loader(d)[DepthMax], d) /\ Coherent(g)
                   /\ Reloaded(d, name).c.val = g.val /\ Reloaded(d, name).c.theme = g.theme
                   /\ Reloaded(d, name).c.dir = g.dir
<1>1. PICK l : l = Load(Defaults, Root, 0, d)
  OBVIOUS
<1>2. Coherent(r) /\ l.ok = TRUE /\ r = l.c /\ r \in Configurations
  BY <1>1, LoadCoherent DEF Coherent
<1>3. PICK y : y = [r EXCEPT !.bad = FALSE]
  OBVIOUS
<1>4. Coherent(y) /\ y \in Configurations
  BY <1>2, <1>3, BadHolds DEF Holds
<1>5. y.val = r.val /\ y.theme = r.theme /\ y.dir = r.dir /\ y.declared = r.declared
  BY <1>2, <1>3 DEF Configurations
<1>6. PICK g : g = ThemeApplied(y, name, Loader(d)[DepthMax], d)
  OBVIOUS
<1>7. Coherent(g) /\ g \in Configurations
  <2>1. Sound(Loader(d)[DepthMax])
    BY Levels, LoaderSound
  <2>2. PICK inner : inner = Loader(d)[DepthMax]
    OBVIOUS
  <2>3. Holds(ThemeApplied(y, name, inner, d), y)
    BY <1>4, <2>1, <2>2, ThemeHolds
  <2> QED BY <1>4, <1>6, <2>2, <2>3 DEF Holds
<1>8. PICK o : o = ApplyTheme(r, name, d)
  OBVIOUS
<1>9. o.c = [g EXCEPT !.bad = g.bad \/ r.bad]
  BY <1>3, <1>6, <1>8, ThemeTried
<1>10. o.c.val = g.val /\ o.c.theme = g.theme /\ o.c.dir = g.dir /\ o.c \in Configurations
  <2>1. PICK b \in BOOLEAN : b = (g.bad \/ r.bad)
    BY <1>2, <1>7 DEF Configurations
  <2>2. o.c = [g EXCEPT !.bad = b]
    BY <1>9, <2>1
  <2> QED BY <1>7, <2>2 DEF Configurations
<1>11. name # None
  BY ConfigAssumption DEF ConfigAssumption
<1>12. PICK b \in BOOLEAN : b = (o.c.bad \/ ~o.ok)
  BY <1>10 DEF Configurations
<1>13. Reloaded(d, name).c = [o.c EXCEPT !.bad = b]
  <2>1. PICK p : p = ApplyTheme(l.c, name, d)
    OBVIOUS
  <2>2. p = o
    BY <1>2, <1>8, <2>1
  <2>3. Reloaded(d, name).c = [p.c EXCEPT !.bad = p.c.bad \/ ~p.ok]
    BY <1>1, <1>2, <1>11, <2>1, ReloadedIs
  <2> QED BY <1>12, <2>2, <2>3
<1>14. Reloaded(d, name).c.val = g.val /\ Reloaded(d, name).c.theme = g.theme /\ Reloaded(d, name).c.dir = g.dir
  <2>1. PICK k : k = o.c
    OBVIOUS
  <2>2. k \in Configurations /\ k.val = g.val /\ k.theme = g.theme /\ k.dir = g.dir /\ Reloaded(d, name).c = [k EXCEPT !.bad = b]
    BY <1>10, <1>13, <2>1
  <2> QED BY <2>2 DEF Configurations
<1> QED BY <1>2, <1>3, <1>4, <1>5, <1>6, <1>7, <1>14

\* A theme laid over a configuration that has none is one that is not there.
LEMMA NoThemeMissing ==
  ASSUME NEW d \in [Files -> FileTexts], d[Root].state = "text", NEW name \in Themes, Reloaded(d, name).c.theme = None
  PROVE  /\ Reloaded(d, name).c.val = Reloaded(d, None).c.val
         /\ Reloaded(d, None).c.theme = None
<1>1. PICK r : r = Load(Defaults, Root, 0, d).c
  OBVIOUS
<1>2. PICK y, g : /\ Coherent(y) /\ y.val = r.val /\ y.theme = r.theme
                  /\ g = ThemeApplied(y, name, Loader(d)[DepthMax], d) /\ Coherent(g)
                  /\ Reloaded(d, name).c.val = g.val /\ Reloaded(d, name).c.theme = g.theme
  BY <1>1, OverIs
<1>3. Reloaded(d, None).c = r
  BY <1>1, ReloadedIs
<1>4. y \in Configurations /\ None \notin Themes
  BY <1>2, ConfigAssumption DEF Coherent, ConfigAssumption
<1>5. CASE ThemeFile(y, name, d) = NoFile
  <2>1. g = Complained(y)
    BY <1>2, <1>5 DEF ThemeApplied
  <2>2. g.val = y.val /\ g.theme = y.theme
    BY <1>4, <2>1, ComplaintOnly DEF Alike
  <2> QED BY <1>2, <1>3, <2>2
<1>6. CASE ThemeFile(y, name, d) # NoFile
  <2>1. PICK f \in Files : f = ThemeFile(y, name, d)
    BY <1>6, ThemeFileKnown
  <2>2. PICK a : a = [y EXCEPT !.theme = name]
    OBVIOUS
  <2>3. a \in Configurations /\ a.theme # None
    BY <1>4, <2>2 DEF Configurations
  <2>4. PICK inner : inner = Loader(d)[DepthMax]
    OBVIOUS
  <2>5. Sound(inner)
    BY <2>4, Levels, LoaderSound
  <2>6. g = inner[a][f].c
    BY <1>2, <1>6, <2>1, <2>2, <2>4 DEF ThemeApplied
  <2>7. g.theme # None
    BY <2>3, <2>5, <2>6 DEF Sound, Holds
  <2> QED BY <1>2, <2>7
<1> QED BY <1>5, <1>6

(***************************************************************************)
(* The theme a file asks for, laid once more over all that the file comes  *)
(* to, changes nothing but a chain that the file had mixed anew.           *)
(***************************************************************************)
LEMMA WornTwice ==
  ASSUME NEW d \in [Files -> FileTexts], d[Root].state = "text", d[Root].sets = {}, d[Root].includes = <<>>,
         \A g \in Files \ {Root} : d[g].dir = None,
         NEW name \in Themes, name = d[Root].theme,
         NEW r, r = Load(Defaults, Root, 0, d).c, r.theme = name
  PROVE  /\ Reloaded(d, name).c.theme = name
         /\ \A s \in Slots : \/ Reloaded(d, name).c.val[s] = r.val[s]
                             \/ s = "unfocused" /\ \E g \in Files \ {Root} : s \in d[g].sets
<1>1. PICK inner : inner = Loader(d)[DepthMax]
  OBVIOUS
<1>2. PICK D : D = d[Root].dir
  OBVIOUS
<1>3. PICK root \in Files : root = Root
  BY ConfigAssumption DEF ConfigAssumption
<1>4. PICK t \in FileTexts : t = d[root]
  OBVIOUS
<1>5. PICK x : In(x, D) /\ Coherent(x) /\ r = Applied(ThemeApplied(x, name, inner, d), root, t)
  BY <1>1, <1>2, <1>3, <1>4, RootOfTheme
<1>6. PICK y, g : /\ Coherent(y) /\ Coherent(r)
                  /\ y.val = r.val /\ y.theme = r.theme /\ y.dir = r.dir /\ y.declared = r.declared
                  /\ g = ThemeApplied(y, name, inner, d) /\ Coherent(g)
                  /\ Reloaded(d, name).c.val = g.val /\ Reloaded(d, name).c.theme = g.theme
  BY <1>1, OverIs
<1>7. OneDir(d, D)
  BY <1>2 DEF OneDir
<1>8. Pairing(inner, d, D) /\ Sound(inner)
  BY <1>1, <1>7, Levels, LoaderPairs, LoaderSound
<1>9. PICK e : e = ThemeApplied(x, name, inner, d)
  OBVIOUS
<1>10. Pair(e, e, x, x, d, D) /\ Holds(e, x)
  <2>1. x \in Configurations
    BY <1>5 DEF In
  <2> QED BY <1>5, <1>8, <1>9, <2>1, ThemePair, ThemeHolds
<1>11. e \in Configurations /\ e.dir = D
  BY <1>10 DEF Pair, In
<1>12. /\ r \in Configurations /\ r.dir = D /\ r.theme = e.theme /\ r.declared = e.declared
       /\ r.val["dim"] = e.val["dim"] /\ r.val["bind"] = e.val["bind"] /\ r.val["colour"] = e.val["colour"]
       /\ r.val["status"] = e.val["status"] /\ r.val["unfocused"] = Mixed(e.val["dim"])
       /\ r.declared = TRUE => r.val["scrolled"] = e.val["scrolled"]
  <2>1. t.sets = {} /\ r = Applied(e, root, t) /\ e.declared \in BOOLEAN
    BY <1>3, <1>4, <1>5, <1>9, <1>11 DEF Configurations
  <2> DEFINE give(s) == IF s \in t.sets THEN <<"set", root>> ELSE e.val[s]
             said == e.declared \/ "scrolled" \in t.sets
  <2>a. PICK a : a = Applied(e, root, t)
    OBVIOUS
  <2>b. e \in Configurations
    BY <1>11
  <2>2. /\ a \in Configurations /\ a.dir = e.dir /\ a.theme = e.theme /\ a.declared = said
        /\ SlotsAre(a.val, give("dim"), give("bind"), give("colour"),
                    IF "colour" \in t.sets /\ "status" \notin t.sets THEN Mixed(give("colour")) ELSE give("status"),
                    IF said THEN give("scrolled") ELSE Mixed(give("colour")),
                    IF "unfocused" \in t.sets THEN give("unfocused") ELSE Mixed(give("dim")))
    BY <2>a, <2>b, AppliedSlots
  <2> QED BY <1>11, <2>1, <2>2, <2>a DEF SlotsAre
<1>13. In(y, D) /\ y \in Configurations
  BY <1>6, <1>12 DEF In, Coherent
<1>14. ThemeFile(x, name, d) = ThemeFile(y, name, d)
  <2>1. x.dir = y.dir
    BY <1>5, <1>13 DEF In
  <2> QED BY <2>1, ThemeFileOfDir
<1>15. CASE ThemeFile(x, name, d) = NoFile
  <2>1. g = Complained(y)
    BY <1>6, <1>14, <1>15 DEF ThemeApplied
  <2>2. g.val = y.val /\ g.theme = y.theme
    BY <1>13, <2>1, ComplaintOnly DEF Alike
  <2> QED BY <1>6, <2>2
<1>16. CASE ThemeFile(x, name, d) # NoFile
  <2>1. PICK f \in Files : f = ThemeFile(x, name, d)
    BY <1>16, ThemeFileKnown
  <2>2. PICK u : u = [x EXCEPT !.theme = name]
    OBVIOUS
  <2>3. PICK w : w = [y EXCEPT !.theme = name]
    OBVIOUS
  <2>4. In(u, D) /\ u.theme = name
    BY <1>5, <2>2 DEF In, Configurations
  <2>5. In(w, D) /\ w.theme = name /\ w.val = r.val /\ w.declared = r.declared
    BY <1>6, <1>13, <2>3 DEF In, Configurations
  <2>6. e = inner[u][f].c
    BY <1>9, <1>16, <2>1, <2>2 DEF ThemeApplied
  <2>7. g = inner[w][f].c
    BY <1>6, <1>14, <1>16, <2>1, <2>3 DEF ThemeApplied
  <2>8. Twins(e, g, u, w, d)
    BY <1>8, <2>4, <2>5, <2>6, <2>7 DEF Pairing, Pair, In
  <2>9. g.theme = name
    BY <1>12, <2>4, <2>5, <2>8 DEF Twins, Twin
  <2>10. /\ g.val["dim"] = r.val["dim"] /\ g.val["bind"] = r.val["bind"]
         /\ g.val["colour"] = r.val["colour"] /\ g.val["status"] = r.val["status"]
    BY <1>12, <2>5, <2>8 DEF Twins, Twin
  <2>11. g.val["scrolled"] = r.val["scrolled"]
    <3>1. MixedRight(r) /\ MixedRight(g) /\ r.declared \in BOOLEAN /\ g.declared \in BOOLEAN
          /\ r.val["scrolled"][1] \in {"set", "mixed"} /\ g.val["scrolled"][1] \in {"set", "mixed"}
      <4>1. "scrolled" \in Slots
        BY DEF Slots
      <4> QED BY <1>6, <4>1 DEF Coherent, Configurations
    <3>2. ScrolledTwins(e, g, u, w)
      BY <2>8 DEF Twins
    <3>3. CASE r.declared = TRUE
      BY <1>12, <2>5, <3>2, <3>3 DEF ScrolledTwins
    <3>4. CASE r.declared = FALSE
      <4>1. g.declared = FALSE
        BY <1>12, <2>5, <3>2, <3>4 DEF ScrolledTwins
      <4>2. r.val["scrolled"] = Mixed(r.val["colour"]) /\ g.val["scrolled"] = Mixed(g.val["colour"])
        BY <3>1, <3>4, <4>1 DEF MixedRight
      <4> QED BY <2>10, <4>2
    <3> QED BY <3>1, <3>3, <3>4
  <2>12. ASSUME \A h \in Files \ {Root} : "unfocused" \notin d[h].sets PROVE g.val["unfocused"] = r.val["unfocused"]
    <3>1. Unchained(d)
      BY <2>12 DEF Unchained
    <3>2. UnfocusedTwins(e, g, u, w)
      BY <2>8, <3>1 DEF Twins
    <3> QED BY <1>12, <2>5, <2>10, <3>2 DEF UnfocusedTwins
  <2> QED BY <1>6, <2>9, <2>10, <2>11, <2>12 DEF Slots
<1> QED BY <1>15, <1>16

(***************************************************************************)
(* The session's invariant about the picker.  While nobody else has        *)
(* touched anything, what the picker was opened over is what a reload      *)
(* would still give, and after Escape the session is what a reload gives   *)
(* with the theme of then.                                                 *)
(***************************************************************************)
Undoable == disk[Root].state = "text" /\ (picker.was = None \/ Wearable(picker.was, disk))

PickerTrue ==
  /\ picker.open => ~picker.escaped
  /\ (picker.open \/ picker.escaped) /\ picker.quiet =>
       picker.before = Reloaded(disk, picker.over).c /\ picker.was = picker.before.theme
  /\ picker.escaped /\ picker.quiet /\ Undoable => cfg = Reloaded(disk, picker.was).c

EInv == CInv /\ PickerTrue

\* A picker that is shut, or that was disturbed, promises nothing.
LEMMA PromisesNothing ==
  ASSUME CInv, picker' = Shut \/ picker' = Disturbed
  PROVE  PickerTrue'
<1>1. CASE picker' = Shut
  BY <1>1 DEF Shut, PickerTrue
<1>2. CASE picker' = Disturbed
  <2>1. picker'.escaped = FALSE /\ picker'.quiet = FALSE
    BY <1>2 DEF Disturbed, CInv, PickerGood, Pickers
  <2> QED BY <2>1 DEF PickerTrue
<1> QED BY <1>1, <1>2

\* The invariant is kept.
LEMMA EInvNext == EInv /\ [ConfigNext]_configs => EInv'
<1> SUFFICES ASSUME EInv, [ConfigNext]_configs PROVE EInv'
  OBVIOUS
<1>0. CInv /\ CInv' /\ PickerTrue
  BY CInvNext DEF EInv
<1>1. SUFFICES PickerTrue'
  BY <1>0 DEF EInv
<1>2. picker \in Pickers
  BY <1>0 DEF CInv, PickerGood
<1>3. ASSUME picker' = Shut \/ picker' = Disturbed PROVE PickerTrue'
  BY <1>0, <1>3, PromisesNothing
<1>4. CASE OpenPicker
  <2>1. /\ picker' = [Shut EXCEPT !.open = TRUE, !.was = cfg.theme, !.list = ThemesListed(cfg, disk),
                                  !.before = cfg, !.over = override, !.quiet = (cfg = Reloaded(disk, override).c)]
        /\ UNCHANGED <<disk, cfg>>
    BY <1>4 DEF OpenPicker
  <2>2. /\ picker'.escaped = FALSE /\ picker'.was = cfg.theme /\ picker'.before = cfg /\ picker'.over = override
        /\ picker'.quiet = (cfg = Reloaded(disk, override).c)
    BY <2>1 DEF Shut
  <2>3. disk' = disk
    BY <2>1
  <2> QED BY <2>2, <2>3 DEF PickerTrue
<1>5. ASSUME NEW n \in Themes, Preview(n) PROVE PickerTrue'
  <2>1. picker.open /\ SetTheme(n, FALSE) /\ UNCHANGED picker
    BY <1>5 DEF Preview
  <2>2. n # None
    BY ConfigAssumption DEF ConfigAssumption
  <2>3. disk' = disk
    BY <2>1, <2>2 DEF SetTheme, Worn
  <2>4. picker.escaped = FALSE
    BY <1>0, <1>2, <2>1 DEF PickerTrue, Pickers
  <2>5. picker' = picker
    BY <2>1
  <2> QED BY <1>0, <2>1, <2>3, <2>4, <2>5 DEF PickerTrue
<1>6. CASE Escape
  <2>1. /\ picker.open /\ SetTheme(picker.was, FALSE)
        /\ picker' = [picker EXCEPT !.open = FALSE, !.escaped = TRUE]
    BY <1>6 DEF Escape, EscapeUndone
  <2>2. /\ picker'.open = FALSE /\ picker'.escaped = TRUE /\ picker'.was = picker.was /\ picker'.over = picker.over
        /\ picker'.before = picker.before /\ picker'.quiet = picker.quiet
    BY <1>2, <2>1 DEF Pickers
  <2>3. PICK was \in Themes \cup {None} : was = picker.was
    BY <1>2 DEF Pickers
  <2>4. disk' = disk
    BY <2>1 DEF SetTheme, Worn
  <2>5. ASSUME Undoable' PROVE cfg' = Reloaded(disk, was).c
    <3>1. disk[Root].state = "text" /\ (was = None \/ Wearable(was, disk))
      BY <2>2, <2>3, <2>4, <2>5 DEF Undoable
    <3>2. Worn(disk, was)
      BY <2>1, <2>3, <3>1 DEF SetTheme
    <3>3. Reloaded(disk, was).ok = TRUE
      BY <1>0, <3>1, ReloadedCoherent DEF CInv
    <3> QED BY <3>2, <3>3 DEF Worn
  <2> QED BY <1>0, <2>1, <2>2, <2>3, <2>4, <2>5 DEF PickerTrue
<1>7. CASE Keep
  <2>1. CASE UNCHANGED <<disk, cfg, picker>>
    <3>1. disk' = disk /\ cfg' = cfg /\ picker' = picker
      BY <2>1
    <3> QED BY <1>0, <3>1 DEF PickerTrue, Undoable
  <2>2. CASE picker' = Shut
    BY <1>3, <2>2
  <2> QED BY <1>7, <2>1, <2>2 DEF Keep
<1>8. ASSUME NEW n \in Themes \cup {None}, Accept(n) PROVE PickerTrue'
  BY <1>3, <1>8 DEF Accept
<1>9. CASE Dismiss
  BY <1>3, <1>9 DEF Dismiss
<1>10. ASSUME NEW n \in Themes \cup {None}, NEW save \in BOOLEAN, ThemeCommand(n, save) PROVE PickerTrue'
  BY <1>3, <1>10 DEF ThemeCommand
<1>11. CASE ReloadCommand
  BY <1>3, <1>11 DEF ReloadCommand
<1>12. CASE WatchReload
  BY <1>3, <1>12 DEF WatchReload
<1>13. CASE Settle
  BY <1>3, <1>13 DEF Settle
<1>14. ASSUME NEW f \in Files, NEW t \in Contents[f], Edit(f, t) PROVE PickerTrue'
  BY <1>3, <1>14 DEF Edit
<1>15. CASE UNCHANGED configs
  <2>1. disk' = disk /\ cfg' = cfg /\ picker' = picker
    BY <1>15 DEF configs
  <2> QED BY <1>0, <2>1 DEF PickerTrue, Undoable
<1>16. CASE Drain \/ Unwatch \/ Rewatch
  <2>1. disk' = disk /\ cfg' = cfg /\ picker' = picker
    BY <1>16 DEF Drain, Unwatch, Rewatch
  <2> QED BY <1>0, <2>1 DEF PickerTrue, Undoable
<1> QED BY <1>4, <1>5, <1>6, <1>7, <1>8, <1>9, <1>10, <1>11, <1>12, <1>13, <1>14, <1>15, <1>16 DEF ConfigNext

(***************************************************************************)
(* Escape undoes the previews, for any files and themes.                   *)
(***************************************************************************)
THEOREM EscapeAlwaysUndoes == ConfigSpec => []EscapeUndoes
<1>1. ConfigInit => EInv
  <2>1. ConfigInit => PickerTrue
    BY DEF ConfigInit, PickerTrue, Shut
  <2> QED BY <2>1, CInvInit DEF EInv
<1>2. EInv => EscapeUndoes
  <2> SUFFICES ASSUME EInv, picker.escaped, picker.quiet, disk[Root].state = "text",
                      picker.was = None \/ Wearable(picker.was, disk)
               PROVE  /\ picker.was \in {None, picker.over} =>
                           cfg.val = picker.before.val /\ cfg.theme = picker.before.theme
                      /\ /\ picker.over = None /\ disk[Root].theme = picker.was
                         /\ disk[Root].sets = {} /\ disk[Root].includes = <<>>
                         /\ \A f \in Files \ {Root} : disk[f].dir = None
                         => /\ cfg.theme = picker.before.theme
                            /\ \A s \in Slots : \/ cfg.val[s] = picker.before.val[s]
                                                \/ s = "unfocused" /\ \E f \in Files \ {Root} : s \in disk[f].sets
    BY DEF EscapeUndoes
  <2>1. /\ disk \in [Files -> FileTexts] /\ picker.was \in Themes \cup {None} /\ picker.over \in Themes \cup {None}
        /\ picker.before = Reloaded(disk, picker.over).c /\ picker.was = picker.before.theme
        /\ cfg = Reloaded(disk, picker.was).c
    BY DEF EInv, CInv, PickerGood, Pickers, PickerTrue, Undoable
  <2>2. ASSUME picker.was \in {None, picker.over}
        PROVE  cfg.val = picker.before.val /\ cfg.theme = picker.before.theme
    <3>1. CASE picker.was = picker.over
      BY <2>1, <3>1
    <3>2. CASE picker.was # picker.over
      <4>1. picker.was = None /\ picker.over \in Themes
        BY <2>1, <2>2, <3>2
      <4>2. PICK name \in Themes : name = picker.over
        BY <4>1
      <4>3. Reloaded(disk, name).c.theme = None
        BY <2>1, <4>1, <4>2
      <4>4. Reloaded(disk, name).c.val = Reloaded(disk, None).c.val /\ Reloaded(disk, None).c.theme = None
        BY <2>1, <4>3, NoThemeMissing
      <4> QED BY <2>1, <4>1, <4>2, <4>3, <4>4
    <3> QED BY <3>1, <3>2
  <2>3. ASSUME picker.over = None, disk[Root].theme = picker.was, disk[Root].sets = {}, disk[Root].includes = <<>>,
               \A f \in Files \ {Root} : disk[f].dir = None
        PROVE  /\ cfg.theme = picker.before.theme
               /\ \A s \in Slots : \/ cfg.val[s] = picker.before.val[s]
                                   \/ s = "unfocused" /\ \E f \in Files \ {Root} : s \in disk[f].sets
    <3>1. CASE picker.was = None
      BY <2>2, <3>1
    <3>2. CASE picker.was # None
      <4>1. PICK name \in Themes : name = picker.was
        BY <2>1, <3>2
      <4>2. PICK r : r = Load(Defaults, Root, 0, disk).c
        OBVIOUS
      <4>3. picker.before = r
        BY <2>1, <2>3, <4>2, ReloadedIs
      <4>4. PICK d : d = disk
        OBVIOUS
      <4>5. /\ d \in [Files -> FileTexts] /\ d[Root].state = "text" /\ d[Root].sets = {} /\ d[Root].includes = <<>>
            /\ \A g \in Files \ {Root} : d[g].dir = None
            /\ name = d[Root].theme /\ r = Load(Defaults, Root, 0, d).c /\ r.theme = name
        BY <2>1, <2>3, <4>1, <4>2, <4>3, <4>4
      <4>6. /\ Reloaded(d, name).c.theme = name
            /\ \A s \in Slots : \/ Reloaded(d, name).c.val[s] = r.val[s]
                                \/ s = "unfocused" /\ \E g \in Files \ {Root} : s \in d[g].sets
        BY <4>5, WornTwice
      <4>7. cfg = Reloaded(d, name).c
        BY <2>1, <4>1, <4>4
      <4> QED BY <4>3, <4>4, <4>5, <4>6, <4>7
    <3> QED BY <3>1, <3>2
  <2> QED BY <2>2, <2>3
<1> QED BY <1>1, <1>2, EInvNext, PTL DEF ConfigSpec

(***************************************************************************)
(* Files that ask for no theme, nor does anything they include.            *)
(***************************************************************************)
Unthemed(d, P) ==
  \A f \in P : d[f].theme = None /\ \A i \in 1 .. Len(d[f].includes) : d[f].includes[i] \in P

Calm(d) == UNION {P \in SUBSET Files : Unthemed(d, P)}

\* All of them together are so, and a file that asks for none and includes only such is one.
LEMMA CalmIs ==
  ASSUME NEW d \in [Files -> FileTexts]
  PROVE  /\ Calm(d) \subseteq Files /\ Unthemed(d, Calm(d))
         /\ \A f \in Files : d[f].theme = None /\ (\A i \in 1 .. Len(d[f].includes) : d[f].includes[i] \in Calm(d)) =>
              f \in Calm(d)
<1>1. Calm(d) \subseteq Files
  BY DEF Calm
<1>2. Unthemed(d, Calm(d))
  <2>1. ASSUME NEW f \in Calm(d)
        PROVE  d[f].theme = None /\ \A i \in 1 .. Len(d[f].includes) : d[f].includes[i] \in Calm(d)
    <3>1. PICK P \in SUBSET Files : Unthemed(d, P) /\ f \in P
      BY DEF Calm
    <3>2. P \subseteq Calm(d)
      BY <3>1 DEF Calm
    <3> QED BY <3>1, <3>2 DEF Unthemed
  <2> QED BY <2>1 DEF Unthemed
<1>3. ASSUME NEW f \in Files, d[f].theme = None, \A i \in 1 .. Len(d[f].includes) : d[f].includes[i] \in Calm(d)
      PROVE  f \in Calm(d)
  <2>1. PICK P : P = Calm(d) \cup {f}
    OBVIOUS
  <2>2. P \in SUBSET Files
    BY <1>1, <2>1
  <2>3. Unthemed(d, P)
    BY <1>2, <1>3, <2>1 DEF Unthemed
  <2> QED BY <2>1, <2>2, <2>3 DEF Calm
<1> QED BY <1>1, <1>2, <1>3

(* The same theme directory, or the root file's, if that is read.           *)
Near(a, c, d) == a.dir = c.dir \/ (d[Root].state = "text" /\ a.dir = d[Root].dir)

Marks(a, c, d) == a \in Configurations /\ (c.bad => a.bad) /\ Near(a, c, d)

(* The theme that is worn was found, and its file is calm. *)
Found(a, c, d) == \E b \in Configurations : Near(b, c, d) /\ ThemeFile(b, a.theme, d) \in Calm(d)

(* What reading f tells: a calm file leaves the theme; any other, if there  *)
(* is nothing to complain of, leaves one whose file is calm.                *)
Tells(a, c, f, d) ==
  /\ Marks(a, c, d)
  /\ f \in Calm(d) => a.theme = c.theme
  /\ ~a.bad /\ f \notin Calm(d) => Found(a, c, d)

Telling(inner, d) == \A c \in Configurations : \A f \in Files : Tells(inner[c][f].c, c, f, d)

OnlyRoot(d) == \A g \in Files \ {Root} : d[g].dir = None

\* Marks follow one another, and so does what was found.
LEMMA MarksOn ==
  ASSUME NEW a, NEW b, NEW c, NEW d, Marks(b, c, d), Marks(a, b, d)
  PROVE  Marks(a, c, d)
BY DEF Marks, Near

\* Where a theme was found from is carried along a chain of loads.
LEMMA FoundOn ==
  ASSUME NEW a, NEW b, NEW c, NEW e, NEW d, Found(b, c, d), Near(c, e, d), a.theme = b.theme
  PROVE  Found(a, e, d)
<1>1. PICK x \in Configurations : Near(x, c, d) /\ ThemeFile(x, b.theme, d) \in Calm(d)
  BY DEF Found
<1>2. Near(x, e, d)
  BY <1>1 DEF Near
<1> QED BY <1>1, <1>2 DEF Found

\* Complaining and remembering mark nothing else.
LEMMA ComplaintMarks == ASSUME NEW c \in Configurations, NEW d PROVE Marks(Complained(c), c, d) /\ Complained(c).bad = TRUE
BY ComplaintOnly DEF Marks, Near, Alike

\* A file remembered moves neither the theme nor the theme directory.
LEMMA RememberMarks ==
  ASSUME NEW c \in Configurations, NEW f \in Files, NEW d
  PROVE  Marks(Remember(c, f, d), c, d) /\ Remember(c, f, d).theme = c.theme
BY RememberOnly DEF Marks, Near, Alike

\* A theme that is applied and not complained of was found.
LEMMA ThemeTells ==
  ASSUME NEW d \in [Files -> FileTexts], NEW inner, Telling(inner, d), NEW c \in Configurations, NEW name \in Themes
  PROVE  /\ Marks(ThemeApplied(c, name, inner, d), c, d)
         /\ ~ThemeApplied(c, name, inner, d).bad => Found(ThemeApplied(c, name, inner, d), c, d)
<1>1. CASE ThemeFile(c, name, d) = NoFile
  <2>1. ThemeApplied(c, name, inner, d) = Complained(c)
    BY <1>1 DEF ThemeApplied
  <2> QED BY <2>1, ComplaintMarks
<1>2. CASE ThemeFile(c, name, d) # NoFile
  <2>1. PICK f \in Files : f = ThemeFile(c, name, d)
    BY <1>2, ThemeFileKnown
  <2>2. PICK y : y = [c EXCEPT !.theme = name]
    OBVIOUS
  <2>3. y \in Configurations /\ y.dir = c.dir /\ y.bad = c.bad /\ y.theme = name
    BY <2>2 DEF Configurations
  <2>4. PICK a : a = inner[y][f].c
    OBVIOUS
  <2>5. ThemeApplied(c, name, inner, d) = a
    BY <1>2, <2>1, <2>2, <2>4 DEF ThemeApplied
  <2>6. Tells(a, y, f, d)
    BY <2>3, <2>4 DEF Telling
  <2>7. Marks(a, c, d) /\ Near(y, c, d)
    BY <2>3, <2>6 DEF Tells, Marks, Near
  <2>8. ASSUME ~a.bad PROVE Found(a, c, d)
    <3>1. CASE f \in Calm(d)
      <4>1. a.theme = name /\ Near(c, c, d)
        BY <2>3, <2>6, <3>1 DEF Tells, Near
      <4> QED BY <2>1, <3>1, <4>1 DEF Found
    <3>2. CASE f \notin Calm(d)
      <4>1. Found(a, y, d)
        BY <2>6, <2>8, <3>2 DEF Tells
      <4> QED BY <2>7, <4>1, FoundOn
    <3> QED BY <3>1, <3>2
  <2> QED BY <2>5, <2>7, <2>8
<1> QED BY <1>1, <1>2

\* Of includes: all are calm and leave the theme, or one was found.
LEMMA IncludedTells ==
  ASSUME NEW d \in [Files -> FileTexts], NEW inner, Telling(inner, d), NEW c \in Configurations, NEW files \in Seq(Files)
  PROVE  LET a == Included(c, files, inner)
             calm == \A j \in 1 .. Len(files) : files[j] \in Calm(d)
         IN  Marks(a, c, d) /\ (calm => a.theme = c.theme) /\ (~a.bad => calm \/ Found(a, c, d))
<1> DEFINE over == Overlaid(c, files, inner)
           calm(i) == \A j \in 1 .. i : files[j] \in Calm(d)
           Said(i) == Marks(over[i], c, d) /\ (calm(i) => over[i].theme = c.theme)
                      /\ (~over[i].bad => calm(i) \/ Found(over[i], c, d))
           S == {i \in Nat : i <= Len(files) => Said(i)}
<1>1. over[0] = c /\ \A i \in 1 .. Len(files) : over[i] = inner[over[i - 1]][files[i]].c
  BY IncludesFollow
<1> HIDE DEF over
<1>2. 0 \in S
  <2>1. Marks(c, c, d) /\ calm(0)
    BY DEF Marks, Near
  <2> QED BY <1>1, <2>1
<1>3. ASSUME NEW i \in Nat, i \in S PROVE i + 1 \in S
  <2>1. SUFFICES ASSUME i + 1 <= Len(files) PROVE Said(i + 1)
    OBVIOUS
  <2>2. Len(files) \in Nat /\ i + 1 \in 1 .. Len(files) /\ (i + 1) - 1 = i /\ i <= Len(files)
    BY <2>1
  <2>3. PICK f \in Files : f = files[i + 1]
    BY <2>2
  <2>4. PICK b : b = over[i]
    OBVIOUS
  <2>5. PICK a : a = over[i + 1]
    OBVIOUS
  <2>6. a = inner[b][f].c
    BY <1>1, <2>2, <2>3, <2>4, <2>5
  <2>7. Marks(b, c, d) /\ (calm(i) => b.theme = c.theme) /\ (~b.bad => calm(i) \/ Found(b, c, d))
    BY <1>3, <2>2, <2>4
  <2>8. b \in Configurations
    BY <2>7 DEF Marks
  <2>9. Tells(a, b, f, d)
    BY <2>6, <2>8 DEF Telling
  <2>10. Marks(a, b, d) /\ (f \in Calm(d) => a.theme = b.theme) /\ (~a.bad /\ f \notin Calm(d) => Found(a, b, d))
    BY <2>9 DEF Tells
  <2>11. Marks(a, c, d)
    BY <2>7, <2>10, MarksOn
  <2>12. calm(i + 1) <=> calm(i) /\ f \in Calm(d)
    <3>1. \A j \in 1 .. i + 1 : j \in 1 .. i \/ j = i + 1
      OBVIOUS
    <3>2. \A j \in 1 .. i : j \in 1 .. i + 1
      OBVIOUS
    <3>3. i + 1 \in 1 .. i + 1
      OBVIOUS
    <3> QED BY <2>3, <3>1, <3>2, <3>3
  <2>13. ASSUME ~a.bad PROVE calm(i + 1) \/ Found(a, c, d)
    <3>1. ~b.bad
      BY <2>10, <2>13 DEF Marks
    <3>2. CASE f \in Calm(d)
      <4>1. CASE calm(i)
        BY <2>12, <3>2, <4>1
      <4>2. CASE Found(b, c, d)
        <5>1. a.theme = b.theme /\ Near(c, c, d)
          BY <2>10, <3>2 DEF Near
        <5> QED BY <4>2, <5>1, FoundOn
      <4> QED BY <2>7, <3>1, <4>1, <4>2
    <3>3. CASE f \notin Calm(d)
      <4>1. Found(a, b, d) /\ Near(b, c, d)
        BY <2>7, <2>10, <2>13, <3>3 DEF Marks
      <4> QED BY <4>1, FoundOn
    <3> QED BY <3>2, <3>3
  <2>14. calm(i + 1) => a.theme = c.theme
    BY <2>7, <2>10, <2>12
  <2> HIDE DEF calm
  <2> QED BY <2>5, <2>11, <2>13, <2>14
<1>4. S \in SUBSET Nat
  OBVIOUS
<1>5. S = Nat
  <2> HIDE DEF S
  <2> QED BY <1>2, <1>3, <1>4, Onwards
<1>6. Len(files) \in Nat
  OBVIOUS
<1>7. Said(Len(files))
  BY <1>5, <1>6
<1> QED BY <1>7 DEF over, Included

\* What a directory and a theme that a file asks for tell.
LEMMA AskedTells ==
  ASSUME NEW d \in [Files -> FileTexts], NEW inner, Telling(inner, d), NEW c \in Configurations, NEW t \in FileTexts,
         t.dir \in {None, d[Root].dir}, t.dir # None => d[Root].state = "text"
  PROVE  /\ Marks(Asked(c, t, inner, d), c, d)
         /\ t.theme = None => Asked(c, t, inner, d).theme = c.theme /\ Asked(c, t, inner, d).bad = c.bad
         /\ t.theme # None /\ ~Asked(c, t, inner, d).bad => Found(Asked(c, t, inner, d), c, d)
<1>1. PICK x : x = IF t.dir # None THEN [c EXCEPT !.dir = t.dir] ELSE c
  OBVIOUS
<1>2. t.theme \in Themes \cup {None} /\ t.dir \in Dirs
  BY DEF FileTexts
<1>3. x \in Configurations /\ x.theme = c.theme /\ x.bad = c.bad /\ Near(x, c, d)
  BY <1>1, <1>2 DEF Configurations, Near
<1>4. CASE t.theme = None
  <2>1. Asked(c, t, inner, d) = x
    BY <1>1, <1>4 DEF Asked
  <2> QED BY <1>3, <1>4, <2>1 DEF Marks
<1>5. CASE t.theme # None
  <2>1. Asked(c, t, inner, d) = ThemeApplied(x, t.theme, inner, d)
    BY <1>1, <1>5 DEF Asked
  <2>2. PICK name \in Themes : name = t.theme
    BY <1>2, <1>5
  <2>3. PICK a : a = ThemeApplied(x, name, inner, d)
    OBVIOUS
  <2>4. Marks(a, x, d) /\ (~a.bad => Found(a, x, d))
    BY <1>3, <2>3, ThemeTells
  <2>5. Marks(x, c, d)
    BY <1>3 DEF Marks
  <2>6. Marks(a, c, d)
    BY <2>4, <2>5, MarksOn
  <2>7. ~a.bad => Found(a, c, d)
    BY <1>3, <2>4, FoundOn
  <2> QED BY <1>5, <2>1, <2>2, <2>3, <2>6, <2>7
<1> QED BY <1>4, <1>5

\* What reading a file tells.
LEMMA LoadTells ==
  ASSUME NEW d \in [Files -> FileTexts], OnlyRoot(d), NEW inner, Telling(inner, d),
         NEW c \in Configurations, NEW f \in Files
  PROVE  Tells(LoadInto(c, f, inner, d).c, c, f, d)
<1>1. PICK t : t = d[f]
  OBVIOUS
<1>2. t \in FileTexts /\ t.includes \in Seq(Files)
  BY <1>1 DEF FileTexts
<1>3. PICK r : r = Remember(c, f, d)
  OBVIOUS
<1>4. Marks(r, c, d) /\ r.theme = c.theme /\ r \in Configurations
  BY <1>3, RememberMarks DEF Marks
<1>5. PICK z : z = LoadInto(c, f, inner, d).c
  OBVIOUS
<1>6. CASE t.state # "text"
  <2>1. z = Complained(r)
    BY <1>1, <1>3, <1>5, <1>6, LoadedNot, RefusedIs
  <2>2. Marks(z, r, d) /\ z.bad = TRUE /\ z.theme = r.theme
    BY <1>4, <2>1, ComplaintMarks, ComplaintOnly DEF Alike
  <2>3. Marks(z, c, d)
    BY <1>4, <2>2, MarksOn
  <2> QED BY <1>4, <1>5, <2>2, <2>3 DEF Tells
<1>7. CASE t.state = "text"
  <2>1. PICK files \in Seq(Files) : files = t.includes
    BY <1>2
  <2>2. PICK base : base = Included(r, files, inner)
    OBVIOUS
  <2> DEFINE calm == \A j \in 1 .. Len(files) : files[j] \in Calm(d)
  <2>3. Marks(base, r, d) /\ (calm => base.theme = r.theme) /\ (~base.bad => calm \/ Found(base, r, d))
    BY <1>4, <2>2, IncludedTells
  <2>4. PICK e : e = Asked(base, t, inner, d)
    OBVIOUS
  <2>5. base \in Configurations
    BY <2>3 DEF Marks
  <2>6. t.dir \in {None, d[Root].dir} /\ (t.dir # None => d[Root].state = "text")
    <3>1. CASE f = Root
      BY <1>1, <1>7, <3>1
    <3>2. CASE f # Root
      BY <1>1, <3>2 DEF OnlyRoot
    <3> QED BY <3>1, <3>2
  <2>7. /\ Marks(e, base, d)
        /\ t.theme = None => e.theme = base.theme /\ e.bad = base.bad
        /\ t.theme # None /\ ~e.bad => Found(e, base, d)
    BY <1>2, <2>4, <2>5, <2>6, AskedTells
  <2>8. e \in Configurations
    BY <2>7 DEF Marks
  <2>9. z = Applied(e, f, t)
    <3>1. d[f].state = "text"
      BY <1>1, <1>7
    <3>2. LoadInto(c, f, inner, d).c =
            Applied(Asked(Included(Remember(c, f, d), d[f].includes, inner), d[f], inner, d), f, d[f])
      BY <3>1, LoadedText
    <3> QED BY <1>1, <1>3, <1>5, <2>1, <2>2, <2>4, <3>2
  <2>10. z \in Configurations /\ z.theme = e.theme /\ z.dir = e.dir /\ z.bad = (e.bad \/ t.odd)
    BY <1>2, <2>8, <2>9, AppliedSlots
  <2>11. e.bad \in BOOLEAN /\ base.bad \in BOOLEAN /\ t.odd \in BOOLEAN
    BY <1>2, <2>5, <2>8 DEF Configurations, FileTexts
  <2>12. Marks(z, e, d)
    BY <2>10, <2>11 DEF Marks, Near
  <2>13. Marks(z, base, d)
    BY <2>7, <2>12, MarksOn
  <2>14. Marks(z, r, d)
    BY <2>3, <2>13, MarksOn
  <2>15. Marks(z, c, d)
    BY <1>4, <2>14, MarksOn
  <2>16. ASSUME f \in Calm(d) PROVE z.theme = c.theme
    <3>1. t.theme = None /\ calm
      BY <1>1, <2>1, <2>16, CalmIs DEF Unthemed
    <3> QED BY <1>4, <2>3, <2>7, <2>10, <3>1
  <2>17. ASSUME ~z.bad, f \notin Calm(d) PROVE Found(z, c, d)
    <3>1. ~e.bad /\ ~base.bad
      BY <2>7, <2>10, <2>11, <2>17 DEF Marks
    <3>2. Near(base, c, d) /\ Near(r, c, d)
      BY <1>4, <2>3 DEF Marks, Near
    <3>3. CASE t.theme # None
      <4>1. Found(e, base, d)
        BY <2>7, <3>1, <3>3
      <4> QED BY <2>10, <3>2, <4>1, FoundOn
    <3>4. CASE t.theme = None
      <4>1. ~calm
        BY <1>1, <2>1, <2>17, <3>4, CalmIs
      <4>2. Found(base, r, d)
        BY <2>3, <3>1, <4>1
      <4>3. z.theme = base.theme
        BY <2>7, <2>10, <3>4
      <4> QED BY <3>2, <4>2, <4>3, FoundOn
    <3> QED BY <3>3, <3>4
  <2> QED BY <1>5, <2>15, <2>16, <2>17 DEF Tells
<1> QED BY <1>6, <1>7

\* However deep it goes.
LEMMA LoaderTells ==
  ASSUME NEW d \in [Files -> FileTexts], OnlyRoot(d)
  PROVE  \A n \in 0 .. DepthMax + 1 : Telling(Loader(d)[n], d)
<1> DEFINE S == {n \in Nat : n <= DepthMax + 1 => Telling(Loader(d)[n], d)}
<1>0. DepthMax + 1 \in Nat
  BY ConfigAssumption DEF ConfigAssumption
<1>1. 0 \in S
  <2>1. ASSUME NEW c \in Configurations, NEW f \in Files PROVE Tells(Loader(d)[0][c][f].c, c, f, d)
    <3>1. Loader(d)[0][c][f].c = Complained(c)
      BY LoaderLevels, RefusedIs
    <3>2. Marks(Complained(c), c, d) /\ Complained(c).bad = TRUE /\ Complained(c).theme = c.theme
      BY ComplaintMarks, ComplaintOnly DEF Alike
    <3> QED BY <3>1, <3>2 DEF Tells
  <2> QED BY <2>1 DEF Telling
<1>2. ASSUME NEW n \in Nat, n \in S PROVE n + 1 \in S
  <2>1. SUFFICES ASSUME n + 1 <= DepthMax + 1 PROVE Telling(Loader(d)[n + 1], d)
    OBVIOUS
  <2>2. n + 1 \in 1 .. DepthMax + 1 /\ (n + 1) - 1 = n /\ n <= DepthMax + 1
    BY <1>0, <2>1
  <2>3. PICK inner : inner = Loader(d)[n]
    OBVIOUS
  <2>4. Telling(inner, d)
    BY <1>2, <2>2, <2>3
  <2>5. ASSUME NEW c \in Configurations, NEW f \in Files PROVE Tells(Loader(d)[n + 1][c][f].c, c, f, d)
    <3>1. Loader(d)[n + 1][c][f] = LoadInto(c, f, inner, d)
      BY <2>2, <2>3, LoaderLevels
    <3> QED BY <2>4, <3>1, LoadTells
  <2> QED BY <2>5 DEF Telling
<1>3. S \in SUBSET Nat
  OBVIOUS
<1>4. S = Nat
  <2> HIDE DEF S
  <2> QED BY <1>1, <1>2, <1>3, Onwards
<1> QED BY <1>0, <1>4

\* The root file's theme directory is in force once it was read.
LEMMA RootDir ==
  ASSUME NEW d \in [Files -> FileTexts], OnlyRoot(d), d[Root].state = "text"
  PROVE  Load(Defaults, Root, 0, d).c.dir = d[Root].dir
<1>1. PICK c \in Configurations : c = Defaults
  BY DefaultsCoherent DEF Coherent
<1>2. PICK f \in Files : f = Root
  BY ConfigAssumption DEF ConfigAssumption
<1>3. PICK inner : inner = Loader(d)[DepthMax]
  OBVIOUS
<1>4. Telling(inner, d) /\ Sound(inner)
  BY <1>3, Levels, LoaderTells, LoaderSound
<1>5. PICK t \in FileTexts : t = d[f]
  OBVIOUS
<1>6. Load(Defaults, Root, 0, d) = LoadInto(c, f, inner, d)
  BY <1>1, <1>2, <1>3, LoadRoot
<1>7. CASE t.dir = None
  <2>1. Near(LoadInto(c, f, inner, d).c, c, d)
    BY <1>4, LoadTells DEF Tells, Marks
  <2>2. c.dir = None
    BY <1>1 DEF Defaults
  <2> QED BY <1>2, <1>5, <1>6, <1>7, <2>1, <2>2 DEF Near
<1>8. CASE t.dir # None
  <2>1. PICK base : base = Included(Remember(c, f, d), t.includes, inner)
    OBVIOUS
  <2>2. base \in Configurations
    <3>1. PICK r \in Configurations : r = Remember(c, f, d)
      BY RememberOnly
    <3>2. PICK files \in Seq(Files) : files = t.includes
      BY DEF FileTexts
    <3>3. Marks(Included(r, files, inner), r, d)
      BY <1>4, IncludedTells
    <3> QED BY <2>1, <3>1, <3>2, <3>3 DEF Marks
  <2>3. PICK e : e = Asked(base, t, inner, d)
    OBVIOUS
  <2>4. PICK x : x = [base EXCEPT !.dir = t.dir]
    OBVIOUS
  <2>5. x \in Configurations /\ x.dir = t.dir /\ t.theme \in Themes \cup {None}
    BY <2>2, <2>4 DEF FileTexts, Configurations
  <2>6. e \in Configurations /\ e.dir = t.dir
    <3>1. CASE t.theme = None
      <4>1. e = x
        BY <1>8, <2>3, <2>4, <3>1 DEF Asked
      <4> QED BY <2>5, <4>1
    <3>2. CASE t.theme # None
      <4>1. PICK name \in Themes : name = t.theme
        BY <2>5, <3>2
      <4>2. e = ThemeApplied(x, name, inner, d)
        BY <1>8, <2>3, <2>4, <3>2, <4>1 DEF Asked
      <4>3. Marks(e, x, d)
        BY <1>4, <2>5, <4>2, ThemeTells
      <4> QED BY <1>2, <1>5, <2>5, <4>3 DEF Marks, Near
    <3> QED BY <3>1, <3>2
  <2>7. LoadInto(c, f, inner, d).c = Applied(e, f, t)
    <3>1. d[f].state = "text"
      BY <1>2
    <3>2. LoadInto(c, f, inner, d).c =
            Applied(Asked(Included(Remember(c, f, d), d[f].includes, inner), d[f], inner, d), f, d[f])
      BY <3>1, LoadedText
    <3> QED BY <1>5, <2>1, <2>3, <3>2
  <2>8. Applied(e, f, t).dir = e.dir
    BY <2>6, AppliedSlots
  <2> QED BY <1>2, <1>5, <1>6, <2>6, <2>7, <2>8
<1> QED BY <1>7, <1>8

\* What a trial that ends well has shown.
LEMMA TriedPassed ==
  ASSUME NEW c, NEW name, NEW d, ApplyTheme(c, name, d).ok
  PROVE  /\ ThemeApplied([c EXCEPT !.bad = FALSE], name, Loader(d)[DepthMax], d).theme = name
         /\ ~ThemeApplied([c EXCEPT !.bad = FALSE], name, Loader(d)[DepthMax], d).bad
<1> DEFINE r == ThemeApplied([c EXCEPT !.bad = FALSE], name, Loader(d)[DepthMax], d)
<1>1. ApplyTheme(c, name, d).ok = (r.theme = name /\ ~r.bad)
  BY ThemeTried
<1> HIDE DEF r
<1>2. r.theme = name /\ ~r.bad
  BY <1>1
<1> QED BY <1>2 DEF r

\* A theme that passed the trial is there, is read whole, and asks for no other.
LEMMA TrialPassed ==
  ASSUME NEW d \in [Files -> FileTexts], NEW name \in Themes, Wearable(name, d)
  PROVE  \E y \in Configurations, f \in Files :
           /\ y.dir = None /\ y.theme = name /\ f = ThemeFile(Defaults, name, d) /\ d[f].state = "text"
           /\ Loader(d)[DepthMax][y][f].c.theme = name /\ Loader(d)[DepthMax][y][f].c.bad = FALSE
<1>1. PICK c \in Configurations : c = Defaults
  BY DefaultsCoherent DEF Coherent
<1>2. PICK x : x = [c EXCEPT !.bad = FALSE]
  OBVIOUS
<1>3. PICK inner : inner = Loader(d)[DepthMax]
  OBVIOUS
<1>4. PICK r : r = ThemeApplied(x, name, inner, d)
  OBVIOUS
<1>5. x \in Configurations /\ x.dir = c.dir /\ c.dir = None
  BY <1>1, <1>2 DEF Configurations, Defaults
<1>6. ApplyTheme(c, name, d).ok
  BY <1>1 DEF Wearable
<1>7. r.theme = name /\ ~r.bad
  <2>1. r = ThemeApplied([c EXCEPT !.bad = FALSE], name, Loader(d)[DepthMax], d)
    BY <1>2, <1>3, <1>4
  <2> QED BY <1>6, <2>1, TriedPassed
<1>8. ThemeFile(x, name, d) = ThemeFile(c, name, d)
  BY <1>5, ThemeFileOfDir
<1>9. ThemeFile(x, name, d) # NoFile
  <2>1. SUFFICES ASSUME ThemeFile(x, name, d) = NoFile PROVE FALSE
    OBVIOUS
  <2>2. r = Complained(x)
    BY <1>4, <2>1 DEF ThemeApplied
  <2>3. r.bad = TRUE
    BY <1>5, <2>2, ComplaintOnly
  <2> QED BY <1>7, <2>3
<1>10. PICK f \in Files : f = ThemeFile(x, name, d)
  BY <1>9, ThemeFileKnown
<1>11. PICK y : y = [x EXCEPT !.theme = name]
  OBVIOUS
<1>12. y \in Configurations /\ y.dir = None /\ y.theme = name
  BY <1>5, <1>11 DEF Configurations
<1>13. r = inner[y][f].c
  BY <1>4, <1>9, <1>10, <1>11 DEF ThemeApplied
<1>14. r \in Configurations
  <2>1. Sound(inner)
    BY <1>3, Levels, LoaderSound
  <2> QED BY <1>12, <1>13, <2>1 DEF Sound, Holds
<1>15. r.bad = FALSE
  BY <1>7, <1>14 DEF Configurations
<1>16. d[f].state = "text"
  <2>1. SUFFICES ASSUME d[f].state # "text" PROVE FALSE
    OBVIOUS
  <2>2. PICK below : below = Loader(d)[DepthMax - 1]
    OBVIOUS
  <2>3. inner[y][f] = LoadInto(y, f, below, d)
    BY <1>3, <1>12, <2>2, Levels, LoaderLevels
  <2>4. PICK m \in Configurations : m = Remember(y, f, d)
    BY <1>12, RememberOnly
  <2>5. LoadInto(y, f, below, d) = Refused(m)
    BY <2>1, <2>4, LoadedNot
  <2>6. r = Complained(m)
    BY <1>13, <2>3, <2>5, RefusedIs
  <2>7. r.bad = TRUE
    BY <2>4, <2>6, ComplaintOnly
  <2> QED BY <1>15, <2>7
<1> QED BY <1>1, <1>3, <1>7, <1>8, <1>10, <1>12, <1>13, <1>15, <1>16

\* What a file names in the end is its own, when it has the last word.
LEMMA FileWord ==
  ASSUME NEW d \in [Files -> FileTexts], NEW c \in Configurations, NEW f \in Files, d[f].state = "text",
         NEW s \in d[f].sets
  PROVE  Loader(d)[DepthMax][c][f].c.val[s] = <<"set", f>>
<1>1. PICK e : e \in Configurations /\ Loader(d)[DepthMax][c][f].c = Applied(e, f, d[f])
  BY Inner
<1>2. PICK t \in FileTexts : t = d[f]
  OBVIOUS
<1>3. PICK a : a = Applied(e, f, t)
  OBVIOUS
<1>4. e \in Configurations
  BY <1>1
<1> DEFINE give(u) == IF u \in t.sets THEN <<"set", f>> ELSE e.val[u]
           said == e.declared \/ "scrolled" \in t.sets
<1>5. SlotsAre(a.val, give("dim"), give("bind"), give("colour"),
               IF "colour" \in t.sets /\ "status" \notin t.sets THEN Mixed(give("colour")) ELSE give("status"),
               IF said THEN give("scrolled") ELSE Mixed(give("colour")),
               IF "unfocused" \in t.sets THEN give("unfocused") ELSE Mixed(give("dim")))
  BY <1>3, <1>4, AppliedSlots
<1>6. s \in t.sets /\ s \in Slots
  BY <1>2 DEF FileTexts
<1>7. a.val[s] = <<"set", f>>
  BY <1>5, <1>6 DEF SlotsAre, Slots
<1> QED BY <1>1, <1>2, <1>3, <1>7

(***************************************************************************)
(* A theme that passed the trial, worn over a configuration that looks for *)
(* it where the trial did, is the theme that is worn afterwards.           *)
(***************************************************************************)
LEMMA WornStays ==
  ASSUME NEW d \in [Files -> FileTexts], OnlyRoot(d), NEW name \in Themes, Wearable(name, d),
         NEW c \in Configurations, d[Root].state = "text" => c.dir = d[Root].dir,
         ThemeFile(Defaults, name, d)
           = ThemeFile(ThemeApplied(c, name, Loader(d)[DepthMax], d), name, d)
  PROVE  /\ ThemeApplied(c, name, Loader(d)[DepthMax], d).theme = name
         /\ \A s \in d[ThemeFile(Defaults, name, d)].sets :
              ThemeApplied(c, name, Loader(d)[DepthMax], d).val[s]
                = <<"set", ThemeFile(Defaults, name, d)>>
<1>0. PICK g : g = ThemeApplied(c, name, Loader(d)[DepthMax], d)
  OBVIOUS
<1>1. PICK inner : inner = Loader(d)[DepthMax]
  OBVIOUS
<1>2. Telling(inner, d)
  BY <1>1, Levels, LoaderTells
<1>3. PICK y0 \in Configurations, f \in Files :
        /\ y0.dir = None /\ y0.theme = name /\ f = ThemeFile(Defaults, name, d) /\ d[f].state = "text"
        /\ inner[y0][f].c.theme = name /\ inner[y0][f].c.bad = FALSE
  BY <1>1, TrialPassed
<1>4. Defaults.dir = None
  BY DEF Defaults
<1>5. g.dir = c.dir
  <2>1. Marks(g, c, d)
    BY <1>0, <1>1, <1>2, ThemeTells
  <2> QED BY <2>1 DEF Marks, Near
<1>6. ThemeFile(c, name, d) = f /\ ThemeFile(g, name, d) = f
  <2>1. ThemeFile(c, name, d) = ThemeFile(g, name, d)
    BY <1>5, ThemeFileOfDir
  <2>2. ThemeFile(Defaults, name, d) = ThemeFile(g, name, d)
    BY <1>0
  <2> QED BY <1>3, <2>1, <2>2
<1>7. f \in Calm(d)
  <2>1. SUFFICES ASSUME f \notin Calm(d) PROVE FALSE
    OBVIOUS
  <2>2. PICK r : r = inner[y0][f].c
    OBVIOUS
  <2>3. Tells(r, y0, f, d)
    BY <1>2, <2>2 DEF Telling
  <2>4. Found(r, y0, d)
    BY <1>3, <2>1, <2>2, <2>3 DEF Tells
  <2>5. PICK b \in Configurations : Near(b, y0, d) /\ ThemeFile(b, name, d) \in Calm(d)
    BY <1>3, <2>2, <2>4 DEF Found
  <2>6. CASE b.dir = y0.dir
    <3>1. b.dir = Defaults.dir
      BY <1>3, <1>4, <2>6
    <3>2. ThemeFile(b, name, d) = ThemeFile(Defaults, name, d)
      BY <3>1, ThemeFileOfDir
    <3> QED BY <1>3, <2>1, <2>5, <3>2
  <2>7. CASE d[Root].state = "text" /\ b.dir = d[Root].dir
    <3>1. b.dir = c.dir
      BY <2>7
    <3>2. ThemeFile(b, name, d) = ThemeFile(c, name, d)
      BY <3>1, ThemeFileOfDir
    <3> QED BY <1>6, <2>1, <2>5, <3>2
  <2> QED BY <2>5, <2>6, <2>7 DEF Near
<1>8. PICK y : y = [c EXCEPT !.theme = name]
  OBVIOUS
<1>9. y \in Configurations /\ y.theme = name
  BY <1>8 DEF Configurations
<1>10. g = inner[y][f].c
  <2>1. f # NoFile
    BY ConfigAssumption DEF ConfigAssumption
  <2> QED BY <1>0, <1>1, <1>6, <1>8, <2>1 DEF ThemeApplied
<1>11. g.theme = name
  <2>1. Tells(inner[y][f].c, y, f, d)
    BY <1>2, <1>9 DEF Telling
  <2> QED BY <1>7, <1>9, <1>10, <2>1 DEF Tells
<1>12. ASSUME NEW s \in d[f].sets PROVE g.val[s] = <<"set", f>>
  <2>1. d[f].state = "text" /\ f \in Files /\ y \in Configurations
    BY <1>3, <1>9
  <2>2. Loader(d)[DepthMax][y][f].c.val[s] = <<"set", f>>
    BY <2>1, FileWord
  <2> QED BY <1>1, <1>10, <2>2
<1> QED BY <1>0, <1>3, <1>11, <1>12

\* A theme worn over what there is, when the file cannot be read.
LEMMA OverBroken ==
  ASSUME NEW d \in [Files -> FileTexts], NEW name \in Themes, NEW c \in Configurations
  PROVE  \E y \in Configurations : \E g, w :
           /\ w = [ApplyTheme(c, name, d).c EXCEPT !.bad = c.bad]
           /\ y.dir = c.dir /\ g = ThemeApplied(y, name, Loader(d)[DepthMax], d)
           /\ w.val = g.val /\ w.theme = g.theme /\ w.dir = g.dir
<1>0. PICK w : w = [ApplyTheme(c, name, d).c EXCEPT !.bad = c.bad]
  OBVIOUS
<1>1. PICK y : y = [c EXCEPT !.bad = FALSE]
  OBVIOUS
<1>2. y \in Configurations /\ y.dir = c.dir
  BY <1>1 DEF Configurations
<1>3. PICK g : g = ThemeApplied(y, name, Loader(d)[DepthMax], d)
  OBVIOUS
<1>4. g \in Configurations
  <2>1. PICK inner : inner = Loader(d)[DepthMax]
    OBVIOUS
  <2>2. Sound(inner)
    BY <2>1, Levels, LoaderSound
  <2> QED BY <1>2, <1>3, <2>1, <2>2, ThemeHolds DEF Holds
<1>5. PICK k : k = ApplyTheme(c, name, d).c
  OBVIOUS
<1>6. k = [g EXCEPT !.bad = g.bad \/ c.bad]
  BY <1>1, <1>3, <1>5, ThemeTried
<1>7. k.val = g.val /\ k.theme = g.theme /\ k.dir = g.dir /\ k \in Configurations
  <2>1. PICK b \in BOOLEAN : b = (g.bad \/ c.bad)
    BY <1>4 DEF Configurations
  <2>2. k = [g EXCEPT !.bad = b]
    BY <1>6, <2>1
  <2> QED BY <1>4, <2>2 DEF Configurations
<1>8. w.val = k.val /\ w.theme = k.theme /\ w.dir = k.dir
  <2>1. w = [k EXCEPT !.bad = c.bad]
    BY <1>0, <1>5
  <2> QED BY <1>7, <2>1 DEF Configurations
<1>9. /\ w = [ApplyTheme(c, name, d).c EXCEPT !.bad = c.bad]
      /\ y.dir = c.dir /\ g = ThemeApplied(y, name, Loader(d)[DepthMax], d)
      /\ w.val = g.val /\ w.theme = g.theme /\ w.dir = g.dir
  BY <1>0, <1>2, <1>3, <1>7, <1>8
<1>10. y \in Configurations
  BY <1>2
<1>11. \E h, v : /\ v = [ApplyTheme(c, name, d).c EXCEPT !.bad = c.bad]
                 /\ y.dir = c.dir /\ h = ThemeApplied(y, name, Loader(d)[DepthMax], d)
                 /\ v.val = h.val /\ v.theme = h.theme /\ v.dir = h.dir
  <2> WITNESS g, w
  <2> QED BY <1>9
<1> WITNESS y \in Configurations
<1> QED BY <1>11

(* How a configuration comes to be in force: read from the files, with the  *)
(* theme the session was told to wear, or that theme over what there was.   *)
Reads == disk'[Root].state = "text" /\ cfg' = Reloaded(disk', override').c
Covers ==
  /\ disk'[Root].state # "text"
  /\ override' # None => cfg' = [ApplyTheme(cfg, override', disk').c EXCEPT !.bad = cfg.bad]

Comes ==
  /\ cfg' = cfg \/ Reads \/ (override' = None /\ disk'[Root].state # "text") \/ Covers
  /\ override' \in {None, override} \/ (override' \in Themes /\ Wearable(override', disk))

\* Wearing a theme does one or the other, or nothing, and is told nothing that is not there.
LEMMA SetThemeComes ==
  ASSUME CInv, NEW name \in Themes \cup {None}, NEW save \in BOOLEAN, SetTheme(name, save)
  PROVE  Comes
<1>1. disk \in [Files -> FileTexts] /\ Written(disk, name) \in [Files -> FileTexts]
  BY WrittenText DEF CInv
<1>2. ASSUME NEW d \in [Files -> FileTexts], Worn(d, name)
      PROVE  override' = name /\ (Reads \/ Covers)
  <2>1. PICK r : r = Reloaded(d, name)
    OBVIOUS
  <2>2. r.ok = (d[Root].state = "text")
    BY <2>1, ReloadedCoherent
  <2>3. /\ override' = name /\ disk' = d
        /\ IF r.ok THEN cfg' = r.c
           ELSE cfg' = IF name = None THEN cfg ELSE [ApplyTheme(cfg, name, d).c EXCEPT !.bad = cfg.bad]
    BY <1>2, <2>1 DEF Worn
  <2>4. CASE d[Root].state = "text"
    BY <2>1, <2>2, <2>3, <2>4 DEF Reads
  <2>5. CASE d[Root].state # "text"
    BY <2>2, <2>3, <2>5 DEF Covers
  <2> QED BY <2>3, <2>4, <2>5
<1>3. CASE UNCHANGED <<disk, cfg, override, heard, news>>
  BY <1>3 DEF Comes
<1>4. CASE name = None /\ Worn(disk, None)
  BY <1>1, <1>2, <1>4 DEF Comes
<1>5. CASE name # None /\ Wearable(name, disk) /\ Worn(disk, name)
  BY <1>1, <1>2, <1>5 DEF Comes
<1>6. CASE name # None /\ Wearable(name, disk) /\ Worn(Written(disk, name), name)
  BY <1>1, <1>2, <1>6 DEF Comes
<1> QED BY <1>3, <1>4, <1>5, <1>6 DEF SetTheme

\* So does every step.
LEMMA StepComes ==
  ASSUME CInv, [ConfigNext]_configs
  PROVE  Comes
<1>0. disk \in [Files -> FileTexts] /\ override \in Themes \cup {None}
  BY DEF CInv
<1>1. ASSUME UNCHANGED <<cfg, override>> PROVE Comes
  BY <1>1 DEF Comes
<1>2. ASSUME NEW name \in Themes \cup {None}, NEW save \in BOOLEAN, SetTheme(name, save) PROVE Comes
  BY <1>2, SetThemeComes
<1>3. ASSUME disk' = disk, override' = override,
             \/ Reloaded(disk, override).ok /\ cfg' = Reloaded(disk, override).c
             \/ cfg' = cfg
      PROVE  Comes
  <2>1. CASE cfg' = cfg
    BY <1>3, <2>1 DEF Comes
  <2>2. CASE Reloaded(disk, override).ok /\ cfg' = Reloaded(disk, override).c
    <3>1. disk[Root].state = "text"
      BY <1>0, <2>2, ReloadedCoherent
    <3> QED BY <1>3, <2>2, <3>1 DEF Reads, Comes
  <2> QED BY <1>3, <2>1, <2>2
<1>4. CASE OpenPicker
  BY <1>1, <1>4 DEF OpenPicker
<1>5. ASSUME NEW n \in Themes, Preview(n) PROVE Comes
  BY <1>2, <1>5 DEF Preview
<1>6. ASSUME NEW n \in Themes \cup {None}, Accept(n) PROVE Comes
  BY <1>1, <1>2, <1>6 DEF Accept
<1>7. CASE Keep
  <2>1. cfg.theme \in Themes \cup {None}
    BY DEF CInv, Coherent, Configurations
  <2>2. CASE cfg.theme = None
    BY <1>1, <1>7, <2>2 DEF Keep
  <2>3. CASE cfg.theme # None
    <3>1. SetTheme(cfg.theme, TRUE)
      BY <1>7, <2>3 DEF Keep
    <3>2. PICK n \in Themes \cup {None} : n = cfg.theme
      BY <2>1
    <3>3. SetTheme(n, TRUE)
      BY <3>1, <3>2
    <3> QED BY <1>2, <3>3
  <2> QED BY <2>2, <2>3
<1>8. CASE Escape
  <2>1. picker.was \in Themes \cup {None}
    BY DEF CInv, PickerGood, Pickers
  <2>2. PICK n \in Themes \cup {None} : n = picker.was
    BY <2>1
  <2>3. SetTheme(n, FALSE)
    BY <1>8, <2>2 DEF Escape, EscapeUndone
  <2> QED BY <1>2, <2>3
<1>9. CASE Dismiss
  BY <1>1, <1>9 DEF Dismiss
<1>10. ASSUME NEW n \in Themes \cup {None}, NEW save \in BOOLEAN, ThemeCommand(n, save) PROVE Comes
  BY <1>2, <1>10 DEF ThemeCommand
<1>11. CASE ReloadCommand
  BY <1>3, <1>11 DEF ReloadCommand
<1>12. CASE WatchReload
  BY <1>3, <1>12 DEF WatchReload
<1>13. CASE Settle
  BY <1>1, <1>13 DEF Settle
<1>14. ASSUME NEW f \in Files, NEW t \in Contents[f], Edit(f, t) PROVE Comes
  BY <1>1, <1>14 DEF Edit
<1>15. CASE UNCHANGED configs
  BY <1>1, <1>15 DEF configs
<1>17. CASE Drain \/ Unwatch \/ Rewatch
  BY <1>1, <1>17 DEF Drain, Unwatch, Rewatch
<1>16. Comes
  <2>1. CASE ConfigNext
    BY <1>4, <1>5, <1>6, <1>7, <1>8, <1>9, <1>10, <1>11, <1>12, <1>13, <1>14, <1>17, <2>1 DEF ConfigNext
  <2> QED BY <1>15, <2>1
<1> QED BY <1>16

(***************************************************************************)
(* A theme the session was told to wear stays on, for any files.           *)
(***************************************************************************)
THEOREM ThemeStays == ConfigSpec => ThemeKept
<1> DEFINE Kept == /\ cfg' # cfg /\ ToBeWorn' => IsWorn'
                   /\ override' \notin {None, override} => ThemeFile(Defaults, override', disk) # NoFile
<1>1. ASSUME CInv, CInv', [ConfigNext]_configs PROVE Kept
  <2>1. /\ cfg' = cfg \/ Reads \/ (override' = None /\ disk'[Root].state # "text") \/ Covers
        /\ override' \in {None, override} \/ (override' \in Themes /\ Wearable(override', disk))
    BY <1>1, StepComes DEF Comes
  <2>2. disk \in [Files -> FileTexts] /\ disk' \in [Files -> FileTexts] /\ cfg \in Configurations
        /\ override' \in Themes \cup {None} /\ None \notin Themes /\ NoFile \notin Files
    BY <1>1, ConfigAssumption DEF CInv, Coherent, ConfigAssumption
  <2>3. ASSUME override' \notin {None, override} PROVE ThemeFile(Defaults, override', disk) # NoFile
    <3>1. PICK name \in Themes : name = override' /\ Wearable(name, disk)
      BY <2>1, <2>3
    <3>2. PICK f \in Files : f = ThemeFile(Defaults, name, disk)
      BY <2>2, <3>1, TrialPassed
    <3> QED BY <2>2, <3>1, <3>2
  <2>4. ASSUME cfg' # cfg, ToBeWorn' PROVE IsWorn'
    <3>1. PICK name \in Themes : name = override'
      BY <2>2, <2>4 DEF ToBeWorn
    <3>2. PICK d \in [Files -> FileTexts] : d = disk'
      BY <2>2
    <3>3. PICK w : w = cfg'
      OBVIOUS
    <3>4. /\ Wearable(name, d) /\ OnlyRoot(d)
          /\ ThemeFile(Defaults, name, d) = ThemeFile(w, name, d)
      BY <2>4, <3>1, <3>2, <3>3 DEF ToBeWorn, OnlyRoot
    <3>5. \E y, g :
            /\ y \in Configurations
            /\ d[Root].state = "text" => y.dir = d[Root].dir
            /\ g = ThemeApplied(y, name, Loader(d)[DepthMax], d)
            /\ w.val = g.val /\ w.theme = g.theme /\ w.dir = g.dir
      <4>1. CASE Reads
        <5>1. d[Root].state = "text" /\ w = Reloaded(d, name).c
          BY <3>1, <3>2, <3>3, <4>1 DEF Reads
        <5>2. PICK r : r = Load(Defaults, Root, 0, d).c
          OBVIOUS
        <5>3. PICK y, g : /\ Coherent(y) /\ y.dir = r.dir
                          /\ g = ThemeApplied(y, name, Loader(d)[DepthMax], d)
                          /\ w.val = g.val /\ w.theme = g.theme /\ w.dir = g.dir
          BY <5>1, <5>2, OverIs
        <5>4. r.dir = d[Root].dir
          BY <3>4, <5>1, <5>2, RootDir
        <5>5. y \in Configurations
          BY <5>3 DEF Coherent
        <5> QED BY <5>3, <5>4, <5>5
      <4>2. CASE Covers
        <5>1. d[Root].state # "text" /\ w = [ApplyTheme(cfg, name, d).c EXCEPT !.bad = cfg.bad]
          BY <2>2, <3>1, <3>2, <3>3, <4>2 DEF Covers
        <5>2. PICK c \in Configurations : c = cfg
          BY <2>2
        <5>3. w = [ApplyTheme(c, name, d).c EXCEPT !.bad = c.bad]
          BY <5>1, <5>2
        <5>4. PICK y \in Configurations : \E g, v :
                /\ v = [ApplyTheme(c, name, d).c EXCEPT !.bad = c.bad]
                /\ y.dir = c.dir /\ g = ThemeApplied(y, name, Loader(d)[DepthMax], d)
                /\ v.val = g.val /\ v.theme = g.theme /\ v.dir = g.dir
          BY OverBroken
        <5>5. PICK g, v :
                /\ v = [ApplyTheme(c, name, d).c EXCEPT !.bad = c.bad]
                /\ y.dir = c.dir /\ g = ThemeApplied(y, name, Loader(d)[DepthMax], d)
                /\ v.val = g.val /\ v.theme = g.theme /\ v.dir = g.dir
          BY <5>4
        <5>6. w.val = g.val /\ w.theme = g.theme /\ w.dir = g.dir
          BY <5>3, <5>5
        <5> QED BY <5>1, <5>5, <5>6
      <4> QED BY <2>1, <2>2, <2>4, <3>1, <4>1, <4>2
    <3>6. PICK y, g :
            /\ y \in Configurations
            /\ d[Root].state = "text" => y.dir = d[Root].dir
            /\ g = ThemeApplied(y, name, Loader(d)[DepthMax], d)
            /\ w.val = g.val /\ w.theme = g.theme /\ w.dir = g.dir
      BY <3>5
    <3>7. ThemeFile(g, name, d) = ThemeFile(w, name, d)
      BY <3>6, ThemeFileOfDir
    <3>8. PICK f : f = ThemeFile(w, name, d)
      OBVIOUS
    <3>9. g.theme = name /\ \A s \in d[f].sets : g.val[s] = <<"set", f>>
      <4>1. ThemeFile(Defaults, name, d) = ThemeFile(g, name, d)
        BY <3>4, <3>7
      <4>2. g = ThemeApplied(y, name, Loader(d)[DepthMax], d) /\ Wearable(name, d) /\ OnlyRoot(d)
        BY <3>4, <3>6
      <4>3. d[Root].state = "text" => y.dir = d[Root].dir
        BY <3>6
      <4>4. ThemeFile(Defaults, name, d)
              = ThemeFile(ThemeApplied(y, name, Loader(d)[DepthMax], d), name, d)
        BY <4>1, <4>2
      <4>5. /\ ThemeApplied(y, name, Loader(d)[DepthMax], d).theme = name
            /\ \A s \in d[ThemeFile(Defaults, name, d)].sets :
                 ThemeApplied(y, name, Loader(d)[DepthMax], d).val[s]
                   = <<"set", ThemeFile(Defaults, name, d)>>
        BY <3>6, <4>2, <4>3, <4>4, WornStays
      <4> QED BY <3>7, <3>8, <4>1, <4>2, <4>5
    <3>10. w.theme = name /\ \A s \in d[f].sets : w.val[s] = <<"set", f>>
      BY <3>6, <3>9
    <3> QED BY <3>1, <3>2, <3>3, <3>8, <3>10 DEF IsWorn
  <2> QED BY <2>3, <2>4
<1>2. CInv /\ CInv' /\ [ConfigNext]_configs => [Kept]_configs
  BY <1>1
<1> QED BY <1>2, CInvInit, CInvNext, PTL DEF ConfigSpec, ThemeKept
=============================================================================
