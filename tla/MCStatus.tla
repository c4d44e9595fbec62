------------------------------ MODULE MCStatus ------------------------------
(* A small instance of Status: the sequences a program may write. *)
EXTENDS Status

Gesture(writes, means) == [writes |-> writes, means |-> means]
P7501(pairs) == <<<<"osc", "7501">>>> \o pairs
Id(id) == <<"id", id>>
Is(state) == <<"state", state>>
Nothing == Quiet

(* Reports at the root and at two levels under it, in and out of order,     *)
(* malformed, over a limit and given up half way, and the 5577 verbs.       *)
MCGestures ==
  {Gesture(Osc(P7501(<<Is("working"), <<"app", "make">>>>), ST),
           <<"report", Report(<<>>, "working", "", -1, "make", "", "")>>),
   Gesture(Osc(P7501(<<Id(<<"a">>), Is("idle"), <<"kind", "auth">>, <<"progress", 7>>, Is("blocked")>>), Bel),
           <<"report", Report(<<"a">>, "blocked", "auth", 7, "", "", "")>>),
   Gesture(Osc(P7501(<<<<"skipped", "">>, Is("done"), <<"progress", 7>>, Id(<<"a", "b">>), <<"msg", "ok">>>>), ST),
           <<"report", Report(<<"a", "b">>, "done", "", -1, "", "", "ok")>>),
   Gesture(Osc(P7501(<<Is("clear"), Id(<<"a">>)>>), ST),
           <<"report", Report(<<"a">>, "clear", "", -1, "", "", "")>>),
   Gesture(Osc(P7501(<<Is("working"), <<"broken", "msg">>>>), ST), Nothing),
   Gesture(Osc(P7501(<<Is("working"), <<"huge", "">>>>), ST), Nothing),
   Gesture(Osc(P7501(<<Is("working"), C("CTL"), Id(<<"a">>)>>), ST), Nothing),
   Gesture(<<C("ESC"), C("]")>> \o P7501(<<Is("working")>>) \o <<C("ESC"), C("c")>>, <<"reset">>),
   Gesture(Query(ST), <<"query">>),
   Gesture(Osc(<<<<"osc", "133;A">>>>, Bel), <<"prompt">>),
   Gesture(Verb("status", "hi"), <<"verb", "status", "hi">>),
   LET fields == <<[id |-> "x", valid |-> FALSE, label |-> "X"], [id |-> "y", valid |-> TRUE, label |-> "Y"]>>
   IN Gesture(Verb("buttons", fields), <<"verb", "buttons", fields>>),
   Gesture(Verb("busy", ""), <<"verb", "busy", "">>),
   Gesture(Verb("clear", ""), <<"verb", "clear", "">>),
   Gesture(Verb("hello", ""), <<"verb", "hello", "">>),
   Gesture(Osc(<<<<"osc", "5577">>, <<"version", "2">>, <<"verb", "clear">>>>, ST), Nothing)}
=============================================================================
