------------------------------ MODULE MCConfig ------------------------------
(* A small instance: a file that may ask for a theme, include itself or a   *)
(* file of another directory, which may not be there; a theme by one name   *)
(* in three directories, and another that is shipped and asks for the       *)
(* first.                                                                   *)
EXTENDS Config, TLC

Text == [Absent EXCEPT !.state = "text"]
Broken == [Absent EXCEPT !.state = "broken"]

Inc == <<"parts", "nord">>

MCFiles ==
  {Root, Inc, <<"beside", "phosphor">>, <<"own", "phosphor">>, <<"shipped", "nord">>}

MCContents ==
  [f \in MCFiles |->
    CASE f = Root -> {Absent, Broken,
                      [Text EXCEPT !.theme = "phosphor", !.sets = {"colour", "unfocused"}],
                      [Text EXCEPT !.includes = <<Inc>>, !.theme = "nord", !.sets = {"bind"}],
                      [Text EXCEPT !.theme = "phosphor", !.dir = "own"],
                      [Text EXCEPT !.includes = <<Root, Inc>>, !.sets = {"dim"}]}
      [] f = Inc -> {Absent, [Text EXCEPT !.sets = {"dim", "colour", "scrolled"}, !.theme = "phosphor"],
                     [Text EXCEPT !.includes = <<Root>>, !.sets = {"bind"}]}
      [] f = <<"beside", "phosphor">> ->
           {Absent, [Text EXCEPT !.sets = {"colour", "dim"}]}
      [] f = <<"own", "phosphor">> -> {Absent, [Text EXCEPT !.sets = {"colour", "status", "unfocused"}, !.odd = TRUE]}
      [] OTHER -> {[Text EXCEPT !.sets = {"colour", "scrolled"}],
                   [Text EXCEPT !.theme = "phosphor", !.sets = {"bind"}]}]

(* The session starts with the themes most people would have, and with what *)
(* is included there or not.                                                *)
StartsWith(r, i) ==
  (Root :> r) @@ (Inc :> i)
    @@ (<<"own", "phosphor">> :> [Text EXCEPT !.sets = {"colour", "status", "unfocused"}, !.odd = TRUE])
    @@ (<<"beside", "phosphor">> :> [Text EXCEPT !.sets = {"colour", "dim"}])
    @@ (<<"shipped", "nord">> :> [Text EXCEPT !.sets = {"colour", "scrolled"}])

MCDisks ==
  {StartsWith(r, i) : r \in MCContents[Root] \ {Broken},
                      i \in {t \in MCContents[Inc] : t.sets # {} /\ t.includes = <<>>}}
  \cup {StartsWith(r, Absent) : r \in {t \in MCContents[Root] : t.includes # <<>>}}
=============================================================================
