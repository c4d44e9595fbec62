------------------------------- MODULE Input -------------------------------
(***************************************************************************)
(* The input decoder of one client (src/src/input.c) and the timer the     *)
(* server keeps for it (src/src/server.c).  A terminal writes the bytes of *)
(* each gesture; reads cut the stream anywhere; the decoder keeps what it  *)
(* cannot decide yet and a timer resolves it when the client falls quiet.  *)
(*                                                                         *)
(* A byte is a token.  A run of parameter digits is one token ("200",      *)
(* "201", "n"), a two-byte UTF-8 character is "u1" "u2", "c0" is any       *)
(* control character, "a" any printable one and "p" a character that only  *)
(* ever occurs inside a paste.                                             *)
(***************************************************************************)
EXTENDS Naturals, SequencesExt

CONSTANTS
  Gestures,    \* the gestures the user may make, a subset of AllGestures
  MaxGestures, \* bound: gestures made in a behaviour
  Late,        \* BOOLEAN: may the pieces of a paste come more than ESC_MS apart?
  Hasty        \* BOOLEAN: may the user go on within ESC_MS of the Escape key?

VARIABLES
  wire,      \* bytes written by the terminal and not read yet
  buf,       \* input_parser.buf[0 .. len)
  in_paste,  \* input_parser.in_paste
  got,       \* the events handed to client_event, in order
  made,      \* the gestures the user has made, in order
  cut        \* a timer has fired inside a paste

inputs == <<wire, buf, in_paste, got, made, cut>>

(***************************************************************************)
(* Events                                                                  *)
(***************************************************************************)
Key(k, mods)   == [kind |-> "key", what |-> <<k>>, mods |-> mods]
Paste(text)    == [kind |-> "paste", what |-> text, mods |-> {}]
Mouse          == [kind |-> "mouse", what |-> <<>>, mods |-> {}]
Focus          == [kind |-> "focus", what |-> <<>>, mods |-> {}]
Alt(ev)        == IF ev.kind = "key" THEN [ev EXCEPT !.mods = @ \cup {"alt"}] ELSE ev

(***************************************************************************)
(* What the terminal writes for a gesture, and what the gesture means      *)
(***************************************************************************)
Writes ==
  [letter  |-> <<"a">>,
   accent  |-> <<"u1", "u2">>,
   ctrl    |-> <<"c0">>,
   altkey  |-> <<"esc", "a">>,
   altacc  |-> <<"esc", "u1", "u2">>,
   escape  |-> <<"esc">>,
   altbrk  |-> <<"esc", "[">>,
   arrow   |-> <<"esc", "[", "A">>,
   ss3     |-> <<"esc", "O", "A">>,
   altarr  |-> <<"esc", "esc", "[", "A">>,
   kitty   |-> <<"esc", "[", "n", "u">>,
   backtab |-> <<"esc", "[", "Z">>,
   delete  |-> <<"esc", "[", "n", "~">>,
   mouse   |-> <<"esc", "[", "<", "n", "M">>,
   focus   |-> <<"esc", "[", "I">>,
   report  |-> <<"esc", "[", "n", "X">>,
   paste   |-> <<"esc", "[", "200", "~", "p", "p", "esc", "[", "201", "~">>]

AllGestures == DOMAIN Writes

Means ==
  [letter  |-> <<Key("a", {})>>,
   accent  |-> <<Key("u1", {})>>,
   ctrl    |-> <<Key("c0", {"ctrl"})>>,
   altkey  |-> <<Key("a", {"alt"})>>,
   altacc  |-> <<Key("u1", {"alt"})>>,
   escape  |-> <<Key("esc", {})>>,
   altbrk  |-> <<Key("esc", {}), Key("[", {})>>,  \* alt+[ begins a sequence: told as two keys
   arrow   |-> <<Key("A", {})>>,
   ss3     |-> <<Key("A", {})>>,
   altarr  |-> <<Key("A", {"alt"})>>,
   kitty   |-> <<Key("n", {})>>,
   backtab |-> <<Key("tab", {"shift"})>>,
   delete  |-> <<Key("~", {})>>,
   mouse   |-> <<Mouse>>,
   focus   |-> <<Focus>>,
   report  |-> <<>>,
   paste   |-> <<Paste(<<"p", "p">>)>>]

Bytes == UNION {Range(Writes[g]) : g \in AllGestures}

ASSUME InputAssumption ==
  /\ Gestures \subseteq AllGestures
  /\ MaxGestures \in Nat
  /\ Late \in BOOLEAN /\ Hasty \in BOOLEAN

(***************************************************************************)
(* parse_one                                                               *)
(***************************************************************************)
Outcome(used, evs, opens) == [used |-> used, evs |-> evs, opens |-> opens]
Incomplete == Outcome(0, <<>>, FALSE)

(* The bytes 0x40 .. 0x7e, which end a CSI sequence. *)
Finals == {"[", "O", "~", "u", "A", "I", "M", "X", "Z", "a", "p"}

(* A key named by its final byte, as a CSI or an SS3 sequence carries it; a  *)
(* final byte of no known key is consumed and stands for nothing.            *)
FinalKey(b) == IF b \in {"A"} THEN <<Key(b, {})>> ELSE <<>>

CsiEvents(b, params) ==
  CASE b \in {"I", "O"}                   -> <<Focus>>
    [] b = "M" /\ "<" \in Range(params)   -> <<Mouse>>
    [] b = "u"                            -> <<Key("n", {})>>
    [] b = "~"                            -> <<Key("~", {})>>
    [] b = "Z"                            -> <<Key("tab", {"shift"})>>
    [] OTHER                              -> FinalKey(b)

(* ESC [ parameters final, from index i of b *)
Csi(b, i) ==
  LET ends == {k \in i + 2 .. Len(b) : b[k] \in Finals} IN
  IF ends = {} THEN Incomplete
  ELSE LET k      == Min(ends)
           params == SubSeq(b, i + 2, k - 1)
       IN IF b[k] = "~" /\ params = <<"200">>
          THEN Outcome(k - i + 1, <<>>, TRUE)
          ELSE Outcome(k - i + 1, CsiEvents(b[k], params), FALSE)

(* ESC O final *)
Ss3(b, i) ==
  IF i + 2 > Len(b) THEN Incomplete ELSE Outcome(3, FinalKey(b[i + 2]), FALSE)

\* Mutant: the first byte of a split UTF-8 character is not waited with.
PlainUnsplit(b, i) == Outcome(1, <<Key(b[i], {})>>, FALSE)

(* A control character, a printable one, or a whole UTF-8 sequence *)
Plain(b, i) ==
  CASE b[i] = "c0"                       -> Outcome(1, <<Key("c0", {"ctrl"})>>, FALSE)
    [] b[i] = "u1" /\ i = Len(b)         -> Incomplete
    [] b[i] = "u1" /\ i < Len(b)         -> Outcome(2, <<Key("u1", {})>>, FALSE)
    [] OTHER                             -> Outcome(1, <<Key(b[i], {})>>, FALSE)

(* What the parser of the tail finds, as alt.  That parser is a temporary   *)
(* one: a paste it opens is forgotten with it.                              *)
AltOutcome(t) ==
  IF t.used = 0 THEN Incomplete
  ELSE Outcome(t.used + 1, [k \in DOMAIN t.evs |-> Alt(t.evs[k])], FALSE)

(* One event from index i of b, outside a paste *)
ParseOne(b) ==
  LET parse[i \in 1 .. Len(b) + 1] ==
        CASE i > Len(b)                        -> Incomplete
          [] i <= Len(b) /\ b[i] # "esc"       -> Plain(b, i)
          [] i = Len(b) /\ b[i] = "esc"        -> Incomplete
          [] i < Len(b) /\ b[i] = "esc" /\ b[i + 1] = "["  -> Csi(b, i)
          [] i < Len(b) /\ b[i] = "esc" /\ b[i + 1] = "O"  -> Ss3(b, i)
          [] OTHER                             -> AltOutcome(parse[i + 1])
  IN parse

EndMarker == <<"esc", "[", "201", "~">>

(* Inside a paste, from index i of b: everything up to the end marker *)
PasteOne(b, i) ==
  LET at == {k \in i .. Len(b) - Len(EndMarker) + 1 :
               SubSeq(b, k, k + Len(EndMarker) - 1) = EndMarker}
  IN IF at = {} THEN Incomplete
     ELSE Outcome(Min(at) + Len(EndMarker) - i, <<Paste(SubSeq(b, i, Min(at) - 1))>>, FALSE)

(* input_feed: events are parsed off the front until the rest is incomplete *)
Feed(bytes, pasting) ==
  LET parse == ParseOne(bytes)
      One(i, inp) == IF inp THEN PasteOne(bytes, i) ELSE parse[i]
      feed[i \in 1 .. Len(bytes) + 1] ==
        [inp \in BOOLEAN |->
           IF i > Len(bytes) \/ One(i, inp).used = 0
           THEN [buf |-> SubSeq(bytes, i, Len(bytes)), in_paste |-> inp, evs |-> <<>>]
           ELSE [feed[i + One(i, inp).used][One(i, inp).opens] EXCEPT
                   !.evs = One(i, inp).evs \o @]]
  IN feed[1][pasting]

(***************************************************************************)
(* Actions                                                                 *)
(***************************************************************************)
InputInit ==
  /\ wire = <<>> /\ buf = <<>> /\ in_paste = FALSE
  /\ got = <<>> /\ made = <<>> /\ cut = FALSE

Decoded(r) ==
  /\ buf' = r.buf
  /\ in_paste' = r.in_paste
  /\ got' = got \o r.evs

(* The user makes a gesture.  The Escape key and alt+[ are how a sequence   *)
(* begins: a patient user waits until the timer has resolved them.          *)
AwaitingEscape ==
  /\ wire # <<>> \/ buf # <<>>
  /\ made # <<>> /\ Last(made) \in {"escape", "altbrk"}

Gesture(g) ==
  /\ Len(made) < MaxGestures
  /\ Hasty \/ ~AwaitingEscape
  /\ wire' = wire \o Writes[g]
  /\ made' = Append(made, g)
  /\ UNCHANGED <<buf, in_paste, got, cut>>

(* MSG_INPUT with the next n bytes: feed_client without a timeout *)
Read(n) ==
  /\ n \in 1 .. Len(wire)
  /\ wire' = SubSeq(wire, n + 1, Len(wire))
  /\ Decoded(Feed(buf \o SubSeq(wire, 1, n), in_paste))
  /\ UNCHANGED <<made, cut>>

\* Mutant: the timer resolves an Escape key and nothing else.
TimeoutOnlyEsc ==
  /\ buf # <<>> /\ wire = <<>> /\ buf = <<"esc">>
  /\ Decoded([buf |-> <<>>, in_paste |-> in_paste, evs |-> <<Key("esc", {})>>])
  /\ UNCHANGED <<wire, made, cut>>

(* feed_client with a timeout: ESC_MS have passed since bytes were left     *)
(* pending.  A terminal writes a sequence at once, so no byte of it is      *)
(* still on its way, unless it is a paste and the link is slow.             *)
Timeout ==
  /\ buf # <<>>
  /\ wire = <<>> \/ (Late /\ in_paste)
  /\ IF Head(buf) = "esc"
     THEN LET r == Feed(Tail(buf), in_paste)
          IN Decoded([r EXCEPT !.evs = <<Key("esc", {})>> \o @])
     ELSE Decoded([buf |-> <<>>, in_paste |-> in_paste, evs |-> <<>>])
  /\ cut' = (cut \/ in_paste)
  /\ UNCHANGED <<wire, made>>

Reading == \E n \in 1 .. Len(wire) : Read(n)

InputNext ==
  \/ \E g \in Gestures : Gesture(g)
  \/ Reading
  \/ Timeout

(* The server reads what a socket holds and its poll wakes at esc_due. *)
InputSpec == InputInit /\ [][InputNext]_inputs /\ WF_inputs(Reading) /\ WF_inputs(Timeout)

(***************************************************************************)
(* Properties                                                              *)
(***************************************************************************)
Meant == FlattenSeq([k \in DOMAIN made |-> Means[made[k]]])

(* The decoder holds bytes the terminal wrote and has handed out events.    *)
InputTypeOK ==
  /\ wire \in Seq(Bytes) /\ buf \in Seq(Bytes)
  /\ in_paste \in BOOLEAN /\ cut \in BOOLEAN
  /\ made \in Seq(Gestures)
  /\ \A k \in DOMAIN got : got[k].kind \in {"key", "paste", "mouse", "focus"}

(* No character of a paste is ever handed on as a key, even when the timer  *)
(* fires between its pieces (in_paste outlives the bytes it throws away):   *)
(* pasted text must not run bindings or reach a shell as typed lines.       *)
PasteNeverTyped == \A k \in DOMAIN got : got[k].kind = "key" => got[k].what # <<"p">>

(* Wherever the reads cut the stream, and whenever the timer of a lone ESC  *)
(* fires, the events decoded are those the gestures meant, in order and     *)
(* with nothing made up, and when nothing is left to read or to resolve     *)
(* none is missing (input_feed, input_timeout).  A paste whose pieces came  *)
(* further apart than the timer is the exception: it loses text, but still  *)
(* types none.                                                              *)
Decodes ==
  /\ PasteNeverTyped
  /\ ~cut =>
          /\ IsPrefix(got, Meant)
          /\ wire = <<>> /\ buf = <<>> => got = Meant

(* What a client sent is resolved in the end: the bytes the decoder waits   *)
(* on are completed by the next read or given up by the timer.              *)
Resolves == (buf # <<>>) ~> (buf = <<>>)
=============================================================================
