------------------------------- MODULE Status -------------------------------
(***************************************************************************)
(* What a pane says about itself: the OSC scanner that watches a program's *)
(* output (src/src/osc5577.c) and the status slot of a pane that its two   *)
(* protocols share (src/src/pane.c), over the runs of the program in one   *)
(* pane.  The program writes whole sequences, or dies in the middle of     *)
(* one; reads cut the stream anywhere; a pane that echoes sends every      *)
(* answer back as output.                                                  *)
(*                                                                         *)
(* The stream is a sequence of pieces, each a pair: the control bytes that *)
(* move the scanner, and the fields of a sequence's body.  A body field is *)
(* what the parser makes of it: <<"id", path>>, <<"state", s>>, ...;       *)
(* "skipped" is a malformed pair or an unknown key, "broken" a value that  *)
(* breaks a limit, "huge" more text than the scanner's buffer holds.       *)
(***************************************************************************)
EXTENDS Integers, SequencesExt

CONSTANTS
  Gestures,    \* the sequences a program may write: [writes, means]
  MaxGestures, \* bound: sequences written in a behaviour
  MaxRuns,     \* bound: runs of the program in the pane
  PsMax,       \* PANE_PS_MAX
  ButtonsMax,  \* the buttons a frame has room for
  Gap,         \* the quarter of a second between two answers, in ticks
  MaxTicks,    \* bound: ticks of the clock in a run
  Echo         \* BOOLEAN: does the pane send what it is sent back as output?

VARIABLES
  pipe,    \* pieces written by the program (or echoed) and not read yet
  alive,   \* pane.alive
  running, \* the program still runs
  scan,    \* pane.scan
  slot,    \* the pane's records and what its frame shows
  replied, \* pane.ps_reply_ms, 0 for none
  now,     \* ticks since this run began, from 1
  runs,    \* runs of the program so far
  written, \* sequences written so far
  told,    \* what this run has said, whole sequences in the order of the stream
  answers  \* this run: [asked, hello, query]: hellos asked, hellos and queries answered

vars == <<pipe, alive, running, scan, slot, replied, now, runs, written, told, answers>>

(***************************************************************************)
(* Reports: osc7501_parse                                                  *)
(***************************************************************************)
States == {"idle", "working", "done", "blocked", "error"}

Report(id, state, kind, progress, app, title, msg) ==
  [id |-> id, state |-> state, kind |-> kind, progress |-> progress,
   app |-> app, title |-> title, msg |-> msg]

(* The last pair with a key decides; a key that is not there has a default. *)
Field(pairs, key, default) ==
  LET at == {i \in 1 .. Len(pairs) : pairs[i][1] = key} IN
  IF at = {} THEN default ELSE pairs[Max(at)][2]

Discarded(pairs) ==
  \/ \E i \in 1 .. Len(pairs) : pairs[i][1] = "broken"
  \/ \A i \in 1 .. Len(pairs) : pairs[i][1] # "state"

Parsed(pairs) ==
  LET state == Field(pairs, "state", "none") IN
  Report(Field(pairs, "id", <<>>), state,
         IF state = "blocked" THEN Field(pairs, "kind", "") ELSE "",
         IF state \in {"working", "blocked"} THEN Field(pairs, "progress", -1) ELSE -1,
         Field(pairs, "app", ""), Field(pairs, "title", ""), Field(pairs, "msg", ""))

(* osc7501_is_descendant: strictly below. *)
Descends(id, parent) == IsStrictPrefix(parent, id)

(***************************************************************************)
(* The scanner: osc_scan_feed and the dispatchers.  An event is a tuple    *)
(* whose first member names the callback.                                  *)
(***************************************************************************)
Quiet == <<"quiet">>

Dispatch5577(buf) ==
  IF Len(buf) >= 3 /\ buf[2] = <<"version", "1">>
  THEN <<"verb", buf[3][2], IF Len(buf) > 3 THEN buf[4][2] ELSE "">>
  ELSE Quiet

Dispatch7501(pairs) ==
  IF pairs = <<<<"?", "">>>> THEN <<"query">>
  ELSE IF Discarded(pairs) THEN Quiet ELSE <<"report", Parsed(pairs)>>

Dispatch(buf) ==
  IF buf = <<>> THEN Quiet
  ELSE CASE buf[1] = <<"osc", "5577">>  -> Dispatch5577(buf)
         [] buf[1] = <<"osc", "7501">>  -> Dispatch7501(Tail(buf))
         [] buf[1] = <<"osc", "133;A">> -> <<"prompt">>
         [] OTHER                       -> Quiet

Scanner(at, buf, overflow) == [at |-> at, buf |-> buf, overflow |-> overflow]
Ground == Scanner("ground", <<>>, FALSE)
Body   == Scanner("body", <<>>, FALSE)

Finish(s) == [scan |-> Ground, event |-> IF s.overflow THEN Quiet ELSE Dispatch(s.buf)]
Goes(s)   == [scan |-> s, event |-> Quiet]
Resets    == [scan |-> Ground, event |-> <<"reset">>]

AfterEsc(s, c) ==
  CASE c = "]"                      -> Goes(Body)
    [] c = "c"                      -> Resets
    [] c = "\\" /\ s.at = "bodyesc" -> Finish(s)
    [] c = "ESC" /\ s.at = "esc"    -> Goes(s)
    [] OTHER                        -> Goes(Ground)

InBody(s, piece) ==
  CASE piece[1] = "BEL"  -> Finish(s)
    [] piece[1] = "ESC"  -> Goes([s EXCEPT !.at = "bodyesc"])
    [] piece[1] = "CTL"  -> Goes(Ground)
    [] piece[1] = "huge" -> Goes([s EXCEPT !.overflow = TRUE])
    [] OTHER             -> Goes([s EXCEPT !.buf = Append(@, piece)])

Scan(s, piece) ==
  CASE s.at = "ground" -> Goes(IF piece[1] = "ESC" THEN Scanner("esc", <<>>, FALSE) ELSE s)
    [] s.at = "body"   -> InBody(s, piece)
    [] OTHER           -> AfterEsc(s, piece[1])

(***************************************************************************)
(* The slot                                                                *)
(***************************************************************************)
Blank == <<>>

NoSlot == [recs |-> {}, clock |-> 0, status |-> Blank, busy |-> FALSE,
           showing |-> FALSE, show |-> Report(<<>>, "none", "", -1, "", "", ""),
           buttons |-> {}]

Rank == [blocked |-> 5, error |-> 4, done |-> 3, working |-> 2, idle |-> 1]

(* Which of two records wants the line more: ps_rank, then the later one. *)
Over(x, y) ==
  \/ Rank[x.rep.state] > Rank[y.rep.state]
  \/ Rank[x.rep.state] = Rank[y.rep.state] /\ x.seen >= y.seen

(* A record without an app takes it from its nearest ancestor that has one. *)
Inherited(recs, rep) ==
  LET named == {x \in recs : x.rep.app # "" /\ Descends(rep.id, x.rep.id)} IN
  IF rep.app # "" \/ named = {} THEN rep.app
  ELSE (CHOOSE x \in named : \A y \in named : Len(x.rep.id) >= Len(y.rep.id)).rep.app

Line(rep) ==
  <<"line", rep.title, rep.msg,
    IF rep.title = "" /\ rep.msg = "" THEN rep.state ELSE "", rep.progress>>

Busy(rep) == rep.state \in {"working", "blocked"}

Recompose(p) ==
  IF p.recs = {}
  THEN IF p.showing THEN [p EXCEPT !.status = Blank, !.busy = FALSE, !.showing = FALSE] ELSE p
  ELSE LET best == CHOOSE x \in p.recs : \A y \in p.recs : Over(x, y)
           show == [best.rep EXCEPT !.app = Inherited(p.recs, best.rep)]
       IN [p EXCEPT !.status = Line(show), !.busy = Busy(show), !.show = show, !.showing = TRUE]

(* ps_clear: a record and everything under it. *)
Cleared(recs, id) == {x \in recs : x.rep.id # id /\ ~Descends(x.rep.id, id)}

DropTransient(p) == Recompose([p EXCEPT !.recs = {x \in @ : ~Busy(x.rep)}])

DropAll(p) == Recompose([p EXCEPT !.recs = {}])

(* Room for one more record: the least recently written one goes. *)
Evict(recs) ==
  IF Cardinality(recs) < PsMax THEN recs
  ELSE recs \ {CHOOSE x \in recs : \A y \in recs : x.seen <= y.seen}

OnProgramStatus(p, rep) ==
  IF rep.state = "clear" THEN Recompose([p EXCEPT !.recs = Cleared(@, rep.id)])
  ELSE LET same == {x \in p.recs : x.rep.id = rep.id}
           kept == IF same = {} THEN Evict(p.recs) ELSE p.recs \ same
       IN Recompose([p EXCEPT !.recs = kept \cup {[rep |-> rep, seen |-> p.clock + 1]},
                              !.clock = @ + 1])

(* 5577 takes the slot, and the records and their busy with it. *)
Take(p) ==
  [p EXCEPT !.recs = {}, !.busy = IF p.showing THEN FALSE ELSE @, !.showing = FALSE]

(* Fields id:label; an invalid id or an empty label drops that button only. *)
ParseButtons(fields) ==
  LET good == {i \in 1 .. Len(fields) : fields[i].valid /\ fields[i].label # ""}
  IN {fields[i].id : i \in {j \in good : Cardinality({k \in good : k < j}) < ButtonsMax}}

No == {"0", "false", "no", "off"}

OnOsc5577(p, verb, payload) ==
  CASE verb = "status"  -> [Take(p) EXCEPT !.status = <<"said", payload>>]
    [] verb = "busy"    -> [Take(p) EXCEPT !.busy = payload \notin No]
    [] verb = "clear"   -> [Take(p) EXCEPT !.status = Blank, !.busy = FALSE, !.buttons = {}]
    [] verb = "buttons" -> [p EXCEPT !.buttons = ParseButtons(payload)]
    [] OTHER            -> p

(***************************************************************************)
(* The sequences of a terminal stream                                      *)
(***************************************************************************)
C(name) == <<name, "">>
Osc(body, end) == <<C("ESC"), C("]")>> \o body \o end
ST  == <<C("ESC"), C("\\")>>
Bel == <<C("BEL")>>
Verb(verb, payload) ==
  Osc(<<<<"osc", "5577">>, <<"version", "1">>, <<"verb", verb>>, <<"payload", payload>>>>, ST)
Query(end) == Osc(<<<<"osc", "7501">>, <<"?", "">>>>, end)

NoAnswers == [asked |-> 0, hello |-> 0, query |-> 0]

Says(piece, name, value) == piece[1] = name /\ piece[2] = value

(* What the program is said to have written is what it wrote: no piece but  *)
(* the last ends a body, a version is followed by a verb and the buttons by *)
(* their fields, a state is one the protocol has, and the sequences that    *)
(* ask hello or for buttons mean that.                                      *)
SaysWhatItMeans(writes, means) ==
  /\ writes # <<>> /\ writes \in Seq({writes[i] : i \in 1 .. Len(writes)})
  /\ \A i \in 1 .. Len(writes) - 1 : writes[i][1] \notin {"BEL", "\\"}
  /\ \A i \in 1 .. Len(writes) :
       /\ writes[i][1] = "state" => writes[i][2] \in States \cup {"clear"}
       /\ Says(writes[i], "version", "1") => i < Len(writes) /\ writes[i + 1][1] = "verb"
       /\ Says(writes[i], "verb", "buttons") =>
            /\ i < Len(writes) /\ writes[i + 1][1] = "payload"
            /\ means = <<"verb", "buttons", writes[i + 1][2]>>
       /\ Says(writes[i], "verb", "hello") =>
            /\ means = <<"verb", "hello", "">>
            /\ \A j \in 1 .. Len(writes) : Says(writes[j], "verb", "hello") => j = i

(* Where the scanner stands after each piece of w, from the ground. *)
ScannerAfter(w) ==
  LET after[i \in 0 .. Len(w)] == IF i = 0 THEN Ground ELSE Scan(after[i - 1], w[i]).scan
  IN after

(* Read whole and alone, a sequence is quiet up to its last piece, says     *)
(* what it means with that one and leaves nothing unfinished.               *)
Legible(writes, means) ==
  LET after == ScannerAfter(writes) IN
  /\ after[Len(writes)] = Ground
  /\ \A i \in 1 .. Len(writes) :
       Scan(after[i - 1], writes[i]).event = IF i = Len(writes) THEN means ELSE Quiet
  /\ means[1] = "report" => IsPrefix(means[2].id, means[2].id)   \* an id is a path

ASSUME StatusLegible == \A g \in Gestures : Legible(g.writes, g.means)

ASSUME StatusAssumption ==
  /\ \A g \in Gestures : SaysWhatItMeans(g.writes, g.means)
  /\ MaxGestures \in Nat /\ MaxRuns \in Nat /\ MaxTicks \in Nat
  /\ PsMax \in Nat \ {0} /\ ButtonsMax \in Nat /\ Gap \in Nat \ {0}
  /\ Echo \in BOOLEAN

Init ==
  /\ pipe = <<>> /\ alive = TRUE /\ running = TRUE
  /\ scan = Ground /\ slot = NoSlot /\ replied = 0
  /\ now = 1 /\ runs = 1 /\ written = 0 /\ told = <<>> /\ answers = NoAnswers

(***************************************************************************)
(* The program and its terminal line                                       *)
(***************************************************************************)
Asks(g) == IF g.means = <<"verb", "hello", "">> THEN 1 ELSE 0

Write(g) ==
  /\ running /\ written < MaxGestures
  /\ pipe' = pipe \o g.writes
  /\ told' = Append(told, g.means)
  /\ answers' = [answers EXCEPT !.asked = @ + Asks(g)]
  /\ written' = written + 1
  /\ UNCHANGED <<alive, running, scan, slot, replied, now, runs>>

(* The program ends, at rest or n pieces into a sequence. *)
Exit ==
  /\ running /\ running' = FALSE
  /\ \/ UNCHANGED <<pipe, written>>
     \/ /\ written < MaxGestures /\ written' = written + 1
        /\ \E g \in Gestures : \E n \in 1 .. Len(g.writes) - 1 :
             pipe' = pipe \o SubSeq(g.writes, 1, n)
  /\ UNCHANGED <<alive, scan, slot, replied, now, runs, told, answers>>

(* The clock of a run matters, and is told, from its first answer on. *)
Tick ==
  /\ alive /\ replied # 0 /\ now < MaxTicks /\ now' = now + 1
  /\ UNCHANGED <<pipe, alive, running, scan, slot, replied, runs, written, told, answers>>

(* pane_write of an answer; echoed after what is already in the line. *)
Echoed(answer) == IF Echo /\ running THEN answer ELSE <<>>

(***************************************************************************)
(* pane_pump: one piece, or the end of the file                            *)
(***************************************************************************)
QueryReply == Query(ST)

\* Mutant: hello is answered with hello.
HelloSays == Verb("hello", "")

HelloReply == Verb("hello-reply", "slosh")

Feed ==
  /\ alive /\ pipe # <<>>
  /\ LET r    == Scan(scan, Head(pipe))
         e    == r.event
         rest == Tail(pipe)
     IN /\ scan' = r.scan
        /\ \/ /\ e = Quiet
              /\ pipe' = rest /\ UNCHANGED <<slot, replied, told, answers>>
           \/ /\ e[1] = "report"
              /\ slot' = OnProgramStatus(slot, e[2])
              /\ pipe' = rest /\ UNCHANGED <<replied, told, answers>>
           \/ /\ e[1] = "verb" /\ e[2] = "hello"
              /\ pipe' = rest \o Echoed(HelloReply)
              /\ answers' = [answers EXCEPT !.hello = @ + 1]
              /\ UNCHANGED <<slot, replied, told>>
           \/ /\ e[1] = "verb" /\ e[2] # "hello"
              /\ slot' = OnOsc5577(slot, e[2], e[3])
              /\ pipe' = rest /\ UNCHANGED <<replied, told, answers>>
           \/ /\ e[1] = "query"
              /\ IF replied # 0 /\ now - replied < Gap
                 THEN pipe' = rest /\ UNCHANGED <<replied, answers>>
                 ELSE /\ replied' = now
                      /\ pipe' = rest \o Echoed(QueryReply)
                      /\ answers' = [answers EXCEPT !.query = @ + 1]
              /\ UNCHANGED <<slot, told>>
           \/ /\ e[1] = "prompt"
              /\ slot' = DropTransient(slot)
              /\ pipe' = rest /\ UNCHANGED <<replied, told, answers>>
           \/ /\ e[1] = "reset"
              /\ slot' = DropAll(slot)
              /\ pipe' = rest /\ UNCHANGED <<replied, told, answers>>
  /\ UNCHANGED <<alive, running, now, runs, written>>

(* pane_click_button: written to the program, and echoed like any answer.  *)
(* A click is made when the line is at rest.                               *)
Click ==
  /\ pipe = <<>>
  /\ \E b \in slot.buttons :
       pipe' = pipe \o (IF alive THEN Echoed(Verb("click", b)) ELSE <<>>)
  /\ UNCHANGED <<alive, running, scan, slot, replied, now, runs, written, told, answers>>

\* Mutant: a program that died is still said to be at work.
DiedSilently(p) == p

(* What the death of its program does to the slot: pane_died. *)
Died(p) == DropTransient(p)

EndOfFile ==
  /\ alive /\ ~running /\ pipe = <<>>
  /\ alive' = FALSE
  /\ slot' = Died(slot)
  /\ told' = Append(told, <<"exit">>)
  /\ UNCHANGED <<pipe, running, scan, replied, now, runs, written, answers>>

\* Mutant: the new run inherits what the scanner was in the middle of.
RestartedScan == scan

Rescanned == Ground   \* osc_scan_reset

(* pane_restart: the array of records stays, its clock with it. *)
Restart ==
  /\ ~alive /\ runs < MaxRuns
  /\ slot' = [slot EXCEPT !.status = Blank, !.busy = FALSE, !.buttons = {},
                          !.recs = {}, !.showing = FALSE]
  /\ replied' = 0
  /\ scan' = Rescanned
  /\ alive' = TRUE /\ running' = TRUE /\ runs' = runs + 1
  /\ now' = 1 /\ told' = <<>> /\ answers' = NoAnswers
  /\ UNCHANGED <<pipe, written>>

Next ==
  \/ \E g \in Gestures : Write(g)
  \/ Exit
  \/ Tick
  \/ Feed
  \/ Click
  \/ EndOfFile
  \/ Restart

Spec == Init /\ [][Next]_vars

(***************************************************************************)
(* What the protocols promise                                              *)
(***************************************************************************)
(* Every variable has its type, and no two records have the same id. *)
TypeOK ==
  /\ alive \in BOOLEAN /\ running \in BOOLEAN
  /\ scan.at \in {"ground", "esc", "body", "bodyesc"}
  /\ replied \in 0 .. now /\ now \in 1 .. MaxTicks \cup {1}
  /\ runs \in 1 .. MaxRuns \cup {1} /\ written \in 0 .. MaxGestures
  /\ Cardinality(slot.recs) <= PsMax
  /\ \A x \in slot.recs : x.rep.state \in States /\ x.seen \in 1 .. slot.clock
  /\ \A x, y \in slot.recs : x.rep.id = y.rep.id => x = y
  /\ \A x, y \in slot.recs : x.seen = y.seen => x = y

(* The indices into what was told of the reports that are still true after  *)
(* the first n of them: a report replaces the one with its id, a clear      *)
(* removes a branch, a 5577 status, busy or clear and a full reset remove   *)
(* all, a prompt and the end of the program remove what was under way, and  *)
(* the PsMax most recently written are kept.                                *)
Newest(S) == {i \in S : Cardinality({j \in S : j > i}) < PsMax}

Still(t, was, n) ==
  LET e == t[n] IN
  CASE e[1] = "report" /\ e[2].state = "clear" -> {i \in was : ~IsPrefix(e[2].id, t[i][2].id)}
    [] e[1] = "report" /\ e[2].state # "clear" ->
         Newest({i \in was : t[i][2].id # e[2].id} \cup {n})
    [] e[1] = "verb" /\ e[2] \in {"status", "busy", "clear"} -> {}
    [] e[1] = "reset" -> {}
    [] e[1] \in {"prompt", "exit"} -> {i \in was : t[i][2].state \notin {"working", "blocked"}}
    [] OTHER -> was

Held ==
  LET held[n \in 0 .. Len(told)] == IF n = 0 THEN {} ELSE Still(told, held[n - 1], n)
  IN held[Len(told)]

(* Once everything written has been read, the records are the reports that  *)
(* are still true: wherever reads cut the stream, whatever was malformed,   *)
(* abandoned or too long, and whatever the run before had left unfinished.  *)
Heard ==
  pipe = <<>> => {x.rep : x \in slot.recs} = {told[i][2] : i \in Held}

(* The line, its busy mark and the record the control API names are always  *)
(* those of one record that is held, the one nearest to needing a person; a *)
(* pane whose program is gone claims no work; a button was asked for by the *)
(* run it would be sent to.                                                 *)
SlotAgrees ==
  /\ slot.showing = (slot.recs # {})
  /\ slot.showing =>
       /\ \E x \in slot.recs :
            /\ [slot.show EXCEPT !.app = x.rep.app] = x.rep
            /\ x.rep.app # "" => slot.show.app = x.rep.app
            /\ \A y \in slot.recs : Rank[y.rep.state] <= Rank[x.rep.state]
       /\ slot.status = Line(slot.show)
       /\ slot.busy = Busy(slot.show)
  /\ ~alive => \A x \in slot.recs : ~Busy(x.rep)
  /\ \A b \in slot.buttons : \E i \in 1 .. Len(told) :
       told[i][1] = "verb" /\ told[i][2] = "buttons" /\ \E j \in 1 .. Len(told[i][3]) : told[i][3][j].id = b

(* A pane that echoes is never answered into a loop: a hello is answered as *)
(* often as the program asked, and the answers to 7501's question, which    *)
(* are questions themselves, come no faster than one a quarter of a second. *)
NoAmplification ==
  /\ answers.hello <= answers.asked
  /\ answers.query <= 1 + (now - 1) \div Gap

(* The text on the line is what a 5577 status said or what a record held    *)
(* now says: "a program_state describing text that is no longer on screen   *)
(* is worse than none" (docs/scripting.md:221), and so is text that         *)
(* describes a record no longer there.                                      *)
LineHasOwner ==
  slot.status # Blank /\ slot.status[1] = "line" => slot.showing
=============================================================================
