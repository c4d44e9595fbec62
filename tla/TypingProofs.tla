---------------------------- MODULE TypingProofs ----------------------------
(***************************************************************************)
(* Theorems about what is typed: the input decoder of a client, for any    *)
(* number of gestures and any way the reads cut them, and the pane whose   *)
(* program it is typed to, for any number of runs and any length of line.  *)
(***************************************************************************)
EXTENDS Input, Pane, SequenceTheorems, WellFoundedInduction, TLAPS

-----------------------------------------------------------------------------
(* The pane *)

(* The part of the type that the other conjuncts need. *)
TypeInv ==
  /\ present \in BOOLEAN /\ keeps \in BOOLEAN /\ alive \in BOOLEAN
  /\ suspended \in BOOLEAN /\ fd \in BOOLEAN /\ stray \in BOOLEAN
  /\ forked \in Nat /\ forked <= MaxRuns
  /\ exit \in Codes \cup {Unknown}
  /\ pid = IF fd THEN forked ELSE 0
  /\ fd => forked >= 1
  /\ proc \in [Runs -> {"none", "running", "ending", "zombie", "gone"}]
  /\ code \in [Runs -> Codes \cup {Unknown}]
  /\ tty \subseteq Runs /\ hup \subseteq Runs
  /\ noted \in [Runs -> Nat]

(* A run that was not forked has left no trace. *)
Untouched ==
  \A r \in Runs : r > forked => proc[r] = "none" /\ noted[r] = 0 /\ r \notin tty

(* The descriptor is held while the pane is there, alive and started; a     *)
(* suspended pane counts as alive, and its status is not known.             *)
Held ==
  /\ fd <=> present /\ alive /\ ~suspended
  /\ suspended => alive
  /\ ~present => forked = 0 \/ ~fd
  /\ forked = 0 => exit = Unknown /\ ~present /\ ~suspended

(* The run whose terminal is held was neither waited for nor noted. *)
Current == fd => proc[forked] # "gone" /\ noted[forked] = 0

PInv == TypeInv /\ Untouched /\ Held /\ Current /\ OwnFate /\ Accounted

-----------------------------------------------------------------------------
\* The run whose terminal is held is the last one forked.
LEMMA HeldRun ==
  ASSUME PInv, fd
  PROVE  pid = forked /\ forked \in Runs /\ present /\ alive /\ ~suspended /\ exit = Unknown
<1>1. present /\ alive /\ ~suspended
  BY DEF PInv, Held
<1>2. exit = Unknown
  BY <1>1 DEF PInv, OwnFate
<1>3. pid = forked /\ forked \in Nat /\ forked <= MaxRuns /\ forked >= 1
  BY DEF PInv, TypeInv
<1>4. forked \in Runs
  BY <1>3, PaneAssumption DEF Runs
<1> QED BY <1>1, <1>2, <1>3, <1>4

\* There is room for the run about to be forked, and it is the newest.
LEMMA NextRun ==
  ASSUME PInv, forked < MaxRuns
  PROVE  /\ forked + 1 \in Runs /\ forked + 1 \in Nat /\ forked + 1 <= MaxRuns
         /\ forked + 1 >= 1 /\ forked + 1 > forked
         /\ \A r \in Runs : r > forked + 1 => r > forked /\ r # forked + 1
  BY PaneAssumption DEF PInv, TypeInv, Runs

\* A session starts without its pane.
LEMMA InitPInv == ASSUME Init PROVE PInv
<1>1. TypeInv
  <2>1. /\ present \in BOOLEAN /\ keeps \in BOOLEAN /\ alive \in BOOLEAN
        /\ suspended \in BOOLEAN /\ fd \in BOOLEAN /\ stray \in BOOLEAN
    BY DEF Init
  <2>2. /\ forked \in Nat /\ forked <= MaxRuns /\ exit \in Codes \cup {Unknown}
        /\ (fd => pid = forked /\ forked >= 1) /\ (~fd => pid = 0)
    BY PaneAssumption DEF Init
  <2>3. proc \in [Runs -> {"none", "running", "ending", "zombie", "gone"}]
    BY DEF Init
  <2>4. code \in [Runs -> Codes \cup {Unknown}] /\ noted \in [Runs -> Nat]
    BY DEF Init
  <2>5. tty \subseteq Runs /\ hup \subseteq Runs
    BY DEF Init
  <2> QED BY <2>1, <2>2, <2>3, <2>4, <2>5 DEF TypeInv
<1>2. Untouched /\ Held /\ Current /\ OwnFate
  BY DEF Init, Untouched, Held, Current, OwnFate, Unknown
<1>3. Accounted
  BY DEF Init, Accounted
<1> QED BY <1>1, <1>2, <1>3 DEF PInv

(***************************************************************************)
(* The kernel's own steps                                                  *)
(***************************************************************************)
\* A process ends: nothing the pane believes of it changes.
LEMMA ExitsPInv == ASSUME PInv, NEW r \in Runs, Exits(r) PROVE PInv'
<1> USE DEF Exits, kernel, pane, typing
<1>1. UNCHANGED <<present, keeps, alive, suspended, fd, pid, exit, forked, hup, stray, noted>>
  OBVIOUS
<1>2. proc[r] = "running" /\ proc' = [proc EXCEPT ![r] = "ending"] /\ tty' \subseteq tty
  OBVIOUS
<1>3. PICK c \in Codes : code' = [code EXCEPT ![r] = c]
  OBVIOUS
<1> USE DEF PInv, TypeInv
<1> HIDE DEF Exits
<1>4. TypeInv'
  BY <1>1, <1>2, <1>3
<1>5. Untouched' /\ Held'
  BY <1>1, <1>2 DEF Untouched, Held
<1>6. Current'
  BY <1>1, <1>2, HeldRun DEF Current
<1>7. OwnFate'
  <2>1. ~stray' /\ \A q \in Runs : noted'[q] <= 1 /\ (noted'[q] = 1 => q \notin tty')
    BY <1>1, <1>2 DEF OwnFate
  <2>2. exit' # Unknown => ~alive' /\ exit' = code'[forked'] /\ proc'[forked'] = "gone"
    <3> SUFFICES ASSUME exit # Unknown
                 PROVE  ~alive /\ exit = code'[forked] /\ proc'[forked] = "gone"
      BY <1>1
    <3>1. ~alive /\ exit = code[forked] /\ proc[forked] = "gone" /\ r # forked
      BY <1>2 DEF OwnFate
    <3>2. forked \in Runs
      BY PaneAssumption DEF Held, Runs
    <3> QED BY <1>2, <1>3, <3>1, <3>2
  <2> QED BY <2>1, <2>2 DEF OwnFate
<1>8. Accounted'
  BY <1>1, <1>2 DEF Accounted
<1> QED BY <1>4, <1>5, <1>6, <1>7, <1>8

\* A process that ended can be waited for: the pane has not done so yet.
LEMMA BecomesZombiePInv == ASSUME PInv, NEW r \in Runs, BecomesZombie(r) PROVE PInv'
<1>1. UNCHANGED <<present, keeps, alive, suspended, fd, pid, exit, forked, tty, code, hup, stray, noted>>
  BY DEF BecomesZombie, pane
<1>2. proc[r] = "ending" /\ proc' = [proc EXCEPT ![r] = "zombie"]
  BY DEF BecomesZombie
<1> USE DEF PInv, TypeInv
<1>3. TypeInv'
  BY <1>1, <1>2
<1>4. Untouched' /\ Held'
  BY <1>1, <1>2 DEF Untouched, Held
<1>5. Current'
  BY <1>1, <1>2, HeldRun DEF Current
<1>6. OwnFate'
  <2>1. exit # Unknown => proc'[forked] = "gone"
    <3> SUFFICES ASSUME exit # Unknown PROVE proc'[forked] = "gone"
      OBVIOUS
    <3>1. proc[forked] = "gone" /\ r # forked
      BY <1>2 DEF OwnFate
    <3>2. forked \in Runs
      BY PaneAssumption DEF Held, Runs
    <3> QED BY <1>2, <3>1, <3>2
  <2> QED BY <1>1, <2>1 DEF OwnFate
<1>7. Accounted'
  BY <1>1, <1>2 DEF Accounted
<1> QED BY <1>3, <1>4, <1>5, <1>6, <1>7

\* A terminal let go of is one fewer held.
LEMMA LetsGoPInv == ASSUME PInv, NEW r \in Runs, LetsGo(r) PROVE PInv'
<1>1. UNCHANGED <<present, keeps, alive, suspended, fd, pid, exit, forked, proc, code, hup, stray, noted>>
  BY DEF LetsGo, pane
<1>2. tty' = tty \ {r}
  BY DEF LetsGo
<1> QED
  BY <1>1, <1>2 DEF PInv, TypeInv, Untouched, Held, Current, OwnFate, Accounted

(***************************************************************************)
(* Making and starting                                                     *)
(***************************************************************************)
\* The next run is forked for a pane that has no terminal.
LEMMA ForksPInv ==
  ASSUME PInv, present, ~fd, Forks, UNCHANGED <<present, keeps, code, hup, stray, noted>>,
         alive' = TRUE, suspended' = FALSE, exit' = Unknown
  PROVE  PInv'
<1> DEFINE r == forked + 1
<1>1. /\ forked < MaxRuns /\ forked' = r /\ proc' = [proc EXCEPT ![r] = "running"]
      /\ tty' = tty \cup {r} /\ fd' = TRUE /\ pid' = r
  BY DEF Forks
<1>2. /\ r \in Runs /\ r \in Nat /\ r <= MaxRuns /\ r >= 1 /\ r > forked
      /\ \A q \in Runs : q > r => q > forked /\ q # r
  BY <1>1, NextRun
<1>3. proc[r] = "none" /\ noted[r] = 0
  BY <1>2 DEF PInv, Untouched
<1> HIDE DEF r
<1> USE DEF PInv, TypeInv
<1>4. TypeInv'
  <2>1. proc' \in [Runs -> {"none", "running", "ending", "zombie", "gone"}] /\ tty' \subseteq Runs
    BY <1>1, <1>2
  <2> QED BY <1>1, <1>2, <2>1
<1>5. Untouched'
  BY <1>1, <1>2 DEF Untouched
<1>6. Held'
  BY <1>1, <1>2 DEF Held
<1>7. Current'
  BY <1>1, <1>2, <1>3 DEF Current
<1>8. OwnFate'
  BY <1>1, <1>2, <1>3 DEF OwnFate
<1>9. Accounted'
  BY <1>1, <1>2, <1>3 DEF Accounted
<1> QED BY <1>4, <1>5, <1>6, <1>7, <1>8, <1>9

\* A fork that fails leaves a dead pane, whose status is the one it had or none.
LEMMA ForkFailsPInv ==
  ASSUME PInv, present, ~fd, ForkFails, UNCHANGED <<present, keeps, code, hup, stray, noted>>,
         alive' = FALSE, suspended' = FALSE, exit' = Unknown
  PROVE  PInv'
<1>1. UNCHANGED <<fd, pid, forked, proc, tty>>
  BY DEF ForkFails
<1> QED
  BY <1>1 DEF PInv, TypeInv, Untouched, Held, Current, OwnFate, Accounted

\* app_rerun_pane: only a pane without a terminal is started again.
LEMMA RerunPInv == ASSUME PInv, Rerun PROVE PInv'
<1>1. present /\ UNCHANGED <<present, keeps, code, hup, stray, noted>>
  BY DEF Rerun
<1>2. CASE suspended /\ Start
  <2>1. ~fd /\ exit = Unknown
    BY <1>2 DEF PInv, Held, OwnFate
  <2> QED BY <1>1, <1>2, <2>1, ForksPInv, ForkFailsPInv DEF Start
<1>3. CASE ~suspended /\ ~alive /\ Restart
  <2>1. ~fd /\ alive = FALSE /\ suspended = FALSE
    BY <1>3 DEF PInv, Held, TypeInv
  <2> QED BY <1>1, <1>3, <2>1, ForksPInv, ForkFailsPInv DEF Restart
<1> QED BY <1>2, <1>3 DEF Rerun

\* A key pressed in a suspended pane starts its only run.
LEMMA FirstKeyPInv == ASSUME PInv, FirstKey PROVE PInv'
<1>1. present /\ suspended /\ Start /\ UNCHANGED <<present, keeps, code, hup, stray, noted>>
  BY DEF FirstKey
<1>2. ~fd /\ exit = Unknown
  BY <1>1 DEF PInv, Held, OwnFate
<1> QED BY <1>1, <1>2, ForksPInv, ForkFailsPInv DEF Start

(***************************************************************************)
(* Closing                                                                 *)
(***************************************************************************)
States == {"none", "running", "ending", "zombie", "gone"}

\* No run is numbered as a process that was waited for is.
LEMMA RunPositive == \A r \in Runs : r # 0
  BY PaneAssumption DEF Runs

\* pty_close of a process that was not waited for hangs it up.
LEMMA PtyCloseOwn ==
  ASSUME NEW r \in Runs, NEW p \in [Runs -> States], PtyClose(r, p)
  PROVE  /\ fd' = FALSE /\ pid' = 0 /\ hup' = hup \cup {r}
         /\ (p[r] # "gone" /\ stray = FALSE) => stray' = FALSE
         /\ proc' \in {p, [p EXCEPT ![r] = "gone"]}
<1>1. r # 0
  BY RunPositive
<1> QED BY <1>1 DEF PtyClose

\* pty_close of one that was signals nobody.
LEMMA PtyCloseReaped ==
  ASSUME NEW p, PtyClose(ReapedPid, p)
  PROVE  fd' = FALSE /\ pid' = 0 /\ hup' = hup /\ stray' = stray /\ proc' = p
  BY DEF PtyClose, ReapedPid

\* pane_new_ex, suspended or not.
LEMMA NewPanePInv ==
  ASSUME PInv, NEW susp \in BOOLEAN, NewPane(susp)
  PROVE  PInv'
<1> DEFINE p == [proc EXCEPT ![1] = "running"]
<1>1. /\ ~present /\ forked = 0 /\ present' = TRUE /\ alive' = TRUE /\ suspended' = susp
      /\ forked' = 1 /\ tty' = {1} /\ UNCHANGED <<keeps, exit, code, noted>>
  BY DEF NewPane
<1>2. 1 \in Runs /\ (\A q \in Runs : q > 0) /\ 1 <= MaxRuns
  BY PaneAssumption DEF Runs
<1>3. /\ ~fd /\ exit = Unknown /\ stray = FALSE /\ proc \in [Runs -> States]
      /\ \A q \in Runs : proc[q] = "none" /\ noted[q] = 0
  BY <1>1, <1>2 DEF PInv, TypeInv, Untouched, Held, OwnFate, States
<1>4. p \in [Runs -> States] /\ p[1] = "running" /\ \A q \in Runs : q # 1 => p[q] = "none"
  BY <1>2, <1>3 DEF States
<1>5. CASE susp
  <2>1. PtyClose(1, p)
    BY <1>5 DEF NewPane
  <2>2. /\ fd' = FALSE /\ pid' = 0 /\ hup' = hup \cup {1} /\ stray' = FALSE
        /\ proc' \in {p, [p EXCEPT ![1] = "gone"]}
    BY <2>1, <1>2, <1>3, <1>4, PtyCloseOwn
  <2> HIDE DEF p
  <2>3. proc' \in [Runs -> States] /\ \A q \in Runs : q # 1 => proc'[q] = "none"
    BY <2>2, <1>2, <1>4 DEF States
  <2>4. TypeInv'
    BY <1>1, <1>2, <2>2, <2>3 DEF PInv, TypeInv, States
  <2>5. Untouched' /\ Held' /\ Current' /\ OwnFate'
    BY <1>1, <1>2, <1>3, <1>5, <2>2, <2>3 DEF Untouched, Held, Current, OwnFate
  <2>6. Accounted'
    BY <1>1, <1>5, <2>2, <2>3 DEF Accounted
  <2> QED BY <2>4, <2>5, <2>6 DEF PInv
<1>6. CASE ~susp
  <2>1. fd' = TRUE /\ pid' = 1 /\ hup' = hup /\ stray' = FALSE /\ proc' = p
    BY <1>3, <1>6 DEF NewPane
  <2> HIDE DEF p
  <2>2. TypeInv'
    <3>1. proc' \in [Runs -> States] /\ tty' \subseteq Runs /\ hup' \subseteq Runs
      BY <1>1, <1>2, <1>4, <2>1 DEF PInv, TypeInv
    <3>2. forked' \in Nat /\ forked' <= MaxRuns /\ (fd' => pid' = forked' /\ forked' >= 1) /\ (~fd' => pid' = 0)
      BY <1>1, <1>2, <2>1
    <3> QED BY <1>1, <2>1, <3>1, <3>2 DEF PInv, TypeInv, States
  <2>3. Untouched' /\ Held' /\ Current' /\ OwnFate'
    BY <1>1, <1>2, <1>3, <1>4, <1>6, <2>1 DEF Untouched, Held, Current, OwnFate
  <2>4. Accounted'
    BY <1>1, <1>4, <1>6, <2>1 DEF Accounted
  <2> QED BY <2>2, <2>3, <2>4 DEF PInv
<1> QED BY <1>5, <1>6

\* The end of the file: the status is taken, or the process hung up.
LEMMA PumpPInv == ASSUME PInv, Pump PROVE PInv'
<1>1. /\ present /\ fd /\ pid \notin tty
      /\ UNCHANGED <<present, keeps, suspended, forked, tty, code>>
  BY DEF Pump
<1>2. pid = forked /\ forked \in Runs /\ alive /\ ~suspended /\ exit = Unknown
  BY <1>1, HeldRun
<1>3. Died /\ noted' = [noted EXCEPT ![forked] = @ + 1] /\ alive' = FALSE
  BY <1>2 DEF Pump, Noted, Died
<1>4. proc \in [Runs -> States] /\ proc[forked] # "gone" /\ noted[forked] = 0 /\ stray = FALSE
  BY <1>1 DEF PInv, TypeInv, Current, OwnFate, States
<1>5. /\ fd' = FALSE /\ pid' = 0 /\ stray' = FALSE
      /\ proc' \in {proc, [proc EXCEPT ![forked] = "gone"]}
      /\ hup' = hup \cup {forked} \/ (hup' = hup /\ proc'[forked] = "gone")
      /\ exit' = Unknown \/ (exit' = code[forked] /\ proc'[forked] = "gone")
  <2>1. PICK known \in Waited(proc, forked) :
          IF known THEN exit' = code[forked] /\ PtyClose(ReapedPid, [proc EXCEPT ![forked] = "gone"])
          ELSE exit' = exit /\ PtyClose(forked, proc)
    BY <1>2, <1>3 DEF Died
  <2>2. CASE known
    <3>1. exit' = code[forked] /\ PtyClose(ReapedPid, [proc EXCEPT ![forked] = "gone"])
      BY <2>1, <2>2
    <3>2. /\ fd' = FALSE /\ pid' = 0 /\ hup' = hup /\ stray' = stray
          /\ proc' = [proc EXCEPT ![forked] = "gone"]
      BY <3>1, PtyCloseReaped
    <3> QED BY <1>2, <1>4, <3>1, <3>2
  <2>3. CASE ~known
    BY <2>1, <2>3, <1>2, <1>4, PtyCloseOwn
  <2> QED BY <2>2, <2>3
<1>6. /\ hup' \subseteq Runs /\ hup \subseteq hup'
      /\ proc' \in [Runs -> States]
      /\ \A q \in Runs : q # forked => proc'[q] = proc[q]
      /\ proc'[forked] = "gone" \/ forked \in hup'
  BY <1>2, <1>4, <1>5 DEF PInv, TypeInv, States
<1>7. noted' \in [Runs -> Nat] /\ noted'[forked] = 1 /\ \A q \in Runs : q # forked => noted'[q] = noted[q]
  BY <1>2, <1>3, <1>4 DEF PInv, TypeInv
<1>8. TypeInv'
  <2>1. exit' \in Codes \cup {Unknown}
    BY <1>2, <1>5 DEF PInv, TypeInv
  <2> QED BY <1>1, <1>3, <1>5, <1>6, <1>7, <2>1 DEF PInv, TypeInv, States
<1>9. Untouched' /\ Held' /\ Current'
  <2>1. forked # 0 /\ \A q \in Runs : q > forked => q # forked
    BY <1>2, PaneAssumption DEF Runs
  <2> QED BY <1>1, <1>2, <1>3, <1>5, <1>6, <1>7, <2>1 DEF PInv, Untouched, Held, Current
<1>10. OwnFate'
  BY <1>1, <1>2, <1>3, <1>5, <1>7 DEF PInv, OwnFate
<1>11. Accounted'
  BY <1>1, <1>2, <1>3, <1>5, <1>6 DEF PInv, Accounted
<1> QED BY <1>8, <1>9, <1>10, <1>11 DEF PInv

\* pane_free, of a pane with a terminal or without.
LEMMA FreedPInv == ASSUME PInv, present, Freed PROVE PInv'
<1>1. present' = FALSE /\ UNCHANGED <<keeps, alive, suspended, exit, forked, tty, code, noted>>
  BY DEF Freed
<1>2. CASE fd
  <2>1. pid = forked /\ forked \in Runs /\ exit = Unknown
    BY <1>2, HeldRun
  <2>2. proc \in [Runs -> States] /\ proc[forked] # "gone" /\ stray = FALSE
    BY <1>2 DEF PInv, TypeInv, Current, OwnFate, States
  <2>3. /\ fd' = FALSE /\ pid' = 0 /\ stray' = FALSE /\ hup' = hup \cup {forked}
        /\ proc' \in {proc, [proc EXCEPT ![forked] = "gone"]}
    BY <1>2, <2>1, <2>2, PtyCloseOwn DEF Freed
  <2>4. proc' \in [Runs -> States] /\ \A q \in Runs : q # forked => proc'[q] = proc[q]
    BY <2>1, <2>2, <2>3 DEF States
  <2>5. TypeInv'
    BY <1>1, <2>1, <2>3, <2>4 DEF PInv, TypeInv, States
  <2>6. Untouched' /\ Held' /\ Current'
    <3>1. forked # 0 /\ \A q \in Runs : q > forked => q # forked
      BY <2>1, PaneAssumption DEF Runs
    <3> QED BY <1>1, <2>3, <2>4, <3>1 DEF PInv, Untouched, Held, Current
  <2>7. OwnFate'
    BY <1>1, <2>1, <2>3 DEF PInv, OwnFate
  <2>8. Accounted'
    BY <1>1, <2>1, <2>3, <2>4 DEF PInv, Accounted
  <2> QED BY <2>5, <2>6, <2>7, <2>8 DEF PInv
<1>3. CASE ~fd
  <2>1. UNCHANGED <<fd, pid, proc, hup, stray>>
    BY <1>3 DEF Freed
  <2> QED BY <1>1, <1>3, <2>1 DEF PInv, TypeInv, Untouched, Held, Current, OwnFate, Accounted
<1> QED BY <1>2, <1>3

\* Typing leaves the pane as it is.
LEMMA TypingPInv == ASSUME PInv, Typing PROVE PInv'
  BY DEF Typing, kernel, pane, PInv, TypeInv, Untouched, Held, Current, OwnFate, Accounted

\* Nothing happens.
LEMMA StutterPInv == ASSUME PInv, UNCHANGED vars PROVE PInv'
  BY DEF vars, kernel, pane, PInv, TypeInv, Untouched, Held, Current, OwnFate, Accounted

\* The strengthening holds in every state.
THEOREM Inductive == Spec => []PInv
<1>1. Init => PInv
  BY InitPInv
<1>2. PInv /\ [Next]_vars => PInv'
  <2> SUFFICES ASSUME PInv, [Next]_vars PROVE PInv'
    OBVIOUS
  <2>1. CASE \E susp \in BOOLEAN : NewPane(susp)
    BY <2>1, NewPanePInv
  <2>2. CASE \E r \in Runs : Exits(r) \/ BecomesZombie(r) \/ LetsGo(r)
    BY <2>2, ExitsPInv, BecomesZombiePInv, LetsGoPInv
  <2>3. CASE Rerun
    BY <2>3, RerunPInv
  <2>4. CASE FirstKey
    BY <2>4, FirstKeyPInv
  <2>5. CASE Pump
    BY <2>5, PumpPInv
  <2>6. CASE Close \/ Reap
    BY <2>6, FreedPInv DEF Close, Reap
  <2>7. CASE Typing
    BY <2>7, TypingPInv
  <2>8. CASE UNCHANGED vars
    BY <2>8, StutterPInv
  <2> QED BY <2>1, <2>2, <2>3, <2>4, <2>5, <2>6, <2>7, <2>8 DEF Next
<1> QED BY <1>1, <1>2, PTL DEF Spec

(* A signal never goes to a number that may be somebody else's, and the     *)
(* status told is that of the last run (pane_died, pty_close).              *)
THEOREM FateIsOwn == Spec => []OwnFate
  BY Inductive, PTL DEF PInv

(* No process is left without its pane's terminal or a hang-up, and no dead *)
(* pane is polled (pane_died, pane_free).                                   *)
THEOREM AllAccounted == Spec => []Accounted
  BY Inductive, PTL DEF PInv

-----------------------------------------------------------------------------
(* A line is no longer than its count and what the count was misled about: *)
(* what the count may be wrong in otherwise is being too high.              *)
Counted ==
  /\ line \in Nat /\ cursor \in 0 .. line /\ line_len \in Nat /\ astray \in Nat
  /\ line <= line_len + astray
  /\ ~wrecked

\* A new run begins with an empty line.
LEMMA ForksCounted == ASSUME Counted, Forks \/ ForkFails, UNCHANGED <<line_len, wrecked>> PROVE Counted'
  BY DEF Counted, Forks, ForkFails

\* What is used of numbers below.
LEMMA ZeroRange == 0 \in 0 .. 0 /\ \A e \in Nat : 0 <= e + 0
  OBVIOUS

LEMMA Fewer ==
  \A l, m, a, e, k \in Nat :
    l <= m + a /\ m <= e + 1 /\ k >= 1 /\ k <= l => l - k <= e + a
  OBVIOUS

\* An edit that leaves no more than the count and its error leaves it counted.
LEMMA EditedCount ==
  ASSUME Counted, NEW n \in Nat, NEW c \in 0 .. n, Edited(n, c),
         line_len' \in Nat, n <= line_len' + astray, wrecked' = wrecked
  PROVE  Counted'
<1>1. line' = n /\ cursor' = c
  BY DEF Edited
<1>2. CASE n = 0
  <2>1. line' = 0 /\ cursor' = 0 /\ astray' = 0
    BY <1>1, <1>2 DEF Edited
  <2>2. ~wrecked'
    BY DEF Counted
  <2>3. line' \in Nat /\ astray' \in Nat
    BY <2>1
  <2>4. cursor' \in 0 .. line'
    BY <2>1, ZeroRange
  <2>5. line' <= line_len' + astray'
    BY <2>1, ZeroRange
  <2> QED BY <2>2, <2>3, <2>4, <2>5 DEF Counted
<1>3. CASE n # 0
  <2>1. astray' = astray
    BY <1>3 DEF Edited
  <2> QED BY <1>1, <2>1 DEF Counted
<1> QED BY <1>2, <1>3

\* Every key keeps the count at least that.
LEMMA TypingCounted == ASSUME Counted, Typing PROVE Counted'
<1>1. /\ line \in Nat /\ cursor \in 0 .. line /\ line_len \in Nat /\ astray \in Nat
      /\ line <= line_len + astray /\ ~wrecked
  BY DEF Counted
<1>2. CASE Types
  <2> DEFINE n == line + 1
             c == cursor + 1
  <2>1. Edited(n, c) /\ line_len' = line_len + 1 /\ wrecked' = wrecked
    BY <1>2 DEF Types
  <2>2. n \in Nat /\ c \in 0 .. n /\ n <= line_len' + astray /\ line_len' \in Nat
    BY <1>1, <2>1
  <2> HIDE DEF n, c
  <2> QED BY <2>1, <2>2, EditedCount
<1>3. CASE Backspaces
  <2>1. line_len' = (IF line_len > 0 THEN line_len - 1 ELSE 0) /\ wrecked' = wrecked
    BY <1>3 DEF Backspaces
  <2>2. line_len' \in Nat /\ line_len <= line_len' + 1 /\ line_len' <= line_len
    BY <1>1, <2>1
  <2>3. ASSUME NEW k \in 1 .. cursor, Edited(line - k, cursor - k) PROVE Counted'
    <3> DEFINE n == line - k
               c == cursor - k
    <3>1. k \in Nat /\ k >= 1 /\ k <= cursor /\ cursor \in Nat /\ cursor <= line
      BY <1>1
    <3>2. n \in Nat /\ c \in 0 .. n
      BY <1>1, <3>1
    <3>3. n <= line_len' + astray
      <4>1. k <= line
        BY <1>1, <3>1
      <4>2. /\ line \in Nat /\ line_len \in Nat /\ astray \in Nat /\ line_len' \in Nat
            /\ k \in Nat /\ line <= line_len + astray /\ line_len <= line_len' + 1 /\ k >= 1
        BY <1>1, <2>2, <3>1
      <4> QED BY <4>1, <4>2, Fewer, Zenon
    <3>4. Edited(n, c)
      BY <2>3
    <3> HIDE DEF n, c
    <3> QED BY <2>1, <2>2, <3>2, <3>3, <3>4, EditedCount
  <2>4. CASE /\ UNCHANGED <<line, cursor>>
             /\ IF line > 0 /\ line_len > 0
                THEN astray < MaxLine /\ astray' = astray + 1
                ELSE UNCHANGED astray
    <3>1. CASE line > 0 /\ line_len > 0
      <4>1. astray' = astray + 1
        BY <2>4, <3>1
      <4> QED BY <1>1, <2>1, <2>2, <2>4, <4>1 DEF Counted
    <3>2. CASE ~(line > 0 /\ line_len > 0)
      <4>1. astray' = astray
        BY <2>4, <3>2
      <4>2. line <= line_len' + astray
        BY <1>1, <2>1, <2>2, <3>2
      <4> QED BY <1>1, <2>1, <2>2, <2>4, <4>1, <4>2 DEF Counted
    <3> QED BY <3>1, <3>2
  <2> QED BY <1>3, <2>3, <2>4 DEF Backspaces
<1>4. CASE Enters
  BY <1>1, <1>4, EditedCount DEF Enters
<1>5. CASE Cuts
  <2>1. PICK before \in 0 .. cursor, behind \in 0 .. (line - cursor) :
          Edited(line - before - behind, cursor - before)
    BY <1>5 DEF Cuts
  <2> DEFINE n == line - before - behind
             c == cursor - before
  <2>2. n \in Nat /\ c \in 0 .. n /\ n <= line
    BY <1>1
  <2>3. line_len' = line_len /\ wrecked' = wrecked /\ Edited(n, c)
    BY <1>5, <2>1 DEF Cuts
  <2> HIDE DEF n, c
  <2>4. n <= line_len' + astray
    BY <1>1, <2>2, <2>3
  <2> QED BY <1>1, <2>2, <2>3, <2>4, EditedCount
<1>6. CASE Moves
  BY <1>1, <1>6 DEF Moves, Counted
<1>7. CASE Recalls
  BY <1>1, <1>7 DEF Recalls, Counted
<1>8. CASE CtrlD
  <2>1. line_len = 0 /\ line' = 0 /\ cursor' = 0 /\ astray' = 0 /\ line_len' = line_len
    BY <1>8 DEF CtrlD, Edited, LooksEmpty
  <2>2. ~(line > astray)
    BY <1>1, <2>1
  <2>3. ~wrecked'
    BY <1>1, <1>8, <2>2, Zenon DEF CtrlD
  <2> QED BY <1>1, <2>1, <2>3 DEF Counted
<1> QED BY <1>2, <1>3, <1>4, <1>5, <1>6, <1>7, <1>8 DEF Typing

(* Ctrl-D's word throws away at most as many characters as the count was    *)
(* misled about, by text that no key press made or by Backspaces with       *)
(* nothing to take, and none of a line neither happened to, wherever the    *)
(* keys had moved the cursor (pane_line_empty, pane_send_key).              *)
THEOREM ExitOnlyOnEmpty == Spec => []ExitOnEmptyLine
<1>1. Init => Counted
  BY DEF Init, Counted
<1>2. Counted /\ [Next]_vars => Counted'
  <2> SUFFICES ASSUME Counted, [Next]_vars PROVE Counted'
    OBVIOUS
  <2>1. CASE Typing
    BY <2>1, TypingCounted
  <2>2. CASE Rerun \/ FirstKey
    BY <2>2, ForksCounted DEF Rerun, FirstKey, Start, Restart
  <2>3. CASE UNCHANGED typing
    BY <2>3 DEF typing, Counted
  <2>4. Next /\ ~Typing /\ ~Rerun /\ ~FirstKey => UNCHANGED typing
    BY DEF Next, NewPane, Exits, BecomesZombie, LetsGo, Pump, Close, Reap, Freed, typing
  <2> QED BY <2>1, <2>2, <2>3, <2>4 DEF vars
<1>3. Counted => ExitOnEmptyLine
  BY DEF Counted, ExitOnEmptyLine
<1> QED BY <1>1, <1>2, <1>3, PTL DEF Spec

-----------------------------------------------------------------------------
(* The input decoder *)

\* What holds of the first number, and of the next if of the one before, holds
\* of every one.
LEMMA Onwards ==
  ASSUME NEW S \in SUBSET Nat, 0 \in S, \A n \in Nat : n \in S => n + 1 \in S
  PROVE  S = Nat
<1> SUFFICES ASSUME Nat \ S # {} PROVE FALSE
  OBVIOUS
<1>1. PICK n \in Nat \ S : \A m \in Nat \ S : ~(<<m, n>> \in OpToRel(<, Nat))
  BY WFMin, NatLessThanWellFounded
<1>2. n # 0 /\ n - 1 \in Nat
  OBVIOUS
<1>3. n - 1 \in S
  <2>1. n - 1 < n
    BY <1>2
  <2>2. <<n - 1, n>> \in OpToRel(<, Nat)
    BY <1>2, <2>1 DEF OpToRel
  <2> QED BY <1>1, <1>2, <2>2
<1> QED BY <1>2, <1>3

-----------------------------------------------------------------------------
(* The parser, as the equation it satisfies. *)

ParseBody(b, f, i) ==
  CASE i > Len(b)                        -> Incomplete
    [] i <= Len(b) /\ b[i] # "esc"       -> Plain(b, i)
    [] i = Len(b) /\ b[i] = "esc"        -> Incomplete
    [] i < Len(b) /\ b[i] = "esc" /\ b[i + 1] = "["  -> Csi(b, i)
    [] i < Len(b) /\ b[i] = "esc" /\ b[i + 1] = "O"  -> Ss3(b, i)
    [] OTHER                             -> AltOutcome(f[i + 1])

\* What is parsed at a place depends on the next place at most.
LEMMA ParseLocal ==
  ASSUME NEW b \in Seq(Bytes), NEW i \in 1..Len(b) + 1, NEW f, NEW g,
         i <= Len(b) => f[i + 1] = g[i + 1]
  PROVE  ParseBody(b, f, i) = ParseBody(b, g, i)
<1>1. CASE i > Len(b)
  BY <1>1 DEF ParseBody
<1>2. CASE i <= Len(b)
  BY <1>2 DEF ParseBody
<1> QED BY <1>1, <1>2

\* The parser is a function of the place.
LEMMA ParseOK ==
  ASSUME NEW b \in Seq(Bytes)
  PROVE  \A i \in 1..Len(b) + 1 : ParseOne(b)[i] = ParseBody(b, ParseOne(b), i)
<1> DEFINE N == Len(b) + 1
           Is(f, n) == f = [i \in N - n..N |-> ParseBody(b, f, i)]
           Some(n) == \E f : Is(f, n)
           All == {n \in Nat : n <= Len(b) => Some(n)}
<1>0. Len(b) \in Nat
  OBVIOUS
<1>1. 0 \in All
  <2> DEFINE e == ParseBody(b, <<>>, N)
             f == [i \in N..N |-> e]
  <2>1. ASSUME NEW i \in N..N PROVE ParseBody(b, f, i) = e
    <3>1. i = N /\ i \in 1..Len(b) + 1 /\ ~(i <= Len(b))
      BY <1>0
    <3> HIDE DEF f
    <3> QED BY <3>1, ParseLocal
  <2> HIDE DEF e
  <2>2. f = [i \in N..N |-> ParseBody(b, f, i)]
    BY <2>1
  <2>3. N - 0 = N
    BY <1>0
  <2> HIDE DEF f
  <2> QED BY <2>2, <2>3
<1>2. ASSUME NEW n \in Nat, n \in All PROVE n + 1 \in All
  <2> SUFFICES ASSUME n + 1 <= Len(b) PROVE Some(n + 1)
    OBVIOUS
  <2>1. PICK f : Is(f, n)
    BY <1>0, <1>2
  <2> DEFINE k == N - (n + 1)
             e == ParseBody(b, f, k)
             g == [i \in k..N |-> IF i = k THEN e ELSE f[i]]
  <2>2. k \in 1..Len(b) /\ N - n = k + 1 /\ k + 1 <= N
    BY <1>0
  <2>3. \A i \in k + 1..N : f[i] = ParseBody(b, f, i)
    BY <2>1, <2>2
  <2> HIDE DEF Is, Some, All, k
  <2>4. g[k] = e /\ \A i \in k + 1..N : g[i] = f[i]
    <3> HIDE DEF e
    <3> QED BY <1>0, <2>2
  <2>5. ASSUME NEW i \in k..N PROVE g[i] = ParseBody(b, g, i)
    <3>1. i \in 1..Len(b) + 1 /\ (i <= Len(b) => i + 1 \in k + 1..N)
      BY <1>0, <2>2
    <3>2. i <= Len(b) => f[i + 1] = g[i + 1]
      BY <2>4, <3>1
    <3> HIDE DEF g
    <3>3. ParseBody(b, f, i) = ParseBody(b, g, i)
      BY <3>1, <3>2, ParseLocal
    <3>4. CASE i = k
      BY <2>4, <3>3, <3>4
    <3>5. CASE i \in k + 1..N
      BY <2>3, <2>4, <3>3, <3>5
    <3> QED BY <1>0, <2>2, <3>4, <3>5
  <2>6. g = [i \in k..N |-> ParseBody(b, g, i)]
    BY <2>5
  <2> HIDE DEF g
  <2> QED BY <2>6 DEF Some, Is, k
<1>3. All = Nat
  <2>1. All \in SUBSET Nat
    OBVIOUS
  <2> HIDE DEF All
  <2> QED BY <1>1, <1>2, <2>1, Onwards
<1>4. Some(Len(b)) /\ N - Len(b) = 1
  BY <1>0, <1>3
<1> DEFINE whole == CHOOSE f : f = [i \in 1..N |-> ParseBody(b, f, i)]
<1>5. whole = [i \in 1..N |-> ParseBody(b, whole, i)]
  BY <1>4
<1>6. ParseOne(b) = whole
  BY DEF ParseOne, ParseBody
<1> HIDE DEF whole
<1> QED BY <1>5, <1>6

\* A byte that begins nothing longer.
LEMMA PlainAt ==
  ASSUME NEW b \in Seq(Bytes), NEW i \in 1..Len(b), b[i] # "esc"
  PROVE  ParseOne(b)[i] = Plain(b, i)
<1>1. ParseOne(b)[i] = ParseBody(b, ParseOne(b), i) /\ i <= Len(b)
  BY ParseOK
<1> QED BY <1>1 DEF ParseBody

\* An escape with nothing behind it yet.
LEMMA EscAt ==
  ASSUME NEW b \in Seq(Bytes), Len(b) >= 1, b[Len(b)] = "esc"
  PROVE  ParseOne(b)[Len(b)] = Incomplete
<1>1. ParseOne(b)[Len(b)] = ParseBody(b, ParseOne(b), Len(b))
  BY ParseOK
<1> QED BY <1>1 DEF ParseBody

\* An escape with something behind it.
LEMMA EscapedAt ==
  ASSUME NEW b \in Seq(Bytes), NEW i \in 1..Len(b) - 1, b[i] = "esc"
  PROVE  ParseOne(b)[i] = IF b[i + 1] = "[" THEN Csi(b, i)
                          ELSE IF b[i + 1] = "O" THEN Ss3(b, i)
                          ELSE AltOutcome(ParseOne(b)[i + 1])
<1>1. ParseOne(b)[i] = ParseBody(b, ParseOne(b), i) /\ i < Len(b)
  BY ParseOK
<1> QED BY <1>1 DEF ParseBody

\* A sequence that has not come to its end.
LEMMA CsiWaits ==
  ASSUME NEW b \in Seq(Bytes), NEW i \in 1..Len(b), \A k \in i + 2..Len(b) : b[k] \notin Finals
  PROVE  Csi(b, i) = Incomplete
BY DEF Csi

\* A sequence that has.
LEMMA CsiEnds ==
  ASSUME NEW b \in Seq(Bytes), NEW i \in 1..Len(b), NEW m \in i + 2..Len(b), b[m] \in Finals,
         \A k \in i + 2..m - 1 : b[k] \notin Finals
  PROVE  Csi(b, i) = IF b[m] = "~" /\ SubSeq(b, i + 2, m - 1) = <<"200">>
                     THEN Outcome(m - i + 1, <<>>, TRUE)
                     ELSE Outcome(m - i + 1, CsiEvents(b[m], SubSeq(b, i + 2, m - 1)), FALSE)
<1> DEFINE ends == {k \in i + 2 .. Len(b) : b[k] \in Finals}
<1>1. m \in ends /\ \A k \in ends : m <= k
  OBVIOUS
<1>2. Min(ends) = m
  <2> HIDE DEF ends
  <2>1. \A k \in ends : k \in Int
    BY DEF ends
  <2>2. Min(ends) \in ends /\ \A k \in ends : Min(ends) =< k
    BY <1>1 DEF Min
  <2>3. \A x, y \in Int : x <= y /\ y =< x => x = y
    OBVIOUS
  <2>4. Min(ends) \in Int /\ m \in Int /\ m <= Min(ends) /\ Min(ends) =< m
    BY <1>1, <2>1, <2>2
  <2> QED BY <2>3, <2>4
<1> QED BY <1>1, <1>2 DEF Csi

(***************************************************************************)
(* What the bytes of each gesture are taken for.                           *)
(***************************************************************************)
\* From index i on, b is the beginning of a gesture's bytes, or has them all.
Spells(b, i, w) == \A q \in 1..Len(w) : i + q - 1 <= Len(b) => b[i + q - 1] = w[q]

\* The first of what b spells at i is an event and all of it, or not there yet.
Taken(b, i, w, evs) ==
  IF i + Len(w) - 1 <= Len(b) THEN ParseOne(b)[i] = Outcome(Len(w), evs, FALSE)
                              ELSE ParseOne(b)[i] = Incomplete

\* Spelling, place by place.
LEMMA Letters ==
  ASSUME NEW b \in Seq(Bytes), NEW i \in 1..Len(b)
  PROVE  /\ \A x : Spells(b, i, <<x>>) => b[i] = x
         /\ \A x, y : Spells(b, i, <<x, y>>) => b[i] = x /\ (i + 1 <= Len(b) => b[i + 1] = y)
         /\ \A x, y, z : Spells(b, i, <<x, y, z>>) =>
              b[i] = x /\ (i + 1 <= Len(b) => b[i + 1] = y) /\ (i + 2 <= Len(b) => b[i + 2] = z)
         /\ \A x, y, z, u : Spells(b, i, <<x, y, z, u>>) =>
              /\ b[i] = x /\ (i + 1 <= Len(b) => b[i + 1] = y) /\ (i + 2 <= Len(b) => b[i + 2] = z)
              /\ (i + 3 <= Len(b) => b[i + 3] = u)
         /\ \A x, y, z, u, v : Spells(b, i, <<x, y, z, u, v>>) =>
              /\ b[i] = x /\ (i + 1 <= Len(b) => b[i + 1] = y) /\ (i + 2 <= Len(b) => b[i + 2] = z)
              /\ (i + 3 <= Len(b) => b[i + 3] = u) /\ (i + 4 <= Len(b) => b[i + 4] = v)
<1>1. \A n \in Nat : i + (n + 1) - 1 = i + n
  OBVIOUS
<1>2. ASSUME NEW x, Spells(b, i, <<x>>) PROVE b[i] = x
  BY <1>2 DEF Spells
<1>3. ASSUME NEW x, NEW y, Spells(b, i, <<x, y>>) PROVE b[i] = x /\ (i + 1 <= Len(b) => b[i + 1] = y)
  BY <1>3 DEF Spells
<1>4. ASSUME NEW x, NEW y, NEW z, Spells(b, i, <<x, y, z>>)
      PROVE  b[i] = x /\ (i + 1 <= Len(b) => b[i + 1] = y) /\ (i + 2 <= Len(b) => b[i + 2] = z)
  BY <1>4 DEF Spells
<1>5. ASSUME NEW x, NEW y, NEW z, NEW u, Spells(b, i, <<x, y, z, u>>)
      PROVE  /\ b[i] = x /\ (i + 1 <= Len(b) => b[i + 1] = y) /\ (i + 2 <= Len(b) => b[i + 2] = z)
             /\ (i + 3 <= Len(b) => b[i + 3] = u)
  BY <1>5 DEF Spells
<1>6. ASSUME NEW x, NEW y, NEW z, NEW u, NEW v, Spells(b, i, <<x, y, z, u, v>>)
      PROVE  /\ b[i] = x /\ (i + 1 <= Len(b) => b[i + 1] = y) /\ (i + 2 <= Len(b) => b[i + 2] = z)
             /\ (i + 3 <= Len(b) => b[i + 3] = u) /\ (i + 4 <= Len(b) => b[i + 4] = v)
  BY <1>6 DEF Spells
<1> QED BY <1>2, <1>3, <1>4, <1>5, <1>6

\* A printable character, a control character, and a character of two bytes.
LEMMA PlainTaken ==
  ASSUME NEW b \in Seq(Bytes), NEW i \in 1..Len(b)
  PROVE  /\ Spells(b, i, <<"a">>) => Taken(b, i, <<"a">>, <<Key("a", {})>>)
         /\ Spells(b, i, <<"[">>) => Taken(b, i, <<"[">>, <<Key("[", {})>>)
         /\ Spells(b, i, <<"c0">>) => Taken(b, i, <<"c0">>, <<Key("c0", {"ctrl"})>>)
         /\ Spells(b, i, <<"u1", "u2">>) => Taken(b, i, <<"u1", "u2">>, <<Key("u1", {})>>)
<1>1. \A x, y : Len(<<x>>) = 1 /\ Len(<<x, y>>) = 2
  OBVIOUS
<1>2. i <= Len(b) /\ i \in Nat /\ Len(b) \in Nat
  OBVIOUS
<1>3. ASSUME Spells(b, i, <<"a">>) PROVE Taken(b, i, <<"a">>, <<Key("a", {})>>)
  <2>1. b[i] = "a"
    BY <1>3, Letters
  <2>2. ParseOne(b)[i] = Outcome(1, <<Key("a", {})>>, FALSE)
    BY <2>1, PlainAt DEF Plain
  <2> QED BY <1>1, <1>2, <2>2 DEF Taken
<1>4. ASSUME Spells(b, i, <<"[">>) PROVE Taken(b, i, <<"[">>, <<Key("[", {})>>)
  <2>1. b[i] = "["
    BY <1>4, Letters
  <2>2. ParseOne(b)[i] = Outcome(1, <<Key("[", {})>>, FALSE)
    BY <2>1, PlainAt DEF Plain
  <2> QED BY <1>1, <1>2, <2>2 DEF Taken
<1>5. ASSUME Spells(b, i, <<"c0">>) PROVE Taken(b, i, <<"c0">>, <<Key("c0", {"ctrl"})>>)
  <2>1. b[i] = "c0"
    BY <1>5, Letters
  <2>2. ParseOne(b)[i] = Outcome(1, <<Key("c0", {"ctrl"})>>, FALSE)
    BY <2>1, PlainAt DEF Plain
  <2> QED BY <1>1, <1>2, <2>2 DEF Taken
<1>6. ASSUME Spells(b, i, <<"u1", "u2">>) PROVE Taken(b, i, <<"u1", "u2">>, <<Key("u1", {})>>)
  <2>1. b[i] = "u1"
    BY <1>6, Letters
  <2>2. ParseOne(b)[i] = Plain(b, i) /\ Len(<<"u1", "u2">>) = 2
    BY <2>1, PlainAt
  <2>3. CASE i = Len(b)
    <3>1. ~(i + 2 - 1 <= Len(b)) /\ ~(i < Len(b))
      BY <1>2, <2>3
    <3>2. Plain(b, i) = Incomplete
      BY <2>1, <2>3, <3>1 DEF Plain
    <3> QED BY <2>2, <3>1, <3>2 DEF Taken
  <2>4. CASE i < Len(b)
    <3>1. Plain(b, i) = Outcome(2, <<Key("u1", {})>>, FALSE) /\ i + 2 - 1 <= Len(b)
      BY <1>2, <2>1, <2>4 DEF Plain
    <3> QED BY <2>2, <3>1 DEF Taken
  <2> QED BY <1>2, <2>3, <2>4
<1> QED BY <1>3, <1>4, <1>5, <1>6

\* The same behind an escape.
LEMMA AltTaken ==
  ASSUME NEW b \in Seq(Bytes), NEW i \in 1..Len(b), b[i] = "esc",
         NEW w, NEW ev, Len(w) \in Nat \ {0}, i + 1 <= Len(b) => b[i + 1] \notin {"[", "O"},
         i + 1 <= Len(b) => Taken(b, i + 1, w, <<ev>>)
  PROVE  IF i + Len(w) <= Len(b) THEN ParseOne(b)[i] = Outcome(Len(w) + 1, <<Alt(ev)>>, FALSE)
                                 ELSE ParseOne(b)[i] = Incomplete
<1>0. i = Len(b) \/ i < Len(b)
  OBVIOUS
<1>1. CASE i = Len(b)
  <2>1. ~(i + Len(w) <= Len(b)) /\ Len(b) >= 1 /\ b[Len(b)] = "esc"
    BY <1>1
  <2> QED BY <1>1, <2>1, EscAt
<1>2. CASE i < Len(b)
  <2>1. ParseOne(b)[i] = AltOutcome(ParseOne(b)[i + 1]) /\ Taken(b, i + 1, w, <<ev>>)
    BY <1>2, EscapedAt
  <2>2. (i + 1) + Len(w) - 1 = i + Len(w)
    OBVIOUS
  <2>3. AltOutcome(Incomplete) = Incomplete
    BY DEF AltOutcome, Incomplete, Outcome
  <2>4. AltOutcome(Outcome(Len(w), <<ev>>, FALSE)) = Outcome(Len(w) + 1, <<Alt(ev)>>, FALSE)
    <3>1. [k \in DOMAIN <<ev>> |-> Alt(<<ev>>[k])] = <<Alt(ev)>>
      OBVIOUS
    <3> QED BY <3>1 DEF AltOutcome, Outcome
  <2> QED BY <2>1, <2>2, <2>3, <2>4 DEF Taken
<1> QED BY <1>0, <1>1, <1>2

\* Parts of one and of two.
LEMMA ShortParts ==
  ASSUME NEW S, NEW s \in Seq(S), NEW k \in 1..Len(s)
  PROVE  /\ SubSeq(s, k, k) = <<s[k]>>
         /\ k + 1 <= Len(s) => SubSeq(s, k, k + 1) = <<s[k], s[k + 1]>>
<1>1. SubSeq(s, k, k) = <<s[k]>>
  <2> DEFINE u == SubSeq(s, k, k)
             v == <<s[k]>>
  <2>1. u \in Seq(S) /\ Len(u) = 1 /\ u[1] = s[k]
    OBVIOUS
  <2>2. v \in Seq(S) /\ Len(v) = 1 /\ v[1] = s[k]
    OBVIOUS
  <2> HIDE DEF u, v
  <2>3. \A j \in 1..Len(u) : u[j] = v[j]
    BY <2>1, <2>2
  <2>4. u = v
    BY <2>1, <2>2, <2>3, SeqEqual
  <2> QED BY <2>4 DEF u, v
<1>2. ASSUME k + 1 <= Len(s) PROVE SubSeq(s, k, k + 1) = <<s[k], s[k + 1]>>
  <2> DEFINE u == SubSeq(s, k, k + 1)
             v == <<s[k], s[k + 1]>>
  <2>1. u \in Seq(S) /\ Len(u) = 2 /\ u[1] = s[k] /\ u[2] = s[k + 1]
    BY <1>2
  <2>2. s[k] \in S /\ s[k + 1] \in S
    BY <1>2
  <2>3. v \in Seq(S) /\ Len(v) = 2 /\ v[1] = s[k] /\ v[2] = s[k + 1]
    BY <2>2
  <2> HIDE DEF u, v
  <2>4. \A j \in 1..Len(u) : u[j] = v[j]
    BY <2>1, <2>3
  <2>5. u = v
    BY <2>1, <2>3, <2>4, SeqEqual
  <2> QED BY <2>5 DEF u, v
<1> QED BY <1>1, <1>2

\* A sequence with no parameters, with one, and a report of the mouse.
LEMMA CsiTaken ==
  ASSUME NEW b \in Seq(Bytes), NEW i \in 1..Len(b), b[i] = "esc", i + 1 <= Len(b) => b[i + 1] = "["
  PROVE  /\ \A x \in Finals \ {"~"} :
              (i + 2 <= Len(b) => b[i + 2] = x)
                => IF i + 2 <= Len(b) THEN ParseOne(b)[i] = Outcome(3, CsiEvents(x, <<>>), FALSE)
                                      ELSE ParseOne(b)[i] = Incomplete
         /\ \A p : \A x \in Finals :
              /\ i + 2 <= Len(b) => b[i + 2] = p
              /\ i + 3 <= Len(b) => b[i + 3] = x
              /\ p \notin Finals
              => IF i + 3 <= Len(b)
                 THEN ParseOne(b)[i] = IF x = "~" /\ p = "200" THEN Outcome(4, <<>>, TRUE)
                                       ELSE Outcome(4, CsiEvents(x, <<p>>), FALSE)
                 ELSE ParseOne(b)[i] = Incomplete
         /\ \A p, r : \A x \in Finals \ {"~"} :
              /\ i + 2 <= Len(b) => b[i + 2] = p
              /\ i + 3 <= Len(b) => b[i + 3] = r
              /\ i + 4 <= Len(b) => b[i + 4] = x
              /\ p \notin Finals /\ r \notin Finals
              => IF i + 4 <= Len(b) THEN ParseOne(b)[i] = Outcome(5, CsiEvents(x, <<p, r>>), FALSE)
                                    ELSE ParseOne(b)[i] = Incomplete
<1>1. CASE i = Len(b)
  <2>1. ParseOne(b)[i] = Incomplete /\ ~(i + 2 <= Len(b)) /\ ~(i + 3 <= Len(b)) /\ ~(i + 4 <= Len(b))
    BY <1>1, EscAt
  <2> QED BY <2>1
<1>2. CASE i < Len(b)
  <2>1. ParseOne(b)[i] = Csi(b, i)
    BY <1>2, EscapedAt
  <2>2. ASSUME NEW x \in Finals \ {"~"}, i + 2 <= Len(b) => b[i + 2] = x
        PROVE  IF i + 2 <= Len(b) THEN ParseOne(b)[i] = Outcome(3, CsiEvents(x, <<>>), FALSE)
                                  ELSE ParseOne(b)[i] = Incomplete
    <3>1. CASE i + 2 <= Len(b)
      <4>1. SubSeq(b, i + 2, (i + 2) - 1) = <<>> /\ (i + 2) - i + 1 = 3
        OBVIOUS
      <4>2. i + 2 \in i + 2..Len(b) /\ \A k \in i + 2..(i + 2) - 1 : b[k] \notin Finals
        BY <3>1
      <4> QED BY <2>1, <2>2, <3>1, <4>1, <4>2, CsiEnds
    <3>2. CASE ~(i + 2 <= Len(b))
      <4>1. \A k \in i + 2..Len(b) : b[k] \notin Finals
        BY <3>2
      <4> QED BY <2>1, <3>2, <4>1, CsiWaits
    <3> QED BY <3>1, <3>2
  <2>3. ASSUME NEW x \in Finals, NEW p, p \notin Finals,
               i + 2 <= Len(b) => b[i + 2] = p, i + 3 <= Len(b) => b[i + 3] = x
        PROVE  IF i + 3 <= Len(b)
               THEN ParseOne(b)[i] = IF x = "~" /\ p = "200" THEN Outcome(4, <<>>, TRUE)
                                     ELSE Outcome(4, CsiEvents(x, <<p>>), FALSE)
               ELSE ParseOne(b)[i] = Incomplete
    <3>1. CASE i + 3 <= Len(b)
      <4>0. b[i + 2] = p /\ b[i + 3] = x
        BY <2>3, <3>1
      <4>1. SubSeq(b, i + 2, (i + 3) - 1) = <<p>> /\ (i + 3) - i + 1 = 4
        <5>1. i + 2 \in 1..Len(b) /\ (i + 3) - 1 = i + 2
          BY <3>1
        <5> QED BY <4>0, <5>1, ShortParts
      <4>2. i + 3 \in i + 2..Len(b) /\ \A k \in i + 2..(i + 3) - 1 : b[k] \notin Finals
        BY <2>3, <3>1, <4>0
      <4>3. Csi(b, i) = IF b[i + 3] = "~" /\ SubSeq(b, i + 2, (i + 3) - 1) = <<"200">>
                     THEN Outcome((i + 3) - i + 1, <<>>, TRUE)
                     ELSE Outcome((i + 3) - i + 1, CsiEvents(b[i + 3], SubSeq(b, i + 2, (i + 3) - 1)), FALSE)
        BY <4>0, <4>2, CsiEnds
      <4>4. <<p>> = <<"200">> <=> p = "200"
        OBVIOUS
      <4> QED BY <2>1, <3>1, <4>0, <4>1, <4>3, <4>4
    <3>2. CASE ~(i + 3 <= Len(b))
      <4>1. \A k \in i + 2..Len(b) : b[k] \notin Finals
        BY <2>3, <3>2
      <4> QED BY <2>1, <3>2, <4>1, CsiWaits
    <3> QED BY <3>1, <3>2
  <2>4. ASSUME NEW x \in Finals \ {"~"}, NEW p, NEW r, p \notin Finals, r \notin Finals,
               i + 2 <= Len(b) => b[i + 2] = p, i + 3 <= Len(b) => b[i + 3] = r,
               i + 4 <= Len(b) => b[i + 4] = x
        PROVE  IF i + 4 <= Len(b) THEN ParseOne(b)[i] = Outcome(5, CsiEvents(x, <<p, r>>), FALSE)
                                  ELSE ParseOne(b)[i] = Incomplete
    <3>1. CASE i + 4 <= Len(b)
      <4>0. b[i + 2] = p /\ b[i + 3] = r /\ b[i + 4] = x
        BY <2>4, <3>1
      <4>1. SubSeq(b, i + 2, (i + 4) - 1) = <<p, r>> /\ (i + 4) - i + 1 = 5
        <5>1. i + 2 \in 1..Len(b) /\ (i + 2) + 1 <= Len(b) /\ (i + 4) - 1 = (i + 2) + 1 /\ (i + 2) + 1 = i + 3
          BY <3>1
        <5> QED BY <4>0, <5>1, ShortParts
      <4>2. i + 4 \in i + 2..Len(b) /\ \A k \in i + 2..(i + 4) - 1 : b[k] \notin Finals
        BY <2>4, <3>1, <4>0
      <4> QED BY <2>1, <2>4, <3>1, <4>0, <4>1, <4>2, CsiEnds
    <3>2. CASE ~(i + 4 <= Len(b))
      <4>1. \A k \in i + 2..Len(b) : b[k] \notin Finals
        BY <2>4, <3>2
      <4> QED BY <2>1, <3>2, <4>1, CsiWaits
    <3> QED BY <3>1, <3>2
  <2> QED BY <2>2, <2>3, <2>4
<1>3. i = Len(b) \/ i < Len(b)
  OBVIOUS
<1> QED BY <1>1, <1>2, <1>3

\* An SS3 sequence.
LEMMA Ss3Taken ==
  ASSUME NEW b \in Seq(Bytes), NEW i \in 1..Len(b), Spells(b, i, <<"esc", "O", "A">>)
  PROVE  Taken(b, i, <<"esc", "O", "A">>, <<Key("A", {})>>)
<1>1. Len(<<"esc", "O", "A">>) = 3 /\ (i = Len(b) \/ i < Len(b))
  OBVIOUS
<1>2. b[i] = "esc" /\ (i + 1 <= Len(b) => b[i + 1] = "O") /\ (i + 2 <= Len(b) => b[i + 2] = "A")
  BY Letters
<1>3. CASE i = Len(b)
  <2>1. ParseOne(b)[i] = Incomplete /\ ~(i + 3 - 1 <= Len(b))
    BY <1>2, <1>3, EscAt
  <2> QED BY <1>1, <2>1 DEF Taken
<1>4. CASE i < Len(b)
  <2>1. b[i + 1] = "O"
    BY <1>2, <1>4
  <2>2. ParseOne(b)[i] = Ss3(b, i)
    BY <1>2, <1>4, <2>1, EscapedAt
  <2>3. i + 2 <= Len(b) <=> i + 3 - 1 <= Len(b)
    OBVIOUS
  <2>4. ~(i + 2 > Len(b)) <=> i + 2 <= Len(b)
    OBVIOUS
  <2>5. i + 2 <= Len(b) => FinalKey(b[i + 2]) = <<Key("A", {})>>
    BY <1>2 DEF FinalKey
  <2> QED BY <1>1, <2>2, <2>3, <2>4, <2>5 DEF Taken, Ss3
<1> QED BY <1>1, <1>3, <1>4

\* The gestures, what each is written as and what it means.
LEMMA Table ==
  /\ AllGestures = {"letter", "accent", "ctrl", "altkey", "altacc", "escape", "altbrk", "arrow", "ss3",
                    "altarr", "kitty", "backtab", "delete", "mouse", "focus", "report", "paste"}
  /\ Writes["letter"] = <<"a">>                       /\ Means["letter"] = <<Key("a", {})>>
  /\ Writes["accent"] = <<"u1", "u2">>                /\ Means["accent"] = <<Key("u1", {})>>
  /\ Writes["ctrl"] = <<"c0">>                        /\ Means["ctrl"] = <<Key("c0", {"ctrl"})>>
  /\ Writes["altkey"] = <<"esc", "a">>                /\ Means["altkey"] = <<Key("a", {"alt"})>>
  /\ Writes["altacc"] = <<"esc", "u1", "u2">>         /\ Means["altacc"] = <<Key("u1", {"alt"})>>
  /\ Writes["escape"] = <<"esc">>                     /\ Means["escape"] = <<Key("esc", {})>>
  /\ Writes["altbrk"] = <<"esc", "[">>                /\ Means["altbrk"] = <<Key("esc", {}), Key("[", {})>>
  /\ Writes["arrow"] = <<"esc", "[", "A">>            /\ Means["arrow"] = <<Key("A", {})>>
  /\ Writes["ss3"] = <<"esc", "O", "A">>              /\ Means["ss3"] = <<Key("A", {})>>
  /\ Writes["altarr"] = <<"esc", "esc", "[", "A">>    /\ Means["altarr"] = <<Key("A", {"alt"})>>
  /\ Writes["kitty"] = <<"esc", "[", "n", "u">>       /\ Means["kitty"] = <<Key("n", {})>>
  /\ Writes["backtab"] = <<"esc", "[", "Z">>          /\ Means["backtab"] = <<Key("tab", {"shift"})>>
  /\ Writes["delete"] = <<"esc", "[", "n", "~">>      /\ Means["delete"] = <<Key("~", {})>>
  /\ Writes["mouse"] = <<"esc", "[", "<", "n", "M">>  /\ Means["mouse"] = <<Mouse>>
  /\ Writes["focus"] = <<"esc", "[", "I">>            /\ Means["focus"] = <<Focus>>
  /\ Writes["report"] = <<"esc", "[", "n", "X">>      /\ Means["report"] = <<>>
  /\ Writes["paste"] = <<"esc", "[", "200", "~", "p", "p", "esc", "[", "201", "~">>
  /\ Means["paste"] = <<Paste(<<"p", "p">>)>>
BY DEF AllGestures, Writes, Means

\* What the sequences of the gestures stand for.
LEMMA Events ==
  /\ CsiEvents("A", <<>>) = <<Key("A", {})>>
  /\ CsiEvents("u", <<"n">>) = <<Key("n", {})>>
  /\ CsiEvents("Z", <<>>) = <<Key("tab", {"shift"})>>
  /\ CsiEvents("~", <<"n">>) = <<Key("~", {})>>
  /\ CsiEvents("M", <<"<", "n">>) = <<Mouse>>
  /\ CsiEvents("I", <<>>) = <<Focus>>
  /\ CsiEvents("X", <<"n">>) = <<>>
<1>1. "<" \in Range(<<"<", "n">>)
  <2>1. 1 \in DOMAIN <<"<", "n">> /\ <<"<", "n">>[1] = "<"
    OBVIOUS
  <2> QED BY <2>1 DEF Range
<1> QED BY <1>1 DEF CsiEvents, FinalKey

\* The gestures whose bytes say what they are: Escape and alt+[ begin other
\* sequences, and a paste is more than one event.
Simple == AllGestures \ {"escape", "altbrk", "paste"}

\* The arithmetic of one sequence.
LEMMA Reach ==
  ASSUME NEW i \in Nat
  PROVE  /\ i + 1 - 1 = i /\ i + 2 - 1 = i + 1 /\ i + 3 - 1 = i + 2 /\ i + 4 - 1 = i + 3 /\ i + 5 - 1 = i + 4
         /\ (i + 1) + 1 = i + 2 /\ (i + 1) + 2 = i + 3
OBVIOUS

\* The lengths of short sequences.
LEMMA Lengths ==
  \A x, y, z, u, v : /\ Len(<<x>>) = 1 /\ Len(<<x, y>>) = 2 /\ Len(<<x, y, z>>) = 3
                     /\ Len(<<x, y, z, u>>) = 4 /\ Len(<<x, y, z, u, v>>) = 5
OBVIOUS

\* The sequences that begin with ESC [ .
LEMMA CsiGestures ==
  ASSUME NEW b \in Seq(Bytes), NEW i \in 1..Len(b)
  PROVE  \A g \in {"arrow", "kitty", "backtab", "delete", "mouse", "focus", "report"} :
            Spells(b, i, Writes[g]) => Taken(b, i, Writes[g], Means[g])
<1>0. i \in Nat
  OBVIOUS
<1>1. {"A", "u", "Z", "~", "M", "I", "X"} \subseteq Finals /\ {"n", "<"} \cap Finals = {}
  BY DEF Finals
<1>2. ASSUME NEW x \in {"A", "Z", "I"}, Spells(b, i, <<"esc", "[", x>>)
      PROVE  Taken(b, i, <<"esc", "[", x>>, CsiEvents(x, <<>>))
  <2>1. b[i] = "esc" /\ (i + 1 <= Len(b) => b[i + 1] = "[") /\ (i + 2 <= Len(b) => b[i + 2] = x)
    BY <1>2, Letters
  <2>2. x \in Finals \ {"~"}
    BY <1>1
  <2>3. IF i + 2 <= Len(b) THEN ParseOne(b)[i] = Outcome(3, CsiEvents(x, <<>>), FALSE)
                           ELSE ParseOne(b)[i] = Incomplete
    BY <2>1, <2>2, CsiTaken
  <2> QED BY <1>0, <2>3, Reach, Lengths DEF Taken
<1>3. ASSUME NEW x \in {"u", "~", "X"}, Spells(b, i, <<"esc", "[", "n", x>>)
      PROVE  Taken(b, i, <<"esc", "[", "n", x>>, CsiEvents(x, <<"n">>))
  <2>1. /\ b[i] = "esc" /\ (i + 1 <= Len(b) => b[i + 1] = "[") /\ (i + 2 <= Len(b) => b[i + 2] = "n")
        /\ i + 3 <= Len(b) => b[i + 3] = x
    BY <1>3, Letters
  <2>2. x \in Finals /\ "n" \notin Finals
    BY <1>1
  <2>3. IF i + 3 <= Len(b)
        THEN ParseOne(b)[i] = IF x = "~" /\ "n" = "200" THEN Outcome(4, <<>>, TRUE)
                                       ELSE Outcome(4, CsiEvents(x, <<"n">>), FALSE)
        ELSE ParseOne(b)[i] = Incomplete
    BY <2>1, <2>2, CsiTaken
  <2>4. "n" # "200"
    OBVIOUS
  <2> QED BY <1>0, <2>3, <2>4, Reach, Lengths DEF Taken
<1>4. ASSUME Spells(b, i, <<"esc", "[", "<", "n", "M">>)
      PROVE  Taken(b, i, <<"esc", "[", "<", "n", "M">>, CsiEvents("M", <<"<", "n">>))
  <2>1. /\ b[i] = "esc" /\ (i + 1 <= Len(b) => b[i + 1] = "[") /\ (i + 2 <= Len(b) => b[i + 2] = "<")
        /\ (i + 3 <= Len(b) => b[i + 3] = "n") /\ (i + 4 <= Len(b) => b[i + 4] = "M")
    BY <1>4, Letters
  <2>2. "M" \in Finals \ {"~"} /\ "n" \notin Finals /\ "<" \notin Finals
    BY <1>1
  <2>3. IF i + 4 <= Len(b) THEN ParseOne(b)[i] = Outcome(5, CsiEvents("M", <<"<", "n">>), FALSE)
                           ELSE ParseOne(b)[i] = Incomplete
    BY <2>1, <2>2, CsiTaken
  <2> QED BY <1>0, <2>3, Reach, Lengths DEF Taken
<1>5. TAKE g \in {"arrow", "kitty", "backtab", "delete", "mouse", "focus", "report"}
<1>6. CASE g \in {"arrow", "backtab", "focus"}
  BY <1>2, <1>6, Table, Events
<1>7. CASE g \in {"kitty", "delete", "report"}
  BY <1>3, <1>7, Table, Events
<1>8. CASE g = "mouse"
  BY <1>4, <1>8, Table, Events
<1> QED BY <1>6, <1>7, <1>8

\* Everything else but Escape, alt+[ and pastes.
LEMMA PlainGestures ==
  ASSUME NEW b \in Seq(Bytes), NEW i \in 1..Len(b)
  PROVE  \A g \in {"letter", "accent", "ctrl", "altkey", "altacc", "ss3", "altarr"} :
            Spells(b, i, Writes[g]) => Taken(b, i, Writes[g], Means[g])
<1>0. i \in Nat /\ (i + 1 <= Len(b) => i + 1 \in 1..Len(b))
  OBVIOUS
<1>1. TAKE g \in {"letter", "accent", "ctrl", "altkey", "altacc", "ss3", "altarr"}
<1>2. CASE g \in {"letter", "accent", "ctrl"}
  BY <1>2, PlainTaken, Table
<1>3. CASE g = "ss3"
  BY <1>3, Ss3Taken, Table
<1>4. ASSUME g = "altkey", Spells(b, i, <<"esc", "a">>)
      PROVE  Taken(b, i, <<"esc", "a">>, <<Key("a", {"alt"})>>)
  <2>1. b[i] = "esc" /\ (i + 1 <= Len(b) => b[i + 1] = "a")
    BY <1>4, Letters
  <2>2. i + 1 <= Len(b) => Taken(b, i + 1, <<"a">>, <<Key("a", {})>>)
    <3>1. i + 1 <= Len(b) => Spells(b, i + 1, <<"a">>)
      BY <2>1 DEF Spells
    <3> QED BY <1>0, <3>1, PlainTaken
  <2>3. Alt(Key("a", {})) = Key("a", {"alt"})
    BY DEF Alt, Key
  <2>4. Len(<<"a">>) \in Nat \ {0} /\ i + Len(<<"a">>) = i + 1 /\ Len(<<"a">>) + 1 = 2
    OBVIOUS
  <2>5. i + 1 <= Len(b) => b[i + 1] \notin {"[", "O"}
    BY <2>1
  <2>6. IF i + Len(<<"a">>) <= Len(b)
        THEN ParseOne(b)[i] = Outcome(Len(<<"a">>) + 1, <<Alt(Key("a", {}))>>, FALSE)
        ELSE ParseOne(b)[i] = Incomplete
    BY <2>1, <2>2, <2>4, <2>5, AltTaken
  <2> QED BY <1>0, <2>3, <2>4, <2>6, Reach, Lengths DEF Taken
<1>5. ASSUME g = "altacc", Spells(b, i, <<"esc", "u1", "u2">>)
      PROVE  Taken(b, i, <<"esc", "u1", "u2">>, <<Key("u1", {"alt"})>>)
  <2>1. b[i] = "esc" /\ (i + 1 <= Len(b) => b[i + 1] = "u1") /\ (i + 2 <= Len(b) => b[i + 2] = "u2")
    BY <1>5, Letters
  <2>2. i + 1 <= Len(b) => Taken(b, i + 1, <<"u1", "u2">>, <<Key("u1", {})>>)
    <3>1. i + 1 <= Len(b) => Spells(b, i + 1, <<"u1", "u2">>)
      BY <2>1 DEF Spells
    <3> QED BY <1>0, <3>1, PlainTaken
  <2>3. Alt(Key("u1", {})) = Key("u1", {"alt"})
    BY DEF Alt, Key
  <2>4. Len(<<"u1", "u2">>) \in Nat \ {0} /\ i + Len(<<"u1", "u2">>) = i + 2 /\ Len(<<"u1", "u2">>) + 1 = 3
    OBVIOUS
  <2>5. i + 1 <= Len(b) => b[i + 1] \notin {"[", "O"}
    BY <2>1
  <2>6. IF i + Len(<<"u1", "u2">>) <= Len(b)
        THEN ParseOne(b)[i] = Outcome(Len(<<"u1", "u2">>) + 1, <<Alt(Key("u1", {}))>>, FALSE)
        ELSE ParseOne(b)[i] = Incomplete
    BY <2>1, <2>2, <2>4, <2>5, AltTaken
  <2> QED BY <1>0, <2>3, <2>4, <2>6, Reach, Lengths DEF Taken
<1>6. ASSUME g = "altarr", Spells(b, i, <<"esc", "esc", "[", "A">>)
      PROVE  Taken(b, i, <<"esc", "esc", "[", "A">>, <<Key("A", {"alt"})>>)
  <2> DEFINE w == <<"esc", "[", "A">>
  <2>1. /\ b[i] = "esc" /\ (i + 1 <= Len(b) => b[i + 1] = "esc") /\ (i + 2 <= Len(b) => b[i + 2] = "[")
        /\ i + 3 <= Len(b) => b[i + 3] = "A"
    BY <1>6, Letters
  <2>2. i + 1 <= Len(b) => Taken(b, i + 1, w, <<Key("A", {})>>)
    <3>1. i + 1 <= Len(b) => Spells(b, i + 1, w)
      <4>1. \A q \in 1..3 : (i + 1) + q - 1 = i + q /\ (q = 1 \/ q = 2 \/ q = 3)
        BY <1>0
      <4>2. w[1] = "esc" /\ w[2] = "[" /\ w[3] = "A" /\ Len(w) = 3
        OBVIOUS
      <4> HIDE DEF w
      <4> QED BY <2>1, <4>1, <4>2 DEF Spells
    <3> HIDE DEF w
    <3>2. Writes["arrow"] = w /\ Means["arrow"] = <<Key("A", {})>>
      BY Table DEF w
    <3> QED BY <1>0, <3>1, <3>2, CsiGestures
  <2>3. Alt(Key("A", {})) = Key("A", {"alt"})
    BY DEF Alt, Key
  <2>4. Len(w) \in Nat \ {0} /\ i + Len(w) = i + 3 /\ Len(w) + 1 = 4
    OBVIOUS
  <2>5. i + 1 <= Len(b) => b[i + 1] \notin {"[", "O"}
    BY <2>1
  <2>6. IF i + Len(w) <= Len(b)
        THEN ParseOne(b)[i] = Outcome(Len(w) + 1, <<Alt(Key("A", {}))>>, FALSE)
        ELSE ParseOne(b)[i] = Incomplete
    <3> HIDE DEF w
    <3> QED BY <2>1, <2>2, <2>4, <2>5, AltTaken
  <2> QED BY <1>0, <2>3, <2>4, <2>6, Reach, Lengths DEF Taken
<1> QED BY <1>2, <1>3, <1>4, <1>5, <1>6, Table

\* Whatever follows a gesture and however much of it is there, it is taken for
\* what it means or waited for.
LEMMA SimpleTaken ==
  ASSUME NEW b \in Seq(Bytes), NEW i \in 1..Len(b), NEW g \in Simple, Spells(b, i, Writes[g])
  PROVE  Taken(b, i, Writes[g], Means[g])
BY PlainGestures, CsiGestures, Table DEF Simple

\* A paste is opened by its first four bytes.
LEMMA PasteOpens ==
  ASSUME NEW b \in Seq(Bytes), NEW i \in 1..Len(b), Spells(b, i, Writes["paste"])
  PROVE  IF i + 3 <= Len(b) THEN ParseOne(b)[i] = Outcome(4, <<>>, TRUE)
                            ELSE ParseOne(b)[i] = Incomplete
<1> DEFINE w == <<"esc", "[", "200", "~", "p", "p", "esc", "[", "201", "~">>
<1>1. w[1] = "esc" /\ w[2] = "[" /\ w[3] = "200" /\ w[4] = "~" /\ Len(w) = 10
  OBVIOUS
<1>2. Spells(b, i, w)
  BY Table
<1> HIDE DEF w
<1>3. \A q \in 1..10 : i + q - 1 <= Len(b) => b[i + q - 1] = w[q]
  BY <1>1, <1>2 DEF Spells
<1>4. 1 \in 1..10 /\ 2 \in 1..10 /\ 3 \in 1..10 /\ 4 \in 1..10 /\ i \in Nat /\ i <= Len(b)
  OBVIOUS
<1>5. /\ b[i] = "esc" /\ (i + 1 <= Len(b) => b[i + 1] = "[")
      /\ (i + 2 <= Len(b) => b[i + 2] = "200") /\ (i + 3 <= Len(b) => b[i + 3] = "~")
  BY <1>1, <1>3, <1>4, Reach
<1>6. "~" \in Finals /\ "200" \notin Finals
  BY DEF Finals
<1>7. IF i + 3 <= Len(b)
      THEN ParseOne(b)[i] = IF "~" = "~" /\ "200" = "200" THEN Outcome(4, <<>>, TRUE)
                            ELSE Outcome(4, CsiEvents("~", <<"200">>), FALSE)
      ELSE ParseOne(b)[i] = Incomplete
  BY <1>5, <1>6, CsiTaken
<1> QED BY <1>7

\* Escape and alt+[ are waited with as long as nothing follows them.
LEMMA EscapeWaits ==
  ASSUME NEW b \in Seq(Bytes), NEW i \in 1..Len(b), NEW g \in {"escape", "altbrk"},
         Spells(b, i, Writes[g]), Len(b) <= i + Len(Writes[g]) - 1
  PROVE  ParseOne(b)[i] = Incomplete
<1>0. i = Len(b) \/ i < Len(b)
  OBVIOUS
<1>1. b[i] = "esc" /\ (g = "altbrk" /\ i + 1 <= Len(b) => b[i + 1] = "[")
  <2>1. Writes["escape"] = <<"esc">> /\ Writes["altbrk"] = <<"esc", "[">>
    BY Table
  <2>2. CASE g = "escape"
    <3>1. Spells(b, i, <<"esc">>)
      BY <2>1, <2>2
    <3> QED BY <2>2, <3>1, Letters
  <2>3. CASE g = "altbrk"
    <3>1. Spells(b, i, <<"esc", "[">>)
      BY <2>1, <2>3
    <3> QED BY <3>1, Letters
  <2> QED BY <2>2, <2>3
<1>2. CASE i = Len(b)
  BY <1>1, <1>2, EscAt
<1>3. CASE i < Len(b)
  <2>1. g = "altbrk"
    <3>1. Len(Writes["escape"]) = 1
      BY Table
    <3>2. CASE g = "escape"
      <4>1. i + Len(Writes[g]) - 1 = i
        <5>1. i \in Nat
          OBVIOUS
        <5> QED BY <3>1, <3>2, <5>1, Reach
      <4> QED BY <1>3, <4>1
    <3> QED BY <3>2
  <2>2. Len(Writes["altbrk"]) = 2
    BY Table
  <2>3. i + 1 = Len(b) /\ b[i + 1] = "["
    BY <1>1, <1>3, <2>1, <2>2
  <2>4. ParseOne(b)[i] = Csi(b, i)
    BY <1>1, <1>3, <2>3, EscapedAt
  <2>5. \A k \in i + 2..Len(b) : b[k] \notin Finals
    BY <2>3
  <2> QED BY <2>4, <2>5, CsiWaits
<1> QED BY <1>0, <1>2, <1>3

(***************************************************************************)
(* Inside a paste.                                                         *)
(***************************************************************************)
\* The end marker, byte by byte.
LEMMA MarkerAt ==
  ASSUME NEW b \in Seq(Bytes), NEW k \in 1..Len(b) - 3
  PROVE  SubSeq(b, k, k + 3) = EndMarker
           <=> b[k] = "esc" /\ b[k + 1] = "[" /\ b[k + 2] = "201" /\ b[k + 3] = "~"
<1> DEFINE u == SubSeq(b, k, k + 3)
<1>1. u \in Seq(Bytes) /\ Len(u) = 4 /\ u[1] = b[k] /\ u[2] = b[k + 1] /\ u[3] = b[k + 2] /\ u[4] = b[k + 3]
  OBVIOUS
<1>2. Len(EndMarker) = 4 /\ EndMarker[1] = "esc" /\ EndMarker[2] = "[" /\ EndMarker[3] = "201" /\ EndMarker[4] = "~"
  BY DEF EndMarker
<1> HIDE DEF u
<1>3. ASSUME u[1] = "esc", u[2] = "[", u[3] = "201", u[4] = "~" PROVE u = EndMarker
  <2>1. {"esc", "[", "201", "~"} \subseteq Bytes
    <3>1. \A j \in 1..4 : u[j] \in Bytes
      BY <1>1
    <3>2. u[1] \in Bytes /\ u[2] \in Bytes /\ u[3] \in Bytes /\ u[4] \in Bytes
      BY <3>1
    <3> QED BY <1>3, <3>2
  <2>2. EndMarker \in Seq(Bytes)
    BY <2>1 DEF EndMarker
  <2>3. \A j \in 1..Len(u) : u[j] = EndMarker[j]
    BY <1>1, <1>2, <1>3
  <2> QED BY <1>1, <1>2, <2>2, <2>3, SeqEqual
<1> QED BY <1>1, <1>2, <1>3 DEF u

\* What comes before a marker with none before it is the text of a paste.
LEMMA PasteEnds ==
  ASSUME NEW b \in Seq(Bytes), NEW i \in 1..Len(b), NEW m \in i..Len(b) - 3,
         SubSeq(b, m, m + 3) = EndMarker, \A k \in i..m - 1 : SubSeq(b, k, k + 3) # EndMarker
  PROVE  PasteOne(b, i) = Outcome(m + 4 - i, <<Paste(SubSeq(b, i, m - 1))>>, FALSE)
<1> DEFINE at == {k \in i .. Len(b) - Len(EndMarker) + 1 :
                    SubSeq(b, k, k + Len(EndMarker) - 1) = EndMarker}
<1>1. Len(EndMarker) = 4 /\ Len(b) - 4 + 1 = Len(b) - 3 /\ \A k \in Nat : k + 4 - 1 = k + 3
  BY DEF EndMarker
<1>2. at = {k \in i..Len(b) - 3 : SubSeq(b, k, k + 3) = EndMarker}
  BY <1>1
<1>3. m \in at /\ at # {} /\ \A k \in at : k \in Int /\ m <= k
  <2> HIDE DEF at
  <2>1. m \in at
    BY <1>2
  <2>2. ASSUME NEW k \in at PROVE k \in Int /\ m <= k
    <3>1. k \in i..Len(b) - 3 /\ SubSeq(b, k, k + 3) = EndMarker
      BY <1>2, <2>2
    <3>2. ~(k \in i..m - 1)
      BY <3>1
    <3> QED BY <3>1, <3>2
  <2> QED BY <2>1, <2>2
<1>4. Min(at) = m
  <2> HIDE DEF at
  <2>1. Min(at) \in at /\ \A k \in at : Min(at) =< k
    BY <1>3 DEF Min
  <2>2. \A x, y \in Int : x <= y /\ y =< x => x = y
    OBVIOUS
  <2>3. Min(at) \in Int /\ m \in Int /\ m <= Min(at) /\ Min(at) =< m
    BY <1>3, <2>1
  <2> QED BY <2>2, <2>3
<1>5. PasteOne(b, i) = IF at = {} THEN Incomplete
                       ELSE Outcome(Min(at) + Len(EndMarker) - i, <<Paste(SubSeq(b, i, Min(at) - 1))>>, FALSE)
  BY DEF PasteOne
<1> HIDE DEF at
<1> QED BY <1>1, <1>3, <1>4, <1>5

\* A paste without its marker is waited with.
LEMMA PasteWaits ==
  ASSUME NEW b \in Seq(Bytes), NEW i \in 1..Len(b) + 1, \A k \in i..Len(b) - 3 : SubSeq(b, k, k + 3) # EndMarker
  PROVE  PasteOne(b, i) = Incomplete
<1>1. Len(EndMarker) = 4 /\ Len(b) - 4 + 1 = Len(b) - 3 /\ \A k \in Nat : k + 4 - 1 = k + 3
  BY DEF EndMarker
<1>2. ASSUME NEW k \in i .. Len(b) - Len(EndMarker) + 1 PROVE SubSeq(b, k, k + Len(EndMarker) - 1) # EndMarker
  <2>1. k \in i..Len(b) - 3 /\ k + 4 - 1 = k + 3
    BY <1>1
  <2> QED BY <1>1, <2>1
<1> QED BY <1>2 DEF PasteOne

\* Inside a paste there is nothing yet, or the text up to the first marker.
LEMMA PasteFound ==
  ASSUME NEW b \in Seq(Bytes), NEW i \in 1..Len(b) + 1
  PROVE  \/ PasteOne(b, i) = Incomplete
         \/ \E m \in i..Len(b) - 3 :
              /\ b[m] = "esc" /\ b[m + 1] = "[" /\ b[m + 2] = "201" /\ b[m + 3] = "~"
              /\ PasteOne(b, i) = Outcome(m + 4 - i, <<Paste(SubSeq(b, i, m - 1))>>, FALSE)
<1> DEFINE ends == {k \in Nat : k \in i..Len(b) - 3 /\ SubSeq(b, k, k + 3) = EndMarker}
<1>1. CASE ends = {}
  <2>1. \A k \in i..Len(b) - 3 : k \in Nat
    OBVIOUS
  <2> QED BY <1>1, <2>1, PasteWaits
<1>2. CASE ends # {}
  <2>1. PICK m \in ends : \A k \in ends : ~(<<k, m>> \in OpToRel(<, Nat))
    <3>1. ends \subseteq Nat
      OBVIOUS
    <3> HIDE DEF ends
    <3> QED BY <1>2, <3>1, WFMin, NatLessThanWellFounded
  <2>2. m \in i..Len(b) - 3 /\ SubSeq(b, m, m + 3) = EndMarker /\ m \in Nat
    OBVIOUS
  <2>3. ASSUME NEW k \in i..m - 1 PROVE SubSeq(b, k, k + 3) # EndMarker
    <3>1. k \in Nat /\ k < m /\ k \in i..Len(b) - 3
      BY <2>2
    <3>2. <<k, m>> \in OpToRel(<, Nat)
      BY <2>2, <3>1 DEF OpToRel
    <3>3. k \notin ends
      <4> HIDE DEF ends
      <4> QED BY <2>1, <3>2
    <3> QED BY <3>1, <3>3
  <2>4. i \in 1..Len(b) /\ m \in 1..Len(b) - 3
    BY <2>2
  <2>5. PasteOne(b, i) = Outcome(m + 4 - i, <<Paste(SubSeq(b, i, m - 1))>>, FALSE)
    BY <2>2, <2>3, <2>4, PasteEnds
  <2> QED BY <2>2, <2>4, <2>5, MarkerAt
<1> QED BY <1>1, <1>2

\* From its text on, a paste is taken whole or waited for.
LEMMA PasteTaken ==
  ASSUME NEW b \in Seq(Bytes), NEW i \in 1..Len(b) + 1,
         \A q \in 1..6 : i + q - 1 <= Len(b) => b[i + q - 1] = Writes["paste"][q + 4]
  PROVE  IF i + 5 <= Len(b) THEN PasteOne(b, i) = Outcome(6, Means["paste"], FALSE)
                            ELSE PasteOne(b, i) = Incomplete
<1>0. i \in Nat /\ i >= 1 /\ Len(b) \in Nat
  OBVIOUS
<1>1. /\ Writes["paste"][5] = "p" /\ Writes["paste"][6] = "p" /\ Writes["paste"][7] = "esc"
      /\ Writes["paste"][8] = "[" /\ Writes["paste"][9] = "201" /\ Writes["paste"][10] = "~"
  BY Table
<1>2. /\ 1 + 4 = 5 /\ 2 + 4 = 6 /\ 3 + 4 = 7 /\ 4 + 4 = 8 /\ 5 + 4 = 9 /\ 6 + 4 = 10 /\ i + 6 - 1 = i + 5
      /\ 1 \in 1..6 /\ 2 \in 1..6 /\ 3 \in 1..6 /\ 4 \in 1..6 /\ 5 \in 1..6 /\ 6 \in 1..6
  BY <1>0
<1>3. /\ (i <= Len(b) => b[i] = "p") /\ (i + 1 <= Len(b) => b[i + 1] = "p")
      /\ (i + 2 <= Len(b) => b[i + 2] = "esc") /\ (i + 3 <= Len(b) => b[i + 3] = "[")
      /\ (i + 4 <= Len(b) => b[i + 4] = "201") /\ (i + 5 <= Len(b) => b[i + 5] = "~")
  <2> HIDE DEF Writes
  <2> DEFINE w == Writes["paste"]
  <2> HIDE DEF w
  <2>1. \A q \in 1..6 : i + q - 1 <= Len(b) => b[i + q - 1] = w[q + 4]
    BY DEF w
  <2>2. w[5] = "p" /\ w[6] = "p" /\ w[7] = "esc" /\ w[8] = "[" /\ w[9] = "201" /\ w[10] = "~"
    BY <1>1 DEF w
  <2> QED BY <1>0, <1>2, <2>1, <2>2, Reach
<1>4. ASSUME NEW k \in i..i + 1, k <= Len(b) - 3 PROVE SubSeq(b, k, k + 3) # EndMarker
  <2>1. k \in 1..Len(b) - 3 /\ (k = i \/ k = i + 1) /\ k <= Len(b)
    BY <1>0, <1>4
  <2>2. b[k] # "esc"
    BY <1>3, <2>1
  <2> QED BY <2>1, <2>2, MarkerAt
<1>5. CASE i + 5 <= Len(b)
  <2> DEFINE m == i + 2
  <2>1. i \in 1..Len(b) /\ m \in i..Len(b) - 3 /\ m \in 1..Len(b) - 3
    BY <1>0, <1>5
  <2>2. m + 1 = i + 3 /\ m + 2 = i + 4 /\ m + 3 = i + 5 /\ m + 4 - i = 6 /\ m - 1 = i + 1
    BY <1>0
  <2>3. b[m] = "esc" /\ b[m + 1] = "[" /\ b[m + 2] = "201" /\ b[m + 3] = "~"
    BY <1>0, <1>3, <1>5
  <2>4. \A k \in i..m - 1 : SubSeq(b, k, k + 3) # EndMarker
    <3> SUFFICES ASSUME NEW k \in i..m - 1 PROVE SubSeq(b, k, k + 3) # EndMarker
      OBVIOUS
    <3>1. k \in i..i + 1 /\ k <= Len(b) - 3
      BY <1>0, <1>5, <2>2
    <3> QED BY <1>4, <3>1
  <2> HIDE DEF m
  <2>5. SubSeq(b, m, m + 3) = EndMarker
    BY <2>1, <2>3, MarkerAt
  <2>6. PasteOne(b, i) = Outcome(m + 4 - i, <<Paste(SubSeq(b, i, m - 1))>>, FALSE)
    BY <2>1, <2>4, <2>5, PasteEnds
  <2>7. SubSeq(b, i, i + 1) = <<"p", "p">>
    <3>1. i + 1 <= Len(b) /\ b[i] = "p" /\ b[i + 1] = "p"
      BY <1>0, <1>3, <1>5
    <3> QED BY <2>1, <3>1, ShortParts
  <2> QED BY <1>5, <2>2, <2>6, <2>7, Table
<1>6. CASE ~(i + 5 <= Len(b))
  <2>1. \A k \in i..Len(b) - 3 : k \in i..i + 1
    BY <1>0, <1>6
  <2>2. \A k \in i..Len(b) - 3 : SubSeq(b, k, k + 3) # EndMarker
    BY <1>0, <1>4, <2>1
  <2> QED BY <1>6, <2>2, PasteWaits
<1> QED BY <1>5, <1>6

(***************************************************************************)
(* Feeding: the parser's outcomes, one after the other.                    *)
(***************************************************************************)
Part(b, i, inp) == IF inp THEN PasteOne(b, i) ELSE ParseOne(b)[i]

\* An outcome found at i takes no more than there is.
Within(b, i, t) == t.used \in 0..Len(b) + 1 - i /\ t.opens \in BOOLEAN

\* What is parsed is there.
LEMMA ParseWithin ==
  ASSUME NEW b \in Seq(Bytes)
  PROVE  \A i \in 1..Len(b) + 1 : Within(b, i, ParseOne(b)[i])
<1> DEFINE N == Len(b) + 1
           All == {n \in Nat : n <= Len(b) => Within(b, N - n, ParseOne(b)[N - n])}
<1>0. Len(b) \in Nat /\ N \in Nat
  OBVIOUS
<1>1. \A i \in 1..N : Within(b, i, Incomplete)
  <2>1. \A i \in 1..N : 0 \in 0..N - i
    BY <1>0
  <2> QED BY <2>1 DEF Within, Incomplete, Outcome
<1>2. ASSUME NEW i \in 1..N, i <= Len(b) => Within(b, i + 1, ParseOne(b)[i + 1])
      PROVE  Within(b, i, ParseOne(b)[i])
  <2>0. ParseOne(b)[i] = ParseBody(b, ParseOne(b), i)
    BY ParseOK
  <2>1. CASE i > Len(b)
    BY <1>1, <2>0, <2>1 DEF ParseBody
  <2>2. CASE i <= Len(b) /\ b[i] # "esc"
    <3>1. ParseOne(b)[i] = Plain(b, i)
      BY <2>2, PlainAt
    <3>2. /\ 1 \in 0..N - i
          /\ i < Len(b) => 2 \in 0..N - i
      BY <1>0, <2>2
    <3>3. \A e : \A u \in 0..N - i : Within(b, i, Outcome(u, e, FALSE))
      BY DEF Within, Outcome
    <3> QED BY <1>1, <3>1, <3>2, <3>3 DEF Plain
  <2>3. CASE i = Len(b) /\ b[i] = "esc"
    BY <1>1, <2>0, <2>3 DEF ParseBody
  <2>4. CASE i < Len(b) /\ b[i] = "esc"
    <3>0. i \in 1..Len(b) - 1
      BY <1>0, <2>4
    <3>1. ParseOne(b)[i] = IF b[i + 1] = "[" THEN Csi(b, i)
                           ELSE IF b[i + 1] = "O" THEN Ss3(b, i)
                           ELSE AltOutcome(ParseOne(b)[i + 1])
      BY <2>4, <3>0, EscapedAt
    <3>2. Within(b, i, Csi(b, i))
      <4> DEFINE ends == {k \in i + 2 .. Len(b) : b[k] \in Finals}
                 k == Min(ends)
                 params == SubSeq(b, i + 2, k - 1)
      <4>1. Csi(b, i) = IF ends = {} THEN Incomplete
                        ELSE IF b[k] = "~" /\ params = <<"200">>
                             THEN Outcome(k - i + 1, <<>>, TRUE)
                             ELSE Outcome(k - i + 1, CsiEvents(b[k], params), FALSE)
        BY DEF Csi
      <4>2. ASSUME ends # {} PROVE k - i + 1 \in 0..N - i
        <5>1. \A x \in ends : x \in Nat /\ x >= i + 2 /\ x <= Len(b)
          BY <1>0
        <5>2. PICK x \in ends : \A y \in ends : ~(<<y, x>> \in OpToRel(<, Nat))
          <6>1. ends \subseteq Nat
            BY <5>1
          <6> HIDE DEF ends
          <6> QED BY <4>2, <6>1, WFMin, NatLessThanWellFounded
        <5> HIDE DEF ends
        <5>3. ASSUME NEW y \in ends PROVE x <= y
          <6>1. CASE y < x
            <7>1. <<y, x>> \in OpToRel(<, Nat)
              BY <5>1, <6>1 DEF OpToRel
            <7> QED BY <5>2, <7>1
          <6> QED BY <5>1, <6>1
        <5>4. k \in ends
          <6>1. \E m \in ends : \A y \in ends : m =< y
            BY <5>1, <5>3
          <6> QED BY <6>1 DEF Min
        <5> HIDE DEF k
        <5> QED BY <1>0, <5>1, <5>4
      <4> HIDE DEF ends, k, params
      <4>3. \A e : \A u \in 0..N - i, o \in BOOLEAN : Within(b, i, Outcome(u, e, o))
        BY DEF Within, Outcome
      <4> QED BY <1>1, <4>1, <4>2, <4>3
    <3>3. Within(b, i, Ss3(b, i))
      <4>1. CASE i + 2 > Len(b)
        BY <1>1, <4>1 DEF Ss3
      <4>2. CASE ~(i + 2 > Len(b))
        <5>1. 3 \in 0..N - i
          BY <1>0, <4>2
        <5> QED BY <4>2, <5>1 DEF Ss3, Within, Outcome
      <4> QED BY <4>1, <4>2
    <3>4. Within(b, i, AltOutcome(ParseOne(b)[i + 1]))
      <4> DEFINE t == ParseOne(b)[i + 1]
      <4>1. t.used \in 0..N - (i + 1)
        BY <1>2, <2>4 DEF Within
      <4> HIDE DEF t
      <4>2. t.used + 1 \in 0..N - i
        BY <1>0, <4>1
      <4>3. \A e : \A u \in 0..N - i : Within(b, i, Outcome(u, e, FALSE))
        BY DEF Within, Outcome
      <4>4. Within(b, i, AltOutcome(t))
        BY <1>1, <4>2, <4>3 DEF AltOutcome
      <4> QED BY <4>4 DEF t
    <3> QED BY <3>1, <3>2, <3>3, <3>4
  <2>5. i > Len(b) \/ i = Len(b) \/ i < Len(b)
    BY <1>0
  <2> QED BY <1>0, <2>1, <2>2, <2>3, <2>4, <2>5
<1>3. 0 \in All
  <2>1. N - 0 = N /\ N \in 1..N /\ ~(N <= Len(b))
    BY <1>0
  <2>2. Within(b, N, ParseOne(b)[N])
    BY <1>2, <2>1
  <2> QED BY <2>1, <2>2
<1>4. ASSUME NEW n \in Nat, n \in All PROVE n + 1 \in All
  <2> SUFFICES ASSUME n + 1 <= Len(b) PROVE Within(b, N - (n + 1), ParseOne(b)[N - (n + 1)])
    OBVIOUS
  <2>1. N - (n + 1) \in 1..N /\ (N - (n + 1)) + 1 = N - n /\ n <= Len(b)
    BY <1>0
  <2>2. Within(b, N - n, ParseOne(b)[N - n])
    BY <1>4, <2>1
  <2> QED BY <1>2, <2>1, <2>2
<1>5. All = Nat
  <2>1. All \in SUBSET Nat
    OBVIOUS
  <2> HIDE DEF All
  <2> QED BY <1>3, <1>4, <2>1, Onwards
<1>6. ASSUME NEW i \in 1..N PROVE Within(b, i, ParseOne(b)[i])
  <2>1. CASE i = N
    BY <1>2, <2>1, <1>0
  <2>2. CASE i < N
    <3>1. N - i \in Nat /\ N - i <= Len(b) /\ N - (N - i) = i
      BY <1>0, <2>2
    <3> QED BY <1>5, <3>1
  <2> QED BY <1>0, <2>1, <2>2
<1> QED BY <1>6

\* What is decoded is there, inside a paste and outside.
LEMMA PartWithin ==
  ASSUME NEW b \in Seq(Bytes), NEW i \in 1..Len(b) + 1, NEW inp \in BOOLEAN
  PROVE  Within(b, i, Part(b, i, inp))
<1>1. CASE ~inp
  BY <1>1, ParseWithin DEF Part
<1>2. CASE inp
  <2>0. Part(b, i, inp) = PasteOne(b, i) /\ i \in Nat /\ Len(b) \in Nat /\ 0 \in 0..Len(b) + 1 - i
    BY <1>2 DEF Part
  <2>1. CASE PasteOne(b, i) = Incomplete
    BY <2>0, <2>1 DEF Within, Incomplete, Outcome
  <2>2. CASE PasteOne(b, i) # Incomplete
    <3>1. PICK m \in i..Len(b) - 3 : PasteOne(b, i) = Outcome(m + 4 - i, <<Paste(SubSeq(b, i, m - 1))>>, FALSE)
      BY <2>2, PasteFound
    <3>2. m + 4 - i \in 0..Len(b) + 1 - i
      BY <2>0
    <3> QED BY <2>0, <3>1, <3>2 DEF Within, Outcome
  <2> QED BY <2>1, <2>2
<1> QED BY <1>1, <1>2

FeedBody(b, f, i, inp) ==
  IF i > Len(b) \/ Part(b, i, inp).used = 0
  THEN [buf |-> SubSeq(b, i, Len(b)), in_paste |-> inp, evs |-> <<>>]
  ELSE [f[i + Part(b, i, inp).used][Part(b, i, inp).opens] EXCEPT !.evs = Part(b, i, inp).evs \o @]

\* What is fed from a place depends on the places after it.
LEMMA FeedLocal ==
  ASSUME NEW b \in Seq(Bytes), NEW i \in 1..Len(b) + 1, NEW inp \in BOOLEAN, NEW f, NEW g,
         \A j \in i + 1..Len(b) + 1 : f[j] = g[j]
  PROVE  FeedBody(b, f, i, inp) = FeedBody(b, g, i, inp)
<1>1. Len(b) \in Nat /\ i \in Nat
  OBVIOUS
<1>2. CASE i > Len(b) \/ Part(b, i, inp).used = 0
  BY <1>2 DEF FeedBody
<1>3. CASE ~(i > Len(b) \/ Part(b, i, inp).used = 0)
  <2> DEFINE u == Part(b, i, inp).used
  <2>1. u \in 0..Len(b) + 1 - i /\ u # 0
    BY <1>3, PartWithin DEF Within
  <2> HIDE DEF u
  <2>2. i + u \in i + 1..Len(b) + 1
    BY <1>1, <2>1
  <2>3. f[i + Part(b, i, inp).used] = g[i + Part(b, i, inp).used]
    BY <2>2 DEF u
  <2> QED BY <1>3, <2>3 DEF FeedBody
<1> QED BY <1>2, <1>3

\* Feeding is a function of the place and of the paste.
LEMMA FeedOK ==
  ASSUME NEW b \in Seq(Bytes)
  PROVE  \E f : /\ \A i \in 1..Len(b) + 1, inp \in BOOLEAN : f[i][inp] = FeedBody(b, f, i, inp)
                /\ \A pasting \in BOOLEAN : Feed(b, pasting) = f[1][pasting]
<1> DEFINE N == Len(b) + 1
           Row(f, i) == [inp \in BOOLEAN |-> FeedBody(b, f, i, inp)]
           Is(f, n) == f = [i \in N - n..N |-> Row(f, i)]
           Some(n) == \E f : Is(f, n)
           All == {n \in Nat : n <= Len(b) => Some(n)}
<1>0. Len(b) \in Nat
  OBVIOUS
<1>R. ASSUME NEW i \in 1..N, NEW f, NEW g, \A j \in i + 1..N : f[j] = g[j] PROVE Row(f, i) = Row(g, i)
  <2>1. \A inp \in BOOLEAN : FeedBody(b, f, i, inp) = FeedBody(b, g, i, inp)
    BY <1>R, FeedLocal
  <2> QED BY <2>1
<1>1. 0 \in All
  <2> DEFINE e == Row(<<>>, N)
             f == [i \in N..N |-> e]
  <2>1. ASSUME NEW i \in N..N PROVE Row(f, i) = e
    <3>1. i = N /\ i \in 1..N /\ i + 1..N = {}
      BY <1>0
    <3> HIDE DEF f, Row
    <3>2. \A j \in i + 1..N : f[j] = <<>>[j]
      BY <3>1
    <3> QED BY <1>R, <3>1, <3>2 DEF e
  <2> HIDE DEF e, Row
  <2>2. f = [i \in N..N |-> Row(f, i)]
    BY <2>1
  <2>3. N - 0 = N
    BY <1>0
  <2> HIDE DEF f
  <2> QED BY <2>2, <2>3
<1>2. ASSUME NEW n \in Nat, n \in All PROVE n + 1 \in All
  <2> SUFFICES ASSUME n + 1 <= Len(b) PROVE Some(n + 1)
    OBVIOUS
  <2>1. PICK f : Is(f, n)
    BY <1>0, <1>2
  <2> DEFINE k == N - (n + 1)
             e == Row(f, k)
             g == [i \in k..N |-> IF i = k THEN e ELSE f[i]]
  <2>2. k \in 1..Len(b) /\ N - n = k + 1 /\ k + 1 <= N
    BY <1>0
  <2> HIDE DEF Row
  <2>3. \A i \in k + 1..N : f[i] = Row(f, i)
    BY <2>1, <2>2
  <2> HIDE DEF Is, Some, All, k
  <2>4. g[k] = e /\ \A i \in k + 1..N : g[i] = f[i]
    <3> HIDE DEF e
    <3> QED BY <1>0, <2>2
  <2>5. ASSUME NEW i \in k..N PROVE g[i] = Row(g, i)
    <3>1. i \in 1..N /\ \A j \in i + 1..N : j \in k + 1..N
      BY <1>0, <2>2
    <3>2. \A j \in i + 1..N : f[j] = g[j]
      BY <2>4, <3>1
    <3> HIDE DEF g
    <3>3. Row(f, i) = Row(g, i)
      BY <1>R, <3>1, <3>2
    <3>4. CASE i = k
      BY <2>4, <3>3, <3>4
    <3>5. CASE i \in k + 1..N
      BY <2>3, <2>4, <3>3, <3>5
    <3> QED BY <1>0, <2>2, <3>4, <3>5
  <2>6. g = [i \in k..N |-> Row(g, i)]
    BY <2>5
  <2> HIDE DEF g
  <2> QED BY <2>6 DEF Some, Is, k
<1>3. All = Nat
  <2>1. All \in SUBSET Nat
    OBVIOUS
  <2> HIDE DEF All
  <2> QED BY <1>1, <1>2, <2>1, Onwards
<1>4. Some(Len(b)) /\ N - Len(b) = 1
  BY <1>0, <1>3
<1> DEFINE whole == CHOOSE f : f = [i \in 1..N |-> [inp \in BOOLEAN |-> FeedBody(b, f, i, inp)]]
<1>5. whole = [i \in 1..N |-> [inp \in BOOLEAN |-> FeedBody(b, whole, i, inp)]]
  BY <1>4
<1>6. \A pasting \in BOOLEAN : Feed(b, pasting) = whole[1][pasting]
  BY DEF Feed, FeedBody, Part
<1> HIDE DEF whole
<1>7. \A i \in 1..N, inp \in BOOLEAN : whole[i][inp] = FeedBody(b, whole, i, inp)
  BY <1>5
<1> QED BY <1>6, <1>7

(***************************************************************************)
(* The gestures' bytes and events, as far as the stream is concerned.      *)
(***************************************************************************)
\* The events there are.
Told == (UNION {Range(Means[g]) : g \in AllGestures}) \cup {Paste(t) : t \in Seq(Bytes)}

\* Short sequences over a set.
LEMMA Tuples ==
  ASSUME NEW S
  PROVE  /\ <<>> \in Seq(S)
         /\ \A x \in S : <<x>> \in Seq(S)
         /\ \A x, y \in S : <<x, y>> \in Seq(S)
         /\ \A x, y, z \in S : <<x, y, z>> \in Seq(S)
         /\ \A x, y, z, u \in S : <<x, y, z, u>> \in Seq(S)
         /\ \A x, y, z, u, v \in S : <<x, y, z, u, v>> \in Seq(S)
OBVIOUS

\* What is written is bytes.
LEMMA Sizes ==
  \A g \in AllGestures : Writes[g] \in Seq(Bytes) /\ Len(Writes[g]) \in Nat \ {0}
<1>0. ASSUME NEW g \in AllGestures, NEW j \in DOMAIN Writes[g] PROVE Writes[g][j] \in Bytes
  <2>1. Writes[g][j] \in Range(Writes[g])
    BY DEF Range
  <2> QED BY <2>1 DEF Bytes
<1>1. TAKE g \in AllGestures
<1>2. CASE g \in {"letter", "ctrl", "escape"}
  <2>1. PICK x : Writes[g] = <<x>>
    BY <1>2, Table
  <2>2. 1 \in DOMAIN Writes[g] /\ Writes[g][1] = x /\ Len(Writes[g]) = 1
    BY <2>1
  <2> QED BY <1>0, <2>1, <2>2, Tuples
<1>3. CASE g \in {"accent", "altkey", "altbrk"}
  <2>1. PICK x, y : Writes[g] = <<x, y>>
    BY <1>3, Table
  <2>2. /\ {1, 2} \subseteq DOMAIN Writes[g] /\ Writes[g][1] = x /\ Writes[g][2] = y /\ Len(Writes[g]) = 2
    BY <2>1
  <2>3. x \in Bytes /\ y \in Bytes
    BY <1>0, <2>2
  <2> QED BY <2>1, <2>2, <2>3, Tuples
<1>4. CASE g \in {"altacc", "arrow", "ss3", "backtab", "focus"}
  <2>1. PICK x, y, z : Writes[g] = <<x, y, z>>
    BY <1>4, Table
  <2>2. /\ {1, 2, 3} \subseteq DOMAIN Writes[g] /\ Len(Writes[g]) = 3
        /\ Writes[g][1] = x /\ Writes[g][2] = y /\ Writes[g][3] = z
    BY <2>1
  <2>3. x \in Bytes /\ y \in Bytes /\ z \in Bytes
    BY <1>0, <2>2
  <2> QED BY <2>1, <2>2, <2>3, Tuples
<1>5. CASE g \in {"altarr", "kitty", "delete", "report"}
  <2>1. PICK x, y, z, u : Writes[g] = <<x, y, z, u>>
    BY <1>5, Table
  <2>2. /\ {1, 2, 3, 4} \subseteq DOMAIN Writes[g] /\ Len(Writes[g]) = 4
        /\ Writes[g][1] = x /\ Writes[g][2] = y /\ Writes[g][3] = z /\ Writes[g][4] = u
    BY <2>1
  <2>3. x \in Bytes /\ y \in Bytes /\ z \in Bytes /\ u \in Bytes
    BY <1>0, <2>2
  <2> QED BY <2>1, <2>2, <2>3, Tuples
<1>6. CASE g = "mouse"
  <2>1. PICK x, y, z, u, v : Writes[g] = <<x, y, z, u, v>>
    BY <1>6, Table
  <2>2. /\ {1, 2, 3, 4, 5} \subseteq DOMAIN Writes[g] /\ Len(Writes[g]) = 5
        /\ Writes[g][1] = x /\ Writes[g][2] = y /\ Writes[g][3] = z /\ Writes[g][4] = u /\ Writes[g][5] = v
    BY <2>1
  <2>3. x \in Bytes /\ y \in Bytes /\ z \in Bytes /\ u \in Bytes /\ v \in Bytes
    BY <1>0, <2>2
  <2> QED BY <2>1, <2>2, <2>3, Tuples
<1>7. CASE g = "paste"
  <2> DEFINE w == <<"esc", "[", "200", "~", "p", "p", "esc", "[", "201", "~">>
  <2>1. Writes[g] = w
    BY <1>7, Table
  <2>2. DOMAIN w = 1..10 /\ Len(w) = 10 /\ w = [j \in 1..10 |-> w[j]]
    OBVIOUS
  <2> HIDE DEF w
  <2>3. \A j \in 1..10 : w[j] \in Bytes
    BY <1>0, <2>1, <2>2
  <2>4. w \in Seq(Bytes)
    BY <2>2, <2>3
  <2> QED BY <2>1, <2>2, <2>4
<1> QED BY <1>2, <1>3, <1>4, <1>5, <1>6, <1>7, Table

\* The end marker is written by a paste and by nothing else.
LEMMA OneMarker ==
  ASSUME NEW g \in AllGestures, NEW q \in 1..Len(Writes[g]), Writes[g][q] = "201"
  PROVE  g = "paste" /\ q = 9
<1>2. CASE g \in {"letter", "ctrl", "escape"}
  <2>1. PICK x : Writes[g] = <<x>> /\ x # "201"
    BY <1>2, Table
  <2> QED BY <2>1
<1>3. CASE g \in {"accent", "altkey", "altbrk"}
  <2>1. PICK x, y : Writes[g] = <<x, y>> /\ "201" \notin {x, y}
    BY <1>3, Table
  <2> QED BY <2>1
<1>4. CASE g \in {"altacc", "arrow", "ss3", "backtab", "focus"}
  <2>1. PICK x, y, z : Writes[g] = <<x, y, z>> /\ "201" \notin {x, y, z}
    BY <1>4, Table
  <2> QED BY <2>1
<1>5. CASE g \in {"altarr", "kitty", "delete", "report"}
  <2>1. PICK x, y, z, u : Writes[g] = <<x, y, z, u>> /\ "201" \notin {x, y, z, u}
    BY <1>5, Table
  <2> QED BY <2>1
<1>6. CASE g = "mouse"
  <2>1. PICK x, y, z, u, v : Writes[g] = <<x, y, z, u, v>> /\ "201" \notin {x, y, z, u, v}
    BY <1>6, Table
  <2> QED BY <2>1
<1>7. CASE g = "paste"
  <2> DEFINE w == <<"esc", "[", "200", "~", "p", "p", "esc", "[", "201", "~">>
  <2>1. Writes[g] = w
    BY <1>7, Table
  <2>2. Len(w) = 10 /\ \A j \in 1..10 : w[j] = "201" => j = 9
    OBVIOUS
  <2> HIDE DEF w
  <2> QED BY <1>7, <2>1, <2>2
<1> QED BY <1>2, <1>3, <1>4, <1>5, <1>6, <1>7, Table

\* What a gesture means is events.
LEMMA Meanings ==
  /\ \A g \in AllGestures : Means[g] \in Seq(Told)
  /\ \A t \in Seq(Bytes) : <<Paste(t)>> \in Seq(Told)
  /\ Key("esc", {}) \in Told
<1>1. ASSUME NEW g \in AllGestures, NEW j \in DOMAIN Means[g] PROVE Means[g][j] \in Told
  <2>1. Means[g][j] \in Range(Means[g])
    BY DEF Range
  <2> QED BY <2>1, Zenon DEF Told
<1>2. ASSUME NEW g \in AllGestures PROVE Means[g] \in Seq(Told)
  <2>1. CASE g = "report"
    BY <2>1, Table, Tuples
  <2>2. CASE g = "altbrk"
    <3>1. PICK x, y : Means[g] = <<x, y>>
      BY <2>2, Table
    <3>2. 1 \in DOMAIN Means[g] /\ 2 \in DOMAIN Means[g] /\ Means[g][1] = x /\ Means[g][2] = y
      BY <3>1
    <3> QED BY <1>1, <3>1, <3>2, Tuples
  <2>3. CASE g \notin {"report", "altbrk"}
    <3>1. PICK x : Means[g] = <<x>>
      BY <2>3, Table
    <3>2. 1 \in DOMAIN Means[g] /\ Means[g][1] = x
      BY <3>1
    <3> QED BY <1>1, <3>1, <3>2, Tuples
  <2> QED BY <2>1, <2>2, <2>3
<1>3. ASSUME NEW t \in Seq(Bytes) PROVE Paste(t) \in Told
  <2>1. Paste(t) \in {Paste(s) : s \in Seq(Bytes)}
    BY Zenon
  <2> QED BY <2>1, Zenon DEF Told
<1>4. Key("esc", {}) \in Told
  <2>1. "escape" \in AllGestures /\ Means["escape"] = <<Key("esc", {})>>
    BY Table
  <2>2. 1 \in DOMAIN Means["escape"] /\ Means["escape"][1] = Key("esc", {})
    BY <2>1
  <2> QED BY <1>1, <2>1, <2>2
<1> QED BY <1>2, <1>3, <1>4, Tuples

\* No event there is types a character of a paste.
LEMMA Untyped ==
  ASSUME NEW e \in Told
  PROVE  e.kind \in {"key", "paste", "mouse", "focus"} /\ (e.kind = "key" => e.what # <<"p">>)
<1>1. CASE \E t \in Seq(Bytes) : e = Paste(t)
  BY <1>1 DEF Paste
<1>2. CASE \E g \in AllGestures : \E j \in DOMAIN Means[g] : e = Means[g][j]
  <2>0. PICK g \in AllGestures : \E j \in DOMAIN Means[g] : e = Means[g][j]
    BY <1>2
  <2>1. PICK j \in DOMAIN Means[g] : e = Means[g][j]
    BY <2>0
  <2>2. CASE g = "report"
    BY <2>1, <2>2, Table
  <2>3. CASE g = "altbrk"
    <3>1. e = Key("esc", {}) \/ e = Key("[", {})
      BY <2>1, <2>3, Table
    <3> QED BY <3>1 DEF Key
  <2>4. CASE g = "paste"
    <3>1. e = Paste(<<"p", "p">>)
      BY <2>1, <2>4, Table
    <3> QED BY <3>1 DEF Paste
  <2>5. CASE g \in {"mouse", "focus"}
    <3>1. e \in {Mouse, Focus}
      BY <2>1, <2>5, Table
    <3> QED BY <3>1 DEF Mouse, Focus
  <2>6. CASE g \notin {"report", "altbrk", "paste", "mouse", "focus"}
    <3>1. PICK x, s : Means[g] = <<Key(x, s)>> /\ x # "p"
      BY <2>6, Table
    <3>2. e = Key(x, s)
      BY <2>1, <3>1
    <3> QED BY <3>1, <3>2 DEF Key
  <2> QED BY <2>2, <2>3, <2>4, <2>5, <2>6
<1>3. CASE e \in {Paste(t) : t \in Seq(Bytes)}
  BY <1>1, <1>3, Zenon
<1>4. CASE e \in UNION {Range(Means[g]) : g \in AllGestures}
  <2>1. PICK g \in AllGestures : e \in Range(Means[g])
    BY <1>4
  <2>2. \E j \in DOMAIN Means[g] : e = Means[g][j]
    BY <2>1 DEF Range
  <2> QED BY <1>2, <2>2
<1> QED BY <1>3, <1>4, Zenon DEF Told

(***************************************************************************)
(* The stream: where each gesture's bytes end, what lies where, and where  *)
(* the decoder stands in it.                                               *)
(***************************************************************************)
\* The bytes of the k-th of the gestures ms are those up to o[k].
Ends(ms, o) ==
  /\ ms \in Seq(AllGestures)
  /\ o \in [0..Len(ms) -> Nat] /\ o[0] = 0
  /\ \A k \in 1..Len(ms) : o[k] = o[k - 1] + Len(Writes[ms[k]])

\* b is what follows the first c bytes of the stream.
Follows(ms, o, c, b) ==
  /\ c \in Nat /\ b \in Seq(Bytes) /\ c + Len(b) <= o[Len(ms)]
  /\ \A k \in 1..Len(ms) : \A q \in 1..Len(Writes[ms[k]]) :
       c < o[k - 1] + q /\ o[k - 1] + q <= c + Len(b) => b[o[k - 1] + q - c] = Writes[ms[k]][q]

\* The events of the first k gestures.
Sums(ms, G) ==
  /\ G \in [0..Len(ms) -> Seq(Told)] /\ G[0] = <<>>
  /\ \A k \in 1..Len(ms) : G[k] = G[k - 1] \o Means[ms[k]]

\* A place the decoder can stand at, p bytes into the stream: at the end of the
\* k-th gesture, behind the opening of a paste, or anywhere in a paste that a
\* timer has cut.
Stands(ms, o, lost, p, inp, k) ==
  /\ k \in 0..Len(ms)
  /\ ~inp => p = o[k]
  /\ inp /\ ~lost => k < Len(ms) /\ ms[k + 1] = "paste" /\ p = o[k] + 4

\* Nothing is typed behind an Escape that is not resolved.
Patient(ms, o, c) == \A k \in 1..Len(ms) - 1 : ms[k] \in {"escape", "altbrk"} => o[k] <= c

\* With n bytes of the next gesture, the decoder waits.
Waits(ms, k, n) ==
  /\ k < Len(ms)
  /\ n < Len(Writes[ms[k + 1]]) \/ ms[k + 1] \in {"escape", "altbrk"}

\* The ends of the gestures come one after the other.
LEMMA EndsGrow ==
  ASSUME NEW ms, NEW o, Ends(ms, o)
  PROVE  \A k \in 0..Len(ms) - 1 :
            /\ k + 1 \in 1..Len(ms) /\ k \in 0..Len(ms) /\ o[k] \in Nat /\ o[k + 1] \in Nat
            /\ ms[k + 1] \in AllGestures /\ Len(Writes[ms[k + 1]]) \in Nat \ {0}
            /\ o[k + 1] = o[k] + Len(Writes[ms[k + 1]])
<1> TAKE k \in 0..Len(ms) - 1
<1>1. Len(ms) \in Nat /\ k + 1 \in 1..Len(ms) /\ k \in 0..Len(ms) /\ k + 1 \in 0..Len(ms) /\ (k + 1) - 1 = k
  BY DEF Ends
<1>2. ms[k + 1] \in AllGestures
  BY <1>1 DEF Ends
<1>3. o[k + 1] = o[k] + Len(Writes[ms[k + 1]]) /\ o[k] \in Nat /\ o[k + 1] \in Nat
  BY <1>1 DEF Ends
<1> QED BY <1>1, <1>2, <1>3, Sizes

\* Every byte is a gesture's.
LEMMA Whose ==
  ASSUME NEW ms, NEW o, Ends(ms, o), NEW p \in Nat, 0 < p, p <= o[Len(ms)]
  PROVE  \E k \in 0..Len(ms) - 1 : \E q \in 1..Len(Writes[ms[k + 1]]) : p = o[k] + q
<1> DEFINE S == {n \in Nat : n <= Len(ms) => o[n] < p}
<1>0. Len(ms) \in Nat /\ Len(ms) \in 0..Len(ms) /\ o[Len(ms)] \in Nat /\ o[0] = 0
  BY DEF Ends
<1>1. PICK n \in Nat : n \in S /\ n + 1 \notin S
  <2>1. 0 \in S /\ Len(ms) \notin S
    BY <1>0
  <2>2. S # Nat /\ S \in SUBSET Nat
    BY <1>0, <2>1
  <2> HIDE DEF S
  <2> QED BY <2>1, <2>2, Onwards
<1>2. n + 1 <= Len(ms) /\ ~(o[n + 1] < p) /\ n \in 0..Len(ms) - 1 /\ o[n] < p
  BY <1>0, <1>1
<1>3. o[n] \in Nat /\ o[n + 1] = o[n] + Len(Writes[ms[n + 1]]) /\ Len(Writes[ms[n + 1]]) \in Nat
  BY <1>2, EndsGrow
<1> DEFINE q == p - o[n]
<1>4. q \in 1..Len(Writes[ms[n + 1]]) /\ p = o[n] + q
  <2> DEFINE l == Len(Writes[ms[n + 1]])
  <2> HIDE DEF l
  <2>1. l \in Nat /\ o[n + 1] = o[n] + l
    BY <1>3 DEF l
  <2>2. q \in 1..l /\ p = o[n] + q
    BY <1>2, <1>3, <2>1
  <2> QED BY <2>2 DEF l
<1> QED BY <1>2, <1>4

\* d bytes into a gesture, what follows is the rest of it.
Lies(ms, o, c, b) ==
  \A i \in 1..Len(b) + 1, k \in 0..Len(ms) - 1, d \in Nat :
    c + i - 1 = o[k] + d
      => \A q \in 1..Len(Writes[ms[k + 1]]) - d :
            i + q - 1 <= Len(b) => b[i + q - 1] = Writes[ms[k + 1]][d + q]

\* The next gesture, from where the decoder stands.
LEMMA Ahead ==
  ASSUME NEW ms, NEW o, Ends(ms, o), NEW c, NEW b, Follows(ms, o, c, b)
  PROVE  Lies(ms, o, c, b)
<1> SUFFICES ASSUME NEW i \in 1..Len(b) + 1, NEW k \in 0..Len(ms) - 1, NEW d \in Nat, c + i - 1 = o[k] + d
             PROVE  \A q \in 1..Len(Writes[ms[k + 1]]) - d :
                      i + q - 1 <= Len(b) => b[i + q - 1] = Writes[ms[k + 1]][d + q]
  BY DEF Lies
<1> DEFINE l == Len(Writes[ms[k + 1]])
<1>0. c \in Nat /\ Len(b) \in Nat /\ i \in Nat /\ i >= 1 /\ o[k] \in Nat /\ l \in Nat /\ k + 1 \in 1..Len(ms)
      /\ (k + 1) - 1 = k
  BY EndsGrow DEF Follows
<1>1. \A r \in 1..l : c < o[k] + r /\ o[k] + r <= c + Len(b) => b[o[k] + r - c] = Writes[ms[k + 1]][r]
  BY <1>0 DEF Follows
<1> HIDE DEF l
<1>2. ASSUME NEW q \in 1..l - d, i + q - 1 <= Len(b) PROVE b[i + q - 1] = Writes[ms[k + 1]][d + q]
  <2> DEFINE e == o[k]
             n == Len(b)
  <2>0. e \in Nat /\ n \in Nat /\ c + i - 1 = e + d /\ i + q - 1 <= n
    BY <1>0, <1>2
  <2> HIDE DEF e, n
  <2>1. d + q \in 1..l
    BY <1>0, <1>2
  <2>2. c < e + (d + q) /\ e + (d + q) <= c + n /\ e + (d + q) - c = i + q - 1
    BY <1>0, <1>2, <2>0
  <2> QED BY <1>1, <2>1, <2>2 DEF e, n
<1> QED BY <1>2 DEF l

\* From place i, with k gestures decoded, an outcome t keeps to the stream: the
\* decoder waits, or comes to the next place with the events meant between.
Keeps(ms, o, c, b, lost, G, i, inp, k, t) ==
  \/ t.used = 0 /\ (~inp => Waits(ms, k, Len(b) + 1 - i))
  \/ /\ t.used # 0 /\ t.evs \in Seq(Told)
     /\ \E k2 \in 0..Len(ms) :
          /\ Stands(ms, o, lost, c + i + t.used - 1, t.opens, k2)
          /\ ~lost => G[k2] = G[k] \o t.evs

\* A decoder that stands in the stream decodes what is meant, or waits.
LEMMA PartTold ==
  ASSUME NEW ms, NEW o, NEW c, NEW b, NEW lost \in BOOLEAN, NEW G,
         Ends(ms, o), Follows(ms, o, c, b), Patient(ms, o, c), Sums(ms, G),
         NEW i \in 1..Len(b), NEW inp \in BOOLEAN, NEW k, Stands(ms, o, lost, c + i - 1, inp, k)
  PROVE  Keeps(ms, o, c, b, lost, G, i, inp, k, Part(b, i, inp))
<1> SUFFICES
         \/ Part(b, i, inp).used = 0 /\ (~inp => Waits(ms, k, Len(b) + 1 - i))
         \/ /\ Part(b, i, inp).used # 0 /\ Part(b, i, inp).evs \in Seq(Told)
            /\ \E k2 \in 0..Len(ms) :
                 /\ Stands(ms, o, lost, c + i + Part(b, i, inp).used - 1, Part(b, i, inp).opens, k2)
                 /\ ~lost => G[k2] = G[k] \o Part(b, i, inp).evs
  BY DEF Keeps
<1>0. /\ c \in Nat /\ Len(b) \in Nat /\ i \in Nat /\ i >= 1 /\ i <= Len(b) /\ i \in 1..Len(b) + 1 /\ b \in Seq(Bytes)
      /\ c + Len(b) <= o[Len(ms)] /\ Len(ms) \in Nat /\ k \in 0..Len(ms)
  BY DEF Follows, Ends, Stands
<1>G. \A j \in 0..Len(ms) : G[j] \in Seq(Told)
  BY DEF Sums
<1>1. CASE ~inp
  <2>0. Part(b, i, inp) = ParseOne(b)[i] /\ c + i - 1 = o[k]
    BY <1>1 DEF Part, Stands
  <2>1. k \in 0..Len(ms) - 1
    <3>1. k # Len(ms)
      <4>1. o[k] \in Nat
        BY <1>0 DEF Ends
      <4> QED BY <1>0, <2>0, <4>1
    <3> QED BY <1>0, <3>1
  <2> DEFINE g == ms[k + 1]
             l == Len(Writes[g])
  <2>2. /\ g \in AllGestures /\ l \in Nat \ {0} /\ o[k + 1] = o[k] + l /\ o[k] \in Nat /\ k + 1 \in 1..Len(ms)
        /\ k + 1 \in 0..Len(ms) /\ (k + 1) - 1 = k
    BY <2>1, EndsGrow
  <2>3. Spells(b, i, Writes[g])
    <3>0. PICK d \in Nat : d = 0
      OBVIOUS
    <3>1. c + i - 1 = o[k] + d
      BY <1>0, <2>0, <2>2, <3>0
    <3>2. \A q \in 1..l - d : i + q - 1 <= Len(b) => b[i + q - 1] = Writes[g][d + q]
      <4>1. Lies(ms, o, c, b)
        BY Ahead
      <4> QED BY <1>0, <2>1, <3>1, <4>1 DEF Lies
    <3> HIDE DEF l, g
    <3>3. l - d = l /\ \A q \in 1..l : d + q = q
      BY <2>2, <3>0
    <3>4. \A q \in 1..l : i + q - 1 <= Len(b) => b[i + q - 1] = Writes[g][q]
      BY <3>2, <3>3
    <3> QED BY <3>4 DEF Spells, l
  <2>4. Means[g] \in Seq(Told) /\ G[k + 1] = G[k] \o Means[g]
    BY <2>2, Meanings DEF Sums
  <2> HIDE DEF g
  <2>5. CASE g \in Simple
    <3>1. Taken(b, i, Writes[g], Means[g])
      BY <1>0, <2>3, <2>5, SimpleTaken
    <3> HIDE DEF l
    <3>2. CASE i + l - 1 <= Len(b)
      <4>1. Part(b, i, inp) = Outcome(l, Means[g], FALSE)
        BY <2>0, <3>1, <3>2 DEF Taken, l
      <4>2. c + i + l - 1 = o[k + 1]
        BY <1>0, <2>0, <2>2
      <4>3. Part(b, i, inp).used = l /\ Part(b, i, inp).evs = Means[g] /\ Part(b, i, inp).opens = FALSE
        BY <4>1 DEF Outcome
      <4>4. Stands(ms, o, lost, c + i + l - 1, FALSE, k + 1)
        BY <2>2, <4>2 DEF Stands
      <4> QED BY <2>2, <2>4, <4>3, <4>4
    <3>3. CASE ~(i + l - 1 <= Len(b))
      <4>1. Part(b, i, inp) = Incomplete
        BY <2>0, <3>1, <3>3 DEF Taken, l
      <4>2. Len(b) + 1 - i < l
        BY <1>0, <2>2, <3>3
      <4>3. Waits(ms, k, Len(b) + 1 - i)
        BY <1>0, <2>1, <4>2 DEF Waits, g, l
      <4> QED BY <4>1, <4>3 DEF Incomplete, Outcome
    <3> QED BY <3>2, <3>3
  <2>6. CASE g = "paste"
    <3>0. l = 10
      BY <2>6, Table
    <3> HIDE DEF l
    <3>1. IF i + 3 <= Len(b) THEN ParseOne(b)[i] = Outcome(4, <<>>, TRUE)
                             ELSE ParseOne(b)[i] = Incomplete
      BY <1>0, <2>3, <2>6, PasteOpens
    <3>2. CASE i + 3 <= Len(b)
      <4>1. Part(b, i, inp).used = 4 /\ Part(b, i, inp).evs = <<>> /\ Part(b, i, inp).opens = TRUE
        BY <2>0, <3>1, <3>2 DEF Outcome
      <4>2. c + i + 4 - 1 = o[k] + 4
        BY <1>0, <2>0
      <4>3. Stands(ms, o, lost, c + i + 4 - 1, TRUE, k)
        BY <1>0, <2>1, <2>6, <4>2 DEF Stands, g
      <4>4. G[k] = G[k] \o <<>> /\ <<>> \in Seq(Told)
        BY <1>0, <1>G
      <4>5. Stands(ms, o, lost, c + i + Part(b, i, inp).used - 1, Part(b, i, inp).opens, k)
        BY <4>1, <4>3
      <4> QED BY <1>0, <4>1, <4>4, <4>5
    <3>3. CASE ~(i + 3 <= Len(b))
      <4>1. Part(b, i, inp) = Incomplete
        BY <2>0, <3>1, <3>3
      <4>2. Len(b) + 1 - i < l
        BY <1>0, <3>0, <3>3
      <4>3. Waits(ms, k, Len(b) + 1 - i)
        BY <1>0, <2>1, <4>2 DEF Waits, g, l
      <4> QED BY <4>1, <4>3 DEF Incomplete, Outcome
    <3> QED BY <3>2, <3>3
  <2>7. CASE g \in {"escape", "altbrk"}
    <3>1. k + 1 = Len(ms)
      <4> SUFFICES ASSUME k + 1 # Len(ms) PROVE FALSE
        OBVIOUS
      <4>1. k + 1 \in 1..Len(ms) - 1
        BY <1>0, <2>1
      <4>2. o[k + 1] <= c
        BY <2>7, <4>1 DEF Patient, g
      <4> HIDE DEF l
      <4> QED BY <1>0, <2>0, <2>2, <4>2
    <3>2. Len(b) <= i + l - 1
      <4>1. c + Len(b) <= o[k + 1]
        BY <1>0, <3>1
      <4> HIDE DEF l
      <4> QED BY <1>0, <2>0, <2>2, <4>1
    <3>3. ParseOne(b)[i] = Incomplete
      BY <1>0, <2>3, <2>7, <3>2, EscapeWaits
    <3>4. Waits(ms, k, Len(b) + 1 - i)
      BY <1>0, <2>1, <2>7 DEF Waits, g
    <3> QED BY <2>0, <3>3, <3>4 DEF Incomplete, Outcome
  <2> QED BY <2>2, <2>5, <2>6, <2>7 DEF Simple
<1>2. CASE inp /\ ~lost
  <2>0. Part(b, i, inp) = PasteOne(b, i) /\ k < Len(ms) /\ ms[k + 1] = "paste" /\ c + i - 1 = o[k] + 4
    BY <1>2 DEF Part, Stands
  <2>1. k \in 0..Len(ms) - 1 /\ k + 1 \in 0..Len(ms) /\ k + 1 \in 1..Len(ms) /\ (k + 1) - 1 = k
    BY <1>0, <2>0
  <2>2. Len(Writes["paste"]) = 10 /\ 10 - 4 = 6 /\ 4 \in Nat
    BY Table
  <2>3. o[k + 1] = o[k] + 10 /\ o[k] \in Nat
    <3>1. o[k + 1] = o[k] + Len(Writes[ms[k + 1]]) /\ o[k] \in Nat
      BY <2>1, EndsGrow
    <3> QED BY <2>0, <2>2, <3>1
  <2>4. PICK d \in Nat : d = 4
    OBVIOUS
  <2>5. \A q \in 1..6 : i + q - 1 <= Len(b) => b[i + q - 1] = Writes["paste"][q + 4]
    <3>1. c + i - 1 = o[k] + d
      BY <2>0, <2>4
    <3>2. \A q \in 1..Len(Writes[ms[k + 1]]) - d :
            i + q - 1 <= Len(b) => b[i + q - 1] = Writes[ms[k + 1]][d + q]
      <4>1. Lies(ms, o, c, b)
        BY Ahead
      <4> QED BY <1>0, <2>1, <3>1, <4>1 DEF Lies
    <3>3. Len(Writes[ms[k + 1]]) - d = 6 /\ \A q \in 1..6 : d + q = q + 4
      BY <2>0, <2>2, <2>4
    <3> QED BY <2>0, <3>2, <3>3
  <2>6. IF i + 5 <= Len(b) THEN PasteOne(b, i) = Outcome(6, Means["paste"], FALSE)
                           ELSE PasteOne(b, i) = Incomplete
    BY <1>0, <2>5, PasteTaken
  <2>7. CASE i + 5 <= Len(b)
    <3>1. Part(b, i, inp).used = 6 /\ Part(b, i, inp).evs = Means["paste"] /\ Part(b, i, inp).opens = FALSE
      BY <2>0, <2>6, <2>7 DEF Outcome
    <3>2. c + i + 6 - 1 = o[k + 1]
      BY <1>0, <2>0, <2>3
    <3>3. Stands(ms, o, lost, c + i + 6 - 1, FALSE, k + 1)
      BY <2>1, <3>2 DEF Stands
    <3>4. "paste" \in AllGestures
      BY Table
    <3>5. Means["paste"] \in Seq(Told) /\ G[k + 1] = G[k] \o Means["paste"]
      BY <2>0, <2>1, <3>4, Meanings DEF Sums
    <3>6. Stands(ms, o, lost, c + i + Part(b, i, inp).used - 1, Part(b, i, inp).opens, k + 1)
      BY <3>1, <3>3
    <3>7. Part(b, i, inp).evs \in Seq(Told) /\ G[k + 1] = G[k] \o Part(b, i, inp).evs /\ Part(b, i, inp).used # 0
      BY <3>1, <3>5
    <3> QED BY <2>1, <3>6, <3>7
  <2>8. CASE ~(i + 5 <= Len(b))
    <3>1. Part(b, i, inp).used = 0
      BY <2>0, <2>6, <2>8 DEF Incomplete, Outcome
    <3> QED BY <1>2, <3>1
  <2> QED BY <2>7, <2>8
<1>3. CASE inp /\ lost
  <2>0. Part(b, i, inp) = PasteOne(b, i)
    BY <1>3 DEF Part
  <2>1. CASE PasteOne(b, i) = Incomplete
    <3>1. Part(b, i, inp).used = 0
      BY <2>0, <2>1 DEF Incomplete, Outcome
    <3> QED BY <1>3, <3>1
  <2>2. CASE PasteOne(b, i) # Incomplete
    <3>1. PICK m \in i..Len(b) - 3 :
            b[m + 2] = "201" /\ PasteOne(b, i) = Outcome(m + 4 - i, <<Paste(SubSeq(b, i, m - 1))>>, FALSE)
      BY <1>0, <2>2, PasteFound
    <3>2. /\ m \in Nat /\ m >= i /\ m + 3 <= Len(b) /\ m + 4 - i # 0 /\ c + i + (m + 4 - i) - 1 = c + m + 3
          /\ c + (m + 2) \in Nat /\ 0 < c + (m + 2) /\ c + (m + 2) <= c + Len(b) /\ o[Len(ms)] \in Nat
      BY <1>0, <3>1 DEF Ends
    <3>3. c + (m + 2) <= o[Len(ms)]
      BY <1>0, <3>2
    <3>4. PICK j \in 0..Len(ms) - 1 : \E q \in 1..Len(Writes[ms[j + 1]]) : c + (m + 2) = o[j] + q
      <4> DEFINE p == c + (m + 2)
      <4>1. p \in Nat /\ 0 < p /\ p <= o[Len(ms)]
        BY <3>2, <3>3
      <4> HIDE DEF p
      <4>2. \E j \in 0..Len(ms) - 1 : \E q \in 1..Len(Writes[ms[j + 1]]) : p = o[j] + q
        BY <4>1, Whose
      <4> QED BY <4>2 DEF p
    <3>5. PICK q \in 1..Len(Writes[ms[j + 1]]) : c + (m + 2) = o[j] + q
      BY <3>4
    <3>6. /\ j + 1 \in 1..Len(ms) /\ j + 1 \in 0..Len(ms) /\ (j + 1) - 1 = j /\ ms[j + 1] \in AllGestures
          /\ o[j] \in Nat /\ o[j + 1] = o[j] + Len(Writes[ms[j + 1]]) /\ Len(Writes[ms[j + 1]]) \in Nat
      BY <3>4, EndsGrow
    <3>7. Writes[ms[j + 1]][q] = "201"
      <4>1. c < o[(j + 1) - 1] + q /\ o[(j + 1) - 1] + q <= c + Len(b)
        <5>1. c < c + (m + 2)
          BY <1>0, <3>2
        <5> QED BY <3>2, <3>5, <3>6, <5>1
      <4>2. b[o[(j + 1) - 1] + q - c] = Writes[ms[j + 1]][q]
        BY <3>5, <3>6, <4>1 DEF Follows
      <4>3. o[(j + 1) - 1] + q - c = m + 2
        <5>2. o[j] \in Nat /\ q \in Nat /\ c \in Nat /\ o[(j + 1) - 1] = o[j]
          BY <1>0, <3>5, <3>6
        <5>3. m \in Nat
          BY <3>2
        <5>4. PICK e \in Nat : e = o[j]
          BY <5>2
        <5>5. o[j] + q - c = m + 2
          <6>1. c + (m + 2) = e + q
            BY <3>5, <5>4
          <6>2. e + q - c = m + 2
            BY <5>2, <5>3, <6>1
          <6> QED BY <5>4, <6>2
        <5> QED BY <5>2, <5>5
      <4> QED BY <3>1, <4>2, <4>3
    <3>8. ms[j + 1] = "paste" /\ q = 9
      BY <3>6, <3>7, OneMarker
    <3>9. c + m + 3 = o[j + 1]
      <4>1. Len(Writes["paste"]) = 10
        BY Table
      <4>2. o[j + 1] = o[j] + 10 /\ c + (m + 2) = o[j] + 9
        BY <3>5, <3>6, <3>8, <4>1
      <4>3. c + m + 3 = c + (m + 2) + 1
        BY <1>0, <3>2
      <4> QED BY <3>6, <4>2, <4>3
    <3>10. Stands(ms, o, lost, c + m + 3, FALSE, j + 1)
      BY <3>6, <3>9 DEF Stands
    <3>11. SubSeq(b, i, m - 1) \in Seq(Bytes)
      BY <1>0, <3>2
    <3>12. /\ Part(b, i, inp).used = m + 4 - i /\ Part(b, i, inp).opens = FALSE
           /\ Part(b, i, inp).evs = <<Paste(SubSeq(b, i, m - 1))>>
      BY <2>0, <3>1 DEF Outcome
    <3>13. Part(b, i, inp).evs \in Seq(Told)
      BY <3>11, <3>12, Meanings
    <3> QED BY <1>3, <3>2, <3>6, <3>10, <3>12, <3>13
  <2> QED BY <2>1, <2>2
<1> QED BY <1>1, <1>2, <1>3

\* Events are joined in any order.
LEMMA Joined == \A x, y, z \in Seq(Told) : (x \o y) \o z = x \o (y \o z)
BY ConcatAssociative

\* A result of feeding b from i on, where k gestures were decoded: what is kept
\* is the rest from some place the decoder can stand at.
Tells(ms, o, c, b, lost, G, i, k, r) ==
  /\ r \in [buf : Seq(Bytes), in_paste : BOOLEAN, evs : Seq(Told)]
  /\ \E j \in i..Len(b) + 1, k2 \in 0..Len(ms) :
       /\ r.buf = SubSeq(b, j, Len(b))
       /\ Stands(ms, o, lost, c + j - 1, r.in_paste, k2)
       /\ ~lost => G[k2] = G[k] \o r.evs
       /\ ~r.in_paste => j = Len(b) + 1 \/ Waits(ms, k2, Len(b) + 1 - j)

\* A decoder that stands in the stream is fed what is meant, and what it keeps
\* begins at such a place again.
LEMMA FeedTold ==
  ASSUME NEW ms, NEW o, NEW c, NEW b, NEW lost \in BOOLEAN, NEW G,
         Ends(ms, o), Follows(ms, o, c, b), Patient(ms, o, c), Sums(ms, G),
         NEW pasting \in BOOLEAN, NEW n, Stands(ms, o, lost, c, pasting, n)
  PROVE  Tells(ms, o, c, b, lost, G, 1, n, Feed(b, pasting))
<1> DEFINE N == Len(b) + 1
<1>0. c \in Nat /\ Len(b) \in Nat /\ b \in Seq(Bytes) /\ N \in Nat /\ Len(ms) \in Nat
  BY DEF Follows, Ends
<1>1. PICK f : /\ \A i \in 1..Len(b) + 1, inp \in BOOLEAN : f[i][inp] = FeedBody(b, f, i, inp)
               /\ Feed(b, pasting) = f[1][pasting]
  BY <1>0, FeedOK
<1> DEFINE Fine(i) == \A inp \in BOOLEAN, k \in 0..Len(ms) :
                        Stands(ms, o, lost, c + i - 1, inp, k)
                          => Tells(ms, o, c, b, lost, G, i, k, f[i][inp])
           All == {m \in Nat : \A i \in 1..N : N - i <= m => Fine(i)}
<1>2. ASSUME NEW i \in 1..N, \A i2 \in i + 1..N : Fine(i2) PROVE Fine(i)
  <2> SUFFICES ASSUME NEW inp \in BOOLEAN, NEW k \in 0..Len(ms), Stands(ms, o, lost, c + i - 1, inp, k)
               PROVE  Tells(ms, o, c, b, lost, G, i, k, f[i][inp])
    OBVIOUS
  <2>1. f[i][inp] = FeedBody(b, f, i, inp)
    BY <1>1
  <2>2. G[k] \in Seq(Told)
    BY DEF Sums
  <2>3. CASE i > Len(b) \/ Part(b, i, inp).used = 0
    <3> DEFINE r == [buf |-> SubSeq(b, i, Len(b)), in_paste |-> inp, evs |-> <<>>]
    <3>1. f[i][inp] = r
      BY <2>1, <2>3 DEF FeedBody
    <3>2. SubSeq(b, i, Len(b)) \in Seq(Bytes) /\ <<>> \in Seq(Told) /\ G[k] = G[k] \o <<>>
      BY <1>0, <2>2
    <3>3. r \in [buf : Seq(Bytes), in_paste : BOOLEAN, evs : Seq(Told)]
      BY <3>2
    <3>4. ~inp => i = Len(b) + 1 \/ Waits(ms, k, Len(b) + 1 - i)
      <4>1. CASE i > Len(b)
        BY <1>0, <4>1
      <4>2. CASE i \in 1..Len(b) /\ Part(b, i, inp).used = 0
        <5>1. Keeps(ms, o, c, b, lost, G, i, inp, k, Part(b, i, inp))
          BY <4>2, PartTold
        <5> QED BY <4>2, <5>1 DEF Keeps
      <4> QED BY <1>0, <2>3, <4>1, <4>2
    <3>5. r.buf = SubSeq(b, i, Len(b)) /\ r.in_paste = inp /\ r.evs = <<>>
      OBVIOUS
    <3> HIDE DEF r
    <3>6. i \in i..Len(b) + 1
      BY <1>0
    <3>7. Tells(ms, o, c, b, lost, G, i, k, r)
      BY <3>2, <3>3, <3>4, <3>5, <3>6 DEF Tells
    <3> QED BY <3>1, <3>7
  <2>4. CASE ~(i > Len(b) \/ Part(b, i, inp).used = 0)
    <3> DEFINE t == Part(b, i, inp)
               i2 == i + t.used
               next == f[i2][t.opens]
    <3>0. i \in 1..Len(b)
      BY <1>0, <2>4
    <3>1. f[i][inp] = [next EXCEPT !.evs = t.evs \o @]
      BY <2>1, <2>4 DEF FeedBody
    <3>2. t.used \in 0..Len(b) + 1 - i /\ t.opens \in BOOLEAN /\ t.used # 0
      <4>1. Within(b, i, Part(b, i, inp))
        BY PartWithin, <1>0
      <4> QED BY <2>4, <4>1 DEF Within
    <3>3. /\ t.evs \in Seq(Told)
          /\ \E k2 \in 0..Len(ms) :
                 /\ Stands(ms, o, lost, c + i + t.used - 1, t.opens, k2)
                 /\ ~lost => G[k2] = G[k] \o t.evs
      <4>1. Keeps(ms, o, c, b, lost, G, i, inp, k, Part(b, i, inp))
        BY <3>0, PartTold
      <4> QED BY <2>4, <4>1 DEF Keeps
    <3> HIDE DEF t
    <3>4. i2 \in i + 1..N /\ c + i + t.used - 1 = c + i2 - 1
      BY <1>0, <3>0, <3>2
    <3> HIDE DEF i2, Fine
    <3>5. PICK k2 \in 0..Len(ms) : Stands(ms, o, lost, c + i2 - 1, t.opens, k2) /\ (~lost => G[k2] = G[k] \o t.evs)
      BY <3>3, <3>4
    <3>6. Tells(ms, o, c, b, lost, G, i2, k2, next)
      BY <1>2, <3>2, <3>4, <3>5 DEF Fine
    <3> HIDE DEF next
    <3>7. next \in [buf : Seq(Bytes), in_paste : BOOLEAN, evs : Seq(Told)]
      BY <3>6 DEF Tells
    <3> DEFINE r == [next EXCEPT !.evs = t.evs \o @]
    <3>8. r.buf = next.buf /\ r.in_paste = next.in_paste /\ r.evs = t.evs \o next.evs
      BY <3>7
    <3>9. t.evs \o next.evs \in Seq(Told) /\ next.evs \in Seq(Told)
      BY <3>3, <3>7
    <3>10. r \in [buf : Seq(Bytes), in_paste : BOOLEAN, evs : Seq(Told)]
      BY <3>7, <3>9
    <3> HIDE DEF r
    <3>11. PICK j \in i2..Len(b) + 1, k3 \in 0..Len(ms) :
             /\ next.buf = SubSeq(b, j, Len(b))
             /\ Stands(ms, o, lost, c + j - 1, next.in_paste, k3)
             /\ ~lost => G[k3] = G[k2] \o next.evs
             /\ ~next.in_paste => j = Len(b) + 1 \/ Waits(ms, k3, Len(b) + 1 - j)
      BY <3>6 DEF Tells
    <3>12. ~lost => G[k3] = G[k] \o (t.evs \o next.evs)
      <4>1. (G[k] \o t.evs) \o next.evs = G[k] \o (t.evs \o next.evs)
        <5>1. t.evs \in Seq(Told)
          BY <3>3
        <5> QED BY <2>2, <3>9, <5>1, Joined
      <4> QED BY <3>5, <3>11, <4>1
    <3>13. j \in i..Len(b) + 1
      BY <1>0, <3>0, <3>4, <3>11
    <3>14. Tells(ms, o, c, b, lost, G, i, k, r)
      BY <3>8, <3>10, <3>11, <3>12, <3>13 DEF Tells
    <3> QED BY <3>1, <3>14 DEF r
  <2> QED BY <2>3, <2>4
<1> HIDE DEF Fine
<1>3. 0 \in All
  <2>1. ASSUME NEW i \in 1..N, N - i <= 0 PROVE Fine(i)
    <3>1. i + 1..N = {}
      BY <1>0, <2>1
    <3> QED BY <1>2, <3>1
  <2> QED BY <2>1
<1>4. ASSUME NEW m \in Nat, m \in All PROVE m + 1 \in All
  <2>1. ASSUME NEW i \in 1..N, N - i <= m + 1 PROVE Fine(i)
    <3>1. \A i2 \in i + 1..N : i2 \in 1..N /\ N - i2 <= m
      BY <1>0, <2>1
    <3> QED BY <1>2, <1>4, <3>1
  <2> QED BY <2>1
<1>5. All = Nat
  <2>1. All \in SUBSET Nat
    OBVIOUS
  <2> HIDE DEF All
  <2> QED BY <1>3, <1>4, <2>1, Onwards
<1>6. Fine(1)
  <2>1. Len(b) \in All /\ 1 \in 1..N /\ N - 1 <= Len(b)
    BY <1>0, <1>5
  <2> QED BY <2>1
<1>7. c + 1 - 1 = c /\ n \in 0..Len(ms)
  BY <1>0 DEF Stands
<1> QED BY <1>1, <1>6, <1>7 DEF Fine

(***************************************************************************)
(* The stream moves on.                                                    *)
(***************************************************************************)
\* The ends of later gestures lie further on.
LEMMA EndsUp ==
  ASSUME NEW ms, NEW o, Ends(ms, o)
  PROVE  \A n \in 0..Len(ms) : \A j \in 0..n : o[j] <= o[n]
<1> DEFINE S == {n \in Nat : n <= Len(ms) => \A j \in 0..n : o[j] <= o[n]}
<1>0. Len(ms) \in Nat /\ \A j \in 0..Len(ms) : o[j] \in Nat
  BY DEF Ends
<1>1. 0 \in S
  <2>1. \A j \in 0..0 : j = 0
    OBVIOUS
  <2>2. o[0] <= o[0]
    BY <1>0
  <2> QED BY <2>1, <2>2
<1>2. ASSUME NEW n \in Nat, n \in S PROVE n + 1 \in S
  <2> SUFFICES ASSUME n + 1 <= Len(ms), NEW j \in 0..n + 1 PROVE o[j] <= o[n + 1]
    OBVIOUS
  <2>1. n \in 0..Len(ms) - 1 /\ n + 1 \in 0..Len(ms) /\ n <= Len(ms)
    BY <1>0
  <2>2. o[n + 1] = o[n] + Len(Writes[ms[n + 1]]) /\ Len(Writes[ms[n + 1]]) \in Nat /\ o[n] \in Nat
    BY <2>1, EndsGrow
  <2>3. o[n] <= o[n + 1]
    BY <2>2
  <2>4. CASE j = n + 1
    BY <1>0, <2>1, <2>4
  <2>5. CASE j \in 0..n
    <3>1. o[j] <= o[n] /\ o[j] \in Nat /\ o[n + 1] \in Nat
      BY <1>0, <1>2, <2>1, <2>5
    <3> QED BY <2>2, <2>3, <3>1
  <2> QED BY <2>4, <2>5
<1>3. S = Nat
  <2>1. S \in SUBSET Nat
    OBVIOUS
  <2> HIDE DEF S
  <2> QED BY <1>1, <1>2, <2>1, Onwards
<1> QED BY <1>0, <1>3

\* The ends are numbers.
LEMMA EndsNat ==
  ASSUME NEW ms, NEW o, Ends(ms, o)
  PROVE  Len(ms) \in Nat /\ o[Len(ms)] \in Nat /\ \A k \in 1..Len(ms) : o[k - 1] \in Nat
<1>1. Len(ms) \in Nat /\ \A j \in 0..Len(ms) : o[j] \in Nat
  BY DEF Ends
<1>2. Len(ms) \in 0..Len(ms) /\ \A k \in 1..Len(ms) : k - 1 \in 0..Len(ms)
  BY <1>1
<1> QED BY <1>1, <1>2

\* b is the beginning of s, and what is in s from d bytes on.
Starts(b, s) == Len(b) <= Len(s) /\ \A x \in 1..Len(b) : b[x] = s[x]
Beyond(b, s, d) == Len(b) = Len(s) - d /\ \A x \in 1..Len(b) : b[x] = s[x + d]

\* The beginning of what follows follows.
LEMMA Begins ==
  ASSUME NEW ms, NEW o, NEW c, NEW s \in Seq(Bytes), NEW b \in Seq(Bytes), Ends(ms, o), Follows(ms, o, c, s),
         Starts(b, s)
  PROVE  Follows(ms, o, c, b)
<1>0. c \in Nat /\ Len(s) \in Nat /\ Len(b) \in Nat /\ c + Len(s) <= o[Len(ms)] /\ o[Len(ms)] \in Nat
      /\ \A k \in 1..Len(ms) : o[k - 1] \in Nat
  <2>1. o[Len(ms)] \in Nat /\ \A k \in 1..Len(ms) : o[k - 1] \in Nat
    BY EndsNat
  <2>3. c \in Nat /\ s \in Seq(Bytes) /\ c + Len(s) <= o[Len(ms)]
    BY DEF Follows
  <2>4. Len(s) \in Nat /\ Len(b) \in Nat
    BY <2>3
  <2> QED BY <2>1, <2>3, <2>4
<1>1. c + Len(b) <= o[Len(ms)] /\ Len(b) <= Len(s)
  BY <1>0 DEF Starts
<1>2. ASSUME NEW k \in 1..Len(ms), NEW q \in 1..Len(Writes[ms[k]]), c < o[k - 1] + q, o[k - 1] + q <= c + Len(b)
      PROVE  b[o[k - 1] + q - c] = Writes[ms[k]][q]
  <2>1. q \in Nat
    OBVIOUS
  <2> DEFINE e == o[k - 1]
             x == e + q - c
  <2>2. e \in Nat /\ c < e + q /\ e + q <= c + Len(b)
    BY <1>0, <1>2
  <2> HIDE DEF e
  <2>3. x \in 1..Len(b) /\ e + q <= c + Len(s)
    BY <1>0, <1>1, <2>1, <2>2
  <2>4. s[x] = Writes[ms[k]][q]
    BY <2>2, <2>3 DEF Follows, e
  <2> HIDE DEF x
  <2>5. b[x] = s[x]
    BY <2>3 DEF Starts
  <2> QED BY <2>4, <2>5 DEF x, e
<1> QED BY <1>0, <1>1, <1>2 DEF Follows

\* What is left when d bytes are gone follows d bytes later.
LEMMA Behind ==
  ASSUME NEW ms, NEW o, NEW c, NEW s \in Seq(Bytes), NEW b \in Seq(Bytes), Ends(ms, o), Follows(ms, o, c, s),
         NEW d \in 0..Len(s), Beyond(b, s, d)
  PROVE  Follows(ms, o, c + d, b)
<1>a. c \in Nat /\ Len(s) \in Nat /\ Len(b) \in Nat /\ c + Len(s) <= o[Len(ms)] /\ o[Len(ms)] \in Nat
      /\ \A k \in 1..Len(ms) : o[k - 1] \in Nat
  <2>1. o[Len(ms)] \in Nat /\ \A k \in 1..Len(ms) : o[k - 1] \in Nat
    BY EndsNat
  <2>3. c \in Nat /\ s \in Seq(Bytes) /\ c + Len(s) <= o[Len(ms)]
    BY DEF Follows
  <2>4. Len(s) \in Nat /\ Len(b) \in Nat
    BY <2>3
  <2> QED BY <2>1, <2>3, <2>4
<1>0. c \in Nat /\ Len(s) \in Nat /\ Len(b) \in Nat /\ d \in Nat /\ c + Len(s) <= o[Len(ms)] /\ o[Len(ms)] \in Nat
      /\ \A k \in 1..Len(ms) : o[k - 1] \in Nat
  BY <1>a
<1>1. c + d \in Nat /\ (c + d) + Len(b) = c + Len(s)
  <2>1. Len(b) = Len(s) - d
    BY DEF Beyond
  <2> QED BY <1>0, <2>1
<1>2. ASSUME NEW k \in 1..Len(ms), NEW q \in 1..Len(Writes[ms[k]]),
             c + d < o[k - 1] + q, o[k - 1] + q <= (c + d) + Len(b)
      PROVE  b[o[k - 1] + q - (c + d)] = Writes[ms[k]][q]
  <2>1. q \in Nat
    OBVIOUS
  <2> DEFINE e == o[k - 1]
             x == e + q - (c + d)
  <2>2. e \in Nat /\ c + d < e + q /\ e + q <= (c + d) + Len(b)
    BY <1>0, <1>2
  <2> HIDE DEF e
  <2>3. x \in 1..Len(b) /\ x + d = e + q - c /\ c < e + q /\ e + q <= c + Len(s)
    BY <1>0, <1>1, <2>1, <2>2
  <2>4. s[e + q - c] = Writes[ms[k]][q]
    BY <2>2, <2>3 DEF Follows, e
  <2> HIDE DEF x
  <2>5. b[x] = s[x + d]
    BY <2>3 DEF Beyond
  <2> QED BY <2>3, <2>4, <2>5 DEF x, e
<1> QED BY <1>0, <1>1, <1>2 DEF Follows

\* Where the decoder comes to when it is fed the first of what follows.
Goes(ms, o, lost, G, k, rest, r) ==
  /\ r \in [buf : Seq(Bytes), in_paste : BOOLEAN, evs : Seq(Told)]
  /\ \E c2, k2 :
       /\ Follows(ms, o, c2, r.buf \o rest) /\ c2 + Len(r.buf \o rest) = o[Len(ms)]
       /\ Patient(ms, o, c2)
       /\ Stands(ms, o, lost, c2, r.in_paste, k2)
       /\ ~lost => G[k2] = G[k] \o r.evs
       /\ ~r.in_paste => r.buf = <<>> \/ Waits(ms, k2, Len(r.buf))

\* Feeding keeps the decoder in the stream.
LEMMA FeedGoes ==
  ASSUME NEW ms, NEW o, NEW c, NEW lost \in BOOLEAN, NEW G,
         NEW b \in Seq(Bytes), NEW rest \in Seq(Bytes), NEW s \in Seq(Bytes), s = b \o rest,
         Ends(ms, o), Follows(ms, o, c, s), c + Len(s) = o[Len(ms)], Patient(ms, o, c), Sums(ms, G),
         NEW inp \in BOOLEAN, NEW k, Stands(ms, o, lost, c, inp, k)
  PROVE  Goes(ms, o, lost, G, k, rest, Feed(b, inp))
<1>0. c \in Nat /\ Len(b) \in Nat /\ Len(rest) \in Nat /\ s \in Seq(Bytes) /\ Len(s) = Len(b) + Len(rest)
      /\ Len(ms) \in Nat
  BY DEF Follows, Ends
<1>1. (\A x \in 1..Len(b) : b[x] = s[x]) /\ \A x \in 1..Len(rest) : s[x + Len(b)] = rest[x]
  <2>1. \A x \in 1..Len(b) : x \in 1..Len(b) + Len(rest)
    BY <1>0
  <2>2. \A x \in 1..Len(rest) : x + Len(b) \in 1..Len(b) + Len(rest) /\ x + Len(b) > Len(b) /\ (x + Len(b)) - Len(b) = x
    BY <1>0
  <2> QED BY <1>0, <2>1, <2>2
<1>2. Follows(ms, o, c, b)
  <2>1. Len(b) <= Len(s)
    BY <1>0
  <2>2. Starts(b, s)
    BY <1>1, <2>1 DEF Starts
  <2> QED BY <2>1, <2>2, Begins
<1> DEFINE r == Feed(b, inp)
<1>3. Tells(ms, o, c, b, lost, G, 1, k, r)
  BY <1>2, FeedTold
<1> HIDE DEF r
<1>4. r \in [buf : Seq(Bytes), in_paste : BOOLEAN, evs : Seq(Told)]
  BY <1>3 DEF Tells
<1>5. PICK j \in 1..Len(b) + 1, k2 \in 0..Len(ms) :
       /\ r.buf = SubSeq(b, j, Len(b))
       /\ Stands(ms, o, lost, c + j - 1, r.in_paste, k2)
       /\ ~lost => G[k2] = G[k] \o r.evs
       /\ ~r.in_paste => j = Len(b) + 1 \/ Waits(ms, k2, Len(b) + 1 - j)
  BY <1>3 DEF Tells
<1> DEFINE d == j - 1
           u == r.buf
           left == u \o rest
<1>6. d \in 0..Len(s) /\ d <= Len(b) /\ c + j - 1 = c + d /\ d \in Nat
  BY <1>0, <1>5
<1>7. u \in Seq(Bytes) /\ Len(u) = Len(b) - d /\ \A x \in 1..Len(u) : u[x] = b[x + d]
  <2>1. u = SubSeq(b, d + 1, Len(b))
    BY <1>0, <1>5
  <2> HIDE DEF u, d
  <2> QED BY <1>0, <1>6, <2>1
<1> HIDE DEF d, u
<1>8. left \in Seq(Bytes) /\ Len(left) = Len(s) - d
  <2>1. u \in Seq(Bytes) /\ Len(u) = Len(b) - d
    BY <1>7
  <2>2. left \in Seq(Bytes) /\ Len(left) = Len(u) + Len(rest)
    BY <2>1
  <2> HIDE DEF left
  <2> QED BY <1>0, <1>6, <2>1, <2>2
<1>9. ASSUME NEW x \in 1..Len(left) PROVE left[x] = s[x + d]
  <2>1. CASE x <= Len(u)
    <3>1. x \in 1..Len(u) /\ x + d \in 1..Len(b)
      BY <1>0, <1>6, <1>7, <2>1
    <3>2. left[x] = u[x]
      BY <1>7, <3>1
    <3> QED BY <1>1, <1>7, <3>1, <3>2
  <2>2. CASE ~(x <= Len(u))
    <3> DEFINE y == x - Len(u)
    <3>0. Len(left) = Len(s) - d /\ Len(u) = Len(b) - d /\ u \in Seq(Bytes) /\ left \in Seq(Bytes)
      BY <1>7, <1>8
    <3>1. y \in 1..Len(rest) /\ x + d = y + Len(b)
      <4> HIDE DEF left
      <4> QED BY <1>0, <1>6, <2>2, <3>0
    <3>2. left[x] = rest[y]
      <4>1. x \in 1..Len(u) + Len(rest)
        <5> HIDE DEF left
        <5> QED BY <1>0, <1>6, <3>0
      <4> QED BY <1>0, <2>2, <3>0, <4>1
    <3> HIDE DEF y
    <3> QED BY <1>1, <3>1, <3>2
  <2> QED BY <2>1, <2>2
<1> HIDE DEF left
<1>10. Follows(ms, o, c + d, left) /\ (c + d) + Len(left) = c + Len(s)
  <2>1. d \in 0..Len(s) /\ left \in Seq(Bytes) /\ Len(left) = Len(s) - d
    BY <1>6, <1>8
  <2>2. Beyond(left, s, d)
    BY <1>9, <2>1 DEF Beyond
  <2>3. Follows(ms, o, c + d, left)
    BY <2>1, <2>2, Behind
  <2>4. (c + d) + Len(left) = c + Len(s)
    BY <1>0, <1>6, <2>1
  <2> QED BY <2>3, <2>4
<1>11. Patient(ms, o, c + d)
  <2>1. ASSUME NEW m \in 1..Len(ms) - 1, o[m] <= c PROVE o[m] <= c + d
    <3>1. o[m] \in Nat
      <4>1. m + 1 \in 1..Len(ms) /\ (m + 1) - 1 = m
        BY <1>0
      <4>2. o[(m + 1) - 1] \in Nat
        BY <4>1, EndsNat
      <4> QED BY <4>1, <4>2
    <3> QED BY <1>0, <1>6, <2>1, <3>1
  <2> QED BY <2>1 DEF Patient
<1>12. ~r.in_paste => u = <<>> \/ Waits(ms, k2, Len(u))
  <2>1. CASE j = Len(b) + 1
    <3>1. Len(u) = 0
      BY <1>0, <1>7, <2>1 DEF d
    <3> QED BY <1>7, <3>1
  <2>2. CASE j # Len(b) + 1
    <3>1. Len(u) = Len(b) + 1 - j
      BY <1>0, <1>5, <1>7 DEF d
    <3> QED BY <1>5, <2>2, <3>1
  <2> QED BY <2>1, <2>2
<1>13. Goes(ms, o, lost, G, k, rest, r)
  <2>1. Stands(ms, o, lost, c + d, r.in_paste, k2)
    BY <1>5, <1>6
  <2>2. Follows(ms, o, c + d, r.buf \o rest) /\ (c + d) + Len(r.buf \o rest) = o[Len(ms)]
    BY <1>10 DEF left, u
  <2>3. ~r.in_paste => r.buf = <<>> \/ Waits(ms, k2, Len(r.buf))
    BY <1>12 DEF u
  <2> QED BY <1>4, <1>5, <1>11, <2>1, <2>2, <2>3 DEF Goes
<1> QED BY <1>13 DEF r

(***************************************************************************)
(* The events of all the gestures.                                         *)
(***************************************************************************)
\* What the gestures meant is what their events come to.
LEMMA SumOK ==
  ASSUME NEW ms \in Seq(AllGestures), NEW G, Sums(ms, G)
  PROVE  FlattenSeq([k \in DOMAIN ms |-> Means[ms[k]]]) = G[Len(ms)]
<1> DEFINE n == Len(ms)
           ss == [k \in DOMAIN ms |-> Means[ms[k]]]
           F(f, i) == IF i = 1 THEN ss[i] ELSE f[i - 1] \o ss[i]
           flat == CHOOSE f : f = [i \in 1..Len(ss) |-> F(f, i)]
<1>0. n \in Nat /\ DOMAIN ms = 1..n
  OBVIOUS
<1>1. Len(ss) = n /\ \A k \in 1..n : ss[k] = Means[ms[k]] /\ ss[k] \in Seq(Told)
  <2>1. \A k \in 1..n : Means[ms[k]] \in Seq(Told)
    BY <1>0, Meanings
  <2>2. ss \in Seq(Seq(Told)) /\ Len(ss) = n
    BY <1>0, <2>1
  <2> QED BY <1>0, <2>1, <2>2
<1>2. G[0] = <<>> /\ \A k \in 1..n : G[k] = G[k - 1] \o ss[k] /\ G[k - 1] \in Seq(Told) /\ G[k] \in Seq(Told)
  <2>1. \A k \in 1..n : k - 1 \in 0..n /\ k \in 0..n
    BY <1>0
  <2> HIDE DEF ss
  <2> QED BY <1>1, <2>1 DEF Sums
<1>F. n # 0 => G[1] = ss[1] /\ 1 \in 1..n
  <2> HIDE DEF ss
  <2> SUFFICES ASSUME n # 0 PROVE G[1] = ss[1] /\ 1 \in 1..n
    OBVIOUS
  <2>1. PICK i \in 1..n : i = 1
    BY <1>0
  <2>2. i - 1 = 0 /\ ss[i] \in Seq(Told) /\ G[i] = G[i - 1] \o ss[i]
    <3>1. i - 1 = 0
      BY <2>1
    <3>2. G[i] = G[i - 1] \o ss[i]
      BY <1>2
    <3>3. ss[i] \in Seq(Told)
      BY <1>1
    <3> QED BY <3>1, <3>2, <3>3
  <2>3. <<>> \o ss[i] = ss[i]
    BY <2>2
  <2>4. G[i - 1] = <<>>
    BY <1>2, <2>2
  <2> QED BY <2>1, <2>2, <2>3, <2>4
<1>3. CASE n = 0
  <2>1. ss = <<>>
    BY <1>0, <1>3
  <2> QED BY <1>2, <1>3, <2>1 DEF FlattenSeq
<1>4. CASE n # 0
  <2> DEFINE g == [i \in 1..n |-> G[i]]
  <2> HIDE DEF ss
  <2>1. g = [i \in 1..Len(ss) |-> F(g, i)]
    <3>1. ASSUME NEW i \in 1..n PROVE g[i] = F(g, i)
      <4>1. CASE i = 1
        BY <1>F, <1>4, <4>1
      <4>2. CASE i # 1
        <5>1. i - 1 \in 1..n
          BY <1>0, <4>2
        <5> QED BY <1>2, <4>2, <5>1
      <4> QED BY <4>1, <4>2
    <3>2. g = [i \in 1..n |-> g[i]]
      OBVIOUS
    <3> HIDE DEF g, F
    <3> QED BY <1>1, <3>1, <3>2
  <2>2. flat = [i \in 1..n |-> F(flat, i)]
    <3> HIDE DEF g
    <3>1. flat = [i \in 1..Len(ss) |-> F(flat, i)]
      BY <2>1
    <3> QED BY <1>1, <3>1
  <2>3. FlattenSeq(ss) = flat[n]
    BY <1>1, <1>4 DEF FlattenSeq
  <2> DEFINE S == {i \in Nat : i + 1 <= n => flat[i + 1] = G[i + 1]}
  <2> HIDE DEF flat
  <2>4. \A i \in 1..n : flat[i] = F(flat, i)
    BY <2>2
  <2>5. 0 \in S
    <3>1. flat[1] = F(flat, 1)
      BY <1>F, <1>4, <2>4
    <3>2. flat[1] = G[1]
      BY <1>F, <1>4, <3>1
    <3> QED BY <3>2
  <2>6. ASSUME NEW i \in Nat, i \in S PROVE i + 1 \in S
    <3> SUFFICES ASSUME (i + 1) + 1 <= n PROVE flat[(i + 1) + 1] = G[(i + 1) + 1]
      OBVIOUS
    <3> DEFINE j == (i + 1) + 1
    <3>1. j \in 1..n /\ j # 1 /\ j - 1 = i + 1 /\ i + 1 <= n
      BY <1>0
    <3>2. flat[i + 1] = G[i + 1]
      BY <2>6, <3>1
    <3> HIDE DEF j
    <3>3. flat[j] = flat[j - 1] \o ss[j] /\ G[j] = G[j - 1] \o ss[j]
      BY <1>2, <2>4, <3>1
    <3> QED BY <3>1, <3>2, <3>3 DEF j
  <2>7. S = Nat
    <3>1. S \in SUBSET Nat
      OBVIOUS
    <3> HIDE DEF S
    <3> QED BY <2>5, <2>6, <3>1, Onwards
  <2>8. n - 1 \in Nat /\ (n - 1) + 1 = n
    BY <1>0, <1>4
  <2>9. flat[n] = G[n]
    <3>1. (n - 1) + 1 <= n
      BY <1>0
    <3>2. n - 1 \in S
      <4> HIDE DEF S
      <4> QED BY <2>7, <2>8
    <3>3. flat[(n - 1) + 1] = G[(n - 1) + 1]
      BY <3>1, <3>2
    <3> QED BY <2>8, <3>3
  <2> QED BY <2>3, <2>9 DEF ss
<1> QED BY <1>3, <1>4

\* The events of the first gestures come first.
LEMMA SumPrefix ==
  ASSUME NEW ms \in Seq(AllGestures), NEW G, Sums(ms, G), NEW k \in 0..Len(ms)
  PROVE  IsPrefix(G[k], G[Len(ms)])
<1> DEFINE n == Len(ms)
           Up(i) == Len(G[k]) <= Len(G[i]) /\ \A x \in 1..Len(G[k]) : G[i][x] = G[k][x]
           S == {i \in Nat : k + i <= n => Up(k + i)}
<1>0. n \in Nat /\ k \in Nat /\ G[k] \in Seq(Told) /\ Len(G[k]) \in Nat
  <2>1. G[k] \in Seq(Told)
    BY DEF Sums
  <2> QED BY <2>1
<1>1. 0 \in S
  <2>1. k + 0 = k
    BY <1>0
  <2> QED BY <1>0, <2>1
<1>2. ASSUME NEW i \in Nat, i \in S PROVE i + 1 \in S
  <2> SUFFICES ASSUME k + (i + 1) <= n PROVE Up(k + (i + 1))
    OBVIOUS
  <2> DEFINE j == k + (i + 1)
  <2>1. j \in 1..n /\ j - 1 = k + i /\ k + i <= n /\ j - 1 \in 0..n
    BY <1>0
  <2>2. Up(k + i)
    BY <1>2, <2>1
  <2> HIDE DEF j
  <2>3. G[j] = G[j - 1] \o Means[ms[j]] /\ G[j - 1] \in Seq(Told) /\ Means[ms[j]] \in Seq(Told)
    <3>1. ms[j] \in AllGestures
      BY <1>0, <2>1
    <3>2. Means[ms[j]] \in Seq(Told)
      BY <3>1, Meanings
    <3>3. G[j] = G[j - 1] \o Means[ms[j]]
      BY <2>1 DEF Sums
    <3>4. G[j - 1] \in Seq(Told)
      BY <2>1 DEF Sums
    <3> QED BY <3>2, <3>3, <3>4
  <2> DEFINE u == G[j - 1]
             v == Means[ms[j]]
             w == G[k]
  <2>4. Len(w) <= Len(u) /\ \A x \in 1..Len(w) : u[x] = w[x]
    BY <2>1, <2>2
  <2> HIDE DEF u, v, w, Up
  <2>5. u \in Seq(Told) /\ v \in Seq(Told) /\ w \in Seq(Told)
    BY <1>0, <2>3 DEF u, v, w
  <2>6. Len(w) <= Len(u \o v) /\ \A x \in 1..Len(w) : (u \o v)[x] = w[x]
    BY <2>4, <2>5
  <2> QED BY <2>3, <2>6 DEF Up, u, v, w, j
<1>3. S = Nat
  <2>1. S \in SUBSET Nat
    OBVIOUS
  <2> HIDE DEF S
  <2> QED BY <1>1, <1>2, <2>1, Onwards
<1>4. Up(n)
  <2>1. n - k \in Nat /\ k + (n - k) = n
    BY <1>0
  <2>2. n - k \in S
    BY <1>3, <2>1
  <2> HIDE DEF Up
  <2> QED BY <1>0, <2>1, <2>2
<1>5. G[n] \in Seq(Told)
  BY <1>0 DEF Sums
<1> DEFINE s == G[k]
           t == G[n]
<1>6. s \in Seq(Told) /\ t \in Seq(Told) /\ Len(s) <= Len(t) /\ \A x \in 1..Len(s) : t[x] = s[x]
  BY <1>0, <1>4, <1>5
<1> HIDE DEF s, t, Up
<1> DEFINE a == SubSeq(s, 1, Len(s))
           b == SubSeq(t, 1, Len(s))
<1>7. /\ a \in Seq(Told) /\ b \in Seq(Told) /\ Len(a) = Len(s) /\ Len(b) = Len(s)
      /\ \A x \in 1..Len(s) : a[x] = s[x] /\ b[x] = t[x]
  BY <1>6
<1> HIDE DEF a, b
<1>8. a = b
  <2>1. \A x \in 1..Len(a) : a[x] = b[x]
    BY <1>6, <1>7
  <2> QED BY <1>7, <2>1, SeqEqual
<1> QED BY <1>6, <1>8 DEF IsPrefix, s, t, a, b

(***************************************************************************)
(* One more gesture.                                                       *)
(***************************************************************************)
\* A gesture more leaves the places of the others as they are.
LEMMA Extends ==
  ASSUME NEW ms \in Seq(AllGestures), NEW g \in AllGestures, NEW o, NEW G, NEW c, NEW s \in Seq(Bytes),
         Ends(ms, o), Sums(ms, G), Follows(ms, o, c, s), c + Len(s) = o[Len(ms)], Patient(ms, o, c),
         Len(ms) # 0 /\ ms[Len(ms)] \in {"escape", "altbrk"} => Len(s) = 0
  PROVE  \E o2, G2 :
            /\ Ends(Append(ms, g), o2) /\ Sums(Append(ms, g), G2)
            /\ Follows(Append(ms, g), o2, c, s \o Writes[g])
            /\ c + Len(s \o Writes[g]) = o2[Len(ms) + 1]
            /\ Patient(Append(ms, g), o2, c)
            /\ \A k \in 0..Len(ms) : o2[k] = o[k] /\ G2[k] = G[k]
<1> DEFINE n == Len(ms)
           l == Len(Writes[g])
           ms2 == Append(ms, g)
           s2 == s \o Writes[g]
           o2 == [x \in 0..n + 1 |-> IF x = n + 1 THEN o[n] + l ELSE o[x]]
           G2 == [x \in 0..n + 1 |-> IF x = n + 1 THEN G[n] \o Means[g] ELSE G[x]]
<1>0. n \in Nat /\ l \in Nat \ {0} /\ Writes[g] \in Seq(Bytes) /\ Means[g] \in Seq(Told) /\ c \in Nat /\ Len(s) \in Nat
      /\ o[n] \in Nat /\ \A k \in 1..n : o[k - 1] \in Nat
  <2>1. c \in Nat
    BY DEF Follows
  <2> QED BY <2>1, Sizes, Meanings, EndsNat
<1>1. /\ ms2 \in Seq(AllGestures) /\ Len(ms2) = n + 1 /\ ms2[n + 1] = g
      /\ \A k \in 1..n : ms2[k] = ms[k] /\ ms[k] \in AllGestures
  <2>1. ms2 \in Seq(AllGestures) /\ Len(ms2) = n + 1 /\ ms2[n + 1] = g
    OBVIOUS
  <2>2. \A k \in 1..n : ms2[k] = ms[k]
    OBVIOUS
  <2>3. \A k \in 1..n : ms[k] \in AllGestures
    OBVIOUS
  <2> QED BY <2>1, <2>2, <2>3
<1>2. /\ o2[n + 1] = o[n] + l /\ \A k \in 0..n : o2[k] = o[k]
      /\ G2[n + 1] = G[n] \o Means[g] /\ \A k \in 0..n : G2[k] = G[k]
  <2>1. n + 1 \in 0..n + 1 /\ \A k \in 0..n : k \in 0..n + 1 /\ k # n + 1
    BY <1>0
  <2> HIDE DEF n, l
  <2> QED BY <2>1
<1>3. \A k \in 1..n + 1 : k = n + 1 \/ (k \in 1..n /\ k - 1 \in 0..n /\ k \in 0..n)
  BY <1>0
<1>4. (n + 1) - 1 = n /\ n \in 0..n /\ n + 1 \in 0..n + 1 /\ 0 \in 0..n
  BY <1>0
<1>5. Ends(ms2, o2)
  <2>1. o2 \in [0..n + 1 -> Nat]
    <3>1. \A x \in 0..n + 1 : x # n + 1 => x \in 0..n
      BY <1>0
    <3>2. o \in [0..n -> Nat]
      BY DEF Ends
    <3>3. o[n] + l \in Nat
      BY <1>0
    <3> HIDE DEF l, n
    <3> QED BY <3>1, <3>2, <3>3
  <2> HIDE DEF o2, ms2
  <2>2. ASSUME NEW k \in 1..n + 1 PROVE o2[k] = o2[k - 1] + Len(Writes[ms2[k]])
    <3>1. CASE k = n + 1
      BY <1>1, <1>2, <1>4, <3>1
    <3>2. CASE k \in 1..n
      <4>1. o[k] = o[k - 1] + Len(Writes[ms[k]])
        BY <3>2 DEF Ends
      <4> QED BY <1>1, <1>2, <1>3, <3>2, <4>1
    <3> QED BY <1>3, <3>1, <3>2
  <2>3. o2[0] = 0
    <3>1. o[0] = 0
      BY DEF Ends
    <3> QED BY <1>2, <1>4, <3>1
  <2> QED BY <1>1, <2>1, <2>2, <2>3 DEF Ends
<1>6. Sums(ms2, G2)
  <2>0. G \in [0..n -> Seq(Told)] /\ G[0] = <<>> /\ \A k \in 1..n : G[k] = G[k - 1] \o Means[ms[k]]
    BY DEF Sums
  <2>1. G2 \in [0..n + 1 -> Seq(Told)]
    <3>1. \A x \in 0..n + 1 : x # n + 1 => x \in 0..n
      BY <1>0
    <3>3. G[n] \o Means[g] \in Seq(Told)
      <4>1. G[n] \in Seq(Told)
        BY <1>4, <2>0
      <4> QED BY <1>0, <4>1
    <3> HIDE DEF n
    <3> QED BY <2>0, <3>1, <3>3
  <2> HIDE DEF G2, ms2
  <2>2. ASSUME NEW k \in 1..n + 1 PROVE G2[k] = G2[k - 1] \o Means[ms2[k]]
    <3>1. CASE k = n + 1
      BY <1>1, <1>2, <1>4, <3>1
    <3>2. CASE k \in 1..n
      <4>1. k - 1 \in 0..n /\ k \in 0..n
        BY <1>0, <3>2
      <4>2. G2[k] = G[k] /\ G2[k - 1] = G[k - 1] /\ ms2[k] = ms[k]
        BY <1>1, <1>2, <3>2, <4>1
      <4>3. G[k] = G[k - 1] \o Means[ms[k]]
        BY <2>0, <3>2
      <4> QED BY <4>2, <4>3
    <3> QED BY <1>3, <3>1, <3>2
  <2>3. G2[0] = <<>>
    BY <1>2, <1>4, <2>0
  <2> QED BY <1>1, <2>1, <2>2, <2>3 DEF Sums
<1>7. /\ s2 \in Seq(Bytes) /\ Len(s2) = Len(s) + l
      /\ \A x \in 1..Len(s) : s2[x] = s[x]
      /\ \A q \in 1..l : s2[Len(s) + q] = Writes[g][q]
  <2> DEFINE w == Writes[g]
  <2>1. w \in Seq(Bytes)
    BY <1>0
  <2> HIDE DEF w
  <2>2. s \o w \in Seq(Bytes) /\ Len(s \o w) = Len(s) + Len(w)
    BY <2>1
  <2>3. \A x \in 1..Len(s) : (s \o w)[x] = s[x]
    BY <2>1
  <2>4. ASSUME NEW q \in 1..Len(w) PROVE (s \o w)[Len(s) + q] = w[q]
    <3>1. Len(s) + q \in 1..Len(s) + Len(w) /\ ~(Len(s) + q <= Len(s)) /\ (Len(s) + q) - Len(s) = q
      BY <1>0, <2>1
    <3> QED BY <2>1, <3>1
  <2> QED BY <2>2, <2>3, <2>4 DEF w
<1> HIDE DEF o2, G2, ms2, s2
<1>8. c + Len(s2) = o2[n + 1]
  <2> HIDE DEF l, n
  <2>1. c + Len(s) = o[n]
    BY DEF n
  <2> QED BY <1>0, <1>2, <1>7, <2>1
<1>9. Follows(ms2, o2, c, s2)
  <2>1. ASSUME NEW k \in 1..n + 1, NEW q \in 1..Len(Writes[ms2[k]]), c < o2[k - 1] + q, o2[k - 1] + q <= c + Len(s2)
        PROVE  s2[o2[k - 1] + q - c] = Writes[ms2[k]][q]
    <3>0. q \in Nat
      OBVIOUS
    <3>1. CASE k = n + 1
      <4>1. o2[k - 1] = o[n] /\ ms2[k] = g /\ c + Len(s) = o[n]
        BY <1>1, <1>2, <1>4, <3>1
      <4>2. o2[k - 1] + q - c = Len(s) + q
        <5>1. \A x, y, z \in Nat : x + y + z - x = y + z
          OBVIOUS
        <5>2. o2[k - 1] = c + Len(s)
          BY <4>1
        <5> QED BY <1>0, <3>0, <5>1, <5>2
      <4> QED BY <1>7, <4>1, <4>2
    <3>2. CASE k \in 1..n
      <4> DEFINE e == o[k - 1]
      <4>1. o2[k - 1] = e /\ ms2[k] = ms[k] /\ ms[k] \in AllGestures /\ k - 1 \in 0..n - 1 /\ e \in Nat /\ k \in 0..n
        <5>1. k - 1 \in 0..n /\ k \in 0..n /\ k - 1 \in 0..n - 1
          BY <1>0, <3>2
        <5>2. o2[k - 1] = e /\ e \in Nat
          BY <1>0, <1>2, <3>2, <5>1
        <5>3. ms2[k] = ms[k] /\ ms[k] \in AllGestures
          BY <1>1, <3>2
        <5> QED BY <5>1, <5>2, <5>3
      <4>2. e + q <= c + Len(s)
        <5>1. o[k] = e + Len(Writes[ms[k]]) /\ Len(Writes[ms[k]]) \in Nat
          <6>1. o[k] = e + Len(Writes[ms[k]])
            BY <3>2 DEF Ends
          <6> QED BY <4>1, <6>1, Sizes
        <5>2. o[k] <= o[n]
          BY <1>4, <4>1, EndsUp
        <5>3. q <= Len(Writes[ms[k]])
          BY <4>1
        <5>4. c + Len(s) = o[n]
          OBVIOUS
        <5> HIDE DEF e, n
        <5> QED BY <1>0, <3>0, <4>1, <5>1, <5>2, <5>3, <5>4
      <4>3. c < e + q
        BY <2>1, <4>1
      <4>4. s[e + q - c] = Writes[ms[k]][q]
        BY <3>2, <4>1, <4>2, <4>3 DEF Follows
      <4> HIDE DEF e
      <4>5. e + q - c \in 1..Len(s)
        BY <1>0, <3>0, <4>1, <4>2, <4>3
      <4> QED BY <1>7, <4>1, <4>4, <4>5
    <3> QED BY <1>3, <3>1, <3>2
  <2>2. c + Len(s2) <= o2[n + 1]
    <3>1. o2[n + 1] \in Nat
      BY <1>0, <1>2
    <3> QED BY <1>8, <3>1
  <2> QED BY <1>0, <1>1, <1>7, <2>1, <2>2 DEF Follows
<1>10. Patient(ms2, o2, c)
  <2>1. ASSUME NEW k \in 1..(n + 1) - 1, ms2[k] \in {"escape", "altbrk"} PROVE o2[k] <= c
    <3>1. k \in 1..n /\ ms2[k] = ms[k] /\ o2[k] = o[k]
      BY <1>0, <1>1, <1>2, <1>3
    <3>2. CASE k = n
      <4>1. Len(s) = 0
        BY <1>0, <2>1, <3>1, <3>2
      <4>2. o[n] = c
        BY <1>0, <4>1
      <4> QED BY <1>0, <3>1, <3>2, <4>2
    <3>3. CASE k # n
      <4>1. k \in 1..n - 1
        BY <1>0, <3>1, <3>3
      <4> QED BY <2>1, <3>1, <4>1 DEF Patient
    <3> QED BY <3>2, <3>3
  <2> QED BY <1>1, <2>1 DEF Patient
<1> QED BY <1>2, <1>5, <1>6, <1>8, <1>9, <1>10 DEF ms2, s2

-----------------------------------------------------------------------------
(* The invariant: the decoder stands in the stream the user wrote, k of the  *)
(* gestures are decoded, c of the bytes are gone, what it keeps and what is  *)
(* still to be read follow, and what it keeps it has reason to wait with.    *)
Where(o, G, c, k) ==
  /\ Ends(made, o) /\ Sums(made, G)
  /\ Follows(made, o, c, buf \o wire) /\ c + Len(buf \o wire) = o[Len(made)]
  /\ Patient(made, o, c)
  /\ Stands(made, o, cut, c, in_paste, k)
  /\ ~cut => got = G[k]
  /\ ~in_paste => buf = <<>> \/ Waits(made, k, Len(buf))

InStream ==
  /\ wire \in Seq(Bytes) /\ buf \in Seq(Bytes) /\ in_paste \in BOOLEAN /\ cut \in BOOLEAN
  /\ made \in Seq(Gestures) /\ got \in Seq(Told)
  /\ \E o, G, c, k : Where(o, G, c, k)

\* The gestures made are gestures.
LEMMA Known ==
  ASSUME InStream
  PROVE  made \in Seq(AllGestures) /\ Gestures \subseteq AllGestures
BY InputAssumption DEF InStream

\* Bytes are joined in any order.
LEMMA Spliced == \A x, y, z \in Seq(Bytes) : (x \o y) \o z = x \o (y \o z)
BY ConcatAssociative

\* A decoder with nothing to decode.
LEMMA StreamInit == InputInit => InStream
<1> SUFFICES ASSUME InputInit PROVE InStream
  OBVIOUS
<1>1. wire = <<>> /\ buf = <<>> /\ in_paste = FALSE /\ got = <<>> /\ made = <<>> /\ cut = FALSE
  BY DEF InputInit
<1> DEFINE o == [x \in 0..0 |-> 0]
           G == [x \in 0..0 |-> <<>>]
<1>2. Len(made) = 0 /\ made \in Seq(AllGestures) /\ made \in Seq(Gestures) /\ 1..0 = {} /\ 1..0 - 1 = {} /\ 0 \in 0..0
  BY <1>1
<1>3. buf \o wire = <<>> /\ <<>> \in Seq(Bytes) /\ Len(<<>>) = 0 /\ 0 + 0 = 0 /\ 0 <= 0 /\ <<>> \in Seq(Told)
  BY <1>1
<1>4. Ends(made, o)
  BY <1>2 DEF Ends
<1>5. Sums(made, G)
  BY <1>2, <1>3 DEF Sums
<1>6. o[0] = 0 /\ G[0] = <<>>
  BY <1>2
<1> HIDE DEF o, G
<1>7. Follows(made, o, 0, buf \o wire) /\ 0 + Len(buf \o wire) = o[Len(made)]
  BY <1>2, <1>3, <1>6 DEF Follows
<1>8. Patient(made, o, 0) /\ Stands(made, o, cut, 0, in_paste, 0)
  BY <1>1, <1>2, <1>6 DEF Patient, Stands
<1>9. Where(o, G, 0, 0)
  BY <1>1, <1>4, <1>5, <1>6, <1>7, <1>8 DEF Where
<1> QED BY <1>1, <1>2, <1>3, <1>9 DEF InStream

\* A gesture is written behind the others.
LEMMA GestureStep ==
  ASSUME InStream, NEW g \in Gestures, Gesture(g), ~Hasty
  PROVE  InStream'
<1>1. PICK o, G, c, k : Where(o, G, c, k)
  BY DEF InStream
<1>2. /\ wire \in Seq(Bytes) /\ buf \in Seq(Bytes) /\ in_paste \in BOOLEAN /\ cut \in BOOLEAN
      /\ made \in Seq(Gestures) /\ got \in Seq(Told) /\ made \in Seq(AllGestures) /\ g \in AllGestures
  BY Known DEF InStream
<1>3. /\ wire' = wire \o Writes[g] /\ made' = Append(made, g)
      /\ buf' = buf /\ in_paste' = in_paste /\ got' = got /\ cut' = cut /\ ~AwaitingEscape
  BY DEF Gesture
<1> DEFINE s == buf \o wire
           n == Len(made)
<1>4. Writes[g] \in Seq(Bytes)
  BY <1>2, Sizes
<1>5. s \in Seq(Bytes) /\ n \in Nat
  BY <1>2
<1>6. n # 0 /\ made[n] \in {"escape", "altbrk"} => Len(s) = 0
  <2> SUFFICES ASSUME n # 0, made[n] \in {"escape", "altbrk"} PROVE Len(s) = 0
    OBVIOUS
  <2>1. made # <<>> /\ Last(made) = made[n]
    BY <1>2 DEF Last
  <2>2. wire = <<>> /\ buf = <<>>
    BY <1>3, <2>1 DEF AwaitingEscape
  <2> QED BY <2>2
<1>7. /\ Ends(made, o) /\ Sums(made, G) /\ Follows(made, o, c, s) /\ c + Len(s) = o[n]
      /\ Patient(made, o, c) /\ Stands(made, o, cut, c, in_paste, k)
      /\ ~cut => got = G[k]
      /\ ~in_paste => buf = <<>> \/ Waits(made, k, Len(buf))
  BY <1>1 DEF Where
<1> HIDE DEF s
<1>8. PICK o2, G2 :
            /\ Ends(Append(made, g), o2) /\ Sums(Append(made, g), G2)
            /\ Follows(Append(made, g), o2, c, s \o Writes[g])
            /\ c + Len(s \o Writes[g]) = o2[n + 1]
            /\ Patient(Append(made, g), o2, c)
            /\ \A j \in 0..n : o2[j] = o[j] /\ G2[j] = G[j]
  BY <1>2, <1>5, <1>6, <1>7, Extends
<1>9. /\ Len(made') = n + 1 /\ \A j \in 1..n : made'[j] = made[j]
      /\ made' \in Seq(Gestures) /\ wire' \in Seq(Bytes)
  BY <1>2, <1>3, <1>4
<1>10. (buf \o wire)' = s \o Writes[g]
  <2>1. (buf \o wire) \o Writes[g] = buf \o (wire \o Writes[g])
    BY <1>2, <1>4, Spliced
  <2> QED BY <1>3, <2>1 DEF s
<1>11. k \in 0..n
  BY <1>7 DEF Stands
<1>12. k < n => k + 1 \in 1..n /\ k < n + 1
  BY <1>5, <1>11
<1>13. Stands(made', o2, cut, c, in_paste, k)
  <2>1. k \in 0..n + 1 /\ o2[k] = o[k]
    BY <1>5, <1>8, <1>11
  <2> HIDE DEF n
  <2> QED BY <1>7, <1>9, <1>12, <2>1 DEF Stands, n
<1>14. Waits(made, k, Len(buf)) => Waits(made', k, Len(buf))
  BY <1>9, <1>12 DEF Waits
<1>15. ~cut => got = G2[k]
  BY <1>7, <1>8, <1>11
<1>16. Where(o2, G2, c, k)'
  BY <1>3, <1>7, <1>8, <1>9, <1>10, <1>13, <1>14, <1>15 DEF Where
<1> QED BY <1>2, <1>3, <1>9, <1>16 DEF InStream

\* A read hands the decoder the next bytes, wherever it cuts them.
LEMMA ReadStep ==
  ASSUME InStream, NEW n \in 1..Len(wire), Read(n)
  PROVE  InStream'
<1>1. PICK o, G, c, k : Where(o, G, c, k)
  BY DEF InStream
<1>2. /\ wire \in Seq(Bytes) /\ buf \in Seq(Bytes) /\ in_paste \in BOOLEAN /\ cut \in BOOLEAN
      /\ made \in Seq(Gestures) /\ got \in Seq(Told)
  BY DEF InStream
<1> DEFINE some == SubSeq(wire, 1, n)
           rest == SubSeq(wire, n + 1, Len(wire))
           b == buf \o some
           r == Feed(b, in_paste)
<1>3. wire' = rest /\ buf' = r.buf /\ in_paste' = r.in_paste /\ got' = got \o r.evs /\ made' = made /\ cut' = cut
  BY DEF Read, Decoded
<1>4. some \in Seq(Bytes) /\ rest \in Seq(Bytes) /\ wire = some \o rest
  <2>1. some \in Seq(Bytes) /\ rest \in Seq(Bytes) /\ Len(some) = n /\ Len(rest) = Len(wire) - n
    BY <1>2
  <2>2. (\A x \in 1..n : some[x] = wire[x]) /\ \A x \in 1..Len(wire) - n : rest[x] = wire[n + x]
    BY <1>2
  <2> HIDE DEF some, rest
  <2> DEFINE u == some \o rest
  <2>3. u \in Seq(Bytes) /\ Len(u) = Len(wire)
    <3>1. u \in Seq(Bytes) /\ Len(u) = Len(some) + Len(rest)
      BY <2>1
    <3>2. Len(wire) \in Nat /\ n \in Nat
      BY <1>2
    <3> HIDE DEF u
    <3> QED BY <2>1, <3>1, <3>2
  <2>4. ASSUME NEW x \in 1..Len(wire) PROVE wire[x] = u[x]
    <3>1. CASE x <= n
      BY <2>1, <2>2, <3>1
    <3>2. CASE ~(x <= n)
      <4>1. x - n \in 1..Len(wire) - n /\ n + (x - n) = x /\ x \in 1..n + (Len(wire) - n)
        BY <1>2, <3>2
      <4>2. u[x] = rest[x - n]
        BY <2>1, <3>2, <4>1
      <4> QED BY <2>2, <4>1, <4>2
    <3> QED BY <3>1, <3>2
  <2> HIDE DEF u
  <2>5. wire = u
    BY <1>2, <2>3, <2>4, SeqEqual
  <2> QED BY <2>1, <2>5 DEF u
<1>5. /\ Ends(made, o) /\ Sums(made, G) /\ Follows(made, o, c, buf \o wire) /\ c + Len(buf \o wire) = o[Len(made)]
      /\ Patient(made, o, c) /\ Stands(made, o, cut, c, in_paste, k)
      /\ ~cut => got = G[k]
  BY <1>1 DEF Where
<1> HIDE DEF some, rest
<1>6. b \in Seq(Bytes) /\ buf \o wire = b \o rest /\ buf \o wire \in Seq(Bytes)
  <2>1. buf \o (some \o rest) = (buf \o some) \o rest
    BY <1>2, <1>4, Spliced
  <2> QED BY <1>2, <1>4, <2>1
<1> HIDE DEF b
<1>7. Goes(made, o, cut, G, k, rest, r)
  BY <1>2, <1>4, <1>5, <1>6, FeedGoes
<1> HIDE DEF r
<1>8. r.buf \in Seq(Bytes) /\ r.in_paste \in BOOLEAN /\ r.evs \in Seq(Told)
  BY <1>7 DEF Goes
<1>9. PICK c2, k2 :
       /\ Follows(made, o, c2, r.buf \o rest) /\ c2 + Len(r.buf \o rest) = o[Len(made)]
       /\ Patient(made, o, c2)
       /\ Stands(made, o, cut, c2, r.in_paste, k2)
       /\ ~cut => G[k2] = G[k] \o r.evs
       /\ ~r.in_paste => r.buf = <<>> \/ Waits(made, k2, Len(r.buf))
  BY <1>7 DEF Goes
<1>10. Where(o, G, c2, k2)'
  BY <1>3, <1>5, <1>9 DEF Where
<1>11. got' \in Seq(Told)
  BY <1>2, <1>3, <1>8
<1> QED BY <1>2, <1>3, <1>4, <1>8, <1>10, <1>11 DEF InStream

\* What is told first is told, and the rest is as it was.
LEMMA ToldFirst ==
  ASSUME NEW r \in [buf : Seq(Bytes), in_paste : BOOLEAN, evs : Seq(Told)], NEW e \in Seq(Told)
  PROVE  /\ [r EXCEPT !.evs = e \o @].buf = r.buf
         /\ [r EXCEPT !.evs = e \o @].in_paste = r.in_paste
         /\ [r EXCEPT !.evs = e \o @].evs = e \o r.evs
         /\ [r EXCEPT !.evs = e \o @] \in [buf : Seq(Bytes), in_paste : BOOLEAN, evs : Seq(Told)]
<1> DEFINE x == [r EXCEPT !.evs = e \o @]
<1>1. x.buf = r.buf /\ x.in_paste = r.in_paste /\ x.evs = e \o r.evs
  OBVIOUS
<1>2. e \o r.evs \in Seq(Told)
  OBVIOUS
<1>3. x \in [buf : Seq(Bytes), in_paste : BOOLEAN, evs : Seq(Told)]
  BY <1>2
<1> QED BY <1>1, <1>3

\* Two events are one behind the other.
LEMMA Two ==
  ASSUME NEW S, NEW x \in S, NEW y \in S
  PROVE  <<x>> \o <<y>> = <<x, y>>
<1> DEFINE a == <<x>> \o <<y>>
           b == <<x, y>>
<1>1. <<x>> \in Seq(S) /\ <<y>> \in Seq(S) /\ b \in Seq(S)
  BY Tuples
<1>2. a \in Seq(S) /\ Len(a) = 2 /\ Len(b) = 2
  BY <1>1
<1>3. a[1] = x /\ a[2] = y
  BY <1>1
<1>4. \A i \in 1..2 : i = 1 \/ i = 2
  OBVIOUS
<1>5. \A i \in 1..2 : a[i] = b[i]
  BY <1>3, <1>4
<1> HIDE DEF a, b
<1>6. a = b
  BY <1>1, <1>2, <1>5, SeqEqual
<1> QED BY <1>6 DEF a, b

\* A decoder that has nothing decodes nothing; behind an Escape, [ is a key.
LEMMA FeedShort ==
  /\ Feed(<<>>, FALSE) = [buf |-> <<>>, in_paste |-> FALSE, evs |-> <<>>]
  /\ <<"[">> \in Seq(Bytes)
  /\ Feed(<<"[">>, FALSE) \in [buf : Seq(Bytes), in_paste : BOOLEAN, evs : Seq(Told)]
  /\ Feed(<<"[">>, FALSE).buf = <<>>
  /\ Feed(<<"[">>, FALSE).in_paste = FALSE
  /\ Feed(<<"[">>, FALSE).evs = <<Key("[", {})>>
<1>1. ASSUME NEW b \in Seq(Bytes), NEW f, NEW i, i = Len(b) + 1, f[i][FALSE] = FeedBody(b, f, i, FALSE)
      PROVE  f[i][FALSE] = [buf |-> <<>>, in_paste |-> FALSE, evs |-> <<>>]
  <2>1. i > Len(b) /\ SubSeq(b, i, Len(b)) = <<>>
    BY <1>1
  <2> QED BY <1>1, <2>1 DEF FeedBody
<1>2. Feed(<<>>, FALSE) = [buf |-> <<>>, in_paste |-> FALSE, evs |-> <<>>]
  <2>1. PICK b \in Seq(Bytes) : b = <<>>
    BY Tuples
  <2>2. PICK f : /\ \A i \in 1..Len(b) + 1, inp \in BOOLEAN : f[i][inp] = FeedBody(b, f, i, inp)
                 /\ \A pasting \in BOOLEAN : Feed(b, pasting) = f[1][pasting]
    BY FeedOK
  <2>3. 1 = Len(b) + 1 /\ 1 \in 1..Len(b) + 1
    BY <2>1
  <2>4. f[1][FALSE] = FeedBody(b, f, 1, FALSE) /\ Feed(b, FALSE) = f[1][FALSE]
    BY <2>2, <2>3
  <2>5. f[1][FALSE] = [buf |-> <<>>, in_paste |-> FALSE, evs |-> <<>>]
    BY <1>1, <2>3, <2>4
  <2> QED BY <2>1, <2>4, <2>5
<1>3. <<"[">> \in Seq(Bytes)
  <2>1. Writes["altbrk"] = <<"esc", "[">> /\ "altbrk" \in AllGestures
    BY Table
  <2>2. Writes["altbrk"] \in Seq(Bytes)
    BY <2>1, Sizes
  <2>3. 2 \in 1..Len(Writes["altbrk"]) /\ Writes["altbrk"][2] = "["
    BY <2>1
  <2>4. "[" \in Bytes
    BY <2>2, <2>3
  <2> QED BY <2>4, Tuples
<1>4. /\ Feed(<<"[">>, FALSE) \in [buf : Seq(Bytes), in_paste : BOOLEAN, evs : Seq(Told)]
      /\ Feed(<<"[">>, FALSE).buf = <<>> /\ Feed(<<"[">>, FALSE).in_paste = FALSE
      /\ Feed(<<"[">>, FALSE).evs = <<Key("[", {})>>
  <2>1. PICK b \in Seq(Bytes) : b = <<"[">>
    BY <1>3
  <2>2. PICK f : /\ \A i \in 1..Len(b) + 1, inp \in BOOLEAN : f[i][inp] = FeedBody(b, f, i, inp)
                 /\ \A pasting \in BOOLEAN : Feed(b, pasting) = f[1][pasting]
    BY FeedOK
  <2>3. Len(b) = 1 /\ b[1] = "[" /\ 1 \in 1..Len(b) /\ 1 \in 1..Len(b) + 1 /\ 2 \in 1..Len(b) + 1
        /\ 2 = Len(b) + 1 /\ 1 + 1 = 2 /\ ~(1 > Len(b))
    BY <2>1
  <2>4. /\ f[1][FALSE] = FeedBody(b, f, 1, FALSE) /\ f[2][FALSE] = FeedBody(b, f, 2, FALSE)
        /\ Feed(b, FALSE) = f[1][FALSE]
    BY <2>2, <2>3
  <2>5. f[2][FALSE] = [buf |-> <<>>, in_paste |-> FALSE, evs |-> <<>>]
    BY <1>1, <2>3, <2>4
  <2>6. Part(b, 1, FALSE) = Outcome(1, <<Key("[", {})>>, FALSE)
    <3>1. ParseOne(b)[1] = Plain(b, 1)
      BY <2>3, PlainAt
    <3>2. Plain(b, 1) = Outcome(1, <<Key("[", {})>>, FALSE)
      BY <2>3 DEF Plain
    <3> QED BY <3>1, <3>2 DEF Part
  <2> DEFINE t == Part(b, 1, FALSE)
             key == <<Key("[", {})>>
             next == f[1 + t.used][t.opens]
  <2> HIDE DEF key
  <2>7. t.used = 1 /\ t.opens = FALSE /\ t.evs = key
    <3>1. t = [used |-> 1, evs |-> key, opens |-> FALSE]
      BY <2>6 DEF Outcome, key
    <3> HIDE DEF t
    <3> QED BY <3>1
  <2>8. FeedBody(b, f, 1, FALSE) = [next EXCEPT !.evs = t.evs \o @]
    <3>1. ~(1 > Len(b) \/ t.used = 0)
      <4> HIDE DEF t
      <4> QED BY <2>3, <2>7
    <3> QED BY <3>1 DEF FeedBody
  <2>9. next = [buf |-> <<>>, in_paste |-> FALSE, evs |-> <<>>]
    BY <2>3, <2>5, <2>7
  <2> HIDE DEF next, t
  <2>10. next \in [buf : Seq(Bytes), in_paste : BOOLEAN, evs : Seq(Told)] /\ key \in Seq(Told)
    <3>1. <<>> \in Seq(Bytes) /\ <<>> \in Seq(Told)
      OBVIOUS
    <3>2. key \in Seq(Told)
      <4>1. "altbrk" \in AllGestures /\ Means["altbrk"] = <<Key("esc", {}), Key("[", {})>>
        BY Table
      <4>2. Means["altbrk"] \in Seq(Told) /\ 2 \in 1..Len(Means["altbrk"]) /\ Means["altbrk"][2] = Key("[", {})
        <5>1. Means["altbrk"] \in Seq(Told)
          BY <4>1, Meanings
        <5>2. Len(Means["altbrk"]) = 2 /\ Means["altbrk"][2] = Key("[", {})
          BY <4>1
        <5> QED BY <5>1, <5>2
      <4>3. Key("[", {}) \in Told
        BY <4>2
      <4> QED BY <4>3, Tuples DEF key
    <3> QED BY <2>9, <3>1, <3>2
  <2>11. key \o <<>> = key
    BY <2>10
  <2> DEFINE r == [next EXCEPT !.evs = key \o @]
  <2>12. r.buf = next.buf /\ r.in_paste = next.in_paste /\ r.evs = key \o next.evs
        /\ r \in [buf : Seq(Bytes), in_paste : BOOLEAN, evs : Seq(Told)]
    BY <2>10, ToldFirst
  <2>13. f[1][FALSE] = r
    BY <2>4, <2>7, <2>8
  <2> HIDE DEF r
  <2> QED BY <2>1, <2>4, <2>9, <2>11, <2>12, <2>13 DEF key
<1> QED BY <1>2, <1>3, <1>4

\* Outside a paste, all that a quiet client has left pending is an Escape, or
\* alt+[, and it is the last gesture made.
LEMMA Pending ==
  ASSUME InStream, NEW o, NEW G, NEW c, NEW k, Where(o, G, c, k), ~in_paste, wire = <<>>, buf # <<>>
  PROVE  /\ k + 1 = Len(made) /\ made[k + 1] \in {"escape", "altbrk"}
         /\ buf = Writes[made[k + 1]]
<1>0. buf \in Seq(Bytes) /\ made \in Seq(AllGestures) /\ Len(buf) \in Nat /\ buf \o wire = buf
  <2>1. buf \in Seq(Bytes)
    BY DEF InStream
  <2> QED BY <2>1, Known
<1>1. /\ Ends(made, o) /\ Follows(made, o, c, buf) /\ c + Len(buf) = o[Len(made)]
      /\ Patient(made, o, c) /\ c = o[k] /\ k \in 0..Len(made) /\ Waits(made, k, Len(buf))
  BY <1>0 DEF Where, Stands
<1> DEFINE n == Len(made)
           g == made[k + 1]
           l == Len(Writes[g])
<1>2. k \in 0..n - 1 /\ n \in Nat
  BY <1>0, <1>1 DEF Waits
<1>3. /\ k + 1 \in 1..n /\ o[k] \in Nat /\ o[k + 1] \in Nat /\ g \in AllGestures /\ l \in Nat \ {0}
      /\ o[k + 1] = o[k] + l
  BY <1>1, <1>2, EndsGrow
<1>4. o[k + 1] <= o[n] /\ o[n] \in Nat
  <2>1. n \in 0..n /\ k + 1 \in 0..n
    BY <1>2
  <2> QED BY <1>1, <2>1, EndsUp, EndsNat
<1>5. l <= Len(buf)
  <2> HIDE DEF l, n
  <2>1. c + Len(buf) = o[n]
    BY <1>1 DEF n
  <2> QED BY <1>0, <1>1, <1>3, <1>4, <2>1
<1>6. g \in {"escape", "altbrk"}
  <2>1. ~(Len(buf) < l)
    <3> HIDE DEF l
    <3> QED BY <1>0, <1>3, <1>5
  <2> QED BY <1>1, <2>1 DEF Waits
<1>7. k + 1 = n
  <2> SUFFICES ASSUME k + 1 # n PROVE FALSE
    OBVIOUS
  <2>1. k + 1 \in 1..n - 1
    BY <1>2
  <2>2. o[k + 1] <= c
    BY <1>1, <1>6, <2>1 DEF Patient
  <2> HIDE DEF l
  <2> QED BY <1>1, <1>3, <2>2
<1>8. Len(buf) = l
  <2>1. c + Len(buf) = o[k + 1]
    BY <1>1, <1>7
  <2> HIDE DEF l
  <2> QED BY <1>0, <1>1, <1>3, <2>1
<1>9. ASSUME NEW q \in 1..l PROVE buf[q] = Writes[g][q]
  <2>1. q \in Nat /\ q >= 1 /\ q <= l
    BY <1>3
  <2>2. (k + 1) - 1 = k
    BY <1>2
  <2> HIDE DEF l
  <2>3. c < o[k] + q /\ o[k] + q <= c + Len(buf) /\ o[k] + q - c = q
    BY <1>1, <1>3, <1>8, <2>1
  <2>4. buf[o[(k + 1) - 1] + q - c] = Writes[g][q]
    BY <1>1, <1>3, <2>2, <2>3 DEF Follows, l
  <2> QED BY <2>2, <2>3, <2>4
<1>10. buf = Writes[g]
  <2> DEFINE w == Writes[g]
  <2>1. w \in Seq(Bytes) /\ Len(w) = l
    BY <1>3, Sizes
  <2>2. \A q \in 1..Len(buf) : buf[q] = w[q]
    BY <1>8, <1>9
  <2> HIDE DEF w, l
  <2>3. buf = w
    BY <1>0, <1>8, <2>1, <2>2, SeqEqual
  <2> QED BY <2>3 DEF w
<1> QED BY <1>6, <1>7, <1>10

-----------------------------------------------------------------------------
\* What the rest of what is kept, and all of what is to be read, is.
LEMMA Dropped ==
  ASSUME NEW b \in Seq(Bytes), NEW w \in Seq(Bytes)
  PROVE  /\ Len(b \o w) = Len(b) + Len(w) /\ b \o w \in Seq(Bytes)
         /\ Len(b) \in 0..Len(b \o w) /\ Beyond(w, b \o w, Len(b))
         /\ b # <<>> => /\ Tail(b) \in Seq(Bytes) /\ Len(Tail(b)) = Len(b) - 1
                        /\ 1 \in 0..Len(b \o w) /\ Beyond(Tail(b) \o w, b \o w, 1)
<1> DEFINE s == b \o w
<1>1. s \in Seq(Bytes) /\ Len(s) = Len(b) + Len(w) /\ Len(b) \in Nat /\ Len(w) \in Nat
  OBVIOUS
<1>2. (\A x \in 1..Len(b) : s[x] = b[x]) /\ \A x \in 1..Len(w) : s[x + Len(b)] = w[x]
  <2>1. ASSUME NEW x \in 1..Len(b) PROVE s[x] = b[x]
    BY <1>1
  <2>2. ASSUME NEW x \in 1..Len(w) PROVE s[x + Len(b)] = w[x]
    <3>1. x + Len(b) \in 1..Len(b) + Len(w) /\ ~(x + Len(b) <= Len(b)) /\ (x + Len(b)) - Len(b) = x
      BY <1>1
    <3> QED BY <3>1
  <2> QED BY <2>1, <2>2
<1>3. ASSUME b # <<>>
      PROVE  /\ Tail(b) \in Seq(Bytes) /\ Len(Tail(b)) = Len(b) - 1
             /\ 1 \in 0..Len(s) /\ Beyond(Tail(b) \o w, s, 1)
  <2> DEFINE t == Tail(b)
             u == t \o w
  <2>1. Len(b) >= 1 /\ t \in Seq(Bytes) /\ Len(t) = Len(b) - 1 /\ \A x \in 1..Len(b) - 1 : t[x] = b[x + 1]
    BY <1>3
  <2> HIDE DEF t
  <2>2. Len(u) = Len(t) + Len(w)
    <3>1. t \in Seq(Bytes)
      BY <2>1
    <3> QED BY <3>1
  <2>3. ASSUME NEW x \in 1..Len(u) PROVE u[x] = s[x + 1]
    <3>1. CASE x <= Len(t)
      <4>1. x \in 1..Len(b) - 1 /\ x + 1 \in 1..Len(b) /\ x \in 1..Len(t)
        BY <1>1, <2>1, <2>2, <3>1
      <4>2. u[x] = t[x]
        BY <2>1, <4>1
      <4> QED BY <1>2, <2>1, <4>1, <4>2
    <3>2. CASE ~(x <= Len(t))
      <4>1. /\ x - Len(t) \in 1..Len(w) /\ (x - Len(t)) + Len(b) = x + 1 /\ x \in 1..Len(t) + Len(w)
        <5> HIDE DEF u
        <5> QED BY <1>1, <2>1, <2>2, <3>2
      <4>2. u[x] = w[x - Len(t)]
        BY <2>1, <3>2, <4>1
      <4>3. s[(x - Len(t)) + Len(b)] = w[x - Len(t)]
        BY <1>2, <4>1
      <4> QED BY <4>1, <4>2, <4>3
    <3> QED BY <3>1, <3>2
  <2> HIDE DEF u, s
  <2>4. Len(u) = Len(s) - 1 /\ 1 \in 0..Len(s)
    BY <1>1, <2>1, <2>2
  <2>5. Beyond(u, s, 1)
    BY <2>3, <2>4 DEF Beyond
  <2> QED BY <2>1, <2>4, <2>5 DEF u, t
<1>4. Len(b) \in 0..Len(s) /\ Beyond(w, s, Len(b))
  <2> HIDE DEF s
  <2>1. Len(w) = Len(s) - Len(b) /\ Len(b) \in 0..Len(s)
    BY <1>1
  <2> QED BY <1>2, <2>1 DEF Beyond
<1> QED BY <1>1, <1>3, <1>4

\* Whatever the timer does inside a paste, the decoder still stands in it, or
\* has left it where it ends.
LEMMA CutStep ==
  ASSUME InStream, Timeout, in_paste
  PROVE  InStream'
<1>1. PICK o, G, c, k : Where(o, G, c, k)
  BY DEF InStream
<1>2. /\ wire \in Seq(Bytes) /\ buf \in Seq(Bytes) /\ in_paste = TRUE /\ got \in Seq(Told) /\ cut \in BOOLEAN
      /\ made \in Seq(Gestures) /\ buf # <<>>
  <2>1. wire \in Seq(Bytes) /\ buf \in Seq(Bytes) /\ in_paste \in BOOLEAN /\ got \in Seq(Told) /\ cut \in BOOLEAN
        /\ made \in Seq(Gestures)
    BY DEF InStream
  <2> QED BY <2>1 DEF Timeout
<1>3. wire' = wire /\ made' = made /\ cut' = TRUE
  BY <1>2 DEF Timeout
<1> DEFINE s == buf \o wire
<1>4. /\ Ends(made, o) /\ Sums(made, G) /\ Follows(made, o, c, s) /\ c + Len(s) = o[Len(made)]
      /\ Patient(made, o, c) /\ Stands(made, o, cut, c, in_paste, k)
  BY <1>1 DEF Where
<1>5. /\ s \in Seq(Bytes) /\ Len(s) = Len(buf) + Len(wire) /\ Len(buf) \in 0..Len(s) /\ Beyond(wire, s, Len(buf))
      /\ Tail(buf) \in Seq(Bytes) /\ Len(Tail(buf)) = Len(buf) - 1
      /\ 1 \in 0..Len(s) /\ Beyond(Tail(buf) \o wire, s, 1)
  BY <1>2, Dropped
<1>6. Len(buf) \in Nat /\ Len(wire) \in Nat /\ c \in Nat /\ k \in 0..Len(made) /\ o[Len(made)] \in Nat /\ Len(made) \in Nat
  <2>1. Len(buf) \in Nat /\ Len(wire) \in Nat
    BY <1>2
  <2>2. c \in Nat /\ k \in 0..Len(made)
    BY <1>4 DEF Follows, Stands
  <2> QED BY <1>4, <2>1, <2>2, EndsNat
<1> HIDE DEF s
<1>7. ASSUME NEW d \in Nat PROVE Patient(made, o, c + d) /\ Stands(made, o, TRUE, c + d, TRUE, k)
  <2>1. \A j \in 1..Len(made) - 1 : o[j] \in Nat
    <3>1. \A j \in 0..Len(made) - 1 : o[j] \in Nat
      BY <1>4, EndsGrow
    <3>2. \A j \in 1..Len(made) - 1 : j \in 0..Len(made) - 1
      BY <1>6
    <3> QED BY <3>1, <3>2
  <2>2. ASSUME NEW j \in 1..Len(made) - 1, made[j] \in {"escape", "altbrk"} PROVE o[j] <= c + d
    <3>1. o[j] <= c /\ o[j] \in Nat
      BY <1>4, <2>1, <2>2 DEF Patient
    <3> QED BY <1>6, <3>1
  <2>3. Patient(made, o, c + d)
    BY <2>2 DEF Patient
  <2>4. Stands(made, o, TRUE, c + d, TRUE, k)
    BY <1>6 DEF Stands
  <2> QED BY <2>3, <2>4
<1>8. CASE Head(buf) = "esc"
  <2> DEFINE t == Tail(buf)
             u == t \o wire
             r == Feed(t, in_paste)
             key == <<Key("esc", {})>>
  <2>1. buf' = [r EXCEPT !.evs = key \o @].buf /\ in_paste' = [r EXCEPT !.evs = key \o @].in_paste
        /\ got' = got \o [r EXCEPT !.evs = key \o @].evs
    BY <1>8 DEF Timeout, Decoded
  <2>2. key \in Seq(Told)
    BY Meanings, Tuples
  <2> HIDE DEF key
  <2>3. u \in Seq(Bytes) /\ Len(u) = Len(s) - 1
    <3>1. u \in Seq(Bytes)
      BY <1>2, <1>5
    <3> QED BY <1>5, <3>1 DEF Beyond
  <2>4. PICK d \in Nat : d = 1
    OBVIOUS
  <2>5. Follows(made, o, c + d, u)
    <3>1. d \in 0..Len(s) /\ Beyond(u, s, d)
      BY <1>5, <2>4
    <3> HIDE DEF u, t
    <3> QED BY <1>4, <1>5, <2>3, <3>1, Behind
  <2>6. c + d + Len(u) = o[Len(made)]
    <3> HIDE DEF u
    <3>1. Len(s) \in Nat
      BY <1>5
    <3> QED BY <1>4, <1>6, <2>3, <2>4, <3>1
  <2>7. Goes(made, o, TRUE, G, k, wire, r)
    <3>1. PICK e : e = c + d
      OBVIOUS
    <3>2. Follows(made, o, e, u) /\ e + Len(u) = o[Len(made)] /\ Patient(made, o, e) /\ Stands(made, o, TRUE, e, in_paste, k)
      BY <1>2, <1>7, <2>5, <2>6, <3>1
    <3>3. t \in Seq(Bytes)
      BY <1>5
    <3>4. PICK lost \in BOOLEAN : lost = TRUE
      OBVIOUS
    <3> HIDE DEF t
    <3>5. Goes(made, o, lost, G, k, wire, Feed(t, in_paste))
      BY <1>2, <1>4, <2>3, <3>2, <3>3, <3>4, FeedGoes
    <3> QED BY <3>4, <3>5
  <2> HIDE DEF r
  <2>8. r \in [buf : Seq(Bytes), in_paste : BOOLEAN, evs : Seq(Told)]
    BY <2>7 DEF Goes
  <2>9. buf' = r.buf /\ in_paste' = r.in_paste /\ got' = got \o (key \o r.evs)
    BY <2>1, <2>2, <2>8, ToldFirst
  <2>10. PICK c2, k2 :
           /\ Follows(made, o, c2, r.buf \o wire) /\ c2 + Len(r.buf \o wire) = o[Len(made)]
           /\ Patient(made, o, c2)
           /\ Stands(made, o, TRUE, c2, r.in_paste, k2)
           /\ ~r.in_paste => r.buf = <<>> \/ Waits(made, k2, Len(r.buf))
    BY <2>7 DEF Goes
  <2>11. Where(o, G, c2, k2)'
    BY <1>3, <1>4, <2>9, <2>10 DEF Where
  <2>12. got' \in Seq(Told) /\ buf' \in Seq(Bytes) /\ in_paste' \in BOOLEAN
    BY <1>2, <2>2, <2>8, <2>9
  <2> QED BY <1>2, <1>3, <2>11, <2>12 DEF InStream
<1>9. CASE Head(buf) # "esc"
  <2>1. buf' = <<>> /\ in_paste' = TRUE /\ got' = got \o <<>>
    BY <1>2, <1>9 DEF Timeout, Decoded
  <2>2. got' = got /\ buf' \o wire' = wire /\ <<>> \in Seq(Bytes)
    BY <1>2, <1>3, <2>1
  <2> DEFINE d == Len(buf)
  <2>3. Follows(made, o, c + d, wire)
    BY <1>2, <1>4, <1>5, Behind
  <2>4. c + d + Len(wire) = o[Len(made)]
    BY <1>4, <1>5, <1>6
  <2>5. Patient(made, o, c + d) /\ Stands(made, o, TRUE, c + d, TRUE, k)
    BY <1>6, <1>7
  <2>6. PICK p : p = c + d
    OBVIOUS
  <2>7. /\ Follows(made, o, p, wire) /\ p + Len(wire) = o[Len(made)] /\ Patient(made, o, p)
        /\ Stands(made, o, TRUE, p, TRUE, k)
    BY <2>3, <2>4, <2>5, <2>6
  <2>8. Where(o, G, p, k)'
    BY <1>3, <1>4, <2>1, <2>2, <2>7 DEF Where
  <2> QED BY <1>2, <1>3, <2>1, <2>2, <2>8 DEF InStream
<1> QED BY <1>8, <1>9

\* A timer that fires outside a paste finds an Escape, or alt+[, which is the
\* last gesture made: it is told, and nothing is left.
LEMMA LoneStep ==
  ASSUME InStream, Timeout, ~in_paste
  PROVE  InStream'
<1>1. PICK o, G, c, k : Where(o, G, c, k)
  BY DEF InStream
<1>2. /\ wire = <<>> /\ buf \in Seq(Bytes) /\ in_paste = FALSE /\ got \in Seq(Told) /\ cut \in BOOLEAN
      /\ made \in Seq(Gestures) /\ buf # <<>>
  <2>1. buf \in Seq(Bytes) /\ in_paste \in BOOLEAN /\ got \in Seq(Told) /\ cut \in BOOLEAN
        /\ made \in Seq(Gestures)
    BY DEF InStream
  <2> QED BY <2>1 DEF Timeout
<1>3. wire' = wire /\ made' = made /\ cut' = cut
  BY <1>2 DEF Timeout
<1> DEFINE s == buf \o wire
           g == made[k + 1]
           n == Len(made)
<1>4. /\ Ends(made, o) /\ Sums(made, G) /\ Follows(made, o, c, s) /\ c + Len(s) = o[n]
      /\ Patient(made, o, c) /\ Stands(made, o, cut, c, in_paste, k)
      /\ ~cut => got = G[k]
  BY <1>1 DEF Where
<1>5. s \in Seq(Bytes) /\ Len(buf) \in 0..Len(s) /\ Beyond(wire, s, Len(buf)) /\ Len(s) = Len(buf)
  <2>1. wire \in Seq(Bytes) /\ Len(wire) = 0
    BY <1>2
  <2>2. Len(buf) \in Nat
    BY <1>2
  <2>3. buf \in Seq(Bytes) /\ wire \in Seq(Bytes)
    BY <1>2, <2>1
  <2>4. s \in Seq(Bytes) /\ Len(buf) \in 0..Len(s) /\ Beyond(wire, s, Len(buf)) /\ Len(s) = Len(buf) + Len(wire)
    BY <2>3, Dropped
  <2> HIDE DEF s
  <2> QED BY <2>1, <2>2, <2>4
<1>6. k + 1 = n /\ g \in {"escape", "altbrk"} /\ buf = Writes[g] /\ g \in AllGestures
  <2>1. k + 1 = n /\ g \in {"escape", "altbrk"} /\ buf = Writes[g]
    BY <1>1, <1>2, Pending
  <2> QED BY <2>1, Table
<1>7. n \in Nat /\ k \in 0..n /\ c \in Nat /\ o[n] \in Nat /\ n \in 0..n /\ n \in 1..n
  <2>1. n \in Nat /\ o[n] \in Nat
    BY <1>4, EndsNat
  <2>2. k \in 0..n /\ c \in Nat
    BY <1>4 DEF Stands, Follows
  <2> QED BY <1>6, <2>1, <2>2
<1> DEFINE r == Feed(Tail(buf), in_paste)
           key == <<Key("esc", {})>>
<1>8. /\ Head(buf) = "esc" /\ r \in [buf : Seq(Bytes), in_paste : BOOLEAN, evs : Seq(Told)]
      /\ r.buf = <<>> /\ r.in_paste = FALSE /\ key \o r.evs = Means[g]
  <2>0. <<>> \in Seq(Told) /\ <<>> \in Seq(Bytes) /\ key \in Seq(Told)
    BY Meanings, Tuples
  <2>1. CASE g = "escape"
    <3>1. buf = <<"esc">> /\ Means[g] = key
      BY <1>6, <2>1, Table
    <3>2. Head(buf) = "esc" /\ Tail(buf) = <<>>
      BY <3>1
    <3>3. r = [buf |-> <<>>, in_paste |-> FALSE, evs |-> <<>>]
      BY <1>2, <3>2, FeedShort
    <3> HIDE DEF key, r
    <3>4. key \o <<>> = key
      BY <2>0
    <3> QED BY <2>0, <3>1, <3>2, <3>3, <3>4
  <2>2. CASE g = "altbrk"
    <3>1. buf = <<"esc", "[">> /\ Means[g] = <<Key("esc", {}), Key("[", {})>>
      BY <1>6, <2>2, Table
    <3>2. Head(buf) = "esc" /\ Tail(buf) = <<"[">>
      BY <3>1
    <3>3. r.buf = <<>> /\ r.in_paste = FALSE /\ r.evs = <<Key("[", {})>>
      BY <1>2, <3>2, FeedShort
    <3>4. key \o <<Key("[", {})>> = <<Key("esc", {}), Key("[", {})>>
      <4>1. Key("esc", {}) \in Told /\ Key("[", {}) \in Told
        <5>1. Means[g] \in Seq(Told) /\ Len(Means[g]) = 2 /\ Means[g][2] = Key("[", {})
          BY <1>6, <3>1, Meanings
        <5> QED BY <5>1, Meanings
      <4> QED BY <4>1, Two
    <3>5. r \in [buf : Seq(Bytes), in_paste : BOOLEAN, evs : Seq(Told)]
      BY <1>2, <3>2, FeedShort
    <3> HIDE DEF key, r
    <3> QED BY <3>1, <3>2, <3>3, <3>4, <3>5
  <2> QED BY <1>6, <2>1, <2>2
<1>9. buf' = <<>> /\ in_paste' = FALSE /\ got' = got \o Means[g]
  <2> DEFINE e == [r EXCEPT !.evs = key \o @]
  <2>1. buf' = e.buf /\ in_paste' = e.in_paste /\ got' = got \o e.evs
    BY <1>8 DEF Timeout, Decoded
  <2>2. key \in Seq(Told)
    BY Meanings, Tuples
  <2> HIDE DEF r, key
  <2>3. e.buf = r.buf /\ e.in_paste = r.in_paste /\ e.evs = key \o r.evs
    BY <1>8, <2>2, ToldFirst
  <2> HIDE DEF e
  <2> QED BY <1>8, <2>1, <2>3
<1> HIDE DEF r, key, s
<1>10. Means[g] \in Seq(Told) /\ G[n] = G[k] \o Means[g]
  <2>0. n - 1 = k
    BY <1>6, <1>7
  <2>1. G[n] = G[n - 1] \o Means[made[n]]
    BY <1>4, <1>7 DEF Sums
  <2> QED BY <1>6, <2>0, <2>1, Meanings
<1>11. Follows(made, o, o[n], <<>>)
  <2> DEFINE d == Len(buf)
  <2>0. wire \in Seq(Bytes)
    BY <1>2
  <2>1. Follows(made, o, c + d, wire)
    BY <1>4, <1>5, <2>0, Behind
  <2>2. c + d = o[n]
    BY <1>4, <1>5
  <2> QED BY <1>2, <2>1, <2>2
<1>12. Patient(made, o, o[n]) /\ Stands(made, o, cut, o[n], FALSE, n)
  <2>1. \A j \in 0..n : o[j] <= o[n]
    BY <1>4, <1>7, EndsUp
  <2>2. \A j \in 1..n - 1 : j \in 0..n
    BY <1>7
  <2>3. Patient(made, o, o[n])
    BY <2>1, <2>2 DEF Patient
  <2> QED BY <1>7, <2>3 DEF Stands
<1>13. Where(o, G, o[n], n)'
  <2>1. ~cut' => got' = G[n]
    BY <1>3, <1>4, <1>9, <1>10
  <2>2. buf' \o wire' = <<>> /\ Len(<<>>) = 0 /\ o[n] + 0 = o[n]
    BY <1>2, <1>3, <1>7, <1>9
  <2> QED BY <1>3, <1>4, <1>9, <1>11, <1>12, <2>1, <2>2 DEF Where
<1>14. got' \in Seq(Told) /\ buf' \in Seq(Bytes) /\ wire' \in Seq(Bytes)
  <2>1. <<>> \in Seq(Bytes)
    OBVIOUS
  <2> QED BY <1>2, <1>3, <1>9, <1>10, <2>1
<1> QED BY <1>2, <1>3, <1>9, <1>13, <1>14 DEF InStream

\* A step that changes nothing leaves the decoder where it stands.
LEMMA SameStream == InStream /\ UNCHANGED inputs => InStream'
<1> SUFFICES ASSUME InStream, UNCHANGED inputs PROVE InStream'
  OBVIOUS
<1>1. wire' = wire /\ buf' = buf /\ in_paste' = in_paste /\ got' = got /\ made' = made /\ cut' = cut
  BY DEF inputs
<1>2. PICK o, G, c, k : Where(o, G, c, k)
  BY DEF InStream
<1>3. Where(o, G, c, k)'
  BY <1>1, <1>2 DEF Where
<1> QED BY <1>1, <1>3 DEF InStream

\* The decoder is never anywhere else than in the stream, when the user goes on
\* after an Escape only once it is resolved.
LEMMA AlwaysInStream == ASSUME ~Hasty PROVE InputSpec => []InStream
<1>1. InStream /\ [InputNext]_inputs => InStream'
  <2> SUFFICES ASSUME InStream, [InputNext]_inputs PROVE InStream'
    OBVIOUS
  <2>1. ASSUME NEW g \in Gestures, Gesture(g) PROVE InStream'
    BY <2>1, GestureStep
  <2>2. ASSUME NEW n \in 1..Len(wire), Read(n) PROVE InStream'
    BY <2>2, ReadStep
  <2>3. CASE Timeout
    BY <2>3, CutStep, LoneStep
  <2>4. CASE UNCHANGED inputs
    BY <2>4, SameStream
  <2> QED BY <2>1, <2>2, <2>3, <2>4 DEF InputNext, Reading
<1> QED BY <1>1, StreamInit, PTL DEF InputSpec

(* The decoder holds bytes that were written and has handed on events of the *)
(* four kinds, whatever is typed and however the reads cut it.               *)
THEOREM InputTypeCorrect == ASSUME ~Hasty PROVE InputSpec => []InputTypeOK
<1>1. InStream => InputTypeOK
  <2> SUFFICES ASSUME InStream PROVE InputTypeOK
    OBVIOUS
  <2>1. got \in Seq(Told) /\ \A k \in DOMAIN got : got[k] \in Told
    BY DEF InStream
  <2>2. \A k \in DOMAIN got : got[k].kind \in {"key", "paste", "mouse", "focus"}
    BY <2>1, Untyped
  <2> QED BY <2>2 DEF InStream, InputTypeOK
<1> QED BY <1>1, AlwaysInStream, PTL

\* When nothing is left, every gesture is decoded, unless a timer cut a paste.
LEMMA AllDecoded ==
  ASSUME InStream, NEW o, NEW G, NEW c, NEW k, Where(o, G, c, k), ~cut, wire = <<>>, buf = <<>>
  PROVE  k = Len(made)
<1> DEFINE n == Len(made)
<1>1. /\ Ends(made, o) /\ c = o[n] /\ Stands(made, o, cut, c, in_paste, k)
  <2>1. Ends(made, o) /\ c + Len(buf \o wire) = o[n] /\ Stands(made, o, cut, c, in_paste, k) /\ c \in Nat
    BY DEF Where, Follows
  <2>2. Len(buf \o wire) = 0
    OBVIOUS
  <2> QED BY <2>1, <2>2
<1>2. n \in Nat /\ k \in 0..n /\ n \in 0..n
  <2>1. n \in Nat
    BY <1>1, EndsNat
  <2> QED BY <1>1, <2>1 DEF Stands
<1> SUFFICES ASSUME k # n PROVE FALSE
  OBVIOUS
<1>3. k \in 0..n - 1 /\ k + 1 \in 0..n
  BY <1>2
<1>4. o[k + 1] = o[k] + Len(Writes[made[k + 1]]) /\ o[k] \in Nat /\ Len(Writes[made[k + 1]]) \in Nat \ {0}
  BY <1>1, <1>3, EndsGrow
<1>5. o[k + 1] <= o[n]
  BY <1>1, <1>2, <1>3, EndsUp
<1>6. CASE ~in_paste
  <2>1. c = o[k]
    BY <1>1, <1>6 DEF Stands
  <2> DEFINE l == Len(Writes[made[k + 1]])
  <2> HIDE DEF l
  <2> QED BY <1>1, <1>4, <1>5, <2>1 DEF l
<1>7. CASE in_paste
  <2>1. made[k + 1] = "paste" /\ c = o[k] + 4
    BY <1>1, <1>7 DEF Stands
  <2>2. Len(Writes["paste"]) = 10
    BY Table
  <2>3. o[k + 1] = o[k] + 10
    BY <1>4, <2>1, <2>2
  <2> HIDE DEF n
  <2> QED BY <1>1, <1>4, <1>5, <2>1, <2>3
<1> QED BY <1>6, <1>7

(* Wherever the reads cut the stream and whenever the timer fires, what is   *)
(* decoded is what the gestures meant, in order, with nothing made up and in *)
(* the end nothing missing, and no character of a paste is handed on as a    *)
(* key (input_feed, parse_one, input_timeout).                               *)
THEOREM DecodesAlways == ASSUME ~Hasty PROVE InputSpec => []Decodes
<1>1. InStream => Decodes
  <2> SUFFICES ASSUME InStream PROVE Decodes
    OBVIOUS
  <2>1. PICK o, G, c, k : Where(o, G, c, k)
    BY DEF InStream
  <2>2. PasteNeverTyped
    <3>1. \A j \in DOMAIN got : got[j] \in Told
      BY DEF InStream
    <3> QED BY <3>1, Untyped DEF PasteNeverTyped
  <2>3. made \in Seq(AllGestures) /\ Sums(made, G) /\ k \in 0..Len(made) /\ (~cut => got = G[k])
    BY <2>1, Known DEF Where, Stands
  <2>4. Meant = G[Len(made)]
    BY <2>3, SumOK DEF Meant
  <2>5. IsPrefix(G[k], G[Len(made)])
    BY <2>3, SumPrefix
  <2>6. ASSUME ~cut, wire = <<>>, buf = <<>> PROVE k = Len(made)
    BY <2>1, <2>6, AllDecoded
  <2> QED BY <2>2, <2>3, <2>4, <2>5, <2>6 DEF Decodes
<1> QED BY <1>1, AlwaysInStream, PTL
=============================================================================
