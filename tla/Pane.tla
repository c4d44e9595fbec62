-------------------------------- MODULE Pane --------------------------------
(***************************************************************************)
(* The life of a pane: its program and its pseudo-terminal                 *)
(* (src/src/pane.c, src/src/pty.c), the death the session notices          *)
(* (src/src/app.c), the re-run and the reaping (src/src/app_layout.c), and *)
(* the word Ctrl-D types at an idle prompt.  The kernel, which decides     *)
(* when a terminal is at its end and when a process can be waited for, is  *)
(* the environment.                                                        *)
(*                                                                         *)
(* Run r of the pane is the r-th process it forks, and r is its pid.  A    *)
(* process that was waited for leaves a number the kernel may give away.   *)
(***************************************************************************)
EXTENDS Naturals, FiniteSets

CONSTANTS
  MaxRuns,  \* bound: processes forked
  MaxLine   \* bound: characters on a line, and the count's error about it

VARIABLES
  present,    \* the pane is a leaf of a tab
  keeps,      \* keep_corpse of this pane
  alive,      \* pane.alive
  suspended,  \* pane.suspended
  fd,         \* pane.pty.fd >= 0
  pid,        \* pane.pty.pid, 0 for -1
  exit,       \* pane.exit_known and what is known
  line_len,   \* pane.line_len
  forked,     \* processes forked so far
  proc,       \* the kernel's table: what has become of each run
  tty,        \* the runs whose terminal somebody still holds open
  code,       \* how each run ended
  hup,        \* the runs that were sent SIGHUP
  stray,      \* a signal went to a number this pane no longer owned
  noted,      \* how often each run's end was written into the pane
  line,       \* characters on the line the shell is editing
  cursor,     \* those before the shell's cursor
  astray,     \* history: by how much the count was misled about this line
  wrecked     \* history: "exit" was typed behind more than that

kernel == <<forked, proc, tty, code>>
pane   == <<alive, suspended, fd, pid, exit>>
typing == <<line_len, line, cursor, astray, wrecked>>
vars   == <<present, keeps, pane, kernel, hup, stray, noted, typing>>

Runs == 1 .. MaxRuns

ASSUME PaneAssumption ==
  MaxRuns \in Nat \ {0} /\ MaxLine \in 0 .. 65535   \* below UINT16_MAX

Unknown == "unknown"

Init ==
  /\ present = FALSE /\ keeps \in BOOLEAN
  /\ alive = FALSE /\ suspended = FALSE /\ fd = FALSE /\ pid = 0 /\ exit = Unknown
  /\ forked = 0 /\ proc = [r \in Runs |-> "none"] /\ tty = {}
  /\ code = [r \in Runs |-> Unknown]
  /\ hup = {} /\ stray = FALSE /\ noted = [r \in Runs |-> 0]
  /\ line_len = 0 /\ line = 0 /\ cursor = 0 /\ astray = 0 /\ wrecked = FALSE

(***************************************************************************)
(* The kernel                                                              *)
(***************************************************************************)
Codes == {"status 0", "status 3", "signal"}

(* A process exits: its descriptors close first, and only then can it be    *)
(* waited for.  A child it leaves behind may keep the terminal.             *)
Exits(r) ==
  /\ proc[r] = "running"
  /\ proc' = [proc EXCEPT ![r] = "ending"]
  /\ \E c \in Codes : code' = [code EXCEPT ![r] = c]
  /\ tty' \in {tty, tty \ {r}}
  /\ UNCHANGED <<present, keeps, pane, forked, hup, stray, noted, typing>>

BecomesZombie(r) ==
  /\ proc[r] = "ending" /\ proc' = [proc EXCEPT ![r] = "zombie"]
  /\ UNCHANGED <<present, keeps, pane, forked, tty, code, hup, stray, noted, typing>>

(* The last holder of a terminal lets it go: a background child ends, or a  *)
(* program goes on without it.                                              *)
LetsGo(r) ==
  /\ r \in tty /\ tty' = tty \ {r}
  /\ UNCHANGED <<present, keeps, pane, forked, proc, code, hup, stray, noted, typing>>

(* What waitpid(WNOHANG), tried a few times, finds: a process on its way    *)
(* out may or may not have got there.                                       *)
Waited(p, r) ==
  {got \in BOOLEAN : /\ p[r] = "zombie" => got
                     /\ got => p[r] \in {"zombie", "ending"}}

(***************************************************************************)
(* pty_spawn, pty_close                                                    *)
(***************************************************************************)
Forks ==
  /\ forked < MaxRuns
  /\ forked' = forked + 1
  /\ proc' = [proc EXCEPT ![forked + 1] = "running"]
  /\ tty' = tty \cup {forked + 1}
  /\ fd' = TRUE /\ pid' = forked + 1
  /\ line' = 0 /\ cursor' = 0 /\ astray' = 0

(* posix_openpt, the slave or fork fails; nothing is left open. *)
ForkFails == UNCHANGED <<fd, pid, forked, proc, tty, line, cursor, astray>>

\* Mutant: what was waited for is closed as though it had not been.
PtyCloseForgets(r, p) ==
  /\ fd' = FALSE /\ pid' = 0
  /\ hup' = hup /\ stray' = stray
  /\ proc' = p

(* Close the master, hang up the process r if it was not waited for, and    *)
(* collect it if it is quick; p is the process table at this point.         *)
PtyClose(r, p) ==
  /\ fd' = FALSE /\ pid' = 0
  /\ IF r = 0 THEN proc' = p /\ UNCHANGED <<hup, stray>>
     ELSE /\ hup' = hup \cup {r}
          /\ stray' = (stray \/ p[r] = "gone")
          /\ \E quick \in Waited(p, r) \cup (IF p[r] = "running" THEN BOOLEAN ELSE {}) :
               proc' = IF quick THEN [p EXCEPT ![r] = "gone"] ELSE p

(***************************************************************************)
(* Making, starting and re-running a pane                                  *)
(***************************************************************************)
(* pane_new_ex; a suspended pane is spawned and then closed.  The terminal  *)
(* of a process that is hung up at once is not watched by anybody.          *)
NewPane(susp) ==
  /\ ~present /\ forked = 0
  /\ present' = TRUE /\ alive' = TRUE /\ suspended' = susp
  /\ forked' = 1 /\ tty' = {1}
  /\ IF susp THEN PtyClose(1, [proc EXCEPT ![1] = "running"])
     ELSE /\ proc' = [proc EXCEPT ![1] = "running"]
          /\ fd' = TRUE /\ pid' = 1 /\ UNCHANGED <<hup, stray>>
  /\ UNCHANGED <<keeps, exit, code, noted, typing>>

(* pane_start *)
Start ==
  /\ suspended' = FALSE
  /\ UNCHANGED exit
  /\ \/ Forks /\ alive' = TRUE
     \/ ForkFails /\ alive' = FALSE

\* Mutant: a new run keeps the old one's exit status.
RestartRemembers ==
  /\ UNCHANGED exit
  /\ \/ Forks /\ alive' = TRUE /\ suspended' = FALSE
     \/ ForkFails /\ UNCHANGED <<alive, suspended>>

(* pane_restart *)
Restart ==
  /\ exit' = Unknown
  /\ \/ Forks /\ alive' = TRUE /\ suspended' = FALSE
     \/ ForkFails /\ UNCHANGED <<alive, suspended>>

(* app_rerun_pane: [re-run], and the command of that name. *)
Rerun ==
  /\ present
  /\ \/ suspended /\ Start
     \/ ~suspended /\ ~alive /\ Restart
  /\ UNCHANGED <<present, keeps, code, hup, stray, noted, line_len, wrecked>>

(***************************************************************************)
(* The end                                                                 *)
(***************************************************************************)
ReapedPid == 0

(* pane_died: the status first, then the terminal. *)
Died ==
  /\ alive' = FALSE
  /\ \E got \in Waited(proc, pid) :
       IF got THEN /\ exit' = code[pid]
                   /\ PtyClose(ReapedPid, [proc EXCEPT ![pid] = "gone"])
       ELSE UNCHANGED exit /\ PtyClose(pid, proc)

\* Mutant: an end is only noted when its status is known.
NotedWhenKnown(r) ==
  noted' = IF exit' = Unknown THEN noted ELSE [noted EXCEPT ![r] = @ + 1]

(* pane_note of how the run ended. *)
Noted(r) == noted' = [noted EXCEPT ![r] = @ + 1]

(* app_pump_fd at the end of the file: the death, and the note about it. *)
Pump ==
  /\ present /\ fd /\ pid \notin tty
  /\ IF alive THEN Died /\ Noted(pid)
     ELSE UNCHANGED <<pane, proc, hup, stray, noted>>
  /\ UNCHANGED <<present, keeps, suspended, forked, tty, code, typing>>

(* close_leaf and pane_free *)
Freed ==
  /\ present' = FALSE
  /\ IF fd THEN PtyClose(pid, proc) ELSE UNCHANGED <<fd, pid, proc, hup, stray>>
  /\ UNCHANGED <<keeps, alive, suspended, exit, forked, tty, code, noted, typing>>

Close == present /\ Freed

(* app_reap *)
Reap == present /\ ~alive /\ ~keeps /\ Freed

(***************************************************************************)
(* The line being typed                                                    *)
(***************************************************************************)
AtPrompt == present /\ alive /\ ~suspended /\ fd /\ proc[pid] = "running"

(* n characters are left, the cursor behind c of them.                      *)
Edited(n, c) ==
  line' = n /\ cursor' = c /\ astray' = IF n = 0 THEN 0 ELSE astray

(* pane_send_key of a key that makes a character, where the cursor is; and  *)
(* of Enter.                                                                *)
Types ==
  /\ line < MaxLine /\ line_len < MaxLine
  /\ Edited(line + 1, cursor + 1) /\ line_len' = line_len + 1
  /\ UNCHANGED wrecked
Enters == Edited(0, 0) /\ line_len' = 0 /\ UNCHANGED wrecked

(* Backspace, alone or with a modifier that makes it take more, is counted  *)
(* once, and wherever the cursor is: at the start of the line it takes      *)
(* nothing, and the count falls all the same.                               *)
Backspaces ==
  /\ line_len' = (IF line_len > 0 THEN line_len - 1 ELSE 0)
  /\ UNCHANGED wrecked
  /\ \/ \E n \in 1 .. cursor : Edited(line - n, cursor - n)
     \/ /\ cursor = 0
        /\ UNCHANGED <<line, cursor>>
        /\ IF line > 0 /\ line_len > 0
           THEN astray < MaxLine /\ astray' = astray + 1
           ELSE UNCHANGED astray

(* Keys that move about the line or cut from it and make no character: the  *)
(* arrows, Home and End; Delete, ^W, ^U, ^K, ^C, before the cursor and      *)
(* behind it.                                                               *)
Moves ==
  /\ cursor' \in 0 .. line
  /\ UNCHANGED <<line, astray, line_len, wrecked>>
Cuts ==
  /\ \E before \in 0 .. cursor, behind \in 0 .. (line - cursor) :
       Edited(line - before - behind, cursor - before)
  /\ UNCHANGED <<line_len, wrecked>>

(* A paste (pane_send_paste), a recalled command, a completion, an undo: on *)
(* the line and not counted.                                                *)
Recalls ==
  /\ line < MaxLine /\ astray < MaxLine
  /\ line' = line + 1 /\ cursor' = cursor + 1 /\ astray' = astray + 1
  /\ UNCHANGED <<line_len, wrecked>>

\* Mutant: the word is typed whatever the line looks like.
LooksAlwaysEmpty == TRUE

LooksEmpty == line_len = 0   \* pane_line_empty

(* ctrl_d_exit on a line that looks empty: the word is typed and entered.   *)
CtrlD ==
  /\ LooksEmpty
  /\ wrecked' = (wrecked \/ line > astray)
  /\ Edited(0, 0)
  /\ UNCHANGED line_len

Typing ==
  /\ AtPrompt
  /\ \/ Types \/ Backspaces \/ Enters \/ Moves \/ Cuts \/ Recalls \/ CtrlD
  /\ UNCHANGED <<present, keeps, pane, kernel, hup, stray, noted>>

(* The first key starts a suspended pane and goes no further. *)
FirstKey ==
  /\ present /\ suspended /\ Start
  /\ UNCHANGED <<present, keeps, code, hup, stray, noted, line_len, wrecked>>

Next ==
  \/ \E susp \in BOOLEAN : NewPane(susp)
  \/ \E r \in Runs : Exits(r) \/ BecomesZombie(r) \/ LetsGo(r)
  \/ Rerun
  \/ FirstKey
  \/ Pump
  \/ Close
  \/ Reap
  \/ Typing

(* The poll loop pumps what is at its end and reaps on every turn. *)
Fairness == WF_vars(Pump) /\ WF_vars(Reap)

Spec == Init /\ [][Next]_vars /\ Fairness

(***************************************************************************)
(* Properties                                                              *)
(***************************************************************************)
(* Every variable has its type. *)
TypeOK ==
  /\ present \in BOOLEAN /\ keeps \in BOOLEAN /\ alive \in BOOLEAN
  /\ suspended \in BOOLEAN /\ fd \in BOOLEAN /\ pid \in 0 .. MaxRuns
  /\ exit \in Codes \cup {Unknown}
  /\ forked \in 0 .. MaxRuns
  /\ proc \in [Runs -> {"none", "running", "ending", "zombie", "gone"}]
  /\ tty \subseteq Runs /\ code \in [Runs -> Codes \cup {Unknown}]
  /\ hup \subseteq Runs /\ stray \in BOOLEAN /\ noted \in [Runs -> Nat]
  /\ line_len \in 0 .. MaxLine /\ line \in 0 .. MaxLine /\ cursor \in 0 .. line
  /\ astray \in 0 .. MaxLine /\ wrecked \in BOOLEAN

(* A signal only ever goes to a process of this pane that has not been      *)
(* waited for: "reaped: nothing may signal this number again".              *)
(* A status is told only of a pane that is dead, and is that of the last    *)
(* run it made; a run's end is noted at most once, and only of a run whose  *)
(* terminal was at its end.                                                 *)
OwnFate ==
  /\ ~stray
  /\ exit # Unknown => ~alive /\ exit = code[forked] /\ proc[forked] = "gone"
  /\ \A r \in Runs : noted[r] <= 1 /\ (noted[r] = 1 => r \notin tty)

(* Nothing runs unseen, and nothing dead is polled: every process that was  *)
(* not waited for is the one the pane's terminal belongs to or has been     *)
(* told to hang up; a dead pane holds no descriptor, a live one that was    *)
(* started does.                                                            *)
Accounted ==
  /\ \A r \in Runs : proc[r] \in {"running", "ending", "zombie"} => (fd /\ pid = r) \/ r \in hup
  /\ present => (fd <=> alive /\ ~suspended)

(* A program whose terminal nobody holds any more is noticed: its end is    *)
(* noted in the pane, or the pane is closed.                                *)
Noticed ==
  \A r \in Runs : (present /\ fd /\ pid = r /\ r \notin tty) ~> (noted[r] = 1 \/ ~present)

(* Ctrl-D's word throws away no more than the count was misled about: as    *)
(* many characters at most as came on the line without a key press, or as   *)
(* Backspaces were pressed with nothing before the cursor.  A line that     *)
(* neither happened to is empty when it looks empty, however it was moved   *)
(* about in, typed into and cut from since Enter.                           *)
ExitOnEmptyLine == ~wrecked

(* What the comment at src/src/pane.c:74 hopes for: the count errs upwards, *)
(* and a line that looks empty is.  A paste refutes it, and so do key       *)
(* presses alone (pane_home.cfg).                                           *)
CountErrsUpwards == AtPrompt => line <= line_len
=============================================================================
