------------------------------- MODULE Server -------------------------------
(***************************************************************************)
(* The session server's connection table: src/src/server.c.                *)
(*                                                                         *)
(* One thread runs a poll loop.  A cycle takes a snapshot of the           *)
(* descriptors (poll), accepts at most one connection, serves the readable *)
(* connections in array order, fires the ESC timeouts, detaches whoever    *)
(* asked, reloads the configuration, and goes round again.  The array is   *)
(* compacted by moving its last entry into the hole, while the loop is     *)
(* walking it.  Peers send and hang up at any moment.                      *)
(*                                                                         *)
(* Every step of the loop is one action; `mode' is the place in the loop.  *)
(* What a frame looks like and how it is queued is left to Delivery.       *)
(***************************************************************************)
EXTENDS Integers, Sequences, FiniteSets

CONSTANTS
  Fds,        \* descriptor numbers accept() can return
  MaxConns,   \* MAX_CONNS
  Sizes,      \* sizes a client may announce: [cols, rows], or NoSize
  StartSize,  \* the size the session is started with
  Watch,      \* the configuration file is watched: no --no-reload
  Backlog,    \* listen()'s backlog
  Configs,    \* [multi, follows] pairs the configuration file may hold
  Kinds,      \* what the bytes of one MSG_INPUT amount to
  Ops,        \* control commands
  Budget,     \* bound: messages, hang-ups and saves of the configuration file
  NoSize,     \* a HELLO or RESIZE that does not say its size
  None,       \* no descriptor, active_fd = -1; a file that does not parse
  Script      \* the control socket, as the author of an interaction

Policies   == {"active", "smallest", "largest"}
Dims       == [cols: Nat \ {0}, rows: Nat \ {0}]
Unsized    == [cols |-> 0, rows |-> 0]
InputKinds == {"user", "begin", "focus", "detach", "esc"}
CmdOps     == {"other", "begin", "detach", "resize", "reload", "quit"}

ASSUME ServerAssumption ==
  /\ MaxConns \in Nat \ {0}
  /\ Sizes \subseteq Dims \cup {NoSize}
  /\ StartSize \in Dims
  /\ Configs \subseteq [multi: BOOLEAN, follows: Policies] /\ Configs # {}
  /\ Kinds \subseteq InputKinds
  /\ Ops \subseteq CmdOps
  /\ Watch \in BOOLEAN
  /\ Backlog \in Nat \ {0}
  /\ Budget \in Nat
  /\ NoSize \notin Dims
  /\ None \notin Fds /\ Script \notin Fds /\ None # Script
  /\ None \notin Configs

Messages ==
  [type: {"hello", "resize"}, size: Sizes]
    \cup [type: {"input"}, kind: Kinds]
    \cup [type: {"cmd"}, op: Ops]
    \cup [type: {"detach"}]

VARIABLES
  conns,     \* server_t.conns: the descriptors, in array order
  displays,  \* connections whose `display' is set
  size,      \* conn_t.cols, rows
  activity,  \* conn_t.activity
  seq,       \* activity_seq
  active,    \* active_fd
  canvas,    \* the canonical screen's size
  cfg,       \* the configuration in force
  escs,      \* displays whose parser holds an unfinished ESC
  reader,    \* frames fed to conn_t.reader and not yet taken out
  holder,    \* whose prefix or drag the shared app is in the middle of
  stop,      \* g_stop, or app_should_quit
  mode,      \* the place in the loop
  ci,        \* the loop index (one-based here)
  dj,        \* the inner index of the displacing and evicting loops
  hello,     \* the size of the HELLO being handled while others are displaced
  polled,    \* the descriptors of the poll set, in slot order
  ready,     \* those poll() marked readable or hung up
  detachq,   \* detach_fds
  inbox,     \* frames in the socket, sent and not yet read
  waiting,   \* connected, not yet accepted: the listening socket's queue
  gone,      \* peers that have hung up
  file,      \* what the configuration file says now
  due,       \* reload_due: a save the debounce is holding
  budget,
  greeted,   \* history: open connections that have said HELLO
  asked,     \* history: descriptors a detach was asked for in this cycle
  farewell,  \* history: why a descriptor was closed in this cycle
  forced     \* history: a command has set the canvas since apply_canvas did

table  == <<conns, displays, size, activity, escs, reader>>
shared == <<seq, active, canvas, forced, holder>>
cycle  == <<mode, ci, dj, hello, polled, ready, detachq>>
peers  == <<inbox, waiting, gone, file, due, budget>>
vars   == <<table, shared, cfg, stop, cycle, peers, greeted, asked, farewell>>

Modes == {"poll", "conns", "msgs", "displace", "esc", "detach", "reload",
          "evict", "shutdown", "over"}

Reasons == {"none", "ended", "detached", "replaced", "eof", "eagain"}

Conns == {conns[i] : i \in 1..Len(conns)}

(***************************************************************************)
(* The type of every variable.                                             *)
(***************************************************************************)
TypeOK ==
  /\ conns \in Seq(Fds)
  /\ displays \subseteq Fds
  /\ size \in [Fds -> Dims \cup {Unsized}]
  /\ activity \in [Fds -> Nat]
  /\ seq \in Nat
  /\ active \in Fds \cup {None}
  /\ canvas \in Dims /\ forced \in BOOLEAN
  /\ cfg \in Configs
  /\ escs \subseteq Fds
  /\ reader \in [Fds -> Seq(Messages)]
  /\ holder \in Fds \cup {None, Script}
  /\ stop \in BOOLEAN
  /\ mode \in Modes
  /\ ci \in Nat /\ dj \in Nat
  /\ hello \in Sizes \cup {NoSize}
  /\ polled \in Seq(Fds)
  /\ ready \subseteq Fds
  /\ detachq \in Seq(Fds)
  /\ inbox \in [Fds -> Seq(Messages)]
  /\ waiting \in Seq(Fds) /\ gone \subseteq Fds
  /\ file \in Configs \cup {None} /\ due \in BOOLEAN
  /\ budget \in Nat
  /\ greeted \subseteq Fds /\ asked \subseteq Fds
  /\ farewell \in [Fds -> Reasons]

Init ==
  /\ conns = <<>> /\ displays = {} /\ escs = {}
  /\ size = [f \in Fds |-> Unsized]
  /\ activity = [f \in Fds |-> 0]
  /\ seq = 0 /\ active = None /\ canvas = StartSize /\ forced = FALSE
  /\ holder = None
  /\ cfg \in Configs
  /\ reader = [f \in Fds |-> <<>>]
  /\ stop = FALSE
  /\ mode = "poll" /\ ci = 0 /\ dj = 0 /\ hello = NoSize
  /\ polled = <<>> /\ ready = {} /\ detachq = <<>>
  /\ inbox = [f \in Fds |-> <<>>]
  /\ waiting = <<>> /\ gone = {} /\ budget = Budget
  /\ file = cfg /\ due = FALSE
  /\ greeted = {} /\ asked = {}
  /\ farewell = [f \in Fds |-> "none"]

-----------------------------------------------------------------------------
(* The peers, and the disk.                                                *)

Waiting == {waiting[i] : i \in 1..Len(waiting)}

Open == (Waiting \cup Conns) \ gone

Spend == budget > 0 /\ budget' = budget - 1

Send(f, m) ==
  /\ f \in Open
  /\ Spend
  /\ inbox' = [inbox EXCEPT ![f] = Append(@, m)]
  /\ UNCHANGED <<table, shared, cfg, stop, cycle, waiting, gone, file, due, greeted,
                 asked, farewell>>

\* A descriptor the server closed is free for the next connection to get.
Connect(f) ==
  /\ f \notin Waiting \cup Conns
  /\ Len(waiting) < Backlog
  /\ mode # "over"
  /\ waiting' = Append(waiting, f)
  /\ UNCHANGED <<table, shared, cfg, stop, cycle, inbox, gone, file, due, budget,
                 greeted, asked, farewell>>

HangUp(f) ==
  /\ f \in Open
  /\ Spend
  /\ gone' = gone \cup {f}
  /\ UNCHANGED <<table, shared, cfg, stop, cycle, inbox, waiting, file, due, greeted,
                 asked, farewell>>

SaveConfig(c) ==
  /\ Spend
  /\ file' = c
  /\ due' = Watch
  /\ UNCHANGED <<table, shared, cfg, stop, cycle, inbox, waiting, gone, greeted,
                 asked, farewell>>

\* The last pane closed, or a signal arrived.
SessionEnds ==
  /\ ~stop
  /\ stop' = TRUE
  /\ UNCHANGED <<table, shared, cfg, cycle, peers, greeted, asked, farewell>>

-----------------------------------------------------------------------------
(* Sizing the canvas, and who is active.                                   *)

\* Display d supplies this dimension of the canvas under policy p.
Supplies(p, d, dim) ==
  CASE p = "active"   -> d = active'
    [] p = "smallest" -> \A e \in displays' : size'[d][dim] <= size'[e][dim]
    [] p = "largest"  -> \A e \in displays' : size'[d][dim] >= size'[e][dim]

ApplyCanvas(p) ==
  IF displays' = {} \/ (p = "active" /\ active' = None)
  THEN UNCHANGED <<canvas, forced>>
  ELSE /\ forced' = FALSE
       /\ \E w, h \in displays' :
            /\ Supplies(p, w, "cols")
            /\ Supplies(p, h, "rows")
            /\ canvas' = [cols |-> size'[w].cols, rows |-> size'[h].rows]

\* A prefix or a drag half done belongs to the client that began it.
CancelInteraction == holder' = None

\* Mutant: the newcomer inherits the prefix.
MakeActiveInheriting(f) ==
  active' = f /\ holder' = holder /\ ApplyCanvas(cfg.follows)

MakeActive(f) ==
  /\ active' = f
  /\ IF f = active THEN holder' = holder ELSE CancelInteraction
  /\ ApplyCanvas(cfg.follows)

PromoteLatest ==
  /\ CancelInteraction
  /\ IF displays' = {}
     THEN active' = None
     ELSE \E l \in displays' :
            /\ \A d \in displays' : activity'[d] <= activity'[l]
            /\ active' = l
  /\ ApplyCanvas(cfg.follows)

-----------------------------------------------------------------------------
(* Closing a connection: the last entry moves into the hole.               *)

SwapRemove(s, k) ==
  [i \in 1..(Len(s) - 1) |-> IF i = k THEN s[Len(s)] ELSE s[i]]

ConnClose(k, why) ==
  LET f == conns[k] IN
  /\ conns' = SwapRemove(conns, k)
  /\ displays' = displays \ {f}
  /\ size' = [size EXCEPT ![f] = Unsized]
  /\ activity' = [activity EXCEPT ![f] = 0]
  /\ escs' = escs \ {f}
  /\ reader' = [reader EXCEPT ![f] = <<>>]
  /\ inbox' = [inbox EXCEPT ![f] = <<>>]
  /\ gone' = gone \ {f}
  /\ greeted' = greeted \ {f}
  /\ farewell' = [farewell EXCEPT ![f] = why]

\* Mutants: a departure promotes nobody; the canvas outlives who sized it.
CloseConnPromotingNobody(k, why) ==
  ConnClose(k, why) /\ UNCHANGED <<active, holder, canvas, forced>>

CloseConnKeepingCanvas(k, why) ==
  /\ ConnClose(k, why)
  /\ IF conns[k] = active
     THEN PromoteLatest
     ELSE UNCHANGED <<active, holder, canvas, forced>>

\* close_conn and drop_conn; they differ in the MSG_EXIT the peer is sent.
CloseConn(k, why) ==
  /\ ConnClose(k, why)
  /\ IF conns[k] = active
     THEN PromoteLatest
     ELSE active' = active /\ holder' = holder /\ ApplyCanvas(cfg.follows)

-----------------------------------------------------------------------------
(* poll() and accept().                                                    *)

Readable == {f \in Conns : inbox[f] # <<>> \/ f \in gone}

\* accept() takes one connection; a table that is full closes it.
Accept ==
  LET f == Head(waiting) IN
  /\ waiting' = Tail(waiting)
  /\ IF Len(conns) = MaxConns
     THEN /\ conns' = conns
          /\ inbox' = [inbox EXCEPT ![f] = <<>>]
          /\ gone' = gone \ {f}
     ELSE /\ conns' = Append(conns, f)
          /\ UNCHANGED <<inbox, gone>>

Poll ==
  /\ mode = "poll" /\ ~stop
  /\ waiting # <<>> \/ Readable # {} \/ escs # {} \/ due
  /\ mode' = "conns" /\ ci' = 1
  /\ polled' = conns
  /\ ready' = Readable
  /\ IF waiting = <<>> THEN UNCHANGED <<conns, waiting, inbox, gone>> ELSE Accept
  /\ asked' = {}
  /\ farewell' = [f \in Fds |-> "none"]
  /\ UNCHANGED <<displays, size, activity, escs, reader, shared, cfg, stop, dj,
                 hello, detachq, file, due, budget, greeted>>

-----------------------------------------------------------------------------
(* Serving the connections the snapshot marked, in array order.            *)

\* Mutant: the poll entry is not compared with the connection.
InSlotUnchecked(i) == i \in 1..Len(polled)

\* The slot at this index still describes the connection at this index.
\* (Past the end of the poll set the code reads what it did not write there:
\* with nothing polled after the connections, neither pane nor watcher.  A
\* watcher or a pane follows in every instance here.)
InSlot(i) == i \in 1..Len(polled) /\ polled[i] = conns[i]

Serviceable(i) == InSlot(i) /\ polled[i] \in ready

\* Mutant: the loop stops one short.
NextServiceableButLast(i) ==
  /\ i \in ci..(Len(conns) - 1)
  /\ Serviceable(i)
  /\ \A j \in ci..(i - 1) : ~Serviceable(j)

NextServiceable(i) ==
  /\ i \in ci..Len(conns)
  /\ Serviceable(i)
  /\ \A j \in ci..(i - 1) : ~Serviceable(j)

ReadConn ==
  /\ mode = "conns"
  /\ \E i \in 1..Len(conns) :
       LET f == conns[i] IN
       /\ NextServiceable(i)
       /\ ci' = i
       /\ \/ \E n \in 1..Len(inbox[f]) :
               /\ reader' = [reader EXCEPT ![f] = @ \o SubSeq(inbox[f], 1, n)]
               /\ inbox' = [inbox EXCEPT
                              ![f] = SubSeq(@, n + 1, Len(@))]
               /\ mode' = "msgs"
               /\ UNCHANGED <<conns, displays, size, activity, escs, shared,
                              gone, greeted, farewell>>
          \* End of file, a flush that failed, or nothing to read after all.
          \/ /\ inbox[f] = <<>> \/ f \in gone
             /\ CloseConn(i, IF f \in gone THEN "eof" ELSE "eagain")
             /\ UNCHANGED <<mode, seq>>
  /\ UNCHANGED <<cfg, stop, dj, hello, polled, ready, detachq, waiting, file, due,
                 budget, asked>>

ConnsServed ==
  /\ mode = "conns"
  /\ \A i \in 1..Len(conns) : ~NextServiceable(i)
  /\ mode' = "esc" /\ ci' = 1
  /\ UNCHANGED <<table, shared, cfg, stop, dj, hello, polled, ready, detachq,
                 peers, greeted, asked, farewell>>

-----------------------------------------------------------------------------
(* One frame of the connection being served.                               *)

Serving == conns[ci]

Take(type) ==
  /\ mode = "msgs"
  /\ reader[Serving] # <<>>
  /\ Head(reader[Serving]).type = type

Taken == reader' = [reader EXCEPT ![Serving] = Tail(@)]

\* What the frame says, or what is already known: the connection's size if it
\* has one, else the canvas.
SizeOf(f, s) ==
  IF s # NoSize THEN s ELSE IF size[f] # Unsized THEN size[f] ELSE canvas

BecomeDisplay(f, s) ==
  /\ displays' = displays \cup {f}
  /\ size' = [size EXCEPT ![f] = SizeOf(f, s)]
  /\ activity' = [activity EXCEPT ![f] = seq + 1]
  /\ seq' = seq + 1
  /\ MakeActive(f)

HandleHello ==
  LET f == Serving  m == Head(reader[f]) IN
  /\ Take("hello")
  /\ f \notin displays
  /\ Taken
  /\ greeted' = greeted \cup {f}
  /\ IF cfg.multi
     THEN /\ BecomeDisplay(f, m.size)
          /\ UNCHANGED <<mode, dj, hello>>
     ELSE /\ mode' = "displace" /\ dj' = 1 /\ hello' = m.size
          /\ UNCHANGED <<displays, size, activity, shared>>
  /\ UNCHANGED <<conns, escs, cfg, stop, ci, polled, ready, detachq, peers, asked,
                 farewell>>

\* Mutant: displays after the newcomer in the array are left attached.
DisplaceNextBefore(j) == j < ci /\ conns[j] \in displays

\* multi_attach off: drop every other display, compacting under the index.
DisplaceNext(j) == j # ci /\ conns[j] \in displays

IndexAfterDrop(j) == IF j < ci THEN ci - 1 ELSE ci

Displace ==
  /\ mode = "displace"
  /\ \E j \in dj..Len(conns) :
       /\ DisplaceNext(j)
       /\ \A k \in dj..(j - 1) : ~DisplaceNext(k)
       /\ ConnClose(j, "replaced")
       /\ active' = IF conns[j] = active THEN None ELSE active
       /\ ci' = IndexAfterDrop(j)
       /\ dj' = j
  /\ UNCHANGED <<seq, canvas, forced, holder, cfg, stop, mode, hello, polled, ready,
                 detachq, waiting, file, due, budget, asked>>

Displaced ==
  /\ mode = "displace"
  /\ \A j \in dj..Len(conns) : ~DisplaceNext(j)
  /\ BecomeDisplay(Serving, hello)
  /\ mode' = "msgs" /\ dj' = 0 /\ hello' = NoSize
  /\ UNCHANGED <<conns, escs, reader, cfg, stop, ci, polled, ready, detachq,
                 peers, greeted, asked, farewell>>

\* A RESIZE, or a HELLO from a connection that is a display already.
HandleResize ==
  LET f == Serving  m == Head(reader[f]) IN
  /\ Take("resize") \/ (Take("hello") /\ f \in displays)
  /\ Taken
  /\ IF f \in displays
     THEN /\ size' = [size EXCEPT ![f] = SizeOf(f, m.size)]
          /\ active' = active /\ displays' = displays
          /\ ApplyCanvas(cfg.follows)
     ELSE UNCHANGED <<displays, size, active, canvas, forced>>
  /\ UNCHANGED <<conns, activity, escs, seq, holder, cfg, stop, cycle, peers, greeted,
                 asked, farewell>>

\* client_event for the first key, click or paste of a read, and the canvas
\* once the read is done: this client is the active one now.
\* A prefix it began itself it may complete or, by a motion, leave standing.
Interact(f, began) ==
  /\ activity' = [activity EXCEPT ![f] = seq + 1]
  /\ seq' = seq + 1
  /\ active' = f
  /\ IF began
     THEN holder' = f
     ELSE CancelInteraction \/ (f = active /\ holder' = holder)
  /\ ApplyCanvas(cfg.follows)

QueueDetach(f) ==
  /\ asked' = IF f = None THEN asked ELSE asked \cup {f}
  /\ detachq' = IF f = None \/ \E i \in 1..Len(detachq) : detachq[i] = f
                THEN detachq
                ELSE Append(detachq, f)

HandleInput ==
  LET f == Serving  kind == Head(reader[f]).kind IN
  /\ Take("input")
  /\ Taken
  /\ UNCHANGED <<conns, displays, size>>
  /\ IF f \in displays /\ kind \in {"user", "begin", "detach"}
     THEN Interact(f, kind = "begin")
     ELSE UNCHANGED <<activity, shared>>
  /\ escs' = IF f \in displays /\ kind = "esc" THEN escs \cup {f} ELSE escs \ {f}
  /\ IF f \in displays /\ kind = "detach"
     THEN QueueDetach(f)
     ELSE UNCHANGED <<asked, detachq>>
  /\ UNCHANGED <<cfg, stop, mode, ci, dj, hello, polled, ready, peers, greeted,
                 farewell>>

HandleDetach ==
  /\ Take("detach")
  /\ asked' = asked \cup {Serving}
  /\ CloseConn(ci, "detached")
  /\ mode' = "conns"
  /\ UNCHANGED <<seq, cfg, stop, ci, dj, hello, polled, ready, detachq, waiting,
                 file, due, budget>>

\* A control command, from any connection.  A reload here takes the new
\* configuration and nothing else; a resize (cmd.c:191, 639) sets the canvas to
\* what the script names, whoever is attached, and apply_canvas is not called.
HandleCmd ==
  LET op == Head(reader[Serving]).op IN
  /\ Take("cmd")
  /\ Taken
  /\ cfg' = IF op = "reload" /\ file # None THEN file ELSE cfg
  /\ stop' = (stop \/ op = "quit")
  /\ holder' = IF op = "begin" THEN Script ELSE holder
  /\ forced' = (forced \/ op = "resize")
  /\ IF op = "resize"
     THEN \E s \in Sizes \cup {NoSize} : canvas' = IF s = NoSize THEN canvas ELSE s
     ELSE canvas' = canvas
  /\ IF op = "detach" THEN QueueDetach(active) ELSE UNCHANGED <<asked, detachq>>
  /\ UNCHANGED <<conns, displays, size, activity, escs, seq, active, mode, ci, dj, hello, polled, ready, peers, greeted, farewell>>

MsgsDone ==
  /\ mode = "msgs"
  /\ reader[Serving] = <<>>
  /\ mode' = "conns" /\ ci' = ci + 1
  /\ UNCHANGED <<table, shared, cfg, stop, dj, hello, polled, ready, detachq,
                 peers, greeted, asked, farewell>>

-----------------------------------------------------------------------------
(* The rest of the cycle.                                                  *)

\* A lone ESC whose 40ms are up is a key, which may be bound to detach.
EscTimeout ==
  /\ mode = "esc"
  /\ \E i \in ci..Len(conns) :
       /\ conns[i] \in escs
       /\ ci' = i + 1
       /\ escs' = escs \ {conns[i]}
       /\ UNCHANGED <<conns, displays, size, reader>>
       /\ Interact(conns[i], FALSE)
       /\ QueueDetach(conns[i]) \/ UNCHANGED <<asked, detachq>>
  /\ UNCHANGED <<cfg, stop, mode, dj, hello, polled, ready, peers, greeted,
                 farewell>>

\* Those not yet due wait for a later cycle.
EscDone ==
  /\ mode = "esc"
  /\ mode' = "detach" /\ ci' = 0
  /\ UNCHANGED <<table, shared, cfg, stop, dj, hello, polled, ready, detachq,
                 peers, greeted, asked, farewell>>

\* Mutant: a detach takes whoever is active by now.
DetachTargetActive == active

DetachTarget == Head(detachq)

DetachQueued ==
  /\ mode = "detach"
  /\ detachq # <<>>
  /\ detachq' = Tail(detachq)
  /\ IF DetachTarget \in Conns
     THEN \E k \in 1..Len(conns) :
            /\ conns[k] = DetachTarget
            /\ CloseConn(k, "detached")
     ELSE UNCHANGED <<table, active, canvas, forced, holder, inbox, gone,
                       greeted, farewell>>
  /\ UNCHANGED <<seq, cfg, stop, mode, ci, dj, hello, polled, ready, waiting,
                 file, due, budget, asked>>

DetachDone ==
  /\ mode = "detach"
  /\ detachq = <<>>
  /\ mode' = "reload"
  /\ polled' = <<>> /\ ready' = {}
  /\ UNCHANGED <<table, shared, cfg, stop, ci, dj, hello, detachq, peers, greeted,
                 asked, farewell>>

\* The debounce has run out.  A file that does not parse changes nothing.
Reload ==
  /\ mode = "reload"
  /\ due /\ due' = FALSE
  /\ IF file = None
     THEN /\ mode' = "poll"
          /\ UNCHANGED <<displays, size, active, canvas, forced, cfg, dj>>
     ELSE /\ cfg' = file
          /\ UNCHANGED <<displays, size, active>>
          /\ IF file.multi
             THEN mode' = "poll" /\ dj' = dj /\ ApplyCanvas(file.follows)
             ELSE mode' = "evict" /\ dj' = 1 /\ UNCHANGED <<canvas, forced>>
  /\ UNCHANGED <<conns, activity, escs, reader, seq, holder, stop, ci, hello,
                 polled, ready, detachq, inbox, waiting, gone, file, budget,
                 greeted, asked, farewell>>

\* Nothing to reload, or the debounce still running.
NoReload ==
  /\ mode = "reload"
  /\ mode' = "poll"
  /\ UNCHANGED <<table, shared, cfg, stop, ci, dj, hello, polled, ready, detachq,
                 peers, greeted, asked, farewell>>

EvictNext(j) == conns[j] \in displays /\ conns[j] # active

Evict ==
  /\ mode = "evict"
  /\ \E j \in dj..Len(conns) :
       /\ EvictNext(j)
       /\ \A k \in dj..(j - 1) : ~EvictNext(k)
       /\ CloseConn(j, "replaced")
       /\ dj' = j
  /\ UNCHANGED <<seq, cfg, stop, mode, ci, hello, polled, ready, detachq,
                 waiting, file, due, budget, asked>>

Evicted ==
  /\ mode = "evict"
  /\ \A j \in dj..Len(conns) : ~EvictNext(j)
  /\ mode' = "poll" /\ dj' = 0
  /\ UNCHANGED <<displays, size, active>>
  /\ ApplyCanvas(cfg.follows)
  /\ UNCHANGED <<conns, activity, escs, reader, seq, holder, cfg, stop, ci, hello,
                 polled, ready, detachq, peers, greeted, asked, farewell>>

\* The loop is over: every connection is told, and the socket goes away.
Shutdown ==
  /\ \/ mode = "poll" /\ stop
     \/ mode = "shutdown"
  /\ IF conns = <<>>
     THEN /\ mode' = "over"
          /\ waiting' = <<>>
          /\ UNCHANGED <<table, active, inbox, gone, greeted, farewell>>
     ELSE /\ mode' = "shutdown"
          /\ ConnClose(1, "ended")
          /\ active' = IF conns[1] = active THEN None ELSE active
          /\ waiting' = waiting
  /\ UNCHANGED <<seq, canvas, forced, holder, cfg, stop, ci, dj, hello, polled,
                 ready, detachq, file, due, budget, asked>>

-----------------------------------------------------------------------------

Peers ==
  \/ \E f \in Fds : Connect(f) \/ HangUp(f)
  \/ \E f \in Fds, m \in Messages : Send(f, m)
  \/ \E c \in Configs \cup {None} : SaveConfig(c)
  \/ SessionEnds

Loop ==
  \/ Poll \/ ReadConn \/ ConnsServed
  \/ HandleHello \/ Displace \/ Displaced \/ HandleResize
  \/ HandleInput \/ HandleDetach \/ HandleCmd \/ MsgsDone
  \/ EscTimeout \/ EscDone \/ DetachQueued \/ DetachDone
  \/ Reload \/ NoReload \/ Evict \/ Evicted \/ Shutdown

Next == Peers \/ Loop

Spec == Init /\ [][Next]_vars

\* poll() returns when something is there and no step of the loop waits for a
\* peer; and the clock reaches every deadline (esc_due, reload_due).
FairSpec == Spec /\ WF_vars(Loop) /\ SF_vars(EscTimeout) /\ SF_vars(Reload)

-----------------------------------------------------------------------------
(* What the table promises.                                                *)

\* The array is being compacted with the displays half dropped, or the session
\* is being taken down.
Between == mode \in {"displace", "shutdown", "over"}

(***************************************************************************)
(* Keys, sizes and copies go to the active client: there is one exactly    *)
(* when somebody is looking, and it is somebody who is looking.  Attaching,*)
(* displacing, evicting, detaching and dying all move active_fd.           *)
(***************************************************************************)
ActiveIsDisplay ==
  /\ active \in displays \cup {None}
  /\ active = None => displays = {} \/ Between

\* The canvas is what the policy in force makes of the displays attached now.
CanvasIsPolicys ==
  displays # {} /\ ~Between /\ mode # "evict" =>
    IF cfg.follows = "active"
    THEN canvas = size[active]
    ELSE \A dim \in {"cols", "rows"} :
           /\ \E d \in displays : canvas[dim] = size[d][dim]
           /\ \A d \in displays :
                IF cfg.follows = "smallest"
                THEN canvas[dim] <= size[d][dim]
                ELSE canvas[dim] >= size[d][dim]

(***************************************************************************)
(* Whoever sized the canvas is still there to see it: whoever came, left,  *)
(* typed or changed size since, the canvas is what the policy makes of the *)
(* displays attached now (apply_canvas).  A script's resize is the one     *)
(* thing that sets it otherwise, and only until the next act that applies  *)
(* the policy (server_resize.cfg: it does not hold in between).            *)
(***************************************************************************)
CanvasFollowsPolicy == forced \/ CanvasIsPolicys

(***************************************************************************)
(* A prefix or a drag left half done is never completed by somebody else:  *)
(* the moment another client becomes the active one, or its owner goes, it *)
(* is cancelled (app_cancel_client_interaction).                           *)
(***************************************************************************)
InteractionOwner == Between \/ holder \in {None, Script, active}

(***************************************************************************)
(* A detach takes the client it was asked for, however many others typed,  *)
(* left or became active before the end of the cycle, and every detach     *)
(* asked for in a cycle is done by the end of it (detach_fds, drop_fd).    *)
(***************************************************************************)
DetachExact ==
  /\ \A f \in Fds : farewell[f] = "detached" => f \in asked
  /\ mode = "reload" => asked \cap Conns = {}

\* No connection has been closed in this cycle for having nothing to say.
EveryReadMeant == \A f \in Fds : farewell[f] # "eagain"

(***************************************************************************)
(* No connection is closed for having nothing to say: the loop never reads *)
(* a connection on the strength of a poll entry that was another's, though *)
(* the array moves under the poll set all through the cycle.  The one      *)
(* exception is a cycle in which a newcomer displaced a display            *)
(* (server_eagain.cfg: the newcomer may be dropped at once).               *)
(***************************************************************************)
NoSpuriousClose ==
  EveryReadMeant \/ \E f \in Fds : farewell[f] = "replaced"

(***************************************************************************)
(* "A connection becomes the display client only by sending MSG_HELLO":    *)
(* whoever is a display is connected and has said HELLO on this very       *)
(* connection, though descriptors are reused and entries move.             *)
(***************************************************************************)
OnlyGreetedDisplays == displays \subseteq greeted \cap Conns

(***************************************************************************)
(* With multi_attach off one terminal is attached at a time, whether the   *)
(* option was off from the start or the saved file turned it off: neither  *)
(* loop that drops the others passes one by, though each removal moves the *)
(* last connection of the array into the hole.  (A control command's reload*)
(* drops nobody: server_reload.cfg.)                                       *)
(***************************************************************************)
SingleDisplay ==
  ~cfg.multi /\ mode \notin {"displace", "evict"} => Cardinality(displays) <= 1

(***************************************************************************)
(* Nobody starves in the loop: a peer that connects is taken or refused,   *)
(* one that sends is read, one that hangs up is noticed, a lone ESC is     *)
(* resolved and a saved configuration taken up, though every removal moves *)
(* another connection to a place the loop has already passed.              *)
(***************************************************************************)
NobodyStarves ==
  /\ \A f \in Fds :
       /\ f \in Waiting ~> f \notin Waiting
       /\ f \in Conns /\ inbox[f] # <<>> ~> f \notin Conns \/ inbox[f] = <<>>
       /\ f \in Conns \cap gone ~> f \notin gone
       /\ f \in escs ~> f \notin escs
  /\ due ~> ~due \/ stop

=============================================================================
