---------------------------- MODULE ServerProofs ----------------------------
(***************************************************************************)
(* What Server promises for every number of descriptors, every table size, *)
(* every set of sizes and configurations and any number of messages: the   *)
(* type invariant; that the active client is a display whenever there is   *)
(* one; that a half-done prefix or drag is nobody else's; that a detach    *)
(* takes exactly the one it was asked for; that the canvas follows the     *)
(* policy, unless a command has set it or changes the policy; that no      *)
(* connection is dropped for having nothing to say, unless a display was   *)
(* displaced; and that one display is attached at a time where the file    *)
(* says so.                                                                *)
(***************************************************************************)
EXTENDS Server, SequenceTheorems, FiniteSetTheorems, TLAPS

(***************************************************************************)
(* The strengthening.  The index of the serving loops stays inside the     *)
(* array however it is compacted; a display has a size, and only a display *)
(* has a parser; while others are being displaced the active client may be *)
(* gone already, and then the interaction waits for the newcomer.          *)
(***************************************************************************)
TableType ==
  /\ conns \in Seq(Fds)
  /\ displays \subseteq Fds
  /\ size \in [Fds -> Dims \cup {Unsized}]
  /\ activity \in [Fds -> Nat]
  /\ escs \subseteq Fds
  /\ reader \in [Fds -> Seq(Messages)]
  /\ inbox \in [Fds -> Seq(Messages)]
  /\ gone \subseteq Fds
  /\ greeted \subseteq Fds
  /\ farewell \in [Fds -> Reasons]

LoopType ==
  /\ seq \in Nat
  /\ active \in Fds \cup {None}
  /\ canvas \in Dims /\ forced \in BOOLEAN
  /\ cfg \in Configs
  /\ holder \in Fds \cup {None, Script}
  /\ stop \in BOOLEAN
  /\ mode \in Modes
  /\ ci \in Nat /\ dj \in Nat
  /\ hello \in Sizes \cup {NoSize}
  /\ polled \in Seq(Fds)
  /\ ready \subseteq Fds
  /\ detachq \in Seq(Fds)
  /\ waiting \in Seq(Fds)
  /\ file \in Configs \cup {None} /\ due \in BOOLEAN
  /\ budget \in Nat
  /\ asked \subseteq Fds

IndexOK ==
  /\ mode \in {"msgs", "displace"} => ci \in 1..Len(conns)
  /\ mode \in {"displace", "evict"} => dj >= 1

DisplaysOK ==
  /\ escs \subseteq displays
  /\ \A d \in displays : size[d] \in Dims

HolderOK ==
  \/ mode \in {"shutdown", "over"}
  \/ mode = "displace" /\ active = None
  \/ holder \in {None, Script, active}

IInv ==
  /\ TableType /\ LoopType
  /\ IndexOK /\ DisplaysOK /\ ActiveIsDisplay /\ HolderOK

LEMMA TypeParts == TypeOK <=> TableType /\ LoopType
  BY DEF TypeOK, TableType, LoopType

-----------------------------------------------------------------------------
(* Lemmas about the operators.                                             *)

\* Removing by swapping leaves a sequence one shorter.
LEMMA SwapRemoveType ==
  ASSUME NEW S, NEW s \in Seq(S), NEW k \in 1..Len(s)
  PROVE  /\ SwapRemove(s, k) \in Seq(S)
         /\ Len(SwapRemove(s, k)) = Len(s) - 1
<1> DEFINE n == Len(s) - 1
           e(i) == IF i = k THEN s[Len(s)] ELSE s[i]
<1>1. n \in Nat /\ Len(s) \in 1..Len(s)
  BY LenProperties
<1>2. \A i \in 1..n : e(i) \in S
  BY <1>1, ElementOfSeq
<1>3. [i \in 1..n |-> e(i)] \in Seq(S)
  BY <1>1, <1>2, IsASeq
<1>4. SwapRemove(s, k) = [i \in 1..n |-> e(i)]
  BY DEF SwapRemove
<1>5. Len(SwapRemove(s, k)) = n
  BY <1>1, <1>3, <1>4, LenProperties
<1> QED BY <1>3, <1>4, <1>5

\* The canvas is the size of some displays, or what it was; and so whose it is.
LEMMA CanvasType ==
  ASSUME canvas \in Dims, forced \in BOOLEAN, NEW p, \A d \in displays' : size'[d] \in Dims,
         ApplyCanvas(p)
  PROVE  canvas' \in Dims /\ forced' \in BOOLEAN
<1>1. CASE UNCHANGED <<canvas, forced>>
  BY <1>1
<1>2. CASE forced' = FALSE /\ \E w, h \in displays' :
             canvas' = [cols |-> size'[w].cols, rows |-> size'[h].rows]
  <2>1. PICK w \in displays', h \in displays' :
          canvas' = [cols |-> size'[w].cols, rows |-> size'[h].rows]
    BY <1>2
  <2>2. size'[w] \in Dims /\ size'[h] \in Dims
    OBVIOUS
  <2> QED BY <1>2, <2>1, <2>2 DEF Dims
<1>3. \/ UNCHANGED <<canvas, forced>>
      \/ forced' = FALSE /\ \E w, h \in displays' :
           canvas' = [cols |-> size'[w].cols, rows |-> size'[h].rows]
  BY Zenon DEF ApplyCanvas
<1> QED BY <1>1, <1>2, <1>3

\* The connection served is a descriptor.
LEMMA ConnType ==
  ASSUME TableType, NEW k \in 1..Len(conns)
  PROVE  conns[k] \in Fds
  BY ElementOfSeq DEF TableType

\* A frame taken out of a reader is a message.
LEMMA HeadType ==
  ASSUME TableType, NEW f \in Fds, reader[f] # <<>>
  PROVE  /\ Head(reader[f]) \in Messages
         /\ Tail(reader[f]) \in Seq(Messages)
<1>1. reader[f] \in Seq(Messages)
  BY DEF TableType
<1> QED BY <1>1, HeadTailProperties

\* Closing a connection keeps the table's types, and the displays sized.
LEMMA ConnCloseOK ==
  ASSUME TableType, DisplaysOK, NEW k \in 1..Len(conns), NEW why \in Reasons,
         ConnClose(k, why)
  PROVE  /\ TableType' /\ DisplaysOK'
         /\ Len(conns') = Len(conns) - 1
         /\ displays' = displays \ {conns[k]}
<1>1. conns[k] \in Fds
  BY ConnType
<1>2. conns' \in Seq(Fds) /\ Len(conns') = Len(conns) - 1
  BY SwapRemoveType DEF ConnClose, TableType
<1>3. <<>> \in Seq(Messages)
  BY EmptySeq
<1>4. /\ size' \in [Fds -> Dims \cup {Unsized}]
      /\ activity' \in [Fds -> Nat]
      /\ reader' \in [Fds -> Seq(Messages)]
      /\ inbox' \in [Fds -> Seq(Messages)]
      /\ farewell' \in [Fds -> Reasons]
  BY <1>1, <1>3 DEF ConnClose, TableType
<1>5. TableType'
  BY <1>1, <1>2, <1>4 DEF ConnClose, TableType
<1>6. displays' = displays \ {conns[k]} /\ escs' = escs \ {conns[k]}
  BY DEF ConnClose
<1>7. \A d \in displays' : size'[d] = size[d]
  BY <1>1, <1>6 DEF ConnClose, TableType
<1>8. DisplaysOK'
  BY <1>6, <1>7 DEF DisplaysOK
<1> QED BY <1>2, <1>5, <1>6, <1>8

\* Promotion finds a display, if there is one, and cancels what was half done.
LEMMA PromoteOK ==
  ASSUME PromoteLatest
  PROVE  /\ active' \in displays' \cup {None}
         /\ active' = None /\ None \notin displays' => displays' = {}
         /\ holder' = None
         /\ ApplyCanvas(cfg.follows)
  BY DEF PromoteLatest, CancelInteraction

\* So does closing one that may be the active one.
LEMMA CloseConnOK ==
  ASSUME ServerAssumption, IInv, ~Between,
         NEW k \in 1..Len(conns), NEW why \in Reasons, CloseConn(k, why)
  PROVE  /\ TableType' /\ DisplaysOK'
         /\ Len(conns') = Len(conns) - 1
         /\ active' \in Fds \cup {None}
         /\ active' \in displays' \cup {None}
         /\ active' = None => displays' = {}
         /\ holder' \in Fds \cup {None, Script}
         /\ holder' \in {None, Script, active'}
         /\ canvas' \in Dims /\ forced' \in BOOLEAN
<1>1. ConnClose(k, why)
  BY DEF CloseConn
<1>2. TableType' /\ DisplaysOK' /\ Len(conns') = Len(conns) - 1
      /\ displays' = displays \ {conns[k]}
  BY <1>1, ConnCloseOK DEF IInv
<1>3. displays' \subseteq Fds /\ None \notin Fds
  BY <1>2 DEF TableType, ServerAssumption
<1>4. CASE conns[k] = active
  <2>1. PromoteLatest
    BY <1>4 DEF CloseConn
  <2>2. canvas' \in Dims /\ forced' \in BOOLEAN
    BY <1>2, <2>1, PromoteOK, CanvasType DEF IInv, LoopType, DisplaysOK
  <2> QED BY <1>2, <1>3, <2>1, <2>2, PromoteOK
<1>5. CASE conns[k] # active
  <2>1. active' = active /\ holder' = holder /\ ApplyCanvas(cfg.follows)
    BY <1>5 DEF CloseConn
  <2>2. canvas' \in Dims /\ forced' \in BOOLEAN
    BY <1>2, <2>1, CanvasType DEF IInv, LoopType, DisplaysOK
  <2>3. active \in displays' \cup {None} /\ (active = None => displays' = {})
    BY <1>2, <1>5 DEF IInv, ActiveIsDisplay
  <2>4. holder \in {None, Script, active}
    BY DEF IInv, HolderOK, Between
  <2> QED BY <1>2, <2>1, <2>2, <2>3, <2>4 DEF IInv, LoopType
<1> QED BY <1>4, <1>5

\* Becoming a display, and being the active one, whatever was half done.
LEMMA BecomeDisplayOK ==
  ASSUME ServerAssumption, IInv, NEW f \in Fds, NEW s \in Sizes \cup {NoSize},
         BecomeDisplay(f, s), escs' = escs
  PROVE  /\ displays' = displays \cup {f}
         /\ size' \in [Fds -> Dims \cup {Unsized}]
         /\ activity' \in [Fds -> Nat]
         /\ seq' \in Nat
         /\ DisplaysOK'
         /\ active' = f
         /\ holder' \in Fds \cup {None, Script}
         /\ (active # None => holder \in {None, Script, active})
              => holder' \in {None, Script, f}
         /\ canvas' \in Dims /\ forced' \in BOOLEAN
<1>1. SizeOf(f, s) \in Dims
  BY DEF IInv, TableType, LoopType, SizeOf, ServerAssumption
<1>2. /\ displays' = displays \cup {f}
      /\ size' = [size EXCEPT ![f] = SizeOf(f, s)]
      /\ activity' = [activity EXCEPT ![f] = seq + 1]
      /\ seq' = seq + 1
      /\ MakeActive(f)
  BY DEF BecomeDisplay
<1>3. /\ size' \in [Fds -> Dims \cup {Unsized}]
      /\ activity' \in [Fds -> Nat]
      /\ seq' \in Nat
  BY <1>1, <1>2 DEF IInv, TableType, LoopType
<1>4. DisplaysOK'
  <2>1. escs' \subseteq displays'
    BY <1>2 DEF IInv, DisplaysOK
  <2>2. ASSUME NEW d \in displays' PROVE size'[d] \in Dims
    <3>1. d \in Fds
      BY <1>2, <2>2 DEF IInv, TableType
    <3> QED BY <1>1, <1>2, <3>1 DEF IInv, TableType, DisplaysOK
  <2> QED BY <2>1, <2>2 DEF DisplaysOK
<1>5. /\ active' = f
      /\ IF f = active THEN holder' = holder ELSE holder' = None
      /\ ApplyCanvas(cfg.follows)
  BY <1>2 DEF MakeActive, CancelInteraction
<1>6. canvas' \in Dims /\ forced' \in BOOLEAN
  BY <1>4, <1>5, CanvasType DEF IInv, LoopType, DisplaysOK
<1>7. f # None
  BY DEF ServerAssumption
<1> QED BY <1>2, <1>3, <1>4, <1>5, <1>6, <1>7 DEF IInv, LoopType

\* A key or click makes its author active, and the only one half way through.
LEMMA InteractOK ==
  ASSUME IInv, NEW f \in displays, NEW began \in BOOLEAN, Interact(f, began),
         displays' = displays, size' = size
  PROVE  /\ activity' \in [Fds -> Nat]
         /\ seq' \in Nat
         /\ active' = f
         /\ ~Between => holder' \in {None, Script, f}
         /\ holder' \in Fds \cup {None, Script}
         /\ canvas' \in Dims /\ forced' \in BOOLEAN
<1>1. f \in Fds
  BY DEF IInv, TableType
<1>2. activity' \in [Fds -> Nat] /\ seq' \in Nat /\ active' = f
  BY <1>1 DEF Interact, IInv, TableType, LoopType
<1>3. holder' = f \/ holder' = None \/ (f = active /\ holder' = holder)
  BY DEF Interact, CancelInteraction
<1>4. ~Between => holder \in {None, Script, active}
  BY DEF IInv, HolderOK, Between
<1>5. canvas' \in Dims /\ forced' \in BOOLEAN
  <2>1. ApplyCanvas(cfg.follows)
    BY DEF Interact
  <2>2. \A d \in displays' : size'[d] \in Dims
    BY DEF IInv, DisplaysOK
  <2> QED BY <2>1, <2>2, CanvasType DEF IInv, LoopType
<1> QED BY <1>1, <1>2, <1>3, <1>4, <1>5 DEF IInv, LoopType

\* A detach is queued at most once.
LEMMA QueueDetachOK ==
  ASSUME LoopType, NEW f \in Fds \cup {None}, QueueDetach(f)
  PROVE  asked' \subseteq Fds /\ detachq' \in Seq(Fds)
<1>1. detachq \in Seq(Fds) /\ asked \subseteq Fds
  BY DEF LoopType
<1>2. CASE detachq' = detachq
  BY <1>1, <1>2 DEF QueueDetach
<1>3. CASE f # None /\ detachq' = Append(detachq, f)
  BY <1>1, <1>3 DEF QueueDetach
<1> QED BY <1>2, <1>3 DEF QueueDetach

-----------------------------------------------------------------------------
(* One lemma per step.                                                     *)

LEMMA InitOK == ServerAssumption /\ Init => IInv
<1> SUFFICES ASSUME ServerAssumption, Init PROVE IInv
  OBVIOUS
<1>1. <<>> \in Seq(Fds) /\ <<>> \in Seq(Messages) /\ Len(<<>>) = 0
  BY EmptySeq
<1>2. TableType
  BY <1>1 DEF Init, TableType, Reasons
<1>3. LoopType
  BY <1>1 DEF Init, LoopType, Modes, ServerAssumption
<1> QED
  BY <1>2, <1>3 DEF Init, IInv, IndexOK, DisplaysOK, ActiveIsDisplay, HolderOK

\* What the peers do touches their sockets, the disk and the stop flag only.
LEMMA SocketOK ==
  ASSUME IInv,
         UNCHANGED <<table, shared, cfg, cycle, greeted, asked, farewell>>,
         inbox' \in [Fds -> Seq(Messages)], waiting' \in Seq(Fds),
         gone' \subseteq Fds, file' \in Configs \cup {None},
         due' \in BOOLEAN, budget' \in Nat, stop' \in BOOLEAN
  PROVE  IInv'
  BY DEF table, shared, cycle, IInv, TableType, LoopType, IndexOK, DisplaysOK,
         ActiveIsDisplay, HolderOK, Between

LEMMA PeersOK == ServerAssumption /\ IInv /\ Peers => IInv'
<1> SUFFICES ASSUME ServerAssumption, IInv, Peers PROVE IInv'
  OBVIOUS
<1>0. budget \in Nat /\ (Spend => budget' \in Nat)
  BY DEF IInv, LoopType, Spend
<1>1. ASSUME NEW f \in Fds, Connect(f) PROVE IInv'
  <2>1. Append(waiting, f) \in Seq(Fds)
    BY DEF IInv, LoopType
  <2> QED BY <1>1, <2>1, SocketOK DEF Connect, IInv, TableType, LoopType
<1>2. ASSUME NEW f \in Fds, HangUp(f) PROVE IInv'
  BY <1>0, <1>2, SocketOK DEF HangUp, IInv, TableType, LoopType
<1>3. ASSUME NEW f \in Fds, NEW m \in Messages, Send(f, m) PROVE IInv'
  <2>1. Append(inbox[f], m) \in Seq(Messages)
    BY DEF IInv, TableType
  <2>2. inbox' \in [Fds -> Seq(Messages)]
    BY <1>3, <2>1 DEF Send, IInv, TableType
  <2> QED BY <1>0, <1>3, <2>2, SocketOK DEF Send, IInv, TableType, LoopType
<1>4. ASSUME NEW c \in Configs \cup {None}, SaveConfig(c) PROVE IInv'
  BY <1>0, <1>4, SocketOK
     DEF SaveConfig, IInv, TableType, LoopType, ServerAssumption
<1>5. CASE SessionEnds
  BY <1>5, SocketOK DEF SessionEnds, peers, IInv, TableType, LoopType
<1> QED BY <1>1, <1>2, <1>3, <1>4, <1>5 DEF Peers

\* A step that leaves the table alone leaves what is said of it alone.
LEMMA TableKept ==
  ASSUME IInv, UNCHANGED <<table, inbox, gone, greeted, farewell>>
  PROVE  TableType' /\ DisplaysOK'
  BY DEF table, IInv, TableType, DisplaysOK

\* accept() adds a connection at the end of the array, or none.
LEMMA AcceptOK ==
  ASSUME IInv, waiting # <<>>, Accept
  PROVE  /\ conns' \in Seq(Fds) /\ waiting' \in Seq(Fds)
         /\ inbox' \in [Fds -> Seq(Messages)] /\ gone' \subseteq Fds
<1> DEFINE f == Head(waiting)
<1>1. f \in Fds /\ Tail(waiting) \in Seq(Fds)
  BY HeadTailProperties DEF IInv, LoopType
<1>2. <<>> \in Seq(Messages)
  BY EmptySeq
<1>3. /\ conns \in Seq(Fds) /\ gone \subseteq Fds
      /\ inbox \in [Fds -> Seq(Messages)]
  BY DEF IInv, TableType
<1>4. Append(conns, f) \in Seq(Fds)
  BY <1>1, <1>3
<1>5. [inbox EXCEPT ![f] = <<>>] \in [Fds -> Seq(Messages)]
  BY <1>1, <1>2, <1>3
<1> QED BY <1>1, <1>3, <1>4, <1>5 DEF Accept

\* A snapshot of the array, and one more connection at its end.
LEMMA PollOK == IInv /\ Poll => IInv'
<1> SUFFICES ASSUME IInv, Poll PROVE IInv'
  OBVIOUS
<1>1. /\ conns' \in Seq(Fds) /\ waiting' \in Seq(Fds)
      /\ inbox' \in [Fds -> Seq(Messages)] /\ gone' \subseteq Fds
  BY AcceptOK DEF Poll, IInv, TableType, LoopType
<1>2. ready' \subseteq Fds
  <2>1. conns \in Seq(Fds)
    BY DEF IInv, TableType
  <2> QED BY <2>1, ElementOfSeq DEF Poll, Readable, Conns
<1>3. farewell' \in [Fds -> Reasons]
  BY DEF Poll, Reasons
<1>4. TableType'
  BY <1>1, <1>3 DEF Poll, IInv, TableType
<1>5. LoopType'
  BY <1>1, <1>2 DEF Poll, shared, IInv, TableType, LoopType, Modes
<1>6. mode' = "conns" /\ mode = "poll"
  BY DEF Poll
<1>7. DisplaysOK' /\ ActiveIsDisplay' /\ HolderOK'
  BY <1>6 DEF Poll, shared, IInv, DisplaysOK, ActiveIsDisplay, HolderOK, Between
<1> QED BY <1>4, <1>5, <1>6, <1>7 DEF IInv, IndexOK

\* Reading some of what is there, or closing a connection that is over.
LEMMA ReadConnOK == ServerAssumption /\ IInv /\ ReadConn => IInv'
<1> SUFFICES ASSUME ServerAssumption, IInv, ReadConn PROVE IInv'
  OBVIOUS
<1>0. mode = "conns"
  BY DEF ReadConn
<1>1. PICK i \in 1..Len(conns) : ReadConn!2!(i)
  BY DEF ReadConn
<1> DEFINE f == conns[i]
<1>2. f \in Fds
  BY ConnType DEF IInv
<1>3. Len(conns) \in Nat
  BY LenProperties DEF IInv, TableType
<1>4. ASSUME NEW n \in 1..Len(inbox[f]),
             /\ reader' = [reader EXCEPT ![f] = @ \o SubSeq(inbox[f], 1, n)]
             /\ inbox' = [inbox EXCEPT ![f] = SubSeq(@, n + 1, Len(@))]
             /\ mode' = "msgs"
             /\ UNCHANGED <<conns, displays, size, activity, escs, shared,
                            gone, greeted, farewell>>
      PROVE  IInv'
  <2>1. inbox[f] \in Seq(Messages) /\ reader[f] \in Seq(Messages)
    BY <1>2 DEF IInv, TableType
  <2>2. /\ SubSeq(inbox[f], 1, n) \in Seq(Messages)
        /\ SubSeq(inbox[f], n + 1, Len(inbox[f])) \in Seq(Messages)
    BY <2>1, LenProperties
  <2>3. reader[f] \o SubSeq(inbox[f], 1, n) \in Seq(Messages)
    BY <2>1, <2>2
  <2>4. TableType'
    BY <1>2, <1>4, <2>2, <2>3 DEF IInv, TableType
  <2>5. ci' = i
    BY <1>1
  <2> QED
    BY <1>0, <1>3, <1>4, <2>4, <2>5 DEF ReadConn, shared, IInv, LoopType, IndexOK,
       DisplaysOK, ActiveIsDisplay, HolderOK, Between, Modes
<1>5. CASE /\ CloseConn(i, IF f \in gone THEN "eof" ELSE "eagain")
           /\ UNCHANGED <<mode, seq>>
  <2>1. (IF f \in gone THEN "eof" ELSE "eagain") \in Reasons
    BY DEF Reasons
  <2>2. ~Between
    BY <1>0 DEF Between
  <2>3. /\ TableType' /\ DisplaysOK'
        /\ active' \in Fds \cup {None}
        /\ active' \in displays' \cup {None}
        /\ active' = None => displays' = {}
        /\ holder' \in Fds \cup {None, Script}
        /\ holder' \in {None, Script, active'}
        /\ canvas' \in Dims /\ forced' \in BOOLEAN
    BY <1>5, <2>1, <2>2, CloseConnOK
  <2>4. ci' = i /\ ci' \in Nat
    BY <1>1
  <2>5. LoopType'
    BY <1>5, <2>3, <2>4 DEF ReadConn, IInv, LoopType
  <2> QED
    BY <1>0, <1>5, <2>3, <2>5 DEF IInv, IndexOK, ActiveIsDisplay, HolderOK
<1> QED BY <1>1, <1>4, <1>5

\* The steps that move on to the next part of the cycle.
LEMMA MovesOnOK ==
  IInv /\ (ConnsServed \/ MsgsDone \/ EscDone \/ DetachDone \/ NoReload) => IInv'
<1> SUFFICES ASSUME IInv,
                    ConnsServed \/ MsgsDone \/ EscDone \/ DetachDone \/ NoReload
             PROVE  IInv'
  OBVIOUS
<1> DEFINE Moves(m) ==
      /\ mode' = m /\ mode \in {"conns", "msgs", "esc", "detach", "reload"}
      /\ ci' \in Nat
      /\ polled' \in Seq(Fds) /\ ready' \subseteq Fds
      /\ UNCHANGED <<table, shared, cfg, stop, dj, hello, detachq, peers, greeted,
                     asked, farewell>>
<1>1. <<>> \in Seq(Fds) /\ ci \in Nat /\ polled \in Seq(Fds) /\ ready \subseteq Fds
  BY EmptySeq DEF IInv, LoopType
<1>2. \E m \in {"conns", "esc", "detach", "reload", "poll"} : Moves(m)
  <2>1. ConnsServed => Moves("esc")
    BY <1>1 DEF ConnsServed
  <2>2. MsgsDone => Moves("conns")
    BY <1>1 DEF MsgsDone
  <2>3. EscDone => Moves("detach")
    BY <1>1 DEF EscDone
  <2>4. DetachDone => Moves("reload")
    BY <1>1 DEF DetachDone
  <2>5. NoReload => Moves("poll")
    BY <1>1 DEF NoReload
  <2> QED BY <2>1, <2>2, <2>3, <2>4, <2>5
<1>3. PICK m \in {"conns", "esc", "detach", "reload", "poll"} : Moves(m)
  BY <1>2
<1>4. TableType' /\ DisplaysOK'
  BY <1>3, TableKept DEF peers
<1>5. LoopType'
  BY <1>3 DEF IInv, LoopType, shared, peers, Modes
<1>6. IndexOK'
  BY <1>3 DEF IndexOK
<1>7. ActiveIsDisplay' /\ HolderOK'
  BY <1>3 DEF table, shared, IInv, ActiveIsDisplay, HolderOK, Between
<1> QED BY <1>4, <1>5, <1>6, <1>7 DEF IInv

\* What a frame says: its head is a message of the type taken.
LEMMA TakeOK ==
  ASSUME IInv, NEW type, Take(type)
  PROVE  /\ mode = "msgs" /\ ~Between
         /\ ci \in 1..Len(conns)
         /\ Serving \in Fds
         /\ Head(reader[Serving]) \in Messages
         /\ Head(reader[Serving]).type = type
         /\ [reader EXCEPT ![Serving] = Tail(@)] \in [Fds -> Seq(Messages)]
<1>1. mode = "msgs" /\ reader[Serving] # <<>>
      /\ Head(reader[Serving]).type = type
  BY DEF Take
<1>2. ci \in 1..Len(conns)
  BY <1>1 DEF IInv, IndexOK
<1>3. Serving \in Fds
  BY <1>2, ConnType DEF IInv, Serving
<1>4. Head(reader[Serving]) \in Messages /\ Tail(reader[Serving]) \in Seq(Messages)
  BY <1>1, <1>3, HeadType DEF IInv
<1> QED BY <1>1, <1>2, <1>3, <1>4 DEF Between, IInv, TableType

\* The fields a message of each type has.
LEMMA MessageFields ==
  ASSUME NEW m \in Messages
  PROVE  /\ m.type \in {"hello", "resize"} => m.size \in Sizes
         /\ m.type = "input" => m.kind \in Kinds
         /\ m.type = "cmd" => m.op \in Ops
  BY DEF Messages

\* A first HELLO: a new display, or others to displace first.
LEMMA HandleHelloOK == ServerAssumption /\ IInv /\ HandleHello => IInv'
<1> SUFFICES ASSUME ServerAssumption, IInv, HandleHello PROVE IInv'
  OBVIOUS
<1> DEFINE f == Serving
           m == Head(reader[f])
<1>1. /\ mode = "msgs" /\ ~Between /\ ci \in 1..Len(conns) /\ f \in Fds
      /\ m \in Messages /\ m.type = "hello"
      /\ reader' \in [Fds -> Seq(Messages)]
  BY TakeOK DEF HandleHello, Taken
<1>2. m.size \in Sizes
  BY <1>1, MessageFields
<1>3. UNCHANGED <<conns, escs, cfg, stop, ci, polled, ready, detachq, inbox,
                  waiting, gone, file, due, budget, asked, farewell>>
      /\ greeted' = greeted \cup {f}
  BY DEF HandleHello, peers
<1>4. CASE cfg.multi
  <2>1. BecomeDisplay(f, m.size) /\ UNCHANGED <<mode, dj, hello>>
    BY <1>4 DEF HandleHello
  <2>2. /\ displays' = displays \cup {f}
        /\ size' \in [Fds -> Dims \cup {Unsized}]
        /\ activity' \in [Fds -> Nat]
        /\ seq' \in Nat
        /\ DisplaysOK'
        /\ active' = f
        /\ holder' \in Fds \cup {None, Script}
        /\ (active # None => holder \in {None, Script, active})
              => holder' \in {None, Script, f}
        /\ canvas' \in Dims /\ forced' \in BOOLEAN
    BY <1>1, <1>2, <1>3, <2>1, BecomeDisplayOK
  <2>3. TableType'
    BY <1>1, <1>3, <2>2 DEF IInv, TableType
  <2>4. LoopType'
    BY <1>1, <1>3, <2>1, <2>2 DEF IInv, LoopType
  <2>5. IndexOK'
    BY <1>1, <1>3, <2>1 DEF IInv, IndexOK
  <2>6. ActiveIsDisplay'
    BY <1>1, <2>2 DEF ActiveIsDisplay, ServerAssumption
  <2>7. HolderOK'
    BY <1>1, <2>2 DEF IInv, HolderOK
  <2> QED BY <2>2, <2>3, <2>4, <2>5, <2>6, <2>7 DEF IInv
<1>5. CASE ~cfg.multi
  <2>1. /\ mode' = "displace" /\ dj' = 1 /\ hello' = m.size
        /\ UNCHANGED <<displays, size, activity, seq, active, canvas, forced, holder>>
    BY <1>5 DEF HandleHello, shared
  <2>2. TableType'
    BY <1>1, <1>3, <2>1 DEF IInv, TableType
  <2>3. LoopType'
    BY <1>1, <1>2, <1>3, <2>1 DEF IInv, LoopType, Modes
  <2>4. IndexOK' /\ DisplaysOK'
    BY <1>1, <1>3, <2>1 DEF IInv, IndexOK, DisplaysOK
  <2>5. ActiveIsDisplay' /\ HolderOK'
    BY <1>1, <2>1 DEF IInv, ActiveIsDisplay, HolderOK, Between
  <2> QED BY <2>2, <2>3, <2>4, <2>5 DEF IInv
<1> QED BY <1>4, <1>5

\* Dropping one display: the array and both indices shrink together.
LEMMA DisplaceOK == ServerAssumption /\ IInv /\ Displace => IInv'
<1> SUFFICES ASSUME ServerAssumption, IInv, Displace PROVE IInv'
  OBVIOUS
<1>1. mode = "displace" /\ ci \in 1..Len(conns) /\ dj \in Nat /\ dj >= 1
  BY DEF Displace, IInv, IndexOK, LoopType
<1>2. PICK j \in dj..Len(conns) :
         /\ DisplaceNext(j)
         /\ ConnClose(j, "replaced")
         /\ active' = IF conns[j] = active THEN None ELSE active
         /\ ci' = IndexAfterDrop(j)
         /\ dj' = j
  BY DEF Displace
<1>3. UNCHANGED <<seq, canvas, forced, holder, cfg, stop, mode, hello, polled, ready,
                  detachq, waiting, file, due, budget, asked>>
  BY DEF Displace
<1>4. Len(conns) \in Nat
  BY LenProperties DEF IInv, TableType
<1>5. j \in 1..Len(conns) /\ j # ci
  BY <1>1, <1>2, <1>4 DEF DisplaceNext
<1>6. /\ TableType' /\ DisplaysOK'
      /\ Len(conns') = Len(conns) - 1
      /\ displays' = displays \ {conns[j]}
  BY <1>2, <1>5, ConnCloseOK DEF IInv, Reasons
<1>7. ci' \in 1..Len(conns')
  BY <1>1, <1>2, <1>4, <1>5, <1>6 DEF IndexAfterDrop
<1>8. IndexOK' /\ ci' \in Nat /\ dj' \in Nat
  BY <1>1, <1>2, <1>3, <1>4, <1>5, <1>7 DEF IndexOK
<1>9. LoopType'
  BY <1>2, <1>3, <1>8 DEF IInv, LoopType
<1>10. ActiveIsDisplay'
  BY <1>1, <1>2, <1>3, <1>6 DEF IInv, ActiveIsDisplay, Between
<1>11. HolderOK'
  BY <1>1, <1>2, <1>3 DEF IInv, HolderOK
<1> QED BY <1>6, <1>8, <1>9, <1>10, <1>11 DEF IInv

\* The newcomer becomes the display.
LEMMA DisplacedOK == ServerAssumption /\ IInv /\ Displaced => IInv'
<1> SUFFICES ASSUME ServerAssumption, IInv, Displaced PROVE IInv'
  OBVIOUS
<1>1. mode = "displace" /\ ci \in 1..Len(conns) /\ hello \in Sizes \cup {NoSize}
  BY DEF Displaced, IInv, IndexOK, LoopType
<1>2. Serving \in Fds
  BY <1>1, ConnType DEF IInv, Serving
<1>3. BecomeDisplay(Serving, hello) /\ mode' = "msgs" /\ dj' = 0 /\ hello' = NoSize
      /\ UNCHANGED <<conns, escs, reader, cfg, stop, ci, polled, ready, detachq,
                     inbox, waiting, gone, file, due, budget, greeted, asked,
                     farewell>>
  BY DEF Displaced, peers
<1>4. /\ displays' = displays \cup {Serving}
      /\ size' \in [Fds -> Dims \cup {Unsized}]
      /\ activity' \in [Fds -> Nat]
      /\ seq' \in Nat
      /\ DisplaysOK'
      /\ active' = Serving
      /\ holder' \in Fds \cup {None, Script}
      /\ (active # None => holder \in {None, Script, active})
            => holder' \in {None, Script, Serving}
      /\ canvas' \in Dims /\ forced' \in BOOLEAN
  BY <1>1, <1>2, <1>3, BecomeDisplayOK
<1>5. TableType'
  BY <1>2, <1>3, <1>4 DEF IInv, TableType
<1>6. LoopType'
  BY <1>2, <1>3, <1>4 DEF IInv, LoopType, Modes
<1>7. IndexOK'
  BY <1>1, <1>3 DEF IndexOK
<1>8. ActiveIsDisplay'
  BY <1>2, <1>4 DEF ActiveIsDisplay, ServerAssumption
<1>9. HolderOK'
  BY <1>1, <1>3, <1>4 DEF IInv, HolderOK
<1> QED BY <1>4, <1>5, <1>6, <1>7, <1>8, <1>9 DEF IInv

\* A display of another size.
LEMMA HandleResizeOK == ServerAssumption /\ IInv /\ HandleResize => IInv'
<1> SUFFICES ASSUME ServerAssumption, IInv, HandleResize PROVE IInv'
  OBVIOUS
<1> DEFINE f == Serving
           m == Head(reader[f])
<1>1. /\ mode = "msgs" /\ ~Between /\ ci \in 1..Len(conns) /\ f \in Fds
      /\ m \in Messages /\ m.type \in {"hello", "resize"}
      /\ reader' \in [Fds -> Seq(Messages)]
  BY TakeOK DEF HandleResize, Taken
<1>2. m.size \in Sizes
  BY <1>1, MessageFields
<1>3. UNCHANGED <<conns, activity, escs, seq, holder, cfg, stop, cycle, inbox,
                  waiting, gone, file, due, budget, greeted, asked, farewell>>
  BY DEF HandleResize, peers
<1>4. /\ size' \in [Fds -> Dims \cup {Unsized}] /\ DisplaysOK'
      /\ displays' = displays /\ active' = active /\ canvas' \in Dims /\ forced' \in BOOLEAN
  <2>1. CASE f \in displays
    <3>1. /\ size' = [size EXCEPT ![f] = SizeOf(f, m.size)]
          /\ active' = active /\ displays' = displays
          /\ ApplyCanvas(cfg.follows)
      BY <2>1 DEF HandleResize
    <3>2. SizeOf(f, m.size) \in Dims
      BY <1>1, <1>2 DEF IInv, TableType, LoopType, SizeOf, ServerAssumption
    <3>3. size' \in [Fds -> Dims \cup {Unsized}]
      BY <3>1, <3>2 DEF IInv, TableType
    <3>4. \A d \in displays' : size'[d] \in Dims
      BY <3>1, <3>2 DEF IInv, TableType, DisplaysOK
    <3>5. DisplaysOK'
      BY <1>3, <3>1, <3>4 DEF IInv, DisplaysOK
    <3>6. canvas' \in Dims /\ forced' \in BOOLEAN
      BY <3>1, <3>4, CanvasType DEF IInv, LoopType
    <3> QED BY <3>1, <3>3, <3>5, <3>6
  <2>2. CASE f \notin displays
    BY <1>3, <2>2 DEF HandleResize, IInv, TableType, LoopType, DisplaysOK
  <2> QED BY <2>1, <2>2
<1>5. TableType'
  BY <1>1, <1>3, <1>4 DEF IInv, TableType
<1>6. LoopType'
  BY <1>3, <1>4 DEF cycle, IInv, LoopType
<1>7. IndexOK' /\ ActiveIsDisplay' /\ HolderOK'
  BY <1>1, <1>3, <1>4
     DEF cycle, IInv, IndexOK, ActiveIsDisplay, HolderOK, Between
<1> QED BY <1>4, <1>5, <1>6, <1>7 DEF IInv

\* Keys from a display, or bytes from a connection that may not type.
LEMMA HandleInputOK == ServerAssumption /\ IInv /\ HandleInput => IInv'
<1> SUFFICES ASSUME ServerAssumption, IInv, HandleInput PROVE IInv'
  OBVIOUS
<1> DEFINE f == Serving
           kind == Head(reader[f]).kind
<1>1. /\ mode = "msgs" /\ ~Between /\ ci \in 1..Len(conns) /\ f \in Fds
      /\ reader' \in [Fds -> Seq(Messages)]
  BY TakeOK DEF HandleInput, Taken
<1>2. UNCHANGED <<conns, displays, size, cfg, stop, mode, ci, dj, hello, polled,
                  ready, inbox, waiting, gone, file, due, budget, greeted,
                  farewell>>
  BY DEF HandleInput, peers
<1>3. /\ activity' \in [Fds -> Nat] /\ seq' \in Nat
      /\ active' \in displays \cup {None} /\ (active' = None => active = None)
      /\ holder' \in Fds \cup {None, Script}
      /\ holder' \in {None, Script, active'}
      /\ canvas' \in Dims /\ forced' \in BOOLEAN
  <2>1. CASE f \in displays /\ kind \in {"user", "begin", "detach"}
    <3>1. Interact(f, kind = "begin") /\ (kind = "begin") \in BOOLEAN
      BY <2>1 DEF HandleInput
    <3>2. f # None
      BY <1>1 DEF ServerAssumption
    <3> QED BY <1>1, <1>2, <2>1, <3>1, <3>2, InteractOK
  <2>2. CASE ~(f \in displays /\ kind \in {"user", "begin", "detach"})
    <3>1. UNCHANGED <<activity, shared>>
      BY <2>2 DEF HandleInput
    <3> QED BY <1>1, <3>1 DEF shared, IInv, TableType, LoopType, ActiveIsDisplay,
               HolderOK
  <2> QED BY <2>1, <2>2
<1>4. escs' \subseteq displays
  BY DEF HandleInput, IInv, DisplaysOK
<1>5. asked' \subseteq Fds /\ detachq' \in Seq(Fds)
  <2>1. CASE QueueDetach(f)
    BY <1>1, <2>1, QueueDetachOK DEF IInv
  <2>2. CASE UNCHANGED <<asked, detachq>>
    BY <2>2 DEF IInv, LoopType
  <2> QED BY <2>1, <2>2 DEF HandleInput
<1>6. TableType'
  BY <1>1, <1>2, <1>3, <1>4 DEF IInv, TableType
<1>7. LoopType'
  BY <1>2, <1>3, <1>5 DEF IInv, TableType, LoopType
<1>8. IndexOK' /\ DisplaysOK'
  BY <1>2, <1>4 DEF IInv, IndexOK, DisplaysOK
<1>9. ActiveIsDisplay' /\ HolderOK'
  BY <1>1, <1>2, <1>3 DEF IInv, ActiveIsDisplay, HolderOK, Between
<1> QED BY <1>6, <1>7, <1>8, <1>9 DEF IInv

\* A client that asks to leave.
LEMMA HandleDetachOK == ServerAssumption /\ IInv /\ HandleDetach => IInv'
<1> SUFFICES ASSUME ServerAssumption, IInv, HandleDetach PROVE IInv'
  OBVIOUS
<1>1. mode = "msgs" /\ ~Between /\ ci \in 1..Len(conns) /\ Serving \in Fds
  BY TakeOK DEF HandleDetach
<1>2. /\ TableType' /\ DisplaysOK'
      /\ active' \in Fds \cup {None}
      /\ active' \in displays' \cup {None}
      /\ active' = None => displays' = {}
      /\ holder' \in Fds \cup {None, Script}
      /\ holder' \in {None, Script, active'}
      /\ canvas' \in Dims /\ forced' \in BOOLEAN
  BY <1>1, CloseConnOK DEF HandleDetach, Reasons
<1>3. LoopType'
  BY <1>1, <1>2 DEF HandleDetach, IInv, LoopType, Modes
<1>4. IndexOK' /\ ActiveIsDisplay' /\ HolderOK'
  BY <1>2 DEF HandleDetach, IndexOK, ActiveIsDisplay, HolderOK
<1> QED BY <1>2, <1>3, <1>4 DEF IInv

\* A control command.
LEMMA HandleCmdOK == ServerAssumption /\ IInv /\ HandleCmd => IInv'
<1> SUFFICES ASSUME ServerAssumption, IInv, HandleCmd PROVE IInv'
  OBVIOUS
<1>1. /\ mode = "msgs" /\ ~Between /\ ci \in 1..Len(conns) /\ Serving \in Fds
      /\ reader' \in [Fds -> Seq(Messages)]
  BY TakeOK DEF HandleCmd, Taken
<1>2. UNCHANGED <<conns, displays, size, activity, escs, seq, active, mode, ci, dj, hello, polled, ready, inbox, waiting, gone, file, due,
                  budget, greeted, farewell>>
  BY DEF HandleCmd, peers
<1>3. /\ cfg' \in Configs /\ stop' \in BOOLEAN /\ holder' \in {holder, Script}
      /\ canvas' \in Dims /\ forced' \in BOOLEAN
  BY DEF HandleCmd, IInv, LoopType, ServerAssumption
<1>4. asked' \subseteq Fds /\ detachq' \in Seq(Fds)
  <2>1. CASE QueueDetach(active)
    BY <2>1, QueueDetachOK DEF IInv, LoopType
  <2>2. CASE UNCHANGED <<asked, detachq>>
    BY <2>2 DEF IInv, LoopType
  <2> QED BY <2>1, <2>2 DEF HandleCmd
<1>5. TableType'
  BY <1>1, <1>2 DEF IInv, TableType
<1>6. LoopType'
  BY <1>2, <1>3, <1>4 DEF IInv, LoopType
<1>7. IndexOK' /\ DisplaysOK' /\ ActiveIsDisplay' /\ HolderOK'
  BY <1>1, <1>2, <1>3
     DEF IInv, IndexOK, DisplaysOK, ActiveIsDisplay, HolderOK, Between
<1> QED BY <1>5, <1>6, <1>7 DEF IInv

\* A lone ESC is a key like another.
LEMMA EscTimeoutOK == ServerAssumption /\ IInv /\ EscTimeout => IInv'
<1> SUFFICES ASSUME ServerAssumption, IInv, EscTimeout PROVE IInv'
  OBVIOUS
<1>1. mode = "esc" /\ ~Between /\ ci \in Nat
  BY DEF EscTimeout, Between, IInv, LoopType
<1>2. PICK i \in ci..Len(conns) :
         /\ conns[i] \in escs
         /\ ci' = i + 1
         /\ escs' = escs \ {conns[i]}
         /\ UNCHANGED <<conns, displays, size, reader>>
         /\ Interact(conns[i], FALSE)
         /\ QueueDetach(conns[i]) \/ UNCHANGED <<asked, detachq>>
  BY DEF EscTimeout
<1> DEFINE f == conns[i]
<1>3. UNCHANGED <<cfg, stop, mode, dj, hello, polled, ready, inbox, waiting, gone,
                  file, due, budget, greeted, farewell>>
  BY DEF EscTimeout, peers
<1>4. f \in displays /\ f \in Fds /\ f # None
  BY <1>2 DEF IInv, TableType, DisplaysOK, ServerAssumption
<1>5. /\ activity' \in [Fds -> Nat] /\ seq' \in Nat /\ active' = f
      /\ holder' \in {None, Script, f} /\ holder' \in Fds \cup {None, Script}
      /\ canvas' \in Dims /\ forced' \in BOOLEAN
  BY <1>1, <1>2, <1>4, InteractOK
<1>6. asked' \subseteq Fds /\ detachq' \in Seq(Fds)
  <2>1. CASE QueueDetach(f)
    BY <1>4, <2>1, QueueDetachOK DEF IInv
  <2>2. CASE UNCHANGED <<asked, detachq>>
    BY <2>2 DEF IInv, LoopType
  <2> QED BY <1>2, <2>1, <2>2
<1>7. ci' \in Nat
  BY <1>1, <1>2
<1>8. TableType'
  BY <1>2, <1>3, <1>5 DEF IInv, TableType
<1>9. LoopType'
  BY <1>3, <1>4, <1>5, <1>6, <1>7 DEF IInv, LoopType
<1>10. IndexOK' /\ DisplaysOK'
  BY <1>1, <1>2, <1>3, <1>7 DEF IInv, IndexOK, DisplaysOK
<1>11. ActiveIsDisplay' /\ HolderOK'
  BY <1>2, <1>4, <1>5 DEF ActiveIsDisplay, HolderOK
<1> QED BY <1>8, <1>9, <1>10, <1>11 DEF IInv

\* Closing a connection outside the displacing and shutting loops.
LEMMA ClosingOK ==
  ASSUME ServerAssumption, IInv, ~Between, NEW k \in 1..Len(conns),
         NEW why \in Reasons, CloseConn(k, why),
         mode' = mode, mode \notin {"msgs", "displace"},
         dj' \in Nat, mode = "evict" => dj' >= 1, detachq' \in Seq(Fds),
         UNCHANGED <<seq, cfg, stop, ci, hello, polled, ready, waiting, file, due,
                     budget, asked>>
  PROVE  IInv'
<1>1. /\ TableType' /\ DisplaysOK'
      /\ active' \in Fds \cup {None}
      /\ active' \in displays' \cup {None}
      /\ active' = None => displays' = {}
      /\ holder' \in Fds \cup {None, Script}
      /\ holder' \in {None, Script, active'}
      /\ canvas' \in Dims /\ forced' \in BOOLEAN
  BY CloseConnOK
<1>2. LoopType'
  BY <1>1 DEF IInv, LoopType
<1>3. IndexOK' /\ ActiveIsDisplay' /\ HolderOK'
  BY <1>1 DEF IndexOK, ActiveIsDisplay, HolderOK
<1> QED BY <1>1, <1>2, <1>3 DEF IInv

\* The end of the cycle drops whoever asked.
LEMMA DetachQueuedOK == ServerAssumption /\ IInv /\ DetachQueued => IInv'
<1> SUFFICES ASSUME ServerAssumption, IInv, DetachQueued PROVE IInv'
  OBVIOUS
<1>1. mode = "detach" /\ mode' = mode /\ dj' = dj /\ ~Between
  BY DEF DetachQueued, Between
<1>2. detachq' \in Seq(Fds)
  BY HeadTailProperties DEF DetachQueued, IInv, LoopType
<1>3. UNCHANGED <<seq, cfg, stop, ci, hello, polled, ready, waiting, file, due,
                  budget, asked>>
  BY DEF DetachQueued
<1>4. CASE DetachTarget \in Conns
  <2>1. PICK k \in 1..Len(conns) : CloseConn(k, "detached")
    BY <1>4 DEF DetachQueued
  <2> QED
    BY <1>1, <1>2, <1>3, <2>1, ClosingOK DEF Reasons, IInv, LoopType
<1>5. CASE DetachTarget \notin Conns
  <2>1. UNCHANGED <<table, active, canvas, forced, holder, inbox, gone, greeted,
                    farewell>>
    BY <1>5 DEF DetachQueued
  <2>2. TableType' /\ DisplaysOK'
    BY <2>1, TableKept
  <2>3. LoopType'
    BY <1>1, <1>2, <1>3, <2>1 DEF IInv, LoopType
  <2>4. IndexOK' /\ ActiveIsDisplay' /\ HolderOK'
    BY <1>1, <1>3, <2>1
       DEF table, IInv, IndexOK, ActiveIsDisplay, HolderOK, Between
  <2> QED BY <2>2, <2>3, <2>4 DEF IInv
<1> QED BY <1>4, <1>5

\* A reloaded configuration.
LEMMA ReloadOK == ServerAssumption /\ IInv /\ Reload => IInv'
<1> SUFFICES ASSUME ServerAssumption, IInv, Reload PROVE IInv'
  OBVIOUS
<1>1. UNCHANGED <<conns, activity, escs, reader, seq, holder, stop, ci, hello,
                  polled, ready, detachq, inbox, waiting, gone, file, budget,
                  greeted, asked, farewell, displays, size, active>>
      /\ due' = FALSE /\ mode = "reload"
  BY DEF Reload
<1>2. /\ mode' \in {"poll", "evict"} /\ dj' \in Nat
      /\ mode' = "evict" => dj' >= 1
      /\ cfg' \in Configs
  BY DEF Reload, IInv, LoopType
<1>3. TableType' /\ DisplaysOK'
  BY <1>1, TableKept DEF table
<1>4. canvas' \in Dims /\ forced' \in BOOLEAN
  <2>1. CASE UNCHANGED <<canvas, forced>>
    BY <2>1 DEF IInv, LoopType
  <2>2. CASE ApplyCanvas(file.follows)
    BY <1>3, <2>2, CanvasType DEF IInv, LoopType, DisplaysOK
  <2> QED BY <2>1, <2>2 DEF Reload
<1>5. LoopType'
  BY <1>1, <1>2, <1>4 DEF IInv, LoopType, Modes
<1>6. IndexOK' /\ ActiveIsDisplay' /\ HolderOK'
  BY <1>1, <1>2 DEF IInv, IndexOK, ActiveIsDisplay, HolderOK, Between
<1> QED BY <1>3, <1>5, <1>6 DEF IInv

\* A display the reloaded configuration has no room for.
LEMMA EvictOK == ServerAssumption /\ IInv /\ Evict => IInv'
<1> SUFFICES ASSUME ServerAssumption, IInv, Evict PROVE IInv'
  OBVIOUS
<1>1. mode = "evict" /\ mode' = mode /\ ~Between /\ dj \in Nat /\ dj >= 1
  BY DEF Evict, Between, IInv, IndexOK, LoopType
<1>2. PICK j \in dj..Len(conns) : CloseConn(j, "replaced") /\ dj' = j
  BY DEF Evict
<1>3. j \in 1..Len(conns) /\ dj' \in Nat /\ dj' >= 1
  <2>1. Len(conns) \in Nat
    BY LenProperties DEF IInv, TableType
  <2> QED BY <1>1, <1>2, <2>1
<1>4. UNCHANGED <<seq, cfg, stop, ci, hello, polled, ready, detachq, waiting, file,
                  due, budget, asked>>
  BY DEF Evict
<1> QED BY <1>1, <1>2, <1>3, <1>4, ClosingOK DEF Reasons, IInv, LoopType

\* The others are gone; the canvas may follow another policy.
LEMMA EvictedOK == ServerAssumption /\ IInv /\ Evicted => IInv'
<1> SUFFICES ASSUME ServerAssumption, IInv, Evicted PROVE IInv'
  OBVIOUS
<1>1. /\ UNCHANGED <<conns, activity, escs, reader, seq, holder, cfg, stop, ci,
                     hello, polled, ready, detachq, inbox, waiting, gone, file,
                     due, budget, greeted, asked, farewell, displays, size, active>>
      /\ mode = "evict" /\ mode' = "poll" /\ dj' = 0
      /\ ApplyCanvas(cfg.follows)
  BY DEF Evicted, peers
<1>2. TableType' /\ DisplaysOK'
  BY <1>1, TableKept DEF table
<1>3. canvas' \in Dims /\ forced' \in BOOLEAN
  BY <1>1, <1>2, CanvasType DEF IInv, LoopType, DisplaysOK
<1>4. LoopType'
  BY <1>1, <1>3 DEF IInv, LoopType, Modes
<1>5. IndexOK' /\ ActiveIsDisplay' /\ HolderOK'
  BY <1>1 DEF IInv, IndexOK, ActiveIsDisplay, HolderOK, Between
<1> QED BY <1>2, <1>4, <1>5 DEF IInv

\* The session is over: one connection told, or all of them.
LEMMA ShutdownOK == ServerAssumption /\ IInv /\ Shutdown => IInv'
<1> SUFFICES ASSUME ServerAssumption, IInv, Shutdown PROVE IInv'
  OBVIOUS
<1>1. UNCHANGED <<seq, canvas, forced, holder, cfg, stop, ci, dj, hello, polled, ready,
                  detachq, file, due, budget, asked>>
  BY DEF Shutdown
<1>2. CASE conns = <<>>
  <2>1. /\ mode' = "over" /\ waiting' = <<>>
        /\ UNCHANGED <<table, active, inbox, gone, greeted, farewell>>
    BY <1>2 DEF Shutdown
  <2>2. TableType' /\ DisplaysOK'
    BY <2>1, TableKept
  <2>3. LoopType'
    BY <1>1, <2>1, EmptySeq DEF IInv, LoopType, Modes
  <2>4. IndexOK' /\ ActiveIsDisplay' /\ HolderOK'
    BY <2>1 DEF table, IInv, IndexOK, ActiveIsDisplay, HolderOK, Between
  <2> QED BY <2>2, <2>3, <2>4 DEF IInv
<1>3. CASE conns # <<>>
  <2>1. /\ mode' = "shutdown" /\ waiting' = waiting
        /\ ConnClose(1, "ended")
        /\ active' = IF conns[1] = active THEN None ELSE active
    BY <1>3 DEF Shutdown
  <2>2. 1 \in 1..Len(conns)
    BY <1>3, EmptySeq, LenProperties DEF IInv, TableType
  <2>3. TableType' /\ DisplaysOK' /\ displays' = displays \ {conns[1]}
    BY <2>1, <2>2, ConnCloseOK DEF IInv, Reasons
  <2>4. LoopType'
    BY <1>1, <2>1 DEF IInv, LoopType, Modes
  <2>5. IndexOK' /\ ActiveIsDisplay' /\ HolderOK'
    BY <2>1, <2>3 DEF IInv, IndexOK, ActiveIsDisplay, HolderOK, Between
  <2> QED BY <2>3, <2>4, <2>5 DEF IInv
<1> QED BY <1>2, <1>3

\* Nothing happens.
LEMMA StutterOK == IInv /\ UNCHANGED vars => IInv'
  BY DEF vars, table, shared, cycle, peers, IInv, TableType, LoopType, IndexOK,
     DisplaysOK, ActiveIsDisplay, HolderOK, Between

LEMMA StepOK == ServerAssumption /\ IInv /\ [Next]_vars => IInv'
<1> SUFFICES ASSUME ServerAssumption, IInv, [Next]_vars PROVE IInv'
  OBVIOUS
<1>1. CASE Peers
  BY <1>1, PeersOK
<1>2. CASE Loop
  BY <1>2, PollOK, ReadConnOK, MovesOnOK, HandleHelloOK, DisplaceOK, DisplacedOK,
     HandleResizeOK, HandleInputOK, HandleDetachOK, HandleCmdOK, EscTimeoutOK,
     DetachQueuedOK, ReloadOK, EvictOK, EvictedOK, ShutdownOK DEF Loop
<1>3. CASE UNCHANGED vars
  BY <1>3, StutterOK
<1> QED BY <1>1, <1>2, <1>3 DEF Next

-----------------------------------------------------------------------------
(* The theorems.                                                           *)

(***************************************************************************)
(* The strengthened invariant holds of every state of the server.          *)
(***************************************************************************)
THEOREM Inductive == Spec => []IInv
<1>1. Init => IInv
  BY InitOK, ServerAssumption
<1>2. IInv /\ [Next]_vars => IInv'
  BY StepOK, ServerAssumption
<1> QED BY <1>1, <1>2, PTL DEF Spec

(***************************************************************************)
(* Every variable keeps its type; in particular the descriptor served is   *)
(* always one of the array, wherever the entries have been moved to.       *)
(***************************************************************************)
THEOREM TypeCorrect == Spec => []TypeOK
<1>1. IInv => TypeOK
  BY TypeParts DEF IInv
<1> QED BY <1>1, Inductive, PTL

(***************************************************************************)
(* There is an active client exactly when somebody is looking, and it is   *)
(* somebody who is looking, through every attach, detach and displacement. *)
(***************************************************************************)
THEOREM ActiveCorrect == Spec => []ActiveIsDisplay
<1>1. IInv => ActiveIsDisplay
  BY DEF IInv
<1> QED BY <1>1, Inductive, PTL

(***************************************************************************)
(* A prefix or drag half done is the active client's, a script's, or       *)
(* nobody's.                                                               *)
(***************************************************************************)
THEOREM InteractionCorrect == Spec => []InteractionOwner
<1>1. IInv => InteractionOwner
  BY DEF IInv, HolderOK, InteractionOwner, Between
<1> QED BY <1>1, Inductive, PTL

-----------------------------------------------------------------------------
(* Who is in the array, who waits, and who was asked to leave.             *)

Each(s) == {s[i] : i \in 1..Len(s)}
Once(s) == \A i, j \in 1..Len(s) : s[i] = s[j] => i = j

(* A descriptor is one connection's: in the array once, or in the queue.   *)
Unique == Once(conns) /\ Once(waiting) /\ Each(conns) \cap Each(waiting) = {}

(* Whoever asked to leave and is still here is in the queue, and only they;*)
(* the queue is empty outside the part of the cycle that fills and drains  *)
(* it.                                                                     *)
Asked ==
  /\ Each(detachq) \subseteq asked
  /\ asked \cap Each(conns) \subseteq Each(detachq)
  /\ mode \notin {"conns", "msgs", "displace", "esc", "detach"} => detachq = <<>>
  /\ \A f \in Fds : farewell[f] = "detached" => f \in asked

(* What is said of a descriptor's leaving is said of one that has left, and*)
(* a display is in the array.                                              *)
Fresh   == \A f \in Each(conns) : farewell[f] = "none"
Present == displays \subseteq Each(conns)

(* A connection moves down the array only, so one found at its own slot of *)
(* the poll set has never moved; and if the loop has not been past it, what*)
(* poll() saw of it is still there.                                        *)
Below == \A i \in 1..Len(conns), p \in 1..Len(polled) : conns[i] = polled[p] => i <= p

Ahead(i) == i \in 1..Len(conns) /\ IF mode = "conns" THEN i >= ci ELSE i > ci

Something(f) == inbox[f] # <<>> \/ f \in gone

Seen ==
  /\ mode \in {"conns", "msgs", "displace"} =>
       Below /\ \A i \in Nat : Ahead(i) /\ Serviceable(i) => Something(conns[i])
  /\ EveryReadMeant

Replaced == \E f \in Fds : farewell[f] = "replaced"

\* What a removal leaves: one entry fewer, the last one in its place.
LEMMA RemoveAt ==
  ASSUME NEW S, NEW s \in Seq(S), NEW k \in 1..Len(s)
  PROVE  /\ Len(s) \in Nat /\ Len(s) \in 1..Len(s)
         /\ Len(SwapRemove(s, k)) = Len(s) - 1
         /\ \A i \in 1..Len(SwapRemove(s, k)) :
              /\ i \in 1..Len(s) /\ i # Len(s)
              /\ SwapRemove(s, k)[i] = IF i = k THEN s[Len(s)] ELSE s[i]
<1>1. Len(s) \in Nat /\ Len(s) \in 1..Len(s)
  BY LenProperties
<1>2. Len(SwapRemove(s, k)) = Len(s) - 1
  BY SwapRemoveType
<1> DEFINE t == SwapRemove(s, k)
           n == Len(s) - 1
<1>3. t = [i \in 1..n |-> IF i = k THEN s[Len(s)] ELSE s[i]]
  BY DEF SwapRemove
<1>4. Len(t) = n
  BY <1>2
<1> HIDE DEF t
<1>5. ASSUME NEW i \in 1..n
      PROVE  i \in 1..Len(s) /\ i # Len(s) /\ t[i] = IF i = k THEN s[Len(s)] ELSE s[i]
  <2>1. i \in 1..Len(s) /\ i # Len(s)
    BY <1>1
  <2>2. t[i] = IF i = k THEN s[Len(s)] ELSE s[i]
    BY <1>3
  <2> QED BY <2>1, <2>2
<1>6. \A i \in 1..Len(t) : /\ i \in 1..Len(s) /\ i # Len(s)
                            /\ t[i] = IF i = k THEN s[Len(s)] ELSE s[i]
  BY <1>4, <1>5
<1> QED BY <1>1, <1>2, <1>6 DEF t

\* Of entries that are all different, a removal takes the one it is told.
LEMMA RemoveOne ==
  ASSUME NEW S, NEW s \in Seq(S), Once(s), NEW k \in 1..Len(s)
  PROVE  /\ Once(SwapRemove(s, k))
         /\ Each(SwapRemove(s, k)) = Each(s) \ {s[k]}
<1> DEFINE t == SwapRemove(s, k)
<1>1. /\ Len(s) \in Nat /\ Len(s) \in 1..Len(s) /\ Len(t) = Len(s) - 1
      /\ \A i \in 1..Len(t) : /\ i \in 1..Len(s) /\ i # Len(s)
                              /\ t[i] = IF i = k THEN s[Len(s)] ELSE s[i]
  BY RemoveAt
<1> HIDE DEF t
<1>2. Once(t)
  BY <1>1 DEF Once
<1>3. \A i \in 1..Len(t) : t[i] \in Each(s) /\ t[i] # s[k]
  BY <1>1 DEF Each, Once
<1>4. ASSUME NEW i \in 1..Len(s), s[i] # s[k] PROVE s[i] \in Each(t)
  <2>1. CASE i = Len(s)
    <3>1. k \in 1..Len(t)
      BY <1>1, <1>4, <2>1
    <3>2. t[k] = s[i]
      BY <1>1, <2>1, <3>1
    <3> QED BY <3>1, <3>2 DEF Each
  <2>2. CASE i # Len(s)
    <3>1. i \in 1..Len(t)
      BY <1>1, <2>2
    <3>2. t[i] = s[i]
      BY <1>1, <1>4, <3>1
    <3> QED BY <3>1, <3>2 DEF Each
  <2> QED BY <2>1, <2>2
<1>5. Each(t) = Each(s) \ {s[k]}
  BY <1>3, <1>4 DEF Each
<1> QED BY <1>2, <1>5 DEF t

\* What is added to a sequence is in it.
LEMMA AppendEach ==
  ASSUME NEW S, NEW s \in Seq(S), NEW e \in S
  PROVE  /\ Append(s, e) \in Seq(S) /\ Len(Append(s, e)) = Len(s) + 1 /\ Len(s) \in Nat
         /\ \A i \in 1..Len(s) : Append(s, e)[i] = s[i]
         /\ Append(s, e)[Len(s) + 1] = e
         /\ Each(Append(s, e)) = Each(s) \cup {e}
         /\ Once(s) /\ e \notin Each(s) => Once(Append(s, e))
<1> DEFINE t == Append(s, e)
<1>1. /\ t \in Seq(S) /\ Len(t) = Len(s) + 1 /\ Len(s) \in Nat
      /\ \A i \in 1..Len(s) : t[i] = s[i]
      /\ t[Len(s) + 1] = e
  BY AppendProperties, LenProperties
<1> HIDE DEF t
<1>2. \A i : i \in 1..Len(t) <=> i \in 1..Len(s) \/ i = Len(s) + 1
  BY <1>1
<1>3. Each(t) = Each(s) \cup {e}
  BY <1>1, <1>2 DEF Each
<1>4. Once(s) /\ e \notin Each(s) => Once(t)
  BY <1>1, <1>2 DEF Each, Once
<1> QED BY <1>1, <1>3, <1>4 DEF t

\* What is in a sequence is its head or in its tail.
LEMMA HeadEach ==
  ASSUME NEW S, NEW s \in Seq(S), s # <<>>
  PROVE  /\ Head(s) \in S /\ Tail(s) \in Seq(S)
         /\ Each(s) = {Head(s)} \cup Each(Tail(s))
         /\ Once(s) => Once(Tail(s)) /\ Head(s) \notin Each(Tail(s))
<1>1. /\ Head(s) \in S /\ Tail(s) \in Seq(S) /\ Len(Tail(s)) = Len(s) - 1
      /\ \A i \in 1..Len(Tail(s)) : Tail(s)[i] = s[i + 1]
      /\ Head(s) = s[1] /\ Len(s) \in Nat /\ Len(s) >= 1
  BY HeadTailProperties, LenProperties, EmptySeq
<1> DEFINE t == Tail(s)
           h == Head(s)
<1> HIDE DEF t, h
<1>2. \A i \in 1..Len(s) : i = 1 \/ (i - 1 \in 1..Len(t) /\ t[i - 1] = s[i])
  BY <1>1 DEF t
<1>3. \A i \in 1..Len(t) : i + 1 \in 1..Len(s) /\ i + 1 # 1 /\ t[i] = s[i + 1]
  BY <1>1 DEF t
<1>4. h = s[1] /\ 1 \in 1..Len(s)
  BY <1>1 DEF h
<1>5. Each(s) = {h} \cup Each(t)
  <2>1. ASSUME NEW i \in 1..Len(s) PROVE s[i] \in {h} \cup Each(t)
    <3>1. CASE i = 1
      BY <1>4, <3>1
    <3>2. CASE i # 1
      <4>1. i - 1 \in 1..Len(t) /\ t[i - 1] = s[i]
        BY <1>2, <3>2
      <4> QED BY <4>1 DEF Each
    <3> QED BY <3>1, <3>2
  <2>2. ASSUME NEW i \in 1..Len(t) PROVE t[i] \in Each(s)
    BY <1>3, <2>2 DEF Each
  <2>3. h \in Each(s)
    BY <1>4 DEF Each
  <2> QED BY <2>1, <2>2, <2>3 DEF Each
<1>6. ASSUME Once(s) PROVE Once(t) /\ h \notin Each(t)
  <2>1. \A i, j \in 1..Len(t) : t[i] = t[j] => i = j
    BY <1>3, <1>6 DEF Once
  <2>2. \A i \in 1..Len(t) : t[i] # h
    BY <1>3, <1>4, <1>6 DEF Once
  <2> QED BY <2>1, <2>2 DEF Once, Each
<1> QED BY <1>1, <1>5, <1>6 DEF t, h
\* Taking a connection out: nobody else goes, and why is said of it alone.
LEMMA CloseEach ==
  ASSUME TableType, Unique, NEW k \in 1..Len(conns), NEW why, ConnClose(k, why)
  PROVE  /\ conns[k] \in Fds
         /\ Once(conns') /\ Each(conns') = Each(conns) \ {conns[k]}
         /\ \A f \in Fds : farewell'[f] = IF f = conns[k] THEN why ELSE farewell[f]
<1>1. conns[k] \in Fds
  BY ConnType
<1>2. conns \in Seq(Fds) /\ farewell \in [Fds -> Reasons]
  BY DEF TableType
<1>3. conns' = SwapRemove(conns, k) /\ farewell' = [farewell EXCEPT ![conns[k]] = why]
  BY DEF ConnClose
<1>4. Once(conns') /\ Each(conns') = Each(conns) \ {conns[k]}
  BY <1>2, <1>3, RemoveOne DEF Unique
<1> QED BY <1>1, <1>2, <1>3, <1>4

\* What a step can do to the array and to the queue of the listening socket.
LEMMA StepKinds ==
  ASSUME IInv, [Next]_vars
  PROVE  \/ Poll
         \/ \E f \in Fds : Connect(f)
         \/ /\ \E k \in 1..Len(conns), why \in Reasons : ConnClose(k, why)
            /\ waiting' = waiting
         \/ /\ conns' = conns /\ farewell' = farewell
            /\ waiting' \in {waiting, <<>>}
<1> DEFINE Closes == /\ \E k \in 1..Len(conns), why \in Reasons : ConnClose(k, why)
                     /\ waiting' = waiting
           Keeps  == /\ conns' = conns /\ farewell' = farewell
                     /\ waiting' \in {waiting, <<>>}
<1>0. Len(conns) \in Nat
  BY LenProperties DEF IInv, TableType
<1>1. ReadConn => Closes \/ Keeps
  <2> SUFFICES ASSUME ReadConn PROVE Closes \/ Keeps
    OBVIOUS
  <2>1. PICK i \in 1..Len(conns) :
          \/ conns' = conns /\ farewell' = farewell
          \/ CloseConn(i, IF conns[i] \in gone THEN "eof" ELSE "eagain")
    BY DEF ReadConn
  <2>2. waiting' = waiting
    BY DEF ReadConn
  <2>3. (IF conns[i] \in gone THEN "eof" ELSE "eagain") \in Reasons
    BY DEF Reasons
  <2> QED BY <2>1, <2>2, <2>3 DEF CloseConn
<1>2. Displace => Closes
  <2> SUFFICES ASSUME Displace PROVE Closes
    OBVIOUS
  <2>1. PICK j \in dj..Len(conns) : ConnClose(j, "replaced")
    BY DEF Displace
  <2>2. j \in 1..Len(conns)
    BY <1>0, <2>1 DEF Displace, IInv, IndexOK, LoopType
  <2> QED BY <2>1, <2>2 DEF Displace, Reasons
<1>3. Evict => Closes
  <2> SUFFICES ASSUME Evict PROVE Closes
    OBVIOUS
  <2>1. PICK j \in dj..Len(conns) : ConnClose(j, "replaced")
    BY DEF Evict, CloseConn
  <2>2. j \in 1..Len(conns)
    BY <1>0, <2>1 DEF Evict, IInv, IndexOK, LoopType
  <2> QED BY <2>1, <2>2 DEF Evict, Reasons
<1>4. HandleDetach => Closes
  BY TakeOK DEF HandleDetach, CloseConn, Reasons
<1>5. DetachQueued => Closes \/ Keeps
  BY DEF DetachQueued, CloseConn, Reasons, table
<1>6. Shutdown => Closes \/ Keeps
  <2>1. CASE conns = <<>>
    BY <2>1 DEF Shutdown, table
  <2>2. CASE conns # <<>>
    <3>1. 1 \in 1..Len(conns)
      BY <2>2, EmptySeq, LenProperties DEF IInv, TableType
    <3> QED BY <2>2, <3>1 DEF Shutdown, Reasons
  <2> QED BY <2>1, <2>2
<1>7. CASE Peers
  BY <1>7 DEF Peers, HangUp, Send, SaveConfig, SessionEnds, table, peers
<1>8. CASE Loop
  BY <1>1, <1>2, <1>3, <1>4, <1>5, <1>6, <1>8
     DEF Loop, ConnsServed, HandleHello, Displaced, HandleResize, HandleInput,
         HandleCmd, MsgsDone, EscTimeout, EscDone, DetachDone, Reload, NoReload,
         Evicted, table, peers
<1>9. CASE UNCHANGED vars
  BY <1>9 DEF vars, table, peers
<1> QED BY <1>7, <1>8, <1>9 DEF Next

\* Descriptors stay one connection's each.
LEMMA UniqueOK == IInv /\ Unique /\ [Next]_vars => Unique'
<1> SUFFICES ASSUME IInv, Unique, [Next]_vars PROVE Unique'
  OBVIOUS
<1>0. conns \in Seq(Fds) /\ waiting \in Seq(Fds) /\ TableType
  BY DEF IInv, TableType, LoopType
<1>1. Once(<<>>) /\ Each(<<>>) = {}
  BY EmptySeq DEF Once, Each
<1>2. CASE Poll
  <2>1. CASE waiting = <<>>
    BY <1>2, <2>1 DEF Poll, Unique
  <2>2. CASE waiting # <<>>
    <3> DEFINE f == Head(waiting)
    <3>1. /\ f \in Fds
          /\ Each(waiting) = {f} \cup Each(Tail(waiting))
          /\ Once(Tail(waiting)) /\ f \notin Each(Tail(waiting))
      BY <1>0, <2>2, HeadEach DEF Unique
    <3>2. waiting' = Tail(waiting) /\ conns' \in {conns, Append(conns, f)}
      BY <1>2, <2>2 DEF Poll, Accept
    <3>3. f \notin Each(conns)
      BY <3>1 DEF Unique
    <3>4. /\ Each(Append(conns, f)) = Each(conns) \cup {f}
          /\ Once(Append(conns, f))
      BY <1>0, <3>1, <3>3, AppendEach DEF Unique
    <3> HIDE DEF f
    <3>5. Once(waiting') /\ Once(conns')
      BY <3>1, <3>2, <3>4 DEF Unique
    <3>6. Each(conns') \subseteq Each(conns) \cup {f}
      BY <3>2, <3>4
    <3>7. Each(conns') \cap Each(waiting') = {}
      BY <3>1, <3>2, <3>6 DEF Unique
    <3> QED BY <3>5, <3>7 DEF Unique
  <2> QED BY <2>1, <2>2
<1>3. ASSUME NEW f \in Fds, Connect(f) PROVE Unique'
  <2>1. waiting' = Append(waiting, f) /\ conns' = conns /\ f \notin Waiting \cup Conns
    BY <1>3 DEF Connect, table
  <2>2. f \notin Each(waiting) /\ f \notin Each(conns)
    BY <2>1 DEF Waiting, Conns, Each
  <2>3. Each(waiting') = Each(waiting) \cup {f} /\ Once(waiting')
    BY <1>0, <2>1, <2>2, AppendEach DEF Unique
  <2> QED BY <2>1, <2>2, <2>3 DEF Unique
<1>4. ASSUME NEW k \in 1..Len(conns), NEW why \in Reasons, ConnClose(k, why),
             waiting' = waiting
      PROVE  Unique'
  <2>1. Once(conns') /\ Each(conns') \subseteq Each(conns)
    BY <1>0, <1>4, CloseEach
  <2> QED BY <1>4, <2>1 DEF Unique
<1>5. CASE conns' = conns /\ waiting' \in {waiting, <<>>}
  BY <1>1, <1>5 DEF Unique
<1> QED BY <1>2, <1>3, <1>4, <1>5, StepKinds

-----------------------------------------------------------------------------
(* Whoever asked to leave.                                                 *)

\* A step that takes no part in it.
LEMMA AskedKept ==
  ASSUME Asked, UNCHANGED <<asked, detachq>>, Each(conns') \subseteq Each(conns),
         \A f \in Fds : farewell'[f] = "detached" => farewell[f] = "detached",
         mode' \notin {"conns", "msgs", "displace", "esc", "detach"} =>
           detachq = <<>> \/ mode \notin {"conns", "msgs", "displace", "esc", "detach"}
  PROVE  Asked'
  BY DEF Asked

\* One that closes a connection for another reason.
LEMMA AskedClosing ==
  ASSUME IInv, Unique, Asked, NEW k \in 1..Len(conns), NEW why, ConnClose(k, why),
         why # "detached", UNCHANGED <<asked, detachq, mode>>
  PROVE  Asked'
<1>1. /\ Each(conns') \subseteq Each(conns)
      /\ \A f \in Fds : farewell'[f] = IF f = conns[k] THEN why ELSE farewell[f]
  BY CloseEach DEF IInv
<1> QED BY <1>1, AskedKept

\* One that asks.
LEMMA AskedAsks ==
  ASSUME IInv, Asked, NEW f \in Fds \cup {None}, QueueDetach(f), ServerAssumption,
         UNCHANGED <<conns, farewell, mode>>, mode \in {"msgs", "esc"}
  PROVE  Asked'
<1>1. CASE f = None
  BY <1>1 DEF QueueDetach, Asked
<1>2. CASE f # None
  <2>1. asked' = asked \cup {f}
    BY <1>2 DEF QueueDetach
  <2>2. Each(detachq') = Each(detachq) \cup {f}
    <3>1. CASE \E i \in 1..Len(detachq) : detachq[i] = f
      BY <1>2, <3>1 DEF QueueDetach, Each
    <3>2. CASE ~ \E i \in 1..Len(detachq) : detachq[i] = f
      <4>1. detachq' = Append(detachq, f)
        BY <1>2, <3>2 DEF QueueDetach
      <4> QED BY <1>2, <4>1, AppendEach DEF IInv, LoopType
    <3> QED BY <3>1, <3>2
  <2>3. mode' \in {"conns", "msgs", "displace", "esc", "detach"}
    OBVIOUS
  <2> QED BY <2>1, <2>2, <2>3 DEF Asked
<1> QED BY <1>1, <1>2

\* Everything asked for is queued until it is done.
LEMMA AskedOK ==
  ServerAssumption /\ IInv /\ Unique /\ Asked /\ [Next]_vars => Asked'
<1> SUFFICES ASSUME ServerAssumption, IInv, Unique, Asked, [Next]_vars PROVE Asked'
  OBVIOUS
<1>0. /\ Each(<<>>) = {} /\ Len(conns) \in Nat /\ TableType
      /\ detachq \in Seq(Fds) /\ active \in Fds \cup {None}
  <2>1. Each(<<>>) = {} /\ TableType /\ LoopType
    BY EmptySeq DEF Each, IInv
  <2> QED BY <2>1, LenProperties DEF TableType, LoopType
<1> DEFINE Busy == {"conns", "msgs", "displace", "esc", "detach"}
<1>1. CASE Poll
  <2>1. /\ asked' = {} /\ detachq' = detachq /\ mode = "poll" /\ mode' = "conns"
        /\ farewell' = [f \in Fds |-> "none"]
    BY <1>1 DEF Poll
  <2>2. detachq' = <<>>
    BY <2>1 DEF Asked
  <2> QED BY <1>0, <2>1, <2>2 DEF Asked
<1>2. CASE ReadConn
  <2>1. PICK i \in 1..Len(conns) :
          \/ mode' = "msgs" /\ UNCHANGED <<conns, farewell>>
          \/ CloseConn(i, IF conns[i] \in gone THEN "eof" ELSE "eagain") /\ mode' = mode
    BY <1>2 DEF ReadConn
  <2>2. UNCHANGED <<asked, detachq>>
    BY <1>2 DEF ReadConn
  <2>3. (IF conns[i] \in gone THEN "eof" ELSE "eagain") # "detached"
    OBVIOUS
  <2> QED BY <2>1, <2>2, <2>3, AskedKept, AskedClosing DEF CloseConn
<1>3. CASE Displace
  <2>1. PICK j \in dj..Len(conns) : ConnClose(j, "replaced")
    BY <1>3 DEF Displace
  <2>2. j \in 1..Len(conns)
    BY <1>0, <1>3, <2>1 DEF Displace, IInv, IndexOK, LoopType
  <2> QED BY <1>3, <2>1, <2>2, AskedClosing DEF Displace
<1>4. CASE Evict
  <2>1. PICK j \in dj..Len(conns) : ConnClose(j, "replaced")
    BY <1>4 DEF Evict, CloseConn
  <2>2. j \in 1..Len(conns)
    BY <1>0, <1>4, <2>1 DEF Evict, IInv, IndexOK, LoopType
  <2> QED BY <1>4, <2>1, <2>2, AskedClosing DEF Evict
<1>5. CASE HandleDetach
  <2>1. ci \in 1..Len(conns) /\ mode' = "conns"
        /\ ConnClose(ci, "detached") /\ asked' = asked \cup {conns[ci]}
        /\ detachq' = detachq
    BY <1>5, TakeOK DEF HandleDetach, CloseConn, Serving
  <2>2. /\ Each(conns') = Each(conns) \ {conns[ci]}
        /\ \A f \in Fds : farewell'[f] = IF f = conns[ci] THEN "detached" ELSE farewell[f]
    BY <1>0, <2>1, CloseEach
  <2> QED BY <2>1, <2>2 DEF Asked
<1>6. CASE DetachQueued
  <2> DEFINE h == Head(detachq)
  <2>1. detachq # <<>> /\ detachq' = Tail(detachq) /\ mode = "detach"
        /\ UNCHANGED <<asked, mode>>
    BY <1>6 DEF DetachQueued
  <2>2. Each(detachq) = {h} \cup Each(detachq')
    BY <1>0, <2>1, HeadEach
  <2>3. Each(conns') = Each(conns) \ {h}
        /\ \A f \in Fds : farewell'[f] = "detached" => f = h \/ farewell[f] = "detached"
    <3>1. CASE h \in Conns
      <4>1. PICK k \in 1..Len(conns) : conns[k] = h /\ ConnClose(k, "detached")
        BY <1>6, <3>1 DEF DetachQueued, DetachTarget, CloseConn
      <4> QED BY <1>0, <4>1, CloseEach
    <3>2. CASE h \notin Conns
      <4>1. conns' = conns /\ farewell' = farewell
        BY <1>6, <3>2 DEF DetachQueued, DetachTarget, table
      <4>2. h \notin Each(conns)
        BY <3>2 DEF Conns, Each
      <4> QED BY <4>1, <4>2
    <3> QED BY <3>1, <3>2
  <2>4. Each(detachq') \subseteq asked' /\ asked' \cap Each(conns') \subseteq Each(detachq')
    BY <2>1, <2>2, <2>3 DEF Asked
  <2>5. \A f \in Fds : farewell'[f] = "detached" => f \in asked'
    BY <2>1, <2>2, <2>3 DEF Asked
  <2> QED BY <2>1, <2>4, <2>5 DEF Asked
<1>7. CASE Shutdown
  <2>1. UNCHANGED <<asked, detachq>> /\ mode \notin Busy
    BY <1>7 DEF Shutdown
  <2>2. CASE conns = <<>>
    <3>1. conns' = conns /\ farewell' = farewell
      BY <1>7, <2>2 DEF Shutdown, table
    <3> QED BY <2>1, <3>1, AskedKept
  <2>3. CASE conns # <<>>
    <3>1. ConnClose(1, "ended") /\ 1 \in 1..Len(conns)
      BY <1>7, <2>3, EmptySeq, LenProperties DEF Shutdown, IInv, TableType
    <3>2. /\ Each(conns') \subseteq Each(conns)
          /\ \A f \in Fds : farewell'[f] = "detached" => farewell[f] = "detached"
      BY <1>0, <3>1, CloseEach
    <3> QED BY <2>1, <3>2, AskedKept
  <2> QED BY <2>2, <2>3
<1>8. CASE HandleInput
  <2>1. UNCHANGED <<conns, farewell, mode>> /\ mode = "msgs" /\ Serving \in Fds
        /\ (QueueDetach(Serving) \/ UNCHANGED <<asked, detachq>>)
    BY <1>8, TakeOK DEF HandleInput
  <2> QED BY <2>1, AskedAsks, AskedKept
<1>9. CASE HandleCmd
  <2>1. UNCHANGED <<conns, farewell, mode>> /\ mode = "msgs"
        /\ (QueueDetach(active) \/ UNCHANGED <<asked, detachq>>)
    BY <1>9, TakeOK DEF HandleCmd
  <2> QED BY <1>0, <2>1, AskedAsks, AskedKept
<1>10. CASE EscTimeout
  <2>1. PICK i \in ci..Len(conns) :
          conns[i] \in escs /\ (QueueDetach(conns[i]) \/ UNCHANGED <<asked, detachq>>)
    BY <1>10 DEF EscTimeout
  <2>2. UNCHANGED <<conns, farewell, mode>> /\ mode = "esc" /\ conns[i] \in Fds
    BY <1>10, <2>1 DEF EscTimeout, IInv, TableType
  <2> QED BY <2>1, <2>2, AskedAsks, AskedKept
<1>11. CASE \/ Peers \/ UNCHANGED vars
            \/ ConnsServed \/ HandleHello \/ Displaced \/ HandleResize \/ MsgsDone
            \/ EscDone \/ DetachDone \/ Reload \/ NoReload \/ Evicted
  <2>1. UNCHANGED <<conns, farewell, asked, detachq>>
    BY <1>11 DEF Peers, Connect, HangUp, Send, SaveConfig, SessionEnds, vars, table,
       cycle, ConnsServed, HandleHello, Displaced, HandleResize, MsgsDone, EscDone,
       DetachDone, Reload, NoReload, Evicted
  <2>2. mode' \notin Busy => detachq = <<>> \/ mode \notin Busy
    BY <1>11 DEF Peers, Connect, HangUp, Send, SaveConfig, SessionEnds, vars, table,
       cycle, ConnsServed, HandleHello, Displaced, HandleResize, MsgsDone, EscDone,
       DetachDone, Reload, NoReload, Evicted
  <2> QED BY <2>1, <2>2, AskedKept
<1> QED BY <1>1, <1>2, <1>3, <1>4, <1>5, <1>6, <1>7, <1>8, <1>9, <1>10, <1>11
       DEF Next, Loop

(***************************************************************************)
(* A detach takes the client it was asked for and no other, and by the end *)
(* of the cycle everyone who was asked for is gone, whatever has moved in  *)
(* the array and whoever became the active client in between.              *)
(***************************************************************************)
THEOREM DetachCorrect == Spec => []DetachExact
<1>1. Init => Unique /\ Asked
  <2>1. Once(<<>>) /\ Each(<<>>) = {}
    BY EmptySeq DEF Once, Each
  <2> QED BY <2>1 DEF Init, Unique, Asked
<1>2. IInv /\ Unique /\ Asked /\ [Next]_vars => Unique' /\ Asked'
  BY UniqueOK, AskedOK, ServerAssumption
<1>3. Unique /\ Asked => DetachExact
  <2>1. Each(<<>>) = {} /\ Conns = Each(conns)
    BY EmptySeq DEF Each, Conns
  <2> QED BY <2>1 DEF Asked, DetachExact
<1> QED BY <1>1, <1>2, <1>3, Inductive, PTL DEF Spec

-----------------------------------------------------------------------------
(* Whose size the canvas is.                                               *)

\* The policy changes with the saved file only, whose reload sizes the canvas;
\* the control command takes a policy and leaves the canvas (server_reload.cfg).
PolicyByFile ==
  "reload" \in Ops => \A c, d \in Configs : c.follows = d.follows

\* What apply_canvas leaves is what the policy makes of the displays.
LEMMA CanvasApplied ==
  ASSUME ServerAssumption, IInv', ApplyCanvas(cfg'.follows)
  PROVE  CanvasFollowsPolicy'
<1> SUFFICES ASSUME displays' # {}, mode' \notin {"displace", "shutdown", "over"}
             PROVE  CanvasIsPolicys'
  BY DEF CanvasFollowsPolicy, CanvasIsPolicys, Between
<1> DEFINE p == cfg'.follows
<1>1. p \in Policies
  BY DEF IInv, LoopType, ServerAssumption
<1>2. active' \in displays' /\ active' # None
  BY DEF IInv, ActiveIsDisplay, Between, TableType, ServerAssumption
<1>3. \A d \in displays' : size'[d] \in Dims
  BY DEF IInv, DisplaysOK
<1>4. PICK w \in displays', h \in displays' :
         /\ Supplies(p, w, "cols")
         /\ Supplies(p, h, "rows")
         /\ canvas' = [cols |-> size'[w].cols, rows |-> size'[h].rows]
  BY <1>2 DEF ApplyCanvas
<1>5. canvas'["cols"] = size'[w]["cols"] /\ canvas'["rows"] = size'[h]["rows"]
  BY <1>4
<1> HIDE DEF p
<1>6. CASE p = "active"
  <2>1. w = active' /\ h = active'
    BY <1>4, <1>6 DEF Supplies
  <2>2. size'[active'] = [cols |-> size'[active'].cols, rows |-> size'[active'].rows]
    BY <1>2, <1>3 DEF Dims
  <2>3. canvas' = size'[active']
    BY <1>4, <2>1, <2>2
  <2> QED BY <1>6, <2>3 DEF CanvasIsPolicys, p
<1>7. CASE p = "smallest"
  <2>1. /\ \A e \in displays' : size'[w]["cols"] <= size'[e]["cols"]
        /\ \A e \in displays' : size'[h]["rows"] <= size'[e]["rows"]
    BY <1>4, <1>7 DEF Supplies
  <2>2. \A dim \in {"cols", "rows"} :
          /\ \E d \in displays' : canvas'[dim] = size'[d][dim]
          /\ \A d \in displays' : canvas'[dim] <= size'[d][dim]
    BY <1>5, <2>1
  <2> QED BY <1>7, <2>2 DEF CanvasIsPolicys, p
<1>8. CASE p = "largest"
  <2>1. /\ \A e \in displays' : size'[w]["cols"] >= size'[e]["cols"]
        /\ \A e \in displays' : size'[h]["rows"] >= size'[e]["rows"]
    BY <1>4, <1>8 DEF Supplies
  <2>2. \A dim \in {"cols", "rows"} :
          /\ \E d \in displays' : canvas'[dim] = size'[d][dim]
          /\ \A d \in displays' : canvas'[dim] >= size'[d][dim]
    BY <1>5, <2>1
  <2> QED BY <1>8, <2>2 DEF CanvasIsPolicys, p
<1> QED BY <1>1, <1>6, <1>7, <1>8 DEF Policies

\* A step that moves none of what it is about.
LEMMA CanvasKept ==
  ASSUME CanvasFollowsPolicy, UNCHANGED <<displays, size, active, canvas, forced>>,
         cfg'.follows = cfg.follows,
         mode' = mode \/ mode \notin {"displace", "shutdown", "over", "evict"}
  PROVE  CanvasFollowsPolicy'
<1>1. CASE cfg.follows = "active"
  BY <1>1 DEF CanvasFollowsPolicy, CanvasIsPolicys, Between
<1>2. CASE cfg.follows # "active"
  BY <1>2 DEF CanvasFollowsPolicy, CanvasIsPolicys, Between
<1> QED BY <1>1, <1>2

\* Every step that moves a display, a size or the policy sizes the canvas, or
\* is on its way to.
LEMMA CanvasOK ==
  ASSUME ServerAssumption, PolicyByFile, IInv, IInv', CanvasFollowsPolicy, [Next]_vars
  PROVE  CanvasFollowsPolicy'
<1>1. CASE ReadConn
  <2>1. mode = "conns" /\ cfg' = cfg
    BY <1>1 DEF ReadConn
  <2>2. PICK i \in 1..Len(conns), why \in Reasons :
          \/ mode' = "msgs" /\ UNCHANGED <<displays, size, active, canvas, forced>>
          \/ CloseConn(i, why)
    <3>1. PICK i \in 1..Len(conns) :
            \/ mode' = "msgs" /\ UNCHANGED <<displays, size, active, canvas, forced>>
            \/ CloseConn(i, IF conns[i] \in gone THEN "eof" ELSE "eagain")
      BY <1>1 DEF ReadConn, shared
    <3>2. (IF conns[i] \in gone THEN "eof" ELSE "eagain") \in Reasons
      BY DEF Reasons
    <3> QED BY <3>1, <3>2
  <2>3. ASSUME CloseConn(i, why) PROVE ApplyCanvas(cfg.follows)
    BY <2>3, PromoteOK DEF CloseConn
  <2> QED BY <2>1, <2>2, <2>3, CanvasKept, CanvasApplied
<1>2. CASE HandleHello
  <2>1. mode = "msgs" /\ cfg' = cfg
    BY <1>2 DEF HandleHello, Take
  <2>2. CASE cfg.multi
    <3>1. ApplyCanvas(cfg.follows)
      BY <1>2, <2>2 DEF HandleHello, BecomeDisplay, MakeActive
    <3> QED BY <2>1, <3>1, CanvasApplied
  <2>3. CASE ~cfg.multi
    <3>1. mode' = "displace"
      BY <1>2, <2>3 DEF HandleHello
    <3> QED BY <3>1 DEF CanvasFollowsPolicy, CanvasIsPolicys, Between
  <2> QED BY <2>2, <2>3
<1>3. CASE Displaced
  BY <1>3, CanvasApplied DEF Displaced, BecomeDisplay, MakeActive
<1>4. CASE HandleResize
  <2>1. cfg' = cfg /\ mode' = mode
    BY <1>4 DEF HandleResize, cycle
  <2>2. CASE Serving \in displays
    <3>1. ApplyCanvas(cfg.follows)
      BY <1>4, <2>2 DEF HandleResize
    <3> QED BY <2>1, <3>1, CanvasApplied
  <2>3. CASE Serving \notin displays
    <3>1. UNCHANGED <<displays, size, active, canvas, forced>>
      BY <1>4, <2>3 DEF HandleResize
    <3> QED BY <2>1, <3>1, CanvasKept
  <2> QED BY <2>2, <2>3
<1>5. CASE HandleInput
  <2>1. cfg' = cfg /\ mode' = mode /\ UNCHANGED <<displays, size>>
    BY <1>5 DEF HandleInput
  <2>2. CASE Serving \in displays
             /\ Head(reader[Serving]).kind \in {"user", "begin", "detach"}
    <3>1. ApplyCanvas(cfg.follows)
      BY <1>5, <2>2 DEF HandleInput, Interact
    <3> QED BY <2>1, <3>1, CanvasApplied
  <2>3. CASE ~ (Serving \in displays
                /\ Head(reader[Serving]).kind \in {"user", "begin", "detach"})
    <3>1. UNCHANGED <<active, canvas, forced>>
      BY <1>5, <2>3 DEF HandleInput, shared
    <3> QED BY <2>1, <3>1, CanvasKept
  <2> QED BY <2>2, <2>3
<1>6. CASE HandleDetach
  BY <1>6, PromoteOK, CanvasApplied DEF HandleDetach, CloseConn
<1>7. CASE HandleCmd
  <2>1. UNCHANGED <<displays, size, active, mode>>
    BY <1>7 DEF HandleCmd
  <2>3. forced' \/ UNCHANGED <<canvas, forced>>
    BY <1>7 DEF HandleCmd, IInv, LoopType
  <2>2. cfg'.follows = cfg.follows
    <3>1. Head(reader[Serving]).op \in Ops
      BY <1>7, TakeOK, MessageFields DEF HandleCmd
    <3>2. cfg' = cfg \/ "reload" \in Ops
      BY <1>7, <3>1 DEF HandleCmd
    <3> QED BY <3>2 DEF PolicyByFile, IInv, LoopType
  <2> QED BY <2>1, <2>2, <2>3, CanvasKept DEF CanvasFollowsPolicy
<1>8. CASE EscTimeout
  BY <1>8, CanvasApplied DEF EscTimeout, Interact
<1>9. CASE DetachQueued
  <2>1. cfg' = cfg /\ mode' = mode
    BY <1>9 DEF DetachQueued
  <2>2. CASE DetachTarget \in Conns
    <3>1. ApplyCanvas(cfg.follows)
      BY <1>9, <2>2, PromoteOK DEF DetachQueued, CloseConn
    <3> QED BY <2>1, <3>1, CanvasApplied
  <2>3. CASE DetachTarget \notin Conns
    <3>1. UNCHANGED <<displays, size, active, canvas, forced>>
      BY <1>9, <2>3 DEF DetachQueued, table
    <3> QED BY <2>1, <3>1, CanvasKept
  <2> QED BY <2>2, <2>3
<1>10. CASE Reload
  <2>1. mode = "reload" /\ UNCHANGED <<displays, size, active>>
    BY <1>10 DEF Reload
  <2>2. CASE file = None
    <3>1. cfg' = cfg /\ UNCHANGED <<canvas, forced>>
      BY <1>10, <2>2 DEF Reload
    <3> QED BY <2>1, <3>1, CanvasKept
  <2>3. CASE file # None /\ file.multi
    <3>1. cfg' = file /\ ApplyCanvas(file.follows)
      BY <1>10, <2>3 DEF Reload
    <3> QED BY <3>1, CanvasApplied
  <2>4. CASE file # None /\ ~file.multi
    <3>1. mode' = "evict"
      BY <1>10, <2>4 DEF Reload
    <3> QED BY <3>1 DEF CanvasFollowsPolicy, CanvasIsPolicys
  <2> QED BY <2>2, <2>3, <2>4
<1>11. CASE Evicted
  BY <1>11, CanvasApplied DEF Evicted
<1>12. CASE Displace \/ Shutdown \/ Evict
  <2>1. mode' \in {"displace", "shutdown", "over", "evict"}
    BY <1>12 DEF Displace, Shutdown, Evict
  <2> QED BY <2>1 DEF CanvasFollowsPolicy, CanvasIsPolicys, Between
<1>13. CASE \/ Peers \/ UNCHANGED vars
            \/ Poll \/ ConnsServed \/ MsgsDone \/ EscDone \/ DetachDone \/ NoReload
  <2>1. /\ UNCHANGED <<displays, size, active, canvas, forced, cfg>>
        /\ mode' = mode \/ mode \in {"poll", "conns", "msgs", "esc", "detach", "reload"}
    BY <1>13 DEF Peers, Connect, HangUp, Send, SaveConfig, SessionEnds, vars, table,
       shared, cycle, Poll, ConnsServed, MsgsDone, EscDone, DetachDone, NoReload
  <2> QED BY <2>1, CanvasKept
<1> QED BY <1>1, <1>2, <1>3, <1>4, <1>5, <1>6, <1>7, <1>8, <1>9, <1>10, <1>11,
       <1>12, <1>13 DEF Next, Loop

(***************************************************************************)
(* The canvas is always what the policy in force makes of the displays     *)
(* attached now, whoever came, left, typed or changed size, unless a       *)
(* control command has set it since apply_canvas last did; as long as no   *)
(* control command changes the policy behind the canvas's back.            *)
(***************************************************************************)
THEOREM CanvasCorrect == ASSUME PolicyByFile PROVE Spec => []CanvasFollowsPolicy
<1>1. Init => CanvasFollowsPolicy
  BY DEF Init, CanvasFollowsPolicy, CanvasIsPolicys
<1>2. IInv /\ IInv' /\ CanvasFollowsPolicy /\ [Next]_vars => CanvasFollowsPolicy'
  BY CanvasOK, ServerAssumption
<1> QED BY <1>1, <1>2, Inductive, PTL DEF Spec

-----------------------------------------------------------------------------
(* What poll() saw, and where it is.                                       *)

\* A step that leaves the array, the snapshot and the place in it alone.
LEMMA SlotsKept ==
  ASSUME IInv, Seen, UNCHANGED <<conns, polled, ready, farewell>>,
         mode' \in {"conns", "msgs", "displace"} =>
           /\ mode' = mode \/ {mode, mode'} = {"msgs", "displace"}
           /\ ci' = ci,
         \A f \in Each(conns) : Something(f) => Something(f)'
  PROVE  Seen'
<1>1. EveryReadMeant'
  BY DEF Seen, EveryReadMeant
<1>2. ASSUME mode' \in {"conns", "msgs", "displace"}
      PROVE  Below' /\ \A i \in Nat : Ahead(i)' /\ Serviceable(i)' => Something(conns[i])'
  <2>1. /\ ci' = ci /\ Below /\ mode \in {"conns", "msgs", "displace"}
        /\ mode' = "conns" <=> mode = "conns"
    <3>1. CASE mode' = mode
      BY <1>2, <3>1 DEF Seen
    <3>2. CASE {mode, mode'} = {"msgs", "displace"}
      <4>1. mode \in {"msgs", "displace"} /\ mode' \in {"msgs", "displace"}
        BY <3>2
      <4> QED BY <1>2, <4>1 DEF Seen
    <3> QED BY <1>2, <3>1, <3>2
  <2>2. Below'
    BY <2>1 DEF Below
  <2>3. ASSUME NEW i \in Nat, Ahead(i)', Serviceable(i)' PROVE Something(conns[i])'
    <3>1. Ahead(i) /\ Serviceable(i)
      BY <2>1, <2>3 DEF Ahead, Serviceable, InSlot
    <3>2. Something(conns[i]) /\ conns[i] \in Each(conns)
      BY <1>2, <2>1, <3>1 DEF Seen, Ahead, Each
    <3>3. ASSUME NEW f \in Each(conns), Something(f), f = conns'[i]
          PROVE  Something(conns[i])'
      BY <3>3 DEF Something
    <3> QED BY <3>2, <3>3
  <2> QED BY <2>2, <2>3
<1> QED BY <1>1, <1>2 DEF Seen

\* The entry moved into a hole was another slot's: the loop leaves it alone.
LEMMA SlotsClosing ==
  ASSUME IInv, Unique, Seen, mode \in {"conns", "msgs"}, mode' = "conns",
         NEW k \in 1..Len(conns), NEW why, ConnClose(k, why), why # "eagain",
         UNCHANGED <<polled, ready>>, ci' = k, k >= ci
  PROVE  Seen'
<1>1. /\ conns \in Seq(Fds) /\ TableType /\ Once(conns) /\ Below
      /\ polled \in Seq(Fds) /\ Len(polled) \in Nat /\ ci \in Nat
  BY LenProperties DEF IInv, TableType, LoopType, Unique, Seen
<1>2. /\ Len(conns) \in Nat /\ Len(conns) \in 1..Len(conns)
      /\ Len(conns') = Len(conns) - 1
      /\ \A i \in 1..Len(conns') :
           /\ i \in 1..Len(conns) /\ i # Len(conns)
           /\ conns'[i] = IF i = k THEN conns[Len(conns)] ELSE conns[i]
  <2>1. conns' = SwapRemove(conns, k)
    BY DEF ConnClose
  <2> DEFINE t == SwapRemove(conns, k)
  <2>2. /\ Len(conns) \in Nat /\ Len(conns) \in 1..Len(conns)
        /\ Len(t) = Len(conns) - 1
        /\ \A i \in 1..Len(t) :
             /\ i \in 1..Len(conns) /\ i # Len(conns)
             /\ t[i] = IF i = k THEN conns[Len(conns)] ELSE conns[i]
    BY <1>1, RemoveAt
  <2> HIDE DEF t
  <2>3. conns' = t
    BY <2>1 DEF t
  <2> QED BY <2>2, <2>3
<1>3. EveryReadMeant'
  BY <1>1, CloseEach DEF Seen, EveryReadMeant
<1>4. Below'
  <2>1. ASSUME NEW i \in 1..Len(conns'), NEW p \in 1..Len(polled), conns'[i] = polled[p]
        PROVE  i <= p
    <3>1. CASE i = k
      <4>1. conns[Len(conns)] = polled[p]
        BY <1>2, <2>1, <3>1
      <4>2. Len(conns) <= p
        BY <1>1, <1>2, <4>1 DEF Below
      <4> QED BY <1>1, <1>2, <2>1, <4>2
    <3>2. CASE i # k
      <4>1. conns[i] = polled[p] /\ i \in 1..Len(conns)
        BY <1>2, <2>1, <3>2
      <4> QED BY <1>1, <4>1 DEF Below
    <3> QED BY <3>1, <3>2
  <2> QED BY <2>1 DEF Below
<1>5. ASSUME NEW i \in Nat, Ahead(i)', Serviceable(i)' PROVE Something(conns[i])'
  <2>1. i \in 1..Len(conns') /\ i >= k
    BY <1>5 DEF Ahead
  <2>2. i \in 1..Len(polled) /\ polled[i] = conns'[i] /\ polled[i] \in ready
    BY <1>5 DEF Serviceable, InSlot
  <2>3. i # k
    <3> SUFFICES ASSUME i = k PROVE FALSE
      OBVIOUS
    <3>1. conns[Len(conns)] = polled[i]
      BY <1>2, <2>1, <2>2
    <3>2. Len(conns) <= i
      BY <1>1, <1>2, <2>2, <3>1 DEF Below
    <3> QED BY <1>2, <2>1, <3>2
  <2>4. conns'[i] = conns[i] /\ i \in 1..Len(conns) /\ i > k
    BY <1>2, <2>1, <2>3
  <2>5. Ahead(i) /\ Serviceable(i)
    BY <1>1, <2>2, <2>4 DEF Ahead, Serviceable, InSlot
  <2>6. Something(conns[i])
    BY <2>5 DEF Seen
  <2>7. conns[i] # conns[k]
    BY <1>1, <2>3, <2>4 DEF Once
  <2>8. inbox'[conns[i]] = inbox[conns[i]] /\ gone' = gone \ {conns[k]}
    <3>1. conns[i] \in Fds /\ inbox \in [Fds -> Seq(Messages)]
      BY <1>1, <2>4, ConnType DEF TableType
    <3> QED BY <2>7, <3>1 DEF ConnClose
  <2>9. inbox'[conns'[i]] = inbox[conns[i]] /\ (conns[i] \in gone => conns'[i] \in gone')
    BY <2>4, <2>7, <2>8
  <2> QED BY <2>6, <2>9 DEF Something
<1> QED BY <1>3, <1>4, <1>5 DEF Seen

\* The snapshot: each connection at its own slot, a newcomer at none.
LEMMA SlotsPoll == IInv /\ Unique /\ Poll => Seen'
<1> SUFFICES ASSUME IInv, Unique, Poll PROVE Seen'
  OBVIOUS
<1>1. /\ conns \in Seq(Fds) /\ Len(conns) \in Nat /\ Once(conns)
      /\ waiting \in Seq(Fds) /\ inbox \in [Fds -> Seq(Messages)]
  BY LenProperties DEF IInv, TableType, LoopType, Unique
<1>2. /\ mode' = "conns" /\ polled' = conns /\ ready' = Readable
      /\ farewell' = [f \in Fds |-> "none"]
  BY DEF Poll
<1>3. /\ \A i \in 1..Len(conns) : i \in 1..Len(conns') /\ conns'[i] = conns[i]
      /\ \A i \in 1..Len(conns') :
           i \in 1..Len(conns) \/ conns'[i] \notin Each(conns)
      /\ \A f \in Each(conns) : Something(f) => Something(f)'
  <2>1. CASE waiting = <<>>
    BY <2>1 DEF Poll, Something
  <2>2. CASE waiting # <<>>
    <3> DEFINE h == Head(waiting)
    <3>1. h \in Fds /\ h \in Each(waiting) /\ h \notin Each(conns)
      BY <1>1, <2>2, HeadEach DEF Unique
    <3>2. /\ Len(Append(conns, h)) = Len(conns) + 1
          /\ \A i \in 1..Len(conns) : Append(conns, h)[i] = conns[i]
          /\ Append(conns, h)[Len(conns) + 1] = h
      BY <1>1, <3>1, AppendEach
    <3>3. CASE Len(conns) = MaxConns
      <4>1. conns' = conns /\ inbox' = [inbox EXCEPT ![h] = <<>>] /\ gone' = gone \ {h}
        BY <2>2, <3>3 DEF Poll, Accept
      <4>2. \A f \in Each(conns) : Something(f) => Something(f)'
        <5> SUFFICES ASSUME NEW f \in Each(conns), Something(f) PROVE Something(f)'
          OBVIOUS
        <5>1. f \in Fds /\ f # h
          BY <1>1, <3>1, ElementOfSeq DEF Each
        <5> QED BY <1>1, <4>1, <5>1 DEF Something
      <4> QED BY <4>1, <4>2
    <3>4. CASE Len(conns) # MaxConns
      <4>1. conns' = Append(conns, h) /\ UNCHANGED <<inbox, gone>>
        BY <2>2, <3>4 DEF Poll, Accept
      <4>2. \A f \in Each(conns) : Something(f) => Something(f)'
        BY <4>1 DEF Something
      <4> HIDE DEF h
      <4>3. \A i \in 1..Len(conns) : i \in 1..Len(conns') /\ conns'[i] = conns[i]
        BY <1>1, <3>2, <4>1
      <4>4. \A i \in 1..Len(conns') : i \in 1..Len(conns) \/ conns'[i] \notin Each(conns)
        BY <1>1, <3>1, <3>2, <4>1
      <4> QED BY <4>2, <4>3, <4>4
    <3> QED BY <3>3, <3>4
  <2> QED BY <2>1, <2>2
<1>4. Below'
  <2>1. ASSUME NEW i \in 1..Len(conns'), NEW p \in 1..Len(conns), conns'[i] = conns[p]
        PROVE  i <= p
    <3>1. conns[p] \in Each(conns)
      BY DEF Each
    <3>2. i \in 1..Len(conns) /\ conns[i] = conns[p]
      BY <1>3, <2>1, <3>1
    <3>3. i = p
      BY <1>1, <3>2 DEF Once
    <3> QED BY <3>3
  <2> QED BY <1>2, <2>1 DEF Below
<1>5. ASSUME NEW i \in Nat, Ahead(i)', Serviceable(i)' PROVE Something(conns[i])'
  <2>1. i \in 1..Len(conns) /\ conns[i] = conns'[i] /\ conns[i] \in Readable
    BY <1>2, <1>5 DEF Serviceable, InSlot
  <2>2. Something(conns[i]) /\ conns[i] \in Each(conns)
    BY <2>1 DEF Readable, Something, Each
  <2>3. ASSUME NEW f \in Each(conns), Something(f), f = conns'[i]
        PROVE  Something(conns[i])'
    <3>1. Something(f)'
      BY <1>3, <2>3
    <3> QED BY <2>3, <3>1 DEF Something
  <2> QED BY <2>1, <2>2, <2>3
<1>6. EveryReadMeant'
  BY <1>2 DEF EveryReadMeant
<1> QED BY <1>2, <1>4, <1>5, <1>6 DEF Seen

\* Reading or closing the next one poll() marked: it has something to say.
LEMMA SlotsRead == IInv /\ Unique /\ Seen /\ ReadConn => Seen'
<1> SUFFICES ASSUME IInv, Unique, Seen, ReadConn PROVE Seen'
  OBVIOUS
<1>0. /\ mode = "conns" /\ ci \in Nat /\ Len(conns) \in Nat /\ Once(conns)
      /\ UNCHANGED <<polled, ready>>
  BY LenProperties DEF ReadConn, IInv, TableType, LoopType, Unique
<1>1. PICK i \in 1..Len(conns) : ReadConn!2!(i)
  BY DEF ReadConn
<1> DEFINE f == conns[i]
<1>2. f \in Fds /\ ci' = i /\ i >= ci /\ Serviceable(i)
  BY <1>0, <1>1, ConnType DEF IInv, NextServiceable
<1>3. Something(f)
  BY <1>0, <1>2 DEF Seen, Ahead
<1>4. ASSUME NEW n \in 1..Len(inbox[f]),
             inbox' = [inbox EXCEPT ![f] = SubSeq(@, n + 1, Len(@))],
             mode' = "msgs", UNCHANGED <<conns, gone, farewell>>
      PROVE  Seen'
  <2>1. Below' /\ EveryReadMeant'
    BY <1>0, <1>4 DEF Seen, Below, EveryReadMeant
  <2>2. ASSUME NEW j \in Nat, Ahead(j)', Serviceable(j)' PROVE Something(conns[j])'
    <3>1. j \in 1..Len(conns) /\ j > i
      BY <1>2, <1>4, <2>2 DEF Ahead
    <3>2. Ahead(j) /\ Serviceable(j)
      BY <1>0, <1>2, <1>4, <2>2, <3>1 DEF Ahead, Serviceable, InSlot
    <3>3. Something(conns[j])
      BY <1>0, <3>2 DEF Seen
    <3>4. conns[j] # f
      BY <1>0, <3>1 DEF Once
    <3>5. inbox'[conns[j]] = inbox[conns[j]]
      <4>1. conns[j] \in Fds /\ inbox \in [Fds -> Seq(Messages)]
        BY <3>1, ConnType DEF IInv, TableType
      <4> QED BY <1>4, <3>4, <4>1
    <3>6. inbox'[conns'[j]] = inbox[conns[j]] /\ conns'[j] = conns[j] /\ gone' = gone
      BY <1>4, <3>5
    <3> QED BY <3>3, <3>6 DEF Something
  <2> QED BY <1>4, <2>1, <2>2 DEF Seen
<1>5. CASE /\ inbox[f] = <<>> \/ f \in gone
           /\ CloseConn(i, IF f \in gone THEN "eof" ELSE "eagain")
           /\ UNCHANGED <<mode, seq>>
  <2>1. f \in gone
    BY <1>3, <1>5 DEF Something
  <2>2. ConnClose(i, "eof")
    BY <1>5, <2>1 DEF CloseConn
  <2>3. mode' = "conns"
    BY <1>0, <1>5
  <2> QED BY <1>0, <1>2, <2>2, <2>3, SlotsClosing
<1> QED BY <1>1, <1>4, <1>5

\* A connection that leaves in a cycle comes back in a later one at best, so
\* that nobody's reason is written over.
LEMMA FreshOK ==
  ASSUME IInv, Unique, Fresh, [Next]_vars
  PROVE  Fresh' /\ (Replaced /\ ~Poll => Replaced')
<1>0. TableType
  BY DEF IInv
<1>1. CASE Poll
  <2>1. farewell' = [f \in Fds |-> "none"] /\ conns' \in Seq(Fds)
    BY <1>1, PollOK DEF Poll, IInv, TableType
  <2>2. \A i \in 1..Len(conns') : conns'[i] \in Fds
    BY <2>1, ElementOfSeq
  <2> QED BY <1>1, <2>1, <2>2 DEF Fresh, Each
<1>2. ASSUME NEW f \in Fds, Connect(f) PROVE Fresh' /\ (Replaced => Replaced')
  <2>1. conns' = conns /\ farewell' = farewell
    BY <1>2 DEF Connect, table
  <2> QED BY <2>1 DEF Fresh, Replaced
<1>3. ASSUME NEW k \in 1..Len(conns), NEW why \in Reasons, ConnClose(k, why)
      PROVE  Fresh' /\ (Replaced => Replaced')
  <2>1. /\ conns[k] \in Fds /\ Each(conns') = Each(conns) \ {conns[k]}
        /\ \A f \in Fds : farewell'[f] = IF f = conns[k] THEN why ELSE farewell[f]
    BY <1>0, <1>3, CloseEach
  <2>2. Each(conns) \subseteq Fds /\ conns[k] \in Each(conns)
    BY <1>0, <1>3, ConnType DEF Each
  <2>3. \A f \in Each(conns') : farewell'[f] = "none"
    BY <2>1, <2>2 DEF Fresh
  <2>4. farewell[conns[k]] = "none"
    BY <2>2 DEF Fresh
  <2>5. Replaced => Replaced'
    BY <2>1, <2>4 DEF Replaced
  <2> QED BY <2>3, <2>5 DEF Fresh
<1>4. CASE conns' = conns /\ farewell' = farewell
  BY <1>4 DEF Fresh, Replaced
<1> QED BY <1>1, <1>2, <1>3, <1>4, StepKinds

\* What poll() saw stays where it was seen, until a display is displaced.
LEMMA SlotsOK ==
  ASSUME ServerAssumption, IInv, Unique, Seen, [Next]_vars
  PROVE  Seen' \/ Replaced'
<1>0. /\ farewell \in [Fds -> Reasons] /\ TableType /\ Len(conns) \in Nat
      /\ ci \in Nat
  BY LenProperties DEF IInv, TableType, LoopType
<1>1. CASE Poll
  BY <1>1, SlotsPoll
<1>2. CASE ReadConn
  BY <1>2, SlotsRead
<1>3. CASE HandleDetach
  <2>1. /\ mode = "msgs" /\ ci \in 1..Len(conns) /\ ConnClose(ci, "detached")
        /\ mode' = "conns" /\ UNCHANGED <<polled, ready, ci>>
    BY <1>3, TakeOK DEF HandleDetach, CloseConn
  <2> QED BY <2>1, SlotsClosing
<1>4. CASE MsgsDone
  <2>1. /\ mode = "msgs" /\ mode' = "conns" /\ ci' = ci + 1
        /\ UNCHANGED <<conns, polled, ready, inbox, gone, farewell>>
    BY <1>4 DEF MsgsDone, table, peers
  <2>2. Below' /\ EveryReadMeant'
    BY <2>1 DEF Seen, Below, EveryReadMeant
  <2>3. ASSUME NEW i \in Nat, Ahead(i)', Serviceable(i)' PROVE Something(conns[i])'
    <3>1. Ahead(i) /\ Serviceable(i)
      BY <1>0, <2>1, <2>3 DEF Ahead, Serviceable, InSlot
    <3>2. Something(conns[i])
      BY <2>1, <3>1 DEF Seen
    <3> QED BY <2>1, <3>2 DEF Something
  <2> QED BY <2>1, <2>2, <2>3 DEF Seen
<1>5. CASE \/ DetachQueued \/ Evict \/ Shutdown
  <2>1. /\ mode' \in {"detach", "evict", "shutdown", "over"}
        /\ \/ conns' = conns /\ farewell' = farewell
           \/ \E k \in 1..Len(conns), why \in Reasons :
                why # "eagain" /\ ConnClose(k, why)
    <3>1. DetachQueued =>
         \/ conns' = conns /\ farewell' = farewell
         \/ \E k \in 1..Len(conns) : ConnClose(k, "detached")
      BY DEF DetachQueued, CloseConn, table
    <3>2. Evict => \E k \in 1..Len(conns) : ConnClose(k, "replaced")
      BY <1>0 DEF Evict, CloseConn, IInv, IndexOK, LoopType
    <3>3. Shutdown =>
         \/ conns' = conns /\ farewell' = farewell
         \/ \E k \in 1..Len(conns) : ConnClose(k, "ended")
      <4>1. conns # <<>> => 1 \in 1..Len(conns)
        BY EmptySeq, LenProperties DEF IInv, TableType
      <4> QED BY <4>1 DEF Shutdown, table
    <3>4. mode' \in {"detach", "evict", "shutdown", "over"}
      BY <1>5 DEF DetachQueued, Evict, Shutdown
    <3> QED BY <1>5, <3>1, <3>2, <3>3, <3>4 DEF Reasons
  <2>2. EveryReadMeant'
    BY <1>0, <2>1, CloseEach DEF Seen, EveryReadMeant
  <2> QED BY <2>1, <2>2 DEF Seen
<1>6. CASE Peers
  <2>1. UNCHANGED <<conns, polled, ready, farewell, mode, ci>>
    BY <1>6 DEF Peers, Connect, HangUp, Send, SaveConfig, SessionEnds, table, cycle
  <2>2. \A f \in Each(conns) : Something(f) => Something(f)'
    <3> SUFFICES ASSUME NEW f \in Each(conns), Something(f) PROVE Something(f)'
      OBVIOUS
    <3>1. ASSUME NEW g \in Fds, NEW m \in Messages, Send(g, m) PROVE Something(f)'
      <4>1. f \in Fds /\ inbox[g] \in Seq(Messages)
        BY ElementOfSeq DEF Each, IInv, TableType
      <4>2. inbox' = [inbox EXCEPT ![g] = Append(@, m)] /\ gone' = gone
        BY <3>1 DEF Send
      <4>3. CASE f = g
        <5>1. Append(inbox[g], m) # <<>>
          BY <4>1, EmptySeq, AppendProperties, LenProperties
        <5>2. inbox'[f] = Append(inbox[g], m)
          BY <4>1, <4>2, <4>3 DEF IInv, TableType
        <5> QED BY <5>1, <5>2 DEF Something
      <4>4. CASE f # g
        <5>1. inbox'[f] = inbox[f]
          BY <4>1, <4>2, <4>4 DEF IInv, TableType
        <5> QED BY <4>2, <5>1 DEF Something
      <4> QED BY <4>3, <4>4
    <3>2. ASSUME NEW g \in Fds, HangUp(g) PROVE Something(f)'
      BY <3>2 DEF HangUp, Something
    <3>3. CASE UNCHANGED <<inbox, gone>>
      BY <3>3 DEF Something
    <3> QED BY <1>6, <3>1, <3>2, <3>3
           DEF Peers, Connect, SaveConfig, SessionEnds, peers
  <2> QED BY <1>0, <2>1, <2>2, SlotsKept
<1>7. CASE \/ UNCHANGED vars \/ ConnsServed \/ HandleHello \/ Displaced
           \/ HandleResize \/ HandleInput \/ HandleCmd \/ EscTimeout \/ EscDone
           \/ Reload \/ NoReload \/ Evicted \/ DetachDone
  <2>2. UNCHANGED <<conns, farewell, inbox, gone>>
    BY <1>7 DEF vars, table, peers, ConnsServed, HandleHello, Displaced,
       HandleResize, HandleInput, HandleCmd, EscTimeout, EscDone, Reload, NoReload,
       Evicted, DetachDone
  <2>3. mode' \in {"conns", "msgs", "displace"} =>
          /\ mode' = mode \/ {mode, mode'} = {"msgs", "displace"}
          /\ ci' = ci
    BY <1>7 DEF vars, cycle, ConnsServed, HandleHello, Take, Displaced, HandleResize,
       HandleInput, HandleCmd, EscTimeout, EscDone, Reload, NoReload, Evicted,
       DetachDone
  <2>4. UNCHANGED <<polled, ready>> \/ mode' = "reload"
    BY <1>7 DEF vars, cycle, ConnsServed, HandleHello, Displaced, HandleResize,
       HandleInput, HandleCmd, EscTimeout, EscDone, Reload, NoReload, Evicted,
       DetachDone
  <2>5. CASE mode' = "reload"
    <3>1. EveryReadMeant'
      BY <2>2 DEF Seen, EveryReadMeant
    <3> QED BY <2>5, <3>1 DEF Seen
  <2>6. CASE UNCHANGED <<polled, ready>>
    <3>1. \A f \in Each(conns) : Something(f) => Something(f)'
      BY <2>2 DEF Something
    <3> QED BY <2>2, <2>3, <2>6, <3>1, SlotsKept
  <2> QED BY <2>4, <2>5, <2>6
<1>8. CASE Displace
  <2>1. PICK j \in 1..Len(conns) : ConnClose(j, "replaced")
    BY <1>0, <1>8 DEF Displace, IInv, IndexOK, LoopType
  <2>2. conns[j] \in Fds /\ farewell'[conns[j]] = "replaced"
    BY <1>0, <2>1, CloseEach
  <2> QED BY <2>2 DEF Replaced
<1> QED BY <1>1, <1>2, <1>3, <1>4, <1>5, <1>6, <1>7, <1>8 DEF Next, Loop

(***************************************************************************)
(* A connection is read only when it has something to say, and none is     *)
(* dropped for a read that finds nothing, however the array moves under    *)
(* the poll set, unless a newcomer has displaced a display in this cycle:  *)
(* server_eagain.cfg shows the newcomer dropped then.                      *)
(***************************************************************************)
THEOREM ReadsAreMeant == Spec => []NoSpuriousClose
<1> DEFINE I == Unique /\ Fresh /\ (Seen \/ Replaced)
<1>1. Init => I
  <2>1. Once(<<>>) /\ Each(<<>>) = {}
    BY EmptySeq DEF Once, Each
  <2> QED BY <2>1 DEF Init, Unique, Fresh, Seen, EveryReadMeant
<1>2. IInv /\ I /\ [Next]_vars => I'
  <2> SUFFICES ASSUME IInv, I, [Next]_vars PROVE I'
    OBVIOUS
  <2>1. Unique' /\ Fresh'
    BY UniqueOK, FreshOK
  <2>2. CASE Poll
    BY <2>1, <2>2, SlotsPoll
  <2>3. CASE Replaced /\ ~Poll
    BY <2>1, <2>3, FreshOK
  <2>4. CASE Seen
    BY <2>1, <2>4, SlotsOK, ServerAssumption
  <2> QED BY <2>2, <2>3, <2>4
<1>3. I => NoSpuriousClose
  BY DEF Seen, Replaced, NoSpuriousClose
<1> QED BY <1>1, <1>2, <1>3, Inductive, PTL DEF Spec

-----------------------------------------------------------------------------
(* One terminal at a time.                                                 *)

\* No control command turns multi_attach off: its reload drops nobody.
MultiByFile ==
  "reload" \in Ops => \A c, d \in Configs : c.multi = d.multi

Alone(S) == \A d, e \in S : d = e

(* With multi_attach off at most one display is attached; while a newcomer *)
(* displaces it, it is still before the loop, or it is the newcomer's own  *)
(* place; while the reloaded file evicts, those behind the loop stay.      *)
Single ==
  ~cfg.multi =>
    /\ mode # "evict" => Alone(displays)
    /\ mode = "displace" =>
         \A i \in 1..Len(conns) : conns[i] \in displays => i >= dj \/ i = ci
    /\ mode = "evict" => \A i \in 1..Len(conns) : i < dj => ~EvictNext(i)

\* A display is in the array.
LEMMA PresentOK ==
  ASSUME IInv, Unique, Present, [Next]_vars
  PROVE  Present'
<1>0. conns \in Seq(Fds) /\ waiting \in Seq(Fds) /\ TableType
  BY DEF IInv, TableType, LoopType
<1>1. CASE Poll
  <2>1. displays' = displays
    BY <1>1 DEF Poll
  <2>2. Each(conns) \subseteq Each(conns')
    <3>1. CASE waiting = <<>>
      BY <1>1, <3>1 DEF Poll
    <3>2. CASE waiting # <<>>
      <4> DEFINE f == Head(waiting)
      <4>1. f \in Fds
        BY <1>0, <3>2, HeadEach
      <4>2. conns' \in {conns, Append(conns, f)}
        BY <1>1, <3>2 DEF Poll, Accept
      <4> HIDE DEF f
      <4>3. Each(Append(conns, f)) = Each(conns) \cup {f}
        BY <1>0, <4>1, AppendEach
      <4> QED BY <4>2, <4>3
    <3> QED BY <3>1, <3>2
  <2> QED BY <2>1, <2>2 DEF Present
<1>2. ASSUME NEW k \in 1..Len(conns), NEW why \in Reasons, ConnClose(k, why)
      PROVE  Present'
  <2>1. Each(conns') = Each(conns) \ {conns[k]}
    BY <1>0, <1>2, CloseEach
  <2>2. displays' = displays \ {conns[k]}
    BY <1>2 DEF ConnClose
  <2> QED BY <2>1, <2>2 DEF Present
<1>3. CASE conns' = conns /\ displays' \subseteq displays \cup {Serving}
           /\ (displays' # displays => mode \in {"msgs", "displace"})
  <2>1. mode \in {"msgs", "displace"} => Serving \in Each(conns)
    BY DEF IInv, IndexOK, Serving, Each
  <2> QED BY <1>3, <2>1 DEF Present
<1> QED
  <2>1. CASE HandleHello \/ Displaced
    BY <1>3, <2>1 DEF HandleHello, Displaced, BecomeDisplay, Take
  <2>2. ASSUME ~HandleHello, ~Displaced, ~Poll,
               ~(\E k \in 1..Len(conns), why \in Reasons : ConnClose(k, why))
        PROVE  conns' = conns /\ displays' = displays
    <3>1. ~Displace /\ ~Evict /\ ~HandleDetach
      <4>1. Len(conns) \in Nat
        BY <1>0, LenProperties
      <4>2. ASSUME NEW j \in dj..Len(conns), mode \in {"displace", "evict"}
            PROVE  ~ConnClose(j, "replaced")
        BY <2>2, <4>1, <4>2 DEF IInv, IndexOK, LoopType, Reasons
      <4> QED BY <2>2, <4>2, TakeOK
              DEF Displace, Evict, HandleDetach, CloseConn, Reasons
    <3>2. ASSUME ReadConn PROVE conns' = conns /\ displays' = displays
      <4>1. PICK i \in 1..Len(conns) :
              \/ conns' = conns /\ displays' = displays
              \/ CloseConn(i, IF conns[i] \in gone THEN "eof" ELSE "eagain")
        BY <3>2 DEF ReadConn
      <4>2. (IF conns[i] \in gone THEN "eof" ELSE "eagain") \in Reasons
        BY DEF Reasons
      <4> QED BY <2>2, <4>1, <4>2 DEF CloseConn
    <3>3. DetachQueued => conns' = conns /\ displays' = displays
      BY <2>2 DEF DetachQueued, CloseConn, Reasons, table
    <3>4. Shutdown => conns' = conns /\ displays' = displays
      <4>1. conns # <<>> => 1 \in 1..Len(conns)
        BY <1>0, EmptySeq, LenProperties
      <4> QED BY <2>2, <4>1 DEF Shutdown, Reasons, table
    <3> QED BY <2>2, <3>1, <3>2, <3>3, <3>4
       DEF Next, Loop, Peers, Connect, HangUp, Send, SaveConfig, SessionEnds, vars,
           table, ConnsServed, HandleResize, HandleInput, HandleCmd, MsgsDone,
           EscTimeout, EscDone, DetachDone, Reload, NoReload, Evicted
  <2>3. (conns' = conns /\ displays' = displays) => Present'
    BY DEF Present
  <2> QED BY <1>1, <1>2, <2>1, <2>2, <2>3

\* A step that drops displays at most, outside the two loops.
LEMMA SingleKept ==
  ASSUME Single, displays' \subseteq displays, cfg' = cfg,
         mode' # "displace", mode # "evict", mode' # "evict"
  PROVE  Single'
  BY DEF Single, Alone

\* What is left after the loops have passed everyone by.
LEMMA SingleOK ==
  ASSUME ServerAssumption, MultiByFile, IInv, IInv', Unique, Present, Single,
         [Next]_vars
  PROVE  Single'
<1>0. /\ conns \in Seq(Fds) /\ TableType /\ Len(conns) \in Nat
      /\ ci \in Nat /\ dj \in Nat
  BY LenProperties DEF IInv, TableType, LoopType
<1>1. CASE HandleHello
  <2>1. mode = "msgs" /\ cfg' = cfg
    BY <1>1 DEF HandleHello, Take
  <2>2. CASE cfg.multi
    BY <2>1, <2>2 DEF Single
  <2>3. CASE ~cfg.multi
    <3>1. mode' = "displace" /\ dj' = 1 /\ displays' = displays /\ conns' = conns
      BY <1>1, <2>3 DEF HandleHello
    <3> QED BY <1>0, <2>1, <2>3, <3>1 DEF Single, Alone
  <2> QED BY <2>2, <2>3
<1>2. CASE Displace
  <2>1. PICK j \in 1..Len(conns) : conns[j] \in displays /\ ConnClose(j, "replaced")
    BY <1>0, <1>2 DEF Displace, DisplaceNext, IInv, IndexOK
  <2>2. mode = "displace" /\ mode' = "displace" /\ cfg' = cfg
    BY <1>2 DEF Displace
  <2>3. displays' = displays \ {conns[j]}
    BY <2>1 DEF ConnClose
  <2>4. ~cfg.multi => displays' = {}
    BY <2>1, <2>2, <2>3 DEF Single, Alone
  <2> QED BY <2>2, <2>4 DEF Single, Alone
<1>3. CASE Displaced
  <2>1. /\ mode = "displace" /\ mode' = "msgs" /\ cfg' = cfg
        /\ displays' = displays \cup {Serving}
        /\ \A j \in dj..Len(conns) : j # ci => conns[j] \notin displays
    BY <1>3 DEF Displaced, DisplaceNext, BecomeDisplay
  <2>2. ASSUME ~cfg.multi, NEW d \in displays PROVE d = Serving
    <3>1. PICK i \in 1..Len(conns) : d = conns[i]
      BY <2>2 DEF Present, Each
    <3>2. i >= dj \/ i = ci
      BY <2>1, <2>2, <3>1 DEF Single
    <3>3. i = ci
      BY <1>0, <2>1, <2>2, <3>1, <3>2
    <3> QED BY <3>1, <3>3 DEF Serving
  <2> QED BY <2>1, <2>2 DEF Single, Alone
<1>4. CASE Reload
  <2>1. mode = "reload" /\ displays' = displays
    BY <1>4 DEF Reload
  <2>2. CASE file = None
    <3>1. cfg' = cfg /\ mode' = "poll"
      BY <1>4, <2>2 DEF Reload
    <3> QED BY <2>1, <3>1, SingleKept
  <2>3. CASE file # None /\ file.multi
    <3>1. cfg' = file
      BY <1>4, <2>3 DEF Reload
    <3> QED BY <2>3, <3>1 DEF Single
  <2>4. CASE file # None /\ ~file.multi
    <3>1. mode' = "evict" /\ dj' = 1
      BY <1>4, <2>4 DEF Reload
    <3>2. Len(conns') \in Nat
      BY <1>4, <1>0 DEF Reload
    <3> QED BY <3>1, <3>2 DEF Single
  <2> QED BY <2>2, <2>3, <2>4
<1>5. CASE Evict
  <2>1. mode = "evict" /\ mode' = "evict" /\ cfg' = cfg
    BY <1>5 DEF Evict
  <2>2. PICK j \in dj..Len(conns) :
          /\ EvictNext(j)
          /\ \A k \in dj..(j - 1) : ~EvictNext(k)
          /\ CloseConn(j, "replaced")
          /\ dj' = j
    BY <1>5 DEF Evict
  <2>3. j \in 1..Len(conns)
    BY <1>0, <2>1, <2>2 DEF IInv, IndexOK
  <2>4. /\ active' = active /\ displays' = displays \ {conns[j]}
        /\ conns' = SwapRemove(conns, j)
    BY <2>2 DEF CloseConn, EvictNext, ConnClose
  <2>5. ASSUME ~cfg.multi, NEW i \in 1..Len(conns'), i < j PROVE ~EvictNext(i)'
    <3> DEFINE t == SwapRemove(conns, j)
    <3>1. \A k \in 1..Len(t) :
            /\ k \in 1..Len(conns) /\ k # Len(conns)
            /\ t[k] = IF k = j THEN conns[Len(conns)] ELSE conns[k]
      BY <1>0, <2>3, RemoveAt
    <3> HIDE DEF t
    <3>2. conns' = t
      BY <2>4 DEF t
    <3>3. conns'[i] = conns[i] /\ i \in 1..Len(conns)
      BY <1>0, <2>3, <2>5, <3>1, <3>2
    <3>4. ~EvictNext(i)
      <4>1. CASE i < dj
        BY <2>1, <2>5, <3>3, <4>1 DEF Single
      <4>2. CASE i >= dj
        <5>1. i \in dj..(j - 1)
          BY <1>0, <2>3, <2>5, <4>2
        <5> QED BY <2>2, <5>1
      <4> QED BY <1>0, <4>1, <4>2
    <3> QED BY <2>4, <3>3, <3>4 DEF EvictNext
  <2> QED BY <2>1, <2>2, <2>5 DEF Single
<1>6. CASE Evicted
  <2>1. /\ mode = "evict" /\ mode' = "poll" /\ cfg' = cfg /\ displays' = displays
        /\ \A j \in dj..Len(conns) : ~EvictNext(j)
    BY <1>6 DEF Evicted
  <2>2. ASSUME ~cfg.multi, NEW d \in displays PROVE d = active
    <3>1. PICK i \in 1..Len(conns) : d = conns[i]
      BY <2>2 DEF Present, Each
    <3>2. ~EvictNext(i)
      <4>1. CASE i < dj
        BY <2>1, <2>2, <4>1 DEF Single
      <4>2. CASE i >= dj
        BY <1>0, <2>1, <4>2
      <4> QED BY <1>0, <4>1, <4>2
    <3> QED BY <2>2, <3>1, <3>2 DEF EvictNext
  <2> QED BY <2>1, <2>2 DEF Single, Alone
<1>7. CASE HandleCmd
  <2>1. mode = "msgs" /\ mode' = mode /\ displays' = displays
    BY <1>7 DEF HandleCmd, Take
  <2>2. cfg'.multi = cfg.multi
    <3>1. Head(reader[Serving]).op \in Ops
      BY <1>7, TakeOK, MessageFields DEF HandleCmd
    <3>2. cfg' = cfg \/ "reload" \in Ops
      BY <1>7, <3>1 DEF HandleCmd
    <3> QED BY <3>2 DEF MultiByFile, IInv, LoopType
  <2> QED BY <2>1, <2>2 DEF Single, Alone
<1>8. CASE ReadConn \/ HandleDetach \/ DetachQueued \/ Shutdown
  <2>1. /\ cfg' = cfg /\ mode # "evict" /\ mode' \notin {"displace", "evict"}
    BY <1>8 DEF ReadConn, HandleDetach, DetachQueued, Shutdown, Take
  <2>2. displays' \subseteq displays
    BY <1>8 DEF ReadConn, HandleDetach, DetachQueued, Shutdown, CloseConn, ConnClose,
       table
  <2> QED BY <2>1, <2>2, SingleKept
<1>9. CASE Poll
  BY <1>9, SingleKept DEF Poll
<1>10. CASE \/ ConnsServed \/ HandleResize \/ HandleInput \/ MsgsDone
            \/ EscTimeout \/ EscDone \/ DetachDone \/ NoReload
  <2>1. /\ displays' = displays /\ cfg' = cfg /\ mode # "evict"
        /\ mode' \notin {"displace", "evict"}
    BY <1>10 DEF ConnsServed, HandleResize, HandleInput, MsgsDone, EscTimeout,
       EscDone, DetachDone, NoReload, table, cycle, Take
  <2> QED BY <2>1, SingleKept
<1>11. CASE Peers \/ UNCHANGED vars
  <2>1. UNCHANGED <<displays, cfg, mode, conns, dj, ci, active>>
    BY <1>11 DEF Peers, Connect, HangUp, Send, SaveConfig, SessionEnds, vars, table,
       shared, cycle
  <2> QED BY <2>1 DEF Single, Alone, EvictNext
<1> QED BY <1>1, <1>2, <1>3, <1>4, <1>5, <1>6, <1>7, <1>8, <1>9, <1>10, <1>11
        DEF Next, Loop

(***************************************************************************)
(* With multi_attach off one terminal is attached at a time: the loop of a *)
(* HELLO and the loop of a reload leave nobody behind, though each removal *)
(* moves the last connection into the hole and the newcomer's own index is *)
(* adjusted by less than it may have moved; as long as the option is turned*)
(* off by the saved file and not by a command.                             *)
(***************************************************************************)
THEOREM OneAtATimeCorrect == ASSUME MultiByFile PROVE Spec => []SingleDisplay
<1> DEFINE I == Unique /\ Present /\ Single
<1>1. Init => I
  <2>1. Once(<<>>) /\ Each(<<>>) = {}
    BY EmptySeq DEF Once, Each
  <2> QED BY <2>1 DEF Init, Unique, Present, Single, Alone
<1>2. IInv /\ IInv' /\ I /\ [Next]_vars => I'
  <2> SUFFICES ASSUME IInv, IInv', I, [Next]_vars PROVE I'
    OBVIOUS
  <2>1. Unique'
    BY UniqueOK
  <2>2. Present'
    BY PresentOK
  <2>3. Single'
    BY SingleOK, ServerAssumption
  <2> QED BY <2>1, <2>2, <2>3
<1>3. I => SingleDisplay
  <2> SUFFICES ASSUME I, ~cfg.multi, mode \notin {"displace", "evict"}
               PROVE  Cardinality(displays) <= 1
    BY DEF SingleDisplay
  <2>1. Alone(displays)
    BY DEF Single
  <2>2. CASE displays = {}
    <3>1. Cardinality(displays) = 0
      BY <2>2, FS_EmptySet, Zenon
    <3> QED BY <3>1
  <2>3. CASE displays # {}
    <3>0. PICK d : d \in displays
      BY <2>3
    <3>1. displays = {d}
      BY <2>1, <3>0, Zenon DEF Alone
    <3>2. Cardinality(displays) = 1
      BY <3>1, FS_Singleton, Zenon
    <3> QED BY <3>2
  <2> QED BY <2>2, <2>3
<1> QED BY <1>1, <1>2, <1>3, Inductive, PTL DEF Spec
=============================================================================
