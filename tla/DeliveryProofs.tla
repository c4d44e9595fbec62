--------------------------- MODULE DeliveryProofs ---------------------------
(***************************************************************************)
(* Theorems about Delivery, for any number of clients, any sizes of        *)
(* outbox, socket and frame, and any pictures: what a terminal is sent it  *)
(* can apply, nothing is owed when nothing is due, memory is bounded, and  *)
(* every step is one Mirror allows.                                        *)
(***************************************************************************)
EXTENDS Delivery, SequenceTheorems, TLAPS

(***************************************************************************)
(* A stream s of units: it begins and ends at the edge of a frame, and     *)
(* wherever a frame begins the whole of it follows.                        *)
(***************************************************************************)
Whole(s) ==
  /\ s # <<>> => s[1][2] = 1 /\ s[Len(s)][2] = FrameLen
  /\ \A i \in 1..Len(s) : s[i][2] = 1 =>
       i + FrameLen - 1 <= Len(s) /\ \A k \in 1..FrameLen : s[i + k - 1] = <<s[i][1], k>>
  /\ \A i \in 1..Len(s) : i < Len(s) /\ s[i][2] = FrameLen => s[i + 1][2] = 1

\* A frame f makes sense to a terminal that shows t, and is no step back.
Fits(f, t) == (f.full \/ f.from = t) /\ t <= f.to

(* Each frame of the stream makes sense to a terminal that shows t and has *)
(* been shown those before it.                                             *)
Linked(s, t) ==
  /\ s # <<>> => Fits(s[1][1], t)
  /\ \A i \in 1..Len(s) :
       i < Len(s) /\ s[i][2] = FrameLen => Fits(s[i + 1][1], s[i][1].to)

\* What such a terminal comes to show.
End(s, t) == IF s = <<>> THEN t ELSE s[Len(s)][1].to

TypeInv ==
  /\ picture \in Nat /\ redraw \in BOOLEAN /\ pending \in BOOLEAN
  /\ attached \subseteq Clients /\ budget \in Nat
  /\ prev \in [Clients -> Nat]
  /\ force \in [Clients -> BOOLEAN]
  /\ term \in [Clients -> Nat]
  /\ outbox \in [Clients -> Seq(Units)]
  /\ wire \in [Clients -> Seq(Units)]
  /\ buffer \in [Clients -> Seq(Units)]

\* The bounds on memory.
Bounded(c) == Len(outbox[c]) <= Cap + FrameLen /\ Len(wire[c]) <= Room

Stream(c) ==
  /\ Whole(InFlight(c)) /\ Linked(InFlight(c), term[c])
  /\ term[c] <= picture
  /\ \A i \in 1..Len(InFlight(c)) : InFlight(c)[i][1].to <= picture
  /\ c \notin attached => InFlight(c) = <<>>

(* A view that owes nothing rendered what its client will come to show; one *)
(* that owes keeps a frame due; and so does a picture not yet rendered.     *)
Debt(c) ==
  c \in attached =>
    /\ force[c] \/ End(InFlight(c), term[c]) = prev[c]
    /\ force[c] => pending
    /\ ~pending => prev[c] = picture

ClientInv(c) == Bounded(c) /\ Stream(c) /\ Debt(c)

IInv ==
  /\ TypeInv
  /\ redraw => pending
  /\ \A c \in Clients : ClientInv(c)

-----------------------------------------------------------------------------
(* Streams.                                                                *)

\* What is taken from the front and what is kept make up what there was.
LEMMA Cut ==
  ASSUME NEW q \in Seq(Units), NEW n \in 0..Len(q)
  PROVE  /\ SubSeq(q, 1, n) \in Seq(Units) /\ SubSeq(q, n + 1, Len(q)) \in Seq(Units)
         /\ Len(SubSeq(q, 1, n)) = n /\ Len(SubSeq(q, n + 1, Len(q))) = Len(q) - n
         /\ SubSeq(q, 1, n) \o SubSeq(q, n + 1, Len(q)) = q
<1>1. Len(q) \in Nat
  BY LenProperties
<1>2. /\ SubSeq(q, 1, n) \in Seq(Units) /\ Len(SubSeq(q, 1, n)) = n
  <2>1. \A i \in 1..n : q[i] \in Units
    BY <1>1, ElementOfSeq
  <2> QED BY <1>1, <2>1, SubSeqProperties
<1>3. /\ SubSeq(q, n + 1, Len(q)) \in Seq(Units) /\ Len(SubSeq(q, n + 1, Len(q))) = Len(q) - n
  <2>1. \A i \in n + 1..Len(q) : q[i] \in Units
    BY <1>1, ElementOfSeq
  <2> QED BY <1>1, <2>1, SubSeqProperties
<1>4. SubSeq(q, 1, n) \o SubSeq(q, n + 1, Len(q)) = SubSeq(q, 1, Len(q))
  <2>1. 1 \in 1..Len(q) + 1 /\ n \in 1 - 1..Len(q) /\ Len(q) \in n..Len(q)
    BY <1>1
  <2> QED BY <2>1, ConcatAdjacentSubSeq
<1>5. SubSeq(q, 1, Len(q)) = q
  BY SubSeqFull
<1> QED BY <1>2, <1>3, <1>4, <1>5

\* Streams are joined in any grouping.
LEMMA Grouped ==
  \A s, t, u \in Seq(Units) : (s \o t) \o u = s \o (t \o u) /\ s \o t \in Seq(Units)
BY ConcatAssociative, ConcatProperties

\* Concatenation as an operation of its own, so that what follows from its being
\* associative can be found without a word about sequences.
Streams == Seq(Units)
Joint(s, t) == s \o t

\* Joining streams makes a stream, in any grouping.
LEMMA JointGrouped ==
  \A s, t, u \in Streams : /\ Joint(s, t) \in Streams
                           /\ Joint(Joint(s, t), u) = Joint(s, Joint(t, u))
BY Grouped DEF Streams, Joint

\* Two streams with the same beginning differ in what follows it, or not at all.
LEMMA JointCancels ==
  \A s, t, u \in Streams : Joint(s, t) = Joint(s, u) => t = u
<1>1. \A s, t, v \in Seq(Units) : s \o t = s \o v => t = v
  BY ConcatSimplifications, Zenon
<1> QED BY <1>1, Zenon DEF Streams, Joint

\* A unit handed on from one place to the next stays where it was in the stream.
LEMMA JointHanded ==
  \A s, t, q, a, z \in Streams :
    Joint(a, z) = q => Joint(Joint(s, Joint(t, a)), z) = Joint(Joint(s, t), q)
BY JointGrouped

\* What follows the same beginning is the same.
LEMMA JointRest ==
  \A a, z, r, q \in Streams : Joint(a, q) = Joint(Joint(a, z), r) => Joint(z, r) = q
BY JointGrouped, JointCancels

\* What a flush takes from the front of the outbox, and what it leaves.
LEMMA FlushMoves ==
  \A s, t, q \in Seq(Units) : \A n \in 0..Len(q) :
    (s \o (t \o SubSeq(q, 1, n))) \o SubSeq(q, n + 1, Len(q)) = (s \o t) \o q
<1> SUFFICES ASSUME NEW s \in Seq(Units), NEW t \in Seq(Units), NEW q \in Seq(Units), NEW n \in 0..Len(q)
             PROVE  (s \o (t \o SubSeq(q, 1, n))) \o SubSeq(q, n + 1, Len(q)) = (s \o t) \o q
  OBVIOUS
<1> DEFINE a == SubSeq(q, 1, n)
           z == SubSeq(q, n + 1, Len(q))
<1>1. a \in Seq(Units) /\ z \in Seq(Units) /\ a \o z = q
  BY Cut
<1> HIDE DEF a, z
<1>2. s \in Streams /\ t \in Streams /\ q \in Streams /\ a \in Streams /\ z \in Streams /\ Joint(a, z) = q
  BY <1>1 DEF Streams, Joint
<1>3. Joint(Joint(s, Joint(t, a)), z) = Joint(Joint(s, t), q)
  BY <1>2, JointHanded
<1> QED BY <1>3 DEF a, z, Joint

\* Taking from the front of what was received takes from the front of all there is.
LEMMA Consumed ==
  \A b, r \in Seq(Units) : \A k \in 1..Len(b) :
    SubSeq(b, k + 1, Len(b)) \o r = SubSeq(b \o r, k + 1, Len(b \o r))
<1> SUFFICES ASSUME NEW b \in Seq(Units), NEW r \in Seq(Units), NEW k \in 1..Len(b)
             PROVE  SubSeq(b, k + 1, Len(b)) \o r = SubSeq(b \o r, k + 1, Len(b \o r))
  OBVIOUS
<1>1. b \o r \in Seq(Units) /\ Len(b \o r) = Len(b) + Len(r) /\ Len(r) \in Nat /\ Len(b) \in Nat
  BY ConcatProperties, LenProperties
<1>2. k \in 0..Len(b) /\ k \in 0..Len(b \o r) /\ 1 \in 1..Len(b)
  BY <1>1
<1>3. SubSeq(b \o r, 1, k) = SubSeq(b, 1, k)
  BY <1>2, SubSeqOfConcat1
<1>4. /\ SubSeq(b, 1, k) \in Seq(Units) /\ SubSeq(b, k + 1, Len(b)) \in Seq(Units)
      /\ SubSeq(b, 1, k) \o SubSeq(b, k + 1, Len(b)) = b
  BY <1>2, Cut
<1>5. /\ SubSeq(b \o r, 1, k) \in Seq(Units) /\ SubSeq(b \o r, k + 1, Len(b \o r)) \in Seq(Units)
      /\ SubSeq(b \o r, 1, k) \o SubSeq(b \o r, k + 1, Len(b \o r)) = b \o r
  BY <1>1, <1>2, Cut, Zenon
<1> DEFINE p == SubSeq(b, 1, k)
           z == SubSeq(b, k + 1, Len(b))
           q == SubSeq(b \o r, k + 1, Len(b \o r))
<1>6. /\ p \in Seq(Units) /\ z \in Seq(Units) /\ q \in Seq(Units)
      /\ p \o z = b /\ p \o q = b \o r
  BY <1>3, <1>4, <1>5, Zenon
<1> HIDE DEF p, z, q
<1>7. /\ p \in Streams /\ z \in Streams /\ q \in Streams /\ r \in Streams
      /\ Joint(p, q) = Joint(Joint(p, z), r)
  BY <1>6 DEF Streams, Joint
<1>8. Joint(z, r) = q
  BY <1>7, JointRest
<1> QED BY <1>8 DEF z, q, Joint

\* A frame at the end of a stream that comes to what the frame changes.
LEMMA Appended ==
  ASSUME NEW s \in Seq(Units), NEW t \in Nat, NEW f \in Frames, NEW m \in Seq(Units),
         Len(m) = FrameLen, \A k \in 1..FrameLen : m[k] = <<f, k>>,
         Whole(s), Linked(s, t), Fits(f, End(s, t))
  PROVE  Whole(s \o m) /\ Linked(s \o m, t) /\ End(s \o m, t) = f.to
<1> DEFINE n == Len(s)
           z == s \o m
<1>1. n \in Nat /\ FrameLen \in Nat /\ FrameLen >= 1
  BY LenProperties, DeliveryAssumption
<1>2. /\ z \in Seq(Units) /\ Len(z) = n + FrameLen
      /\ \A i \in 1..n : z[i] = s[i]
      /\ \A i \in n + 1..n + FrameLen : z[i] = <<f, i - n>>
  <2>1. /\ z \in Seq(Units) /\ Len(z) = n + FrameLen
        /\ \A i \in 1..n + FrameLen : z[i] = IF i <= n THEN s[i] ELSE m[i - n]
    BY ConcatProperties
  <2>2. \A i \in n + 1..n + FrameLen : z[i] = m[i - n] /\ i - n \in 1..FrameLen
    BY <1>1, <2>1
  <2>3. \A i \in 1..n : z[i] = s[i]
    BY <1>1, <2>1
  <2> QED BY <2>1, <2>2, <2>3
<1>3. z # <<>> /\ Len(z) # 0
  BY <1>1, <1>2, EmptySeq
<1>4. n = 0 <=> s = <<>>
  BY EmptySeq
<1> HIDE DEF z, n
<1>5. z[Len(z)] = <<f, FrameLen>>
  BY <1>1, <1>2
<1>6. \A i \in 1..Len(z) : (i \in 1..n /\ z[i] = s[i]) \/ (i \in n + 1..n + FrameLen /\ z[i] = <<f, i - n>>)
  BY <1>1, <1>2
<1>7. Whole(z)
  <2>1. z[1][2] = 1
    <3>1. CASE n = 0
      BY <3>1, <1>1, <1>2
    <3>2. CASE n # 0
      BY <3>2, <1>1, <1>2, <1>4 DEF Whole
    <3> QED BY <3>1, <3>2
  <2>2. ASSUME NEW i \in 1..Len(z), z[i][2] = 1
        PROVE  i + FrameLen - 1 <= Len(z) /\ \A k \in 1..FrameLen : z[i + k - 1] = <<z[i][1], k>>
    <3>1. CASE i \in 1..n
      <4>1. s[i][2] = 1 /\ z[i] = s[i]
        BY <3>1, <2>2, <1>2
      <4>2. i + FrameLen - 1 <= n /\ \A k \in 1..FrameLen : s[i + k - 1] = <<s[i][1], k>>
        BY <3>1, <4>1 DEF Whole, n
      <4>3. \A k \in 1..FrameLen : i + k - 1 \in 1..n
        <5>1. i \in 1..n /\ i + FrameLen - 1 <= n
          BY <3>1, <4>2
        <5> SUFFICES ASSUME NEW k \in 1..FrameLen PROVE i + k - 1 \in 1..n
          OBVIOUS
        <5> QED BY <5>1, <1>1
      <4>4. \A k \in 1..FrameLen : z[i + k - 1] = <<z[i][1], k>>
        <5> SUFFICES ASSUME NEW k \in 1..FrameLen PROVE z[i + k - 1] = <<z[i][1], k>>
          OBVIOUS
        <5>1. z[i + k - 1] = s[i + k - 1]
          BY <4>3, <1>2
        <5> QED BY <5>1, <4>1, <4>2
      <4>5. i + FrameLen - 1 <= Len(z)
        BY <3>1, <4>2, <1>1, <1>2
      <4> QED BY <4>4, <4>5
    <3>2. CASE i \in n + 1..n + FrameLen
      <4>1. z[i] = <<f, i - n>> /\ i - n = 1
        BY <3>2, <2>2, <1>2
      <4>2. \A k \in 1..FrameLen : i + k - 1 \in n + 1..n + FrameLen /\ (i + k - 1) - n = k
        <5>1. i = n + 1
          <6>1. i - n = 1 /\ i \in n + 1..n + FrameLen
            BY <3>2, <4>1
          <6> QED BY <6>1, <1>1
        <5> SUFFICES ASSUME NEW k \in 1..FrameLen
                     PROVE  i + k - 1 \in n + 1..n + FrameLen /\ (i + k - 1) - n = k
          OBVIOUS
        <5> QED BY <5>1, <1>1
      <4>3. \A k \in 1..FrameLen : z[i + k - 1] = <<z[i][1], k>>
        <5> SUFFICES ASSUME NEW k \in 1..FrameLen PROVE z[i + k - 1] = <<z[i][1], k>>
          OBVIOUS
        <5>1. z[i + k - 1] = <<f, (i + k - 1) - n>>
          BY <4>2, <1>2
        <5> QED BY <5>1, <4>1, <4>2
      <4>4. i + FrameLen - 1 <= Len(z)
        BY <3>2, <4>1, <1>1, <1>2
      <4> QED BY <4>3, <4>4
    <3> QED BY <1>6, <3>1, <3>2
  <2>3. ASSUME NEW i \in 1..Len(z), i < Len(z), z[i][2] = FrameLen
        PROVE  z[i + 1][2] = 1
    <3>1. CASE i \in 1..n /\ i < n
      <4>1. i + 1 \in 1..n /\ z[i + 1] = s[i + 1] /\ s[i][2] = FrameLen
        BY <3>1, <2>3, <1>1, <1>2
      <4> QED BY <3>1, <4>1 DEF Whole, n
    <3>2. CASE i = n
      BY <3>2, <1>1, <1>2
    <3>3. CASE i \in n + 1..n + FrameLen
      BY <3>3, <2>3, <1>1, <1>2
    <3> QED BY <1>1, <1>6, <3>1, <3>2, <3>3
  <2> QED BY <2>1, <2>2, <2>3, <1>5 DEF Whole
<1>8. Linked(z, t)
  <2>1. Fits(z[1][1], t)
    <3>1. CASE n = 0
      BY <3>1, <1>1, <1>2, <1>4 DEF End
    <3>2. CASE n # 0
      BY <3>2, <1>1, <1>2, <1>4 DEF Linked
    <3> QED BY <3>1, <3>2
  <2>2. ASSUME NEW i \in 1..Len(z), i < Len(z), z[i][2] = FrameLen
        PROVE  Fits(z[i + 1][1], z[i][1].to)
    <3>1. CASE i \in 1..n /\ i < n
      <4>1. i + 1 \in 1..n /\ z[i + 1] = s[i + 1] /\ z[i] = s[i] /\ s[i][2] = FrameLen
        BY <3>1, <2>2, <1>1, <1>2
      <4> QED BY <3>1, <4>1 DEF Linked, n
    <3>2. CASE i = n
      <4>1. z[i] = s[n] /\ z[i + 1] = <<f, 1>> /\ s # <<>>
        BY <3>2, <1>1, <1>2, <1>4
      <4> QED BY <4>1, <3>2 DEF End, n
    <3>3. CASE i \in n + 1..n + FrameLen
      BY <3>3, <2>2, <1>1, <1>2
    <3> QED BY <1>1, <1>6, <3>1, <3>2, <3>3
  <2> QED BY <2>1, <2>2 DEF Linked
<1>9. End(z, t) = f.to
  BY <1>3, <1>5 DEF End
<1> QED BY <1>7, <1>8, <1>9 DEF z

\* The first frame, taken off the front of a stream.
LEMMA Dropped ==
  ASSUME NEW s \in Seq(Units), NEW t \in Nat, Whole(s), Linked(s, t), s # <<>>
  PROVE  LET u  == s[1][1].to
             s1 == SubSeq(s, FrameLen + 1, Len(s))
         IN /\ FrameLen <= Len(s) /\ \A k \in 1..FrameLen : s[k] = <<s[1][1], k>>
            /\ Fits(s[1][1], t)
            /\ s1 \in Seq(Units) /\ Len(s1) = Len(s) - FrameLen
            /\ \A i \in 1..Len(s1) : s1[i] = s[i + FrameLen]
            /\ Whole(s1) /\ Linked(s1, u) /\ End(s1, u) = End(s, t)
<1> DEFINE u  == s[1][1].to
           s1 == SubSeq(s, FrameLen + 1, Len(s))
           n  == Len(s)
<1>1. n \in Nat /\ n >= 1 /\ FrameLen \in Nat /\ FrameLen >= 1
  BY LenProperties, EmptySeq, DeliveryAssumption
<1>2. FrameLen <= n /\ \A k \in 1..FrameLen : s[k] = <<s[1][1], k>>
  <2>1. 1 \in 1..n /\ s[1][2] = 1
    BY <1>1 DEF Whole
  <2>2. 1 + FrameLen - 1 <= n /\ \A k \in 1..FrameLen : s[1 + k - 1] = <<s[1][1], k>>
    BY <2>1 DEF Whole
  <2>3. \A k \in 1..FrameLen : 1 + k - 1 = k
    BY <1>1
  <2> QED BY <1>1, <2>2, <2>3
<1>3. Fits(s[1][1], t)
  BY DEF Linked
<1>4. s1 \in Seq(Units) /\ Len(s1) = n - FrameLen /\ \A i \in 1..n - FrameLen : s1[i] = s[i + FrameLen]
  <2>1. \A i \in FrameLen + 1..n : s[i] \in Units
    BY <1>1, ElementOfSeq
  <2>2. /\ s1 \in Seq(Units)
        /\ Len(s1) = IF FrameLen + 1 <= n THEN n - (FrameLen + 1) + 1 ELSE 0
        /\ \A i \in 1..n - (FrameLen + 1) + 1 : s1[i] = s[(FrameLen + 1) + i - 1]
    BY <1>1, <2>1, SubSeqProperties
  <2> QED BY <1>1, <1>2, <2>2
<1>5. s1 = <<>> <=> n = FrameLen
  <2>1. s1 = <<>> <=> Len(s1) = 0
    BY <1>4, EmptySeq
  <2>2. Len(s1) = 0 <=> n = FrameLen
    BY <1>1, <1>2, <1>4
  <2> QED BY <2>1, <2>2
<1> HIDE DEF s1, n
<1>6. s[FrameLen] = <<s[1][1], FrameLen>> /\ FrameLen \in 1..n
  BY <1>1, <1>2
<1>7. s1 # <<>> => /\ 1 \in 1..n - FrameLen /\ n - FrameLen \in 1..n - FrameLen
                   /\ s1[1] = s[FrameLen + 1] /\ s1[Len(s1)] = s[n] /\ FrameLen < n
  BY <1>1, <1>2, <1>4, <1>5
<1>8. Whole(s1)
  <2>1. s1 # <<>> => s1[1][2] = 1 /\ s1[Len(s1)][2] = FrameLen
    <3>1. s[n][2] = FrameLen
      BY DEF Whole, n
    <3>2. ASSUME s1 # <<>> PROVE s[FrameLen + 1][2] = 1
      <4>1. FrameLen \in 1..Len(s) /\ FrameLen < Len(s) /\ s[FrameLen][2] = FrameLen
        BY <1>6, <1>7, <3>2 DEF n
      <4> QED BY <4>1 DEF Whole
    <3> QED BY <1>7, <3>1, <3>2
  <2>2. ASSUME NEW i \in 1..Len(s1), s1[i][2] = 1
        PROVE  i + FrameLen - 1 <= Len(s1) /\ \A k \in 1..FrameLen : s1[i + k - 1] = <<s1[i][1], k>>
    <3> DEFINE j == i + FrameLen
    <3>1. j \in 1..n /\ s1[i] = s[j]
      BY <1>1, <1>4
    <3>2. j + FrameLen - 1 <= n /\ \A k \in 1..FrameLen : s[j + k - 1] = <<s[j][1], k>>
      BY <2>2, <3>1 DEF Whole, n
    <3>3. i + FrameLen - 1 <= Len(s1)
      BY <1>1, <1>4, <3>2
    <3>4. \A k \in 1..FrameLen : i + k - 1 \in 1..n - FrameLen /\ (i + k - 1) + FrameLen = j + k - 1
      BY <1>1, <1>4, <3>3
    <3>5. \A k \in 1..FrameLen : s1[i + k - 1] = s[j + k - 1]
      BY <1>4, <3>4
    <3> QED BY <3>1, <3>2, <3>3, <3>5
  <2>3. ASSUME NEW i \in 1..Len(s1), i < Len(s1), s1[i][2] = FrameLen
        PROVE  s1[i + 1][2] = 1
    <3>1. /\ i + FrameLen \in 1..n /\ i + FrameLen < n /\ s1[i] = s[i + FrameLen]
          /\ s1[i + 1] = s[(i + FrameLen) + 1]
      BY <1>1, <1>4, <2>3
    <3> QED BY <2>3, <3>1 DEF Whole, n
  <2> QED BY <2>1, <2>2, <2>3 DEF Whole
<1>9. Linked(s1, u)
  <2>1. s1 # <<>> => Fits(s1[1][1], u)
    BY <1>1, <1>6, <1>7 DEF Linked, n
  <2>2. ASSUME NEW i \in 1..Len(s1), i < Len(s1), s1[i][2] = FrameLen
        PROVE  Fits(s1[i + 1][1], s1[i][1].to)
    <3>1. /\ i + FrameLen \in 1..n /\ i + FrameLen < n /\ s1[i] = s[i + FrameLen]
          /\ s1[i + 1] = s[(i + FrameLen) + 1]
      BY <1>1, <1>4, <2>2
    <3> QED BY <2>2, <3>1 DEF Linked, n
  <2> QED BY <2>1, <2>2 DEF Linked
<1>10. End(s1, u) = End(s, t)
  BY <1>1, <1>5, <1>6, <1>7 DEF End, n
<1> QED BY <1>2, <1>3, <1>4, <1>8, <1>9, <1>10 DEF s1, n

-----------------------------------------------------------------------------
(* The state.                                                              *)

\* What is on its way to a client is a stream: received, in the socket, in the outbox.
LEMMA InFlightType ==
  ASSUME TypeInv, NEW c \in Clients
  PROVE  /\ buffer[c] \in Seq(Units) /\ wire[c] \in Seq(Units) /\ outbox[c] \in Seq(Units)
         /\ buffer[c] \o wire[c] \in Seq(Units) /\ InFlight(c) \in Seq(Units)
         /\ Len(buffer[c]) \in Nat /\ Len(wire[c]) \in Nat /\ Len(outbox[c]) \in Nat
<1>1. buffer[c] \in Seq(Units) /\ wire[c] \in Seq(Units) /\ outbox[c] \in Seq(Units)
  BY DEF TypeInv
<1>2. buffer[c] \o wire[c] \in Seq(Units)
  BY <1>1, ConcatProperties
<1> QED BY <1>1, <1>2, ConcatProperties, LenProperties DEF InFlight

\* What the socket takes is no more than there is, nor than it has room for.
LEMMA TakenBounds ==
  ASSUME NEW c, NEW q \in Seq(Units), Len(wire[c]) \in Nat, Len(wire[c]) <= Room
  PROVE  Taken(c, q) \in 0..Len(q) /\ Taken(c, q) <= Room - Len(wire[c])
<1> DEFINE a == Room - Len(wire[c])
           b == Len(q)
<1>1. a \in Nat /\ b \in Nat
  BY LenProperties, DeliveryAssumption
<1> HIDE DEF a, b
<1>2. \E x \in {a, b} : \A y \in {a, b} : x <= y
  <2>1. CASE a <= b
    BY <1>1, <2>1
  <2>2. CASE b <= a
    BY <1>1, <2>2
  <2> QED BY <1>1, <2>1, <2>2
<1>3. Min({a, b}) \in {a, b} /\ \A y \in {a, b} : Min({a, b}) <= y
  BY <1>2, Zenon DEF Min
<1>4. Min({a, b}) \in 0..b /\ Min({a, b}) <= a
  BY <1>1, <1>3
<1> QED BY <1>4 DEF Taken, a, b

\* Flushing a queue q moves its front into the socket and loses nothing.
LEMMA Flushing ==
  ASSUME TypeInv, NEW c \in Clients, Bounded(c), NEW q \in Seq(Units), Len(q) <= Cap + FrameLen
  PROVE  /\ Flushed(c, q) \in Seq(Units) /\ Kept(c, q) \in Seq(Units)
         /\ wire[c] \o Flushed(c, q) \in Seq(Units)
         /\ Len(wire[c] \o Flushed(c, q)) <= Room /\ Len(Kept(c, q)) <= Cap + FrameLen
         /\ (buffer[c] \o (wire[c] \o Flushed(c, q))) \o Kept(c, q) = (buffer[c] \o wire[c]) \o q
<1> DEFINE n == Taken(c, q)
<1>0. buffer[c] \in Seq(Units) /\ wire[c] \in Seq(Units) /\ Len(wire[c]) \in Nat
  BY InFlightType
<1>1. n \in 0..Len(q) /\ n <= Room - Len(wire[c]) /\ Len(q) \in Nat
  BY InFlightType, TakenBounds, LenProperties DEF Bounded
<1>2. /\ Flushed(c, q) \in Seq(Units) /\ Kept(c, q) \in Seq(Units)
      /\ Len(Flushed(c, q)) = n /\ Len(Kept(c, q)) = Len(q) - n
      /\ Flushed(c, q) \o Kept(c, q) = q
  BY <1>1, Cut DEF Flushed, Kept
<1> DEFINE w == wire[c]
           fl == Flushed(c, q)
           kp == Kept(c, q)
           b == buffer[c]
<1> HIDE DEF w, fl, kp, b
<1>a. w \in Seq(Units) /\ fl \in Seq(Units) /\ kp \in Seq(Units) /\ b \in Seq(Units) /\ fl \o kp = q /\ Len(fl) = n
  BY <1>0, <1>2 DEF w, fl, kp, b
<1>3. wire[c] \o Flushed(c, q) \in Seq(Units) /\ Len(wire[c] \o Flushed(c, q)) = Len(wire[c]) + n
  <2>1. w \o fl \in Seq(Units) /\ Len(w \o fl) = Len(w) + n
    BY <1>a, ConcatProperties
  <2> QED BY <2>1 DEF w, fl
<1>4. (buffer[c] \o (wire[c] \o Flushed(c, q))) \o Kept(c, q) = (buffer[c] \o wire[c]) \o q
  BY <1>0, <1>1, FlushMoves, Zenon DEF Flushed, Kept
<1>5. Len(wire[c]) \in Nat /\ Len(Kept(c, q)) <= Cap + FrameLen /\ Len(wire[c]) + n <= Room
  BY <1>1, <1>2, InFlightType, DeliveryAssumption
<1> QED BY <1>2, <1>3, <1>4, <1>5

\* A client none of whose variables change.
LEMMA Bystander ==
  ASSUME NEW c \in Clients, ClientInv(c), picture' = picture, pending => pending',
         attached' \cap {c} = attached \cap {c},
         prev'[c] = prev[c], force'[c] = force[c], outbox'[c] = outbox[c], wire'[c] = wire[c],
         buffer'[c] = buffer[c], term'[c] = term[c]
  PROVE  ClientInv(c)'
<1>1. InFlight(c)' = InFlight(c) /\ (c \in attached' <=> c \in attached)
  BY DEF InFlight
<1> QED BY <1>1 DEF ClientInv, Bounded, Stream, Debt

\* An empty stream is whole.
LEMMA EmptyStream ==
  ASSUME NEW t \in Nat
  PROVE  Whole(<<>>) /\ Linked(<<>>, t) /\ End(<<>>, t) = t
<1>1. \A i \in 1..Len(<<>>) : FALSE
  BY EmptySeq
<1> QED BY <1>1 DEF Whole, Linked, End

\* Nothing attached, nothing sent: the invariant holds at the start.
LEMMA InitIInv == ASSUME Init PROVE IInv
<1>1. TypeInv
  BY DeliveryAssumption, EmptySeq DEF Init, TypeInv
<1>2. ASSUME NEW c \in Clients PROVE ClientInv(c)
  <2>1. /\ buffer[c] = <<>> /\ wire[c] = <<>> /\ outbox[c] = <<>> /\ term[c] = 0 /\ picture = 1
        /\ c \notin attached
    BY DEF Init
  <2>2. InFlight(c) = <<>>
    BY <2>1, ConcatEmptySeq, EmptySeq DEF InFlight
  <2>3. Bounded(c)
    BY <2>1, EmptySeq, DeliveryAssumption DEF Bounded
  <2>4. Stream(c)
    BY <2>1, <2>2, EmptyStream, EmptySeq DEF Stream
  <2> QED BY <2>1, <2>3, <2>4 DEF ClientInv, Debt
<1> QED BY <1>1, <1>2 DEF IInv, Init

\* A new picture leaves every view behind it, and a frame due.
LEMMA DrawIInv == ASSUME IInv, Draw PROVE IInv'
<1>1. /\ picture' = picture + 1 /\ pending' = TRUE
      /\ UNCHANGED <<redraw, prev, force, outbox, wire, buffer, term, attached, budget>>
  BY DEF Draw, stream
<1>2. TypeInv'
  BY <1>1 DEF IInv, TypeInv
<1>3. ASSUME NEW c \in Clients PROVE ClientInv(c)'
  <2>1. InFlight(c)' = InFlight(c) /\ ClientInv(c)
    BY <1>1 DEF InFlight, IInv
  <2>2. term[c] \in Nat /\ picture \in Nat /\ InFlight(c) \in Seq(Units)
    BY InFlightType DEF IInv, TypeInv
  <2>3. \A i \in 1..Len(InFlight(c)) : InFlight(c)[i][1].to \in Nat
    <3>1. \A i \in 1..Len(InFlight(c)) : InFlight(c)[i] \in Units
      BY <2>2, ElementOfSeq
    <3> QED BY <3>1 DEF Units, Frames
  <2>4. Stream(c)'
    BY <1>1, <2>1, <2>2, <2>3 DEF ClientInv, Stream
  <2> QED BY <1>1, <2>1, <2>4 DEF ClientInv, Bounded, Debt
<1> QED BY <1>1, <1>2, <1>3 DEF IInv

\* request_paint only makes a frame due.
LEMMA RedrawIInv == ASSUME IInv, Redraw PROVE IInv'
<1>1. /\ pending' = TRUE /\ redraw' = TRUE /\ budget > 0 /\ budget' = budget - 1
      /\ UNCHANGED <<picture, prev, force, outbox, wire, buffer, term, attached>>
  BY DEF Redraw, Spend, stream
<1>2. TypeInv'
  BY <1>1 DEF IInv, TypeInv
<1>3. ASSUME NEW c \in Clients PROVE ClientInv(c)'
  BY <1>1, Bystander DEF IInv
<1> QED BY <1>1, <1>2, <1>3 DEF IInv

\* What Attach and Leave leave of a client's stream.
LEMMA NewStreamOK ==
  ASSUME TypeInv, NEW c \in Clients, NewStream(c), picture' = picture
  PROVE  /\ outbox' \in [Clients -> Seq(Units)] /\ wire' \in [Clients -> Seq(Units)]
         /\ buffer' \in [Clients -> Seq(Units)] /\ term' \in [Clients -> Nat]
         /\ Bounded(c)' /\ Stream(c)' /\ term'[c] = 0 /\ End(InFlight(c), term[c])' = 0
<1>1. <<>> \in Seq(Units)
  BY EmptySeq
<1>2. /\ outbox' \in [Clients -> Seq(Units)] /\ wire' \in [Clients -> Seq(Units)]
      /\ buffer' \in [Clients -> Seq(Units)] /\ term' \in [Clients -> Nat]
      /\ outbox'[c] = <<>> /\ wire'[c] = <<>> /\ buffer'[c] = <<>> /\ term'[c] = 0
  BY <1>1 DEF NewStream, TypeInv
<1>3. InFlight(c)' = <<>>
  BY <1>2, ConcatEmptySeq, EmptySeq DEF InFlight
<1>4. Bounded(c)'
  BY <1>2, EmptySeq, DeliveryAssumption DEF Bounded
<1>5. Stream(c)' /\ End(InFlight(c), term[c])' = 0
  BY <1>2, <1>3, EmptyStream, EmptySeq DEF Stream, TypeInv, End
<1> QED BY <1>2, <1>4, <1>5

\* A HELLO: an empty stream, and a view whose first frame will be full.
LEMMA AttachIInv == ASSUME IInv, NEW d \in Clients, Attach(d) PROVE IInv'
<1>1. /\ budget > 0 /\ budget' = budget - 1 /\ attached' = attached \cup {d}
      /\ prev' = [prev EXCEPT ![d] = 0] /\ force' = [force EXCEPT ![d] = TRUE]
      /\ pending' = TRUE /\ NewStream(d) /\ UNCHANGED <<picture, redraw>>
  BY DEF Attach, Spend, FreshView
<1>2. /\ outbox' \in [Clients -> Seq(Units)] /\ wire' \in [Clients -> Seq(Units)]
      /\ buffer' \in [Clients -> Seq(Units)] /\ term' \in [Clients -> Nat]
      /\ Bounded(d)' /\ Stream(d)'
  BY <1>1, NewStreamOK DEF IInv
<1>3. TypeInv'
  <2>1. prev' \in [Clients -> Nat] /\ force' \in [Clients -> BOOLEAN]
    BY <1>1 DEF IInv, TypeInv
  <2> QED BY <1>1, <1>2, <2>1 DEF IInv, TypeInv
<1>4. ASSUME NEW c \in Clients PROVE ClientInv(c)'
  <2>1. CASE c = d
    BY <1>1, <1>2, <2>1 DEF ClientInv, Debt, IInv, TypeInv
  <2>2. CASE c # d
    BY <1>1, <2>2, Bystander DEF IInv, TypeInv, NewStream
  <2> QED BY <2>1, <2>2
<1> QED BY <1>1, <1>3, <1>4 DEF IInv

\* A connection closed takes its stream with it.
LEMMA LeaveIInv == ASSUME IInv, NEW d \in Clients, Leave(d) PROVE IInv'
<1>1. /\ budget > 0 /\ budget' = budget - 1 /\ attached' = attached \ {d}
      /\ pending' = TRUE /\ NewStream(d) /\ UNCHANGED <<picture, redraw, prev, force>>
  BY DEF Leave, Spend
<1>2. /\ outbox' \in [Clients -> Seq(Units)] /\ wire' \in [Clients -> Seq(Units)]
      /\ buffer' \in [Clients -> Seq(Units)] /\ term' \in [Clients -> Nat]
      /\ Bounded(d)' /\ Stream(d)'
  BY <1>1, NewStreamOK DEF IInv
<1>3. TypeInv'
  BY <1>1, <1>2 DEF IInv, TypeInv
<1>4. ASSUME NEW c \in Clients PROVE ClientInv(c)'
  <2>1. CASE c = d
    BY <1>1, <1>2, <2>1 DEF ClientInv, Debt
  <2>2. CASE c # d
    BY <1>1, <2>2, Bystander DEF IInv, TypeInv, NewStream
  <2> QED BY <2>1, <2>2
<1> QED BY <1>1, <1>3, <1>4 DEF IInv

\* A RESIZE forgets what the view had painted; what was sent stays sent.
LEMMA ResizeIInv == ASSUME IInv, NEW d \in Clients, Resize(d) PROVE IInv'
<1>1. /\ budget > 0 /\ budget' = budget - 1
      /\ prev' = [prev EXCEPT ![d] = 0] /\ force' = [force EXCEPT ![d] = TRUE]
      /\ pending' = TRUE
      /\ UNCHANGED <<picture, redraw, outbox, wire, buffer, term, attached>>
  BY DEF Resize, Spend, FreshView, stream
<1>2. TypeInv'
  BY <1>1 DEF IInv, TypeInv
<1>3. ASSUME NEW c \in Clients PROVE ClientInv(c)'
  <2>1. CASE c = d
    <3>1. InFlight(c)' = InFlight(c)
      BY <1>1 DEF InFlight
    <3>2. force'[c] = TRUE
      BY <1>1, <2>1 DEF IInv, TypeInv
    <3> QED BY <1>1, <3>1, <3>2 DEF IInv, ClientInv, Bounded, Stream, Debt
  <2>2. CASE c # d
    BY <1>1, <2>2, Bystander DEF IInv, TypeInv
  <2> QED BY <2>1, <2>2
<1> QED BY <1>1, <1>2, <1>3 DEF IInv

-----------------------------------------------------------------------------
(* Painting.                                                               *)

\* A frame as push_display makes it, and as the stream takes it.
LEMMA MessageOK ==
  ASSUME TypeInv, NEW c \in Clients
  PROVE  LET f == [full |-> Full(c), from |-> prev[c], to |-> picture]
         IN /\ f \in Frames /\ Message(c) \in Seq(Units) /\ Len(Message(c)) = FrameLen
            /\ \A k \in 1..FrameLen : Message(c)[k] = <<f, k>>
<1> DEFINE f == [full |-> Full(c), from |-> prev[c], to |-> picture]
           e(i) == <<f, i>>
<1>1. Full(c) \in BOOLEAN /\ prev[c] \in Nat /\ picture \in Nat
  BY DEF Full, TypeInv
<1>2. f \in Frames
  BY <1>1 DEF Frames
<1>3. FrameLen \in Nat
  BY DeliveryAssumption
<1> HIDE DEF f
<1>4. \A i \in 1..FrameLen : e(i) \in Units
  BY <1>2 DEF Units
<1>5. Message(c) = [i \in 1..FrameLen |-> e(i)]
  BY DEF Message, f
<1> HIDE DEF e
<1>6. [i \in 1..FrameLen |-> e(i)] \in Seq(Units)
  BY <1>3, <1>4, IsASeq
<1>7. /\ Message(c) \in Seq(Units) /\ DOMAIN Message(c) = 1..FrameLen
      /\ \A k \in 1..FrameLen : Message(c)[k] = e(k)
  BY <1>5, <1>6
<1>8. Len(Message(c)) = FrameLen
  BY <1>3, <1>7, LenProperties
<1> QED BY <1>2, <1>7, <1>8 DEF f, e

\* A client whose frame was queued.
LEMMA PaintSent ==
  ASSUME IInv, Paint, NEW c \in Clients, Sent(c)
  PROVE  /\ outbox'[c] \in Seq(Units) /\ wire'[c] \in Seq(Units) /\ ClientInv(c)'
<1> DEFINE f == [full |-> Full(c), from |-> prev[c], to |-> picture]
           q == outbox[c] \o Message(c)
<1>1. TypeInv /\ ClientInv(c)
  BY DEF IInv
<1>2. /\ c \in attached /\ ~Owes(c)
      /\ prev'[c] = picture /\ force'[c] = FALSE
      /\ outbox'[c] = Kept(c, q) /\ wire'[c] = wire[c] \o Flushed(c, q)
      /\ UNCHANGED <<picture, buffer, term, attached>>
  BY DEF Paint, Sent, Owes
<1>3. /\ f \in Frames /\ Message(c) \in Seq(Units) /\ Len(Message(c)) = FrameLen
      /\ \A k \in 1..FrameLen : Message(c)[k] = <<f, k>>
  BY <1>1, MessageOK
<1>4. q \in Seq(Units) /\ Len(q) <= Cap + FrameLen
  <2>1. outbox[c] \in Seq(Units) /\ Len(outbox[c]) \in Nat /\ Len(outbox[c]) <= Cap
    BY <1>1, InFlightType, DeliveryAssumption DEF Sent, Refused
  <2>2. q \in Seq(Units) /\ Len(q) = Len(outbox[c]) + FrameLen
    BY <2>1, <1>3, ConcatProperties
  <2> QED BY <2>1, <2>2, DeliveryAssumption
<1>5. /\ outbox'[c] \in Seq(Units) /\ wire'[c] \in Seq(Units)
      /\ Bounded(c)'
      /\ (buffer[c] \o wire'[c]) \o outbox'[c] = (buffer[c] \o wire[c]) \o q
  BY <1>1, <1>2, <1>4, Flushing DEF ClientInv, Bounded
<1>6. InFlight(c)' = InFlight(c) \o Message(c)
  <2>1. buffer[c] \o wire[c] \in Seq(Units) /\ outbox[c] \in Seq(Units)
    BY <1>1, InFlightType
  <2>2. ((buffer[c] \o wire[c]) \o outbox[c]) \o Message(c) = (buffer[c] \o wire[c]) \o q
    <3> DEFINE bw == buffer[c] \o wire[c]
               o == outbox[c]
               m == Message(c)
    <3> HIDE DEF bw, o, m
    <3>1. bw \in Seq(Units) /\ o \in Seq(Units) /\ m \in Seq(Units)
      BY <2>1, <1>3 DEF bw, o, m
    <3>2. (bw \o o) \o m = bw \o (o \o m)
      BY <3>1, ConcatAssociative
    <3> QED BY <3>2 DEF bw, o, m
  <2> QED BY <1>2, <1>5, <2>2 DEF InFlight
<1>7. InFlight(c) \in Seq(Units) /\ term[c] \in Nat /\ Whole(InFlight(c)) /\ Linked(InFlight(c), term[c])
  BY <1>1, InFlightType DEF ClientInv, Stream, TypeInv
<1>8. Fits(f, End(InFlight(c), term[c]))
  <2>1. f.full = Full(c) /\ f.from = prev[c] /\ f.to = picture
    OBVIOUS
  <2>2. Full(c) \/ prev[c] = End(InFlight(c), term[c])
    BY <1>1, <1>2 DEF ClientInv, Debt, Full
  <2>3. End(InFlight(c), term[c]) <= picture
    <3>1. CASE InFlight(c) = <<>>
      BY <3>1, <1>1 DEF End, ClientInv, Stream
    <3>2. CASE InFlight(c) # <<>>
      <4>1. Len(InFlight(c)) \in 1..Len(InFlight(c))
        BY <3>2, <1>7, EmptySeq
      <4> QED BY <3>2, <4>1, <1>1 DEF End, ClientInv, Stream
    <3> QED BY <3>1, <3>2
  <2> QED BY <2>1, <2>2, <2>3 DEF Fits
<1> HIDE DEF f, q
<1>9. Whole(InFlight(c)') /\ Linked(InFlight(c)', term[c]) /\ End(InFlight(c)', term[c]) = picture
  <2>1. f.to = picture
    BY DEF f
  <2> QED BY <1>3, <1>6, <1>7, <1>8, <2>1, Appended
<1>10. \A i \in 1..Len(InFlight(c)') : InFlight(c)'[i][1].to <= picture
  <2>1. /\ Len(InFlight(c)') = Len(InFlight(c)) + FrameLen /\ Len(InFlight(c)) \in Nat
        /\ \A i \in 1..Len(InFlight(c)) + FrameLen : InFlight(c)'[i] =
              IF i <= Len(InFlight(c)) THEN InFlight(c)[i] ELSE Message(c)[i - Len(InFlight(c))]
    <3> DEFINE s == InFlight(c)
               m == Message(c)
    <3> HIDE DEF s, m
    <3>1. s \in Seq(Units) /\ m \in Seq(Units) /\ Len(m) = FrameLen
      BY <1>3, <1>7 DEF s, m
    <3>2. /\ Len(s \o m) = Len(s) + FrameLen /\ Len(s) \in Nat
          /\ \A i \in 1..Len(s) + FrameLen : (s \o m)[i] = IF i <= Len(s) THEN s[i] ELSE m[i - Len(s)]
      BY <3>1, ConcatProperties, LenProperties
    <3> QED BY <1>6, <3>2 DEF s, m
  <2>2. ASSUME NEW i \in 1..Len(InFlight(c)') PROVE InFlight(c)'[i][1].to <= picture
    <3>1. CASE i <= Len(InFlight(c))
      <4>1. i \in 1..Len(InFlight(c)) /\ InFlight(c)'[i] = InFlight(c)[i]
        BY <2>1, <3>1
      <4> QED BY <4>1, <1>1 DEF ClientInv, Stream
    <3>2. CASE i > Len(InFlight(c))
      <4>1. /\ i - Len(InFlight(c)) \in 1..FrameLen
            /\ InFlight(c)'[i] = Message(c)[i - Len(InFlight(c))]
        BY <2>1, <3>2, DeliveryAssumption
      <4>2. InFlight(c)'[i][1] = f
        BY <4>1, <1>3
      <4>3. f.to = picture /\ picture <= picture
        BY <1>1 DEF f, TypeInv
      <4> QED BY <4>2, <4>3
    <3> QED BY <2>1, <3>1, <3>2
  <2> QED BY <2>2
<1>11. Stream(c)'
  BY <1>1, <1>2, <1>9, <1>10 DEF ClientInv, Stream
<1>12. Debt(c)'
  BY <1>2, <1>9 DEF Debt
<1> QED BY <1>5, <1>11, <1>12 DEF ClientInv

\* A client that had nothing to be sent, or whose frame was refused.
LEMMA PaintUnsent ==
  ASSUME IInv, Paint, NEW c \in Clients, ~Sent(c)
  PROVE  /\ outbox'[c] \in Seq(Units) /\ wire'[c] \in Seq(Units) /\ ClientInv(c)'
<1>1. TypeInv /\ ClientInv(c)
  BY DEF IInv
<1>2. outbox'[c] = outbox[c] /\ wire'[c] = wire[c] /\ UNCHANGED <<picture, buffer, term, attached>>
  BY DEF Paint
<1>3. InFlight(c)' = InFlight(c)
  BY <1>2 DEF InFlight
<1>4. Bounded(c)' /\ Stream(c)'
  BY <1>1, <1>2, <1>3 DEF ClientInv, Bounded, Stream
<1>5. Debt(c)'
  <2>1. CASE c \notin attached
    BY <2>1, <1>2 DEF Debt
  <2>2. CASE c \in attached /\ Changed(c)
    <3>1. Owes(c) /\ force'[c] = Owes(c) /\ pending' = Retry /\ prev'[c] = picture
      BY <2>2 DEF Paint, Sent, Owes
    <3>2. force'[c] /\ pending'
      BY <3>1 DEF Retry
    <3> QED BY <3>1, <3>2, <1>2 DEF Debt
  <2>3. CASE c \in attached /\ ~Changed(c)
    <3>1. ~Owes(c) /\ ~force[c] /\ prev[c] = picture /\ prev'[c] = picture /\ force'[c] = Owes(c)
      BY <2>3 DEF Paint, Owes, Changed, Full
    <3>2. End(InFlight(c), term[c]) = prev[c] /\ ~force'[c]
      BY <2>3, <3>1, <1>1 DEF ClientInv, Debt
    <3> QED BY <3>1, <3>2, <1>2, <1>3 DEF Debt
  <2> QED BY <2>1, <2>2, <2>3
<1> QED BY <1>1, <1>2, <1>4, <1>5, InFlightType DEF ClientInv

\* push_clients preserves the invariant, for those sent a frame and those refused.
LEMMA PaintIInv == ASSUME IInv, Paint PROVE IInv'
<1>1. ASSUME NEW c \in Clients
      PROVE  outbox'[c] \in Seq(Units) /\ wire'[c] \in Seq(Units) /\ ClientInv(c)'
  BY PaintSent, PaintUnsent
<1>2. TypeInv'
  <2>1. outbox' \in [Clients -> Seq(Units)]
    <3>1. outbox' = [c \in Clients |-> outbox'[c]]
      BY DEF Paint
    <3> QED BY <1>1, <3>1
  <2>2. wire' \in [Clients -> Seq(Units)]
    <3>1. wire' = [c \in Clients |-> wire'[c]]
      BY DEF Paint
    <3> QED BY <1>1, <3>1
  <2>3. prev' \in [Clients -> Nat]
    BY DEF Paint, IInv, TypeInv
  <2>4. \A c \in Clients : Owes(c) \in BOOLEAN
    BY DEF Owes
  <2>5. force' \in [Clients -> BOOLEAN]
    BY <2>4 DEF Paint, IInv, TypeInv
  <2>6. redraw' \in BOOLEAN /\ pending' \in BOOLEAN
    BY DEF Paint, Retry
  <2> QED BY <2>1, <2>2, <2>3, <2>5, <2>6 DEF Paint, IInv, TypeInv
<1>3. redraw' => pending'
  BY DEF Paint
<1> QED BY <1>1, <1>2, <1>3 DEF IInv

-----------------------------------------------------------------------------
(* The wire and the client.                                                *)

\* POLLOUT hands units on from the outbox to the socket.
LEMMA DrainIInv == ASSUME IInv, NEW d \in Clients, Drain(d) PROVE IInv'
<1>1. /\ outbox' = [outbox EXCEPT ![d] = Kept(d, outbox[d])]
      /\ wire' = [wire EXCEPT ![d] = wire[d] \o Flushed(d, outbox[d])]
      /\ UNCHANGED <<picture, redraw, pending, prev, force, buffer, term, attached, budget>>
  BY DEF Drain, server
<1>2. TypeInv /\ ClientInv(d)
  BY DEF IInv
<1>3. outbox[d] \in Seq(Units) /\ Len(outbox[d]) <= Cap + FrameLen
  BY <1>2 DEF TypeInv, ClientInv, Bounded
<1>4. /\ outbox'[d] = Kept(d, outbox[d]) /\ wire'[d] = wire[d] \o Flushed(d, outbox[d])
      /\ \A c \in Clients : c # d => outbox'[c] = outbox[c] /\ wire'[c] = wire[c]
  BY <1>1, <1>2 DEF TypeInv
<1>5. /\ outbox'[d] \in Seq(Units) /\ wire'[d] \in Seq(Units)
      /\ Len(wire'[d]) <= Room /\ Len(outbox'[d]) <= Cap + FrameLen
      /\ (buffer[d] \o wire'[d]) \o outbox'[d] = (buffer[d] \o wire[d]) \o outbox[d]
  BY <1>2, <1>3, <1>4, Flushing DEF ClientInv
<1>6. TypeInv'
  <2>1. outbox' \in [Clients -> Seq(Units)] /\ wire' \in [Clients -> Seq(Units)]
    BY <1>1, <1>2, <1>4, <1>5 DEF TypeInv
  <2> QED BY <1>1, <1>2, <2>1 DEF TypeInv
<1>7. ASSUME NEW c \in Clients PROVE ClientInv(c)'
  <2>1. CASE c = d
    <3>1. InFlight(c)' = InFlight(c)
      BY <1>1, <1>5, <2>1 DEF InFlight
    <3> QED BY <1>1, <1>2, <1>5, <2>1, <3>1 DEF ClientInv, Bounded, Stream, Debt
  <2>2. CASE c # d
    BY <1>1, <1>4, <2>2, Bystander DEF IInv
  <2> QED BY <2>1, <2>2
<1> QED BY <1>1, <1>6, <1>7 DEF IInv

\* A read hands on any part of what the socket holds.
LEMMA ReadIInv == ASSUME IInv, NEW d \in Clients, Read(d) PROVE IInv'
<1>1. PICK n \in 1..Len(wire[d]) :
        /\ buffer' = [buffer EXCEPT ![d] = buffer[d] \o SubSeq(wire[d], 1, n)]
        /\ wire' = [wire EXCEPT ![d] = SubSeq(wire[d], n + 1, Len(wire[d]))]
  BY DEF Read
<1>2. UNCHANGED <<picture, redraw, pending, prev, force, outbox, term, attached, budget>>
  BY DEF Read, server
<1>3. TypeInv /\ ClientInv(d)
  BY DEF IInv
<1> DEFINE a == SubSeq(wire[d], 1, n)
           z == SubSeq(wire[d], n + 1, Len(wire[d]))
<1>4. /\ buffer'[d] = buffer[d] \o a /\ wire'[d] = z
      /\ \A c \in Clients : c # d => buffer'[c] = buffer[c] /\ wire'[c] = wire[c]
  BY <1>1, <1>3 DEF TypeInv
<1>5. /\ a \in Seq(Units) /\ z \in Seq(Units) /\ a \o z = wire[d]
      /\ Len(z) = Len(wire[d]) - n /\ Len(wire[d]) \in Nat
      /\ buffer[d] \in Seq(Units) /\ outbox[d] \in Seq(Units)
  <2>1. wire[d] \in Seq(Units) /\ Len(wire[d]) \in Nat /\ buffer[d] \in Seq(Units) /\ outbox[d] \in Seq(Units)
    BY <1>3, InFlightType
  <2>2. n \in 0..Len(wire[d])
    BY <2>1
  <2> QED BY <2>1, <2>2, Cut
<1> HIDE DEF a, z
<1>6. buffer[d] \o a \in Seq(Units) /\ (buffer[d] \o a) \o z = buffer[d] \o wire[d]
  <2> DEFINE b == buffer[d]
  <2> HIDE DEF b
  <2>1. b \in Seq(Units)
    BY <1>5 DEF b
  <2>2. b \o a \in Seq(Units) /\ (b \o a) \o z = b \o (a \o z)
    BY <1>5, <2>1, Grouped, Zenon
  <2> QED BY <1>5, <2>2, Zenon DEF b
<1>7. TypeInv'
  <2>1. buffer' \in [Clients -> Seq(Units)] /\ wire' \in [Clients -> Seq(Units)]
    BY <1>1, <1>3, <1>5, <1>6 DEF TypeInv, a, z
  <2> QED BY <1>2, <1>3, <2>1 DEF TypeInv
<1>8. ASSUME NEW c \in Clients PROVE ClientInv(c)'
  <2>1. CASE c = d
    <3>1. InFlight(c)' = InFlight(c)
      BY <1>2, <1>4, <1>6, <2>1 DEF InFlight
    <3>2. Len(wire'[c]) <= Room
      BY <1>3, <1>4, <1>5, <2>1, DeliveryAssumption DEF ClientInv, Bounded
    <3> QED BY <1>2, <1>3, <2>1, <3>1, <3>2 DEF ClientInv, Bounded, Stream, Debt
  <2>2. CASE c # d
    BY <1>2, <1>4, <2>2, Bystander DEF IInv
  <2> QED BY <2>1, <2>2
<1> QED BY <1>2, <1>7, <1>8 DEF IInv

\* What a client that has a whole message shows is what the frame says, and is
\* no older than what it showed and no newer than the picture.
LEMMA ShowOK ==
  ASSUME IInv, NEW d \in Clients, Show(d)
  PROVE  /\ d \in attached
         /\ \E v \in term[d]..picture : term' = [term EXCEPT ![d] = v]
         /\ IInv'
<1> DEFINE s  == InFlight(d)
           b  == buffer[d]
           r  == wire[d] \o outbox[d]
           u  == s[1][1].to
           s1 == SubSeq(s, FrameLen + 1, Len(s))
           b1 == SubSeq(b, FrameLen + 1, Len(b))
<1>1. /\ Len(b) >= FrameLen
      /\ term' = [term EXCEPT ![d] = Shown(b, term[d])]
      /\ buffer' = [buffer EXCEPT ![d] = b1]
      /\ UNCHANGED <<picture, redraw, pending, prev, force, outbox, wire, attached, budget>>
  BY DEF Show, Complete, server
<1>2. TypeInv /\ ClientInv(d) /\ FrameLen \in Nat /\ FrameLen >= 1
  BY DeliveryAssumption DEF IInv
<1>3. /\ b \in Seq(Units) /\ wire[d] \in Seq(Units) /\ outbox[d] \in Seq(Units)
      /\ s \in Seq(Units) /\ term[d] \in Nat /\ Len(b) \in Nat /\ Len(s) \in Nat
  BY <1>2, InFlightType, LenProperties DEF TypeInv
<1>4. r \in Seq(Units) /\ s = b \o r
  <2>1. s = (b \o wire[d]) \o outbox[d]
    BY DEF InFlight
  <2>2. r \in Seq(Units)
    BY <1>3, Grouped, Zenon DEF r
  <2> HIDE DEF s, b
  <2>3. (b \o wire[d]) \o outbox[d] = b \o r
    <3>1. b \in Seq(Units) /\ wire[d] \in Seq(Units) /\ outbox[d] \in Seq(Units)
      BY <1>3
    <3> QED BY <3>1, Grouped, Zenon DEF r
  <2> QED BY <2>1, <2>2, <2>3, Zenon
<1>5. /\ Len(s) = Len(b) + Len(r) /\ Len(r) \in Nat
      /\ \A i \in 1..Len(b) : s[i] = b[i]
  <2> HIDE DEF s, b, r
  <2>1. /\ Len(b \o r) = Len(b) + Len(r) /\ Len(r) \in Nat
        /\ \A i \in 1..Len(b) + Len(r) : (b \o r)[i] = IF i <= Len(b) THEN b[i] ELSE r[i - Len(b)]
    BY <1>3, <1>4, ConcatProperties, LenProperties
  <2> QED BY <1>3, <1>4, <2>1
<1>c. /\ Len(b) \in Nat /\ Len(r) \in Nat /\ Len(s) \in Nat /\ Len(s) = Len(b) + Len(r)
      /\ FrameLen \in Nat /\ FrameLen >= 1 /\ Len(b) >= FrameLen
  <2> HIDE DEF s, b, r
  <2>1. Len(b) >= FrameLen
    BY <1>1
  <2>2. FrameLen \in Nat /\ FrameLen >= 1
    BY <1>2
  <2>3. Len(b) \in Nat /\ Len(s) \in Nat
    BY <1>3
  <2>4. Len(r) \in Nat /\ Len(s) = Len(b) + Len(r)
    BY <1>5
  <2> QED BY <2>1, <2>2, <2>3, <2>4
<1>6. s # <<>>
  <2> HIDE DEF s, b, r
  <2>1. Len(s) # 0
    BY <1>c
  <2> QED BY <2>1, EmptySeq
<1>7. Whole(s) /\ Linked(s, term[d])
  BY <1>2 DEF ClientInv, Stream
<1>8. /\ FrameLen <= Len(s) /\ \A k \in 1..FrameLen : s[k] = <<s[1][1], k>>
      /\ Fits(s[1][1], term[d])
      /\ s1 \in Seq(Units) /\ Len(s1) = Len(s) - FrameLen
      /\ \A i \in 1..Len(s1) : s1[i] = s[i + FrameLen]
      /\ Whole(s1) /\ Linked(s1, u) /\ End(s1, u) = End(s, term[d])
  <2> HIDE DEF s
  <2> QED BY <1>3, <1>6, <1>7, Dropped
<1>9. u \in term[d]..picture /\ u \in Nat
  <2>1. s[1] \in Units /\ 1 \in 1..Len(s)
    <3> HIDE DEF s
    <3>1. 1 \in 1..Len(s)
      BY <1>2, <1>3, <1>8
    <3> QED BY <1>3, <3>1, ElementOfSeq
  <2>2. s[1][1].to \in Nat
    BY <2>1 DEF Units, Frames
  <2>3. s[1][1].to <= picture
    BY <1>2, <2>1 DEF ClientInv, Stream
  <2> QED BY <1>2, <1>3, <1>8, <2>2, <2>3 DEF Fits, TypeInv
<1>10. Shown(b, term[d]) = u
  <2>1. \A k \in 1..FrameLen : k <= Len(b) /\ b[k] = s[k]
    <3> HIDE DEF b, s
    <3> SUFFICES ASSUME NEW k \in 1..FrameLen PROVE k <= Len(b) /\ b[k] = s[k]
      OBVIOUS
    <3>1. k \in 1..Len(b)
      BY <1>c
    <3>2. k <= Len(b)
      BY <1>c, <3>1
    <3> QED BY <1>5, <3>1, <3>2
  <2>2. 1 \in 1..FrameLen
    BY <1>2
  <2>3. b[1][1] = s[1][1]
    BY <2>1, <2>2
  <2>4. ~\E k \in 1..FrameLen : k > Len(b) \/ b[k] # <<b[1][1], k>>
    <3>1. ASSUME NEW k \in 1..FrameLen PROVE ~(k > Len(b)) /\ b[k] = <<b[1][1], k>>
      <4>1. k <= Len(b) /\ b[k] = s[k] /\ s[k] = <<s[1][1], k>>
        BY <1>8, <2>1
      <4> QED BY <1>3, <2>3, <4>1
    <3> QED BY <3>1
  <2>5. b[1][1].full \/ b[1][1].from = term[d]
    BY <1>8, <2>3 DEF Fits
  <2> HIDE DEF b, s
  <2> QED BY <2>3, <2>4, <2>5 DEF Shown
<1>11. term'[d] = u /\ term' = [term EXCEPT ![d] = u] /\ term' \in [Clients -> Nat]
  BY <1>1, <1>2, <1>9, <1>10 DEF TypeInv
<1>12. /\ b1 \in Seq(Units) /\ Len(b1) = Len(b) - FrameLen
       /\ \A i \in 1..Len(b1) : b1[i] = b[i + FrameLen]
  <2> HIDE DEF b
  <2>1. \A i \in FrameLen + 1..Len(b) : b[i] \in Units
    BY <1>2, <1>3, ElementOfSeq
  <2>2. /\ b1 \in Seq(Units)
        /\ Len(b1) = IF FrameLen + 1 <= Len(b) THEN Len(b) - (FrameLen + 1) + 1 ELSE 0
        /\ \A i \in 1..Len(b) - (FrameLen + 1) + 1 : b1[i] = b[(FrameLen + 1) + i - 1]
    BY <1>2, <1>3, <2>1, SubSeqProperties
  <2> QED BY <1>1, <1>2, <1>3, <2>2
<1>13. buffer'[d] = b1 /\ buffer' \in [Clients -> Seq(Units)]
  BY <1>1, <1>2, <1>12 DEF TypeInv
<1>14. InFlight(d)' = s1
  <2>1. InFlight(d)' = (b1 \o wire[d]) \o outbox[d]
    BY <1>1, <1>13 DEF InFlight
  <2> HIDE DEF s, b, b1, s1
  <2>2. (b1 \o wire[d]) \o outbox[d] = b1 \o r
    <3>1. b1 \in Seq(Units) /\ wire[d] \in Seq(Units) /\ outbox[d] \in Seq(Units)
      BY <1>3, <1>12
    <3> QED BY <3>1, Grouped, Zenon DEF r
  <2> HIDE DEF r
  <2>3. FrameLen \in 1..Len(b)
    BY <1>1, <1>2, <1>3, <1>c
  <2>4. SubSeq(b, FrameLen + 1, Len(b)) \o r = SubSeq(b \o r, FrameLen + 1, Len(b \o r))
    BY <1>3, <1>4, <2>3, Consumed, Zenon
  <2>5. b1 \o r = s1
    BY <1>4, <2>4, Zenon DEF b1, s1
  <2> QED BY <2>1, <2>2, <2>5
<1> HIDE DEF s, b, r, u, s1, b1
<1>15. d \in attached
  BY <1>2, <1>6 DEF ClientInv, Stream, s
<1>16. ClientInv(d)'
  <2>1. \A i \in 1..Len(s1) : s1[i][1].to <= picture
    <3>1. ASSUME NEW i \in 1..Len(s1) PROVE s1[i][1].to <= picture
      <4>1. i + FrameLen \in 1..Len(s) /\ s1[i] = s[i + FrameLen]
        BY <1>2, <1>3, <1>8
      <4> QED BY <1>2, <4>1 DEF ClientInv, Stream, s
    <3> QED BY <3>1
  <2>2. Stream(d)'
    BY <1>1, <1>8, <1>9, <1>11, <1>14, <1>15, <2>1 DEF Stream
  <2>3. End(InFlight(d), term[d])' = End(InFlight(d), term[d])
    BY <1>8, <1>11, <1>14 DEF s
  <2>4. Bounded(d)' /\ Debt(d)'
    BY <1>1, <1>2, <2>3 DEF ClientInv, Bounded, Debt
  <2> QED BY <2>2, <2>4 DEF ClientInv
<1>17. ASSUME NEW c \in Clients, c # d PROVE ClientInv(c)'
  <2>1. buffer'[c] = buffer[c] /\ term'[c] = term[c]
    BY <1>1, <1>2, <1>17 DEF TypeInv
  <2> QED BY <1>1, <2>1, Bystander DEF IInv
<1>18. TypeInv'
  BY <1>1, <1>2, <1>11, <1>13 DEF TypeInv
<1>19. IInv'
  BY <1>1, <1>16, <1>17, <1>18 DEF IInv
<1> QED BY <1>9, <1>11, <1>15, <1>19

\* A step that changes nothing.
LEMMA StutterIInv == ASSUME IInv, UNCHANGED vars PROVE IInv'
<1>1. UNCHANGED <<picture, redraw, pending, prev, force, outbox, wire, buffer, term, attached, budget>>
  BY DEF vars, server, stream
<1>2. TypeInv'
  BY <1>1 DEF IInv, TypeInv
<1>3. ASSUME NEW c \in Clients PROVE ClientInv(c)'
  BY <1>1, Bystander DEF IInv
<1> QED BY <1>1, <1>2, <1>3 DEF IInv

-----------------------------------------------------------------------------
(* The theorems.                                                           *)

\* The strengthening holds in every state.
THEOREM Inductive == Spec => []IInv
<1>1. Init => IInv
  BY InitIInv
<1>2. IInv /\ [Next]_vars => IInv'
  <2> SUFFICES ASSUME IInv, [Next]_vars PROVE IInv'
    OBVIOUS
  <2>1. CASE Draw
    BY <2>1, DrawIInv
  <2>2. CASE Redraw
    BY <2>2, RedrawIInv
  <2>3. CASE Paint
    BY <2>3, PaintIInv
  <2>4. CASE \E c \in Clients : Attach(c) \/ Leave(c) \/ Resize(c)
    BY <2>4, AttachIInv, LeaveIInv, ResizeIInv
  <2>5. CASE \E c \in Clients : Drain(c) \/ Read(c) \/ Show(c)
    BY <2>5, DrainIInv, ReadIInv, ShowOK
  <2>6. CASE UNCHANGED vars
    BY <2>6, StutterIInv
  <2> QED BY <2>1, <2>2, <2>3, <2>4, <2>5, <2>6 DEF Next
<1> QED BY <1>1, <1>2, PTL DEF Spec

(* Every variable has its type, and a client that does not read costs no    *)
(* more than MAX_OUTBOX and one message (conn_send).                        *)
THEOREM TypeCorrect == Spec => []TypeOK
<1>1. IInv => TypeOK
  BY DEF IInv, TypeInv, ClientInv, Bounded, TypeOK
<1> QED BY <1>1, Inductive, PTL

(* No terminal is sent what it cannot apply (push_display, conn_flush,      *)
(* msg_reader_next), however writes are cut and frames refused.             *)
THEOREM Intelligible == Spec => []NeverGarbled
<1>1. IInv => NeverGarbled
  BY DeliveryAssumption DEF IInv, TypeInv, NeverGarbled
<1> QED BY <1>1, Inductive, PTL

(* When nothing is due, what is on its way to each client ends in the       *)
(* picture as it is (push_clients' retry).                                  *)
THEOREM NothingIsOwed == Spec => []NothingOwed
<1>1. IInv => NothingOwed
  <2> SUFFICES ASSUME IInv, ~pending, NEW c \in attached
               PROVE  EndsIn(c) = picture /\ ~force[c]
    BY DEF NothingOwed
  <2>1. Debt(c)
    BY DEF IInv, TypeInv, ClientInv
  <2>2. ~force[c] /\ End(InFlight(c), term[c]) = picture
    BY <2>1 DEF Debt
  <2> QED BY <2>2 DEF EndsIn, End
<1> QED BY <1>1, Inductive, PTL

(* Delivery is a Mirror: no terminal goes back to an older picture, or      *)
(* shows one the session never had.                                         *)
THEOREM Implements == Spec => Mirrors
<1>1. Init => M!Init
  BY DEF Init, M!Init
<1>2. IInv /\ [Next]_vars => [M!Next]_(M!mvars)
  <2> SUFFICES ASSUME IInv, [Next]_vars PROVE [M!Next]_(M!mvars)
    OBVIOUS
  <2>1. CASE Draw
    <3>1. picture' = picture + 1 /\ picture \in Nat /\ UNCHANGED <<attached, term>>
      BY <2>1 DEF Draw, stream, IInv, TypeInv
    <3>2. M!Draw
      BY <3>1 DEF M!Draw
    <3> QED BY <3>2 DEF M!Next
  <2>2. ASSUME NEW c \in Clients, Attach(c) PROVE M!Next
    <3>1. M!Attach(c)
      BY <2>2 DEF Attach, NewStream, M!Attach
    <3> QED BY <3>1 DEF M!Next
  <2>3. ASSUME NEW c \in Clients, Leave(c) PROVE M!Next
    <3>1. M!Leave(c)
      BY <2>3 DEF Leave, NewStream, M!Leave
    <3> QED BY <3>1 DEF M!Next
  <2>4. ASSUME NEW c \in Clients, Show(c) PROVE M!Next
    <3>1. c \in attached /\ \E v \in term[c]..picture : term' = [term EXCEPT ![c] = v]
      BY <2>4, ShowOK
    <3>2. UNCHANGED <<picture, attached>>
      BY <2>4 DEF Show, server
    <3>3. M!Show(c)
      BY <3>1, <3>2 DEF M!Show
    <3> QED BY <3>3 DEF M!Next
  <2>5. CASE Redraw \/ Paint \/ (\E c \in Clients : Resize(c) \/ Drain(c) \/ Read(c)) \/ UNCHANGED vars
    <3>1. UNCHANGED <<picture, attached, term>>
      BY <2>5 DEF Redraw, Paint, Resize, Drain, Read, vars, server, stream
    <3> QED BY <3>1 DEF M!mvars
  <2> QED BY <2>1, <2>2, <2>3, <2>4, <2>5 DEF Next
<1> QED BY <1>1, <1>2, Inductive, PTL DEF Spec, Mirrors, M!Spec
=============================================================================
