---------------------------- MODULE StatusProofs ----------------------------
(***************************************************************************)
(* Proofs about Status, for every set of sequences that say what they mean *)
(* and every bound.                                                        *)
(***************************************************************************)
EXTENDS Status, FiniteSetTheorems, TLAPS

-----------------------------------------------------------------------------
(* Sequences of anything.                                                  *)

IsSeq(s) == \E S : s \in Seq(S)

\* The length of a sequence is a number, and zero for the empty one only.
LEMMA Measured == ASSUME NEW s, IsSeq(s) PROVE Len(s) \in Nat /\ (s = <<>> <=> Len(s) = 0)
BY DEF IsSeq

\* A sequence after another: what is where.
LEMMA Cat ==
  ASSUME NEW s, NEW t, IsSeq(s), IsSeq(t)
  PROVE  /\ IsSeq(s \o t) /\ Len(s \o t) = Len(s) + Len(t)
         /\ \A i \in 1 .. Len(s) : (s \o t)[i] = s[i]
         /\ \A i \in Len(s) + 1 .. Len(s) + Len(t) : (s \o t)[i] = t[i - Len(s)]
<1>1. PICK S : s \in Seq(S)
  BY DEF IsSeq
<1>2. PICK T : t \in Seq(T)
  BY DEF IsSeq
<1>3. s \in Seq(S \cup T) /\ t \in Seq(S \cup T)
  BY <1>1, <1>2
<1>4. s \o t \in Seq(S \cup T)
  BY <1>3
<1> QED BY <1>3, <1>4 DEF IsSeq

\* What is left of a sequence when its head is gone.
LEMMA Rest ==
  ASSUME NEW s, IsSeq(s), s # <<>>
  PROVE  /\ Len(s) \in Nat \ {0} /\ Head(s) = s[1]
         /\ IsSeq(Tail(s)) /\ Len(Tail(s)) = Len(s) - 1
         /\ \A i \in 1 .. Len(s) - 1 : Tail(s)[i] = s[i + 1]
<1>1. PICK S : s \in Seq(S)
  BY DEF IsSeq
<1>2. Tail(s) \in Seq(S)
  BY <1>1
<1> QED BY <1>1, <1>2 DEF IsSeq

\* One more at the end of a sequence.
LEMMA Add ==
  ASSUME NEW s, NEW e, IsSeq(s)
  PROVE  /\ IsSeq(Append(s, e)) /\ Append(s, e) # <<>> /\ Len(Append(s, e)) = Len(s) + 1
         /\ \A i \in 1 .. Len(s) : Append(s, e)[i] = s[i]
         /\ Append(s, e)[Len(s) + 1] = e
<1>1. PICK S : s \in Seq(S)
  BY DEF IsSeq
<1>2. s \in Seq(S \cup {e})
  BY <1>1
<1>3. Append(s, e) \in Seq(S \cup {e})
  BY <1>2
<1> QED BY <1>2, <1>3 DEF IsSeq

\* The first n of a sequence.
LEMMA FirstOnes ==
  ASSUME NEW S, NEW s \in Seq(S), NEW n \in Nat, n <= Len(s)
  PROVE  /\ SubSeq(s, 1, n) \in Seq(S) /\ Len(SubSeq(s, 1, n)) = n
         /\ \A i \in 1 .. n : SubSeq(s, 1, n)[i] = s[i]
<1>1. \A i \in 1 .. n : s[i] \in S
  OBVIOUS
<1>2. SubSeq(s, 1, n) \in Seq(S)
  BY <1>1
<1>3. Len(SubSeq(s, 1, n)) = n
  BY <1>1
<1>4. \A i \in 1 .. n : SubSeq(s, 1, n)[i] = s[i]
  BY <1>1
<1> QED BY <1>2, <1>3, <1>4

-----------------------------------------------------------------------------
(* Hellos on their way: what a program that has asked is still owed.       *)

Hello(x) == Says(x, "verb", "hello")
Ends(x) == x[1] \in {"BEL", "\\"}

(* What lies before the i-th piece of s can still come to an end: while the *)
(* program can write one, and afterwards if there is one in the line.       *)
Due(s, i, open) == open \/ \E j \in i .. Len(s) : Ends(s[j])

(* The hellos of s that can still be answered. *)
Owed(s, open) == {i \in 1 .. Len(s) : Hello(s[i]) /\ Due(s, i, open)}

(* The hello that the scanner holds in its buffer. *)
Caught(sc, s, open) ==
  IF Len(sc.buf) >= 3 /\ Hello(sc.buf[3]) /\ Due(s, 1, open) THEN 1 ELSE 0

\* What is owed can be counted.
LEMMA OwedFinite ==
  ASSUME NEW s, IsSeq(s), NEW open \in BOOLEAN
  PROVE  IsFiniteSet(Owed(s, open)) /\ Cardinality(Owed(s, open)) \in Nat
<1>1. IsFiniteSet(1 .. Len(s))
  BY Measured, FS_Interval
<1>2. IsFiniteSet(Owed(s, open))
  BY <1>1, FS_Subset DEF Owed
<1> QED BY <1>2, FS_CardinalityType

\* Reading a piece takes it off what is owed, and adds nothing.
LEMMA OwedRead ==
  ASSUME NEW s, IsSeq(s), s # <<>>, NEW open \in BOOLEAN
  PROVE  Cardinality(Owed(Tail(s), open)) + (IF 1 \in Owed(s, open) THEN 1 ELSE 0)
           <= Cardinality(Owed(s, open))
<1> DEFINE T == Owed(Tail(s), open)
           S == Owed(s, open)
           f == [i \in T |-> i + 1]
<1>1. Len(s) \in Nat \ {0} /\ IsSeq(Tail(s)) /\ Len(Tail(s)) = Len(s) - 1
      /\ \A i \in 1 .. Len(s) - 1 : Tail(s)[i] = s[i + 1]
  BY Rest
<1>2. IsFiniteSet(S) /\ Cardinality(S) \in Nat /\ IsFiniteSet(T) /\ Cardinality(T) \in Nat
  BY <1>1, OwedFinite
<1>3. ASSUME NEW i \in T PROVE i + 1 \in S \ {1}
  <2>1. i \in 1 .. Len(s) - 1 /\ Hello(s[i + 1])
    BY <1>1, <1>3 DEF Owed
  <2>2. open \/ \E j \in i .. Len(s) - 1 : Ends(s[j + 1])
    BY <1>1, <1>3 DEF Owed, Due
  <2>3. open \/ \E j \in i + 1 .. Len(s) : Ends(s[j])
    BY <1>1, <2>1, <2>2
  <2> QED BY <1>1, <2>1, <2>3 DEF Owed, Due
<1>4. T \subseteq Int
  BY <1>1 DEF Owed
<1> HIDE DEF T, S
<1>5. f \in Injection(T, S \ {1})
  BY <1>3, <1>4 DEF Injection, IsInjective
<1>6. IsFiniteSet(S \ {1})
      /\ Cardinality(S \ {1}) = IF 1 \in S THEN Cardinality(S) - 1 ELSE Cardinality(S)
  BY <1>2, FS_RemoveElement
<1>7. Cardinality(T) <= Cardinality(S \ {1})
  BY <1>2, <1>5, <1>6, FS_Injection
<1> QED BY <1>2, <1>6, <1>7 DEF T, S

\* An answer echoed into the line of a program that runs asks for nothing.
LEMMA OwedEcho ==
  ASSUME NEW s, NEW w, IsSeq(s), IsSeq(w), NEW open \in BOOLEAN, open \/ w = <<>>,
         \A i \in 1 .. Len(w) : ~Hello(w[i])
  PROVE  Owed(s \o w, open) = Owed(s, open)
<1>1. Len(s) \in Nat /\ Len(w) \in Nat /\ (w = <<>> => Len(w) = 0)
  BY Measured
<1>2. /\ Len(s \o w) = Len(s) + Len(w)
      /\ \A i \in 1 .. Len(s) : (s \o w)[i] = s[i]
      /\ \A i \in Len(s) + 1 .. Len(s) + Len(w) : (s \o w)[i] = w[i - Len(s)]
  BY Cat
<1>3. CASE open
  <2>1. ASSUME NEW i \in 1 .. Len(s) + Len(w), Hello((s \o w)[i]) PROVE i \in 1 .. Len(s)
    <3>1. CASE i \in Len(s) + 1 .. Len(s) + Len(w)
      BY <1>1, <1>2, <2>1, <3>1
    <3> QED BY <1>1, <3>1
  <2> QED BY <1>1, <1>2, <1>3, <2>1 DEF Owed, Due
<1>4. CASE w = <<>>
  <2>1. Len(s \o w) = Len(s)
    BY <1>1, <1>2, <1>4
  <2>2. \A i, j \in 1 .. Len(s) : Ends((s \o w)[j]) = Ends(s[j]) /\ Hello((s \o w)[i]) = Hello(s[i])
    BY <1>2
  <2> QED BY <1>1, <2>1, <2>2 DEF Owed, Due
<1> QED BY <1>3, <1>4

\* A sequence adds at most the hello it asks for.
LEMMA OwedWritten ==
  ASSUME NEW s, IsSeq(s), NEW g \in Gestures, SaysWhatItMeans(g.writes, g.means)
  PROVE  Cardinality(Owed(s \o g.writes, TRUE)) <= Cardinality(Owed(s, TRUE)) + Asks(g)
<1> DEFINE w == g.writes
           S == Owed(s, TRUE)
           T == Owed(s \o w, TRUE)
<1>1. IsSeq(w) /\ Len(s) \in Nat /\ Len(w) \in Nat
  BY Measured DEF IsSeq, SaysWhatItMeans
<1>2. /\ IsSeq(s \o w) /\ Len(s \o w) = Len(s) + Len(w)
      /\ \A i \in 1 .. Len(s) : (s \o w)[i] = s[i]
      /\ \A i \in Len(s) + 1 .. Len(s) + Len(w) : (s \o w)[i] = w[i - Len(s)]
  BY <1>1, Cat
<1>3. IsFiniteSet(S) /\ Cardinality(S) \in Nat
  BY OwedFinite
<1>4. \A k \in 1 .. Len(w) : Hello(w[k]) =>
        Asks(g) = 1 /\ \A j \in 1 .. Len(w) : Hello(w[j]) => j = k
  BY DEF SaysWhatItMeans, Hello, Asks
<1>5. Asks(g) \in Nat
  BY DEF Asks
<1>6. ASSUME NEW i \in T, i \notin S PROVE i - Len(s) \in 1 .. Len(w) /\ Hello(w[i - Len(s)])
  <2>1. i \in 1 .. Len(s) + Len(w) /\ Hello((s \o w)[i])
    BY <1>2, <1>6 DEF Owed, Due
  <2>2. i \notin 1 .. Len(s)
    BY <1>2, <1>6, <2>1 DEF Owed, Due
  <2>3. i \in Len(s) + 1 .. Len(s) + Len(w)
    BY <1>1, <2>1, <2>2
  <2> QED BY <1>1, <1>2, <2>1, <2>3
<1> HIDE DEF w, S, T
<1>7. CASE T \subseteq S
  <2>1. Cardinality(T) <= Cardinality(S) /\ Cardinality(T) \in Nat
    BY <1>3, <1>7, FS_Subset, FS_CardinalityType
  <2>2. Cardinality(T) <= Cardinality(S) + Asks(g)
    BY <1>3, <1>5, <2>1
  <2> QED BY <2>2 DEF S, T, w
<1>8. ASSUME NEW i \in T, i \notin S PROVE Cardinality(T) <= Cardinality(S) + 1 /\ Asks(g) = 1
  <2>1. T \subseteq S \cup {i}
    <3> SUFFICES ASSUME NEW j \in T, j \notin S PROVE j = i
      OBVIOUS
    <3>1. i - Len(s) = j - Len(s)
      BY <1>4, <1>6, <1>8
    <3>2. i \in Int /\ j \in Int
      BY <1>2 DEF T, Owed, w, Due
    <3> QED BY <1>1, <3>1, <3>2
  <2>2. IsFiniteSet(S \cup {i})
        /\ Cardinality(S \cup {i}) = IF i \in S THEN Cardinality(S) ELSE Cardinality(S) + 1
    BY <1>3, FS_AddElement
  <2>3. Cardinality(T) <= Cardinality(S \cup {i})
    BY <2>1, <2>2, FS_Subset
  <2> QED BY <1>3, <1>4, <1>6, <1>8, <2>2, <2>3
<1>9. CASE ~(T \subseteq S)
  BY <1>8, <1>9 DEF S, T, w
<1> QED BY <1>7, <1>9

\* A sequence that is cut short completes nothing: what is owed afterwards was
\* owed before.
LEMMA OwedCut ==
  ASSUME NEW s, NEW w, IsSeq(s), IsSeq(w), \A i \in 1 .. Len(w) : ~Ends(w[i])
  PROVE  Cardinality(Owed(s \o w, FALSE)) <= Cardinality(Owed(s, TRUE))
<1>1. Len(s) \in Nat /\ Len(w) \in Nat
  BY Measured
<1>2. /\ Len(s \o w) = Len(s) + Len(w)
      /\ \A i \in 1 .. Len(s) : (s \o w)[i] = s[i]
      /\ \A i \in Len(s) + 1 .. Len(s) + Len(w) : (s \o w)[i] = w[i - Len(s)]
  BY Cat
<1>3. Owed(s \o w, FALSE) \subseteq Owed(s, TRUE)
  <2> SUFFICES ASSUME NEW i \in Owed(s \o w, FALSE) PROVE i \in Owed(s, TRUE)
    OBVIOUS
  <2>1. i \in 1 .. Len(s) + Len(w) /\ Hello((s \o w)[i])
    BY <1>2 DEF Owed, Due
  <2>2. PICK j \in i .. Len(s) + Len(w) : Ends((s \o w)[j])
    BY <1>2 DEF Owed, Due
  <2>3. j \in 1 .. Len(s)
    <3>1. CASE j \in Len(s) + 1 .. Len(s) + Len(w)
      BY <1>1, <1>2, <2>1, <2>2, <3>1
    <3> QED BY <1>1, <2>1, <3>1
  <2>4. i \in 1 .. Len(s)
    BY <1>1, <2>1, <2>2, <2>3
  <2> QED BY <1>2, <2>1, <2>4 DEF Owed, Due
<1> QED BY <1>3, OwedFinite, FS_Subset

-----------------------------------------------------------------------------
(* The line and the scanner: what a piece may be followed by.              *)

(* A list of buttons that this run has asked for. *)
Announced(f, t) == \E k \in 1 .. Len(t) : t[k] = <<"verb", "buttons", f>>

Pair(x, y, t, due) ==
  /\ Says(x, "version", "1") => y[1] = "verb"
  /\ Says(x, "verb", "buttons") => y[1] = "payload" /\ (due => Announced(y[2], t))

(* Nothing has to follow. *)
Settled(x) == ~Says(x, "version", "1") /\ ~Says(x, "verb", "buttons")

Stated(x) == x[1] = "state" => x[2] \in States \cup {"clear"}

(* The pieces in the line p of a program that runs or not, one by one. *)
LineGood(p, t, open) ==
  /\ IsSeq(p)
  /\ \A i \in 1 .. Len(p) : Stated(p[i])
  /\ \A i \in 1 .. Len(p) - 1 : Pair(p[i], p[i + 1], t, Due(p, i, open))
  /\ open /\ p # <<>> => Settled(p[Len(p)])

(* The scanner's buffer, before the line p. *)
ScanGood(sc, p, t, open) ==
  /\ sc = Scanner(sc.at, sc.buf, sc.overflow)
  /\ sc.at \in {"ground", "esc", "body", "bodyesc"}
  /\ sc.at \in {"ground", "esc"} => sc.buf = <<>>
  /\ IsSeq(sc.buf)
  /\ \A i \in 1 .. Len(sc.buf) : Stated(sc.buf[i])
  /\ \A i \in 1 .. Len(sc.buf) - 1 : Pair(sc.buf[i], sc.buf[i + 1], t, Due(p, 1, open))

(* Where the buffer ends and the line begins. *)
Joined(sc, p, t, open) ==
  sc.buf # <<>> =>
    /\ sc.at = "body" /\ p # <<>> => Pair(sc.buf[Len(sc.buf)], p[1], t, Due(p, 1, open))
    /\ sc.at = "body" /\ p = <<>> /\ open => Settled(sc.buf[Len(sc.buf)])
    /\ sc.at = "bodyesc" => Settled(sc.buf[Len(sc.buf)])

Wire(sc, p, t, open) == LineGood(p, t, open) /\ ScanGood(sc, p, t, open) /\ Joined(sc, p, t, open)

\* A scanner that holds nothing is at the start of anything.
LEMMA Emptied ==
  ASSUME NEW p, NEW t, NEW open \in BOOLEAN, LineGood(p, t, open),
         NEW at \in {"ground", "esc", "body", "bodyesc"}, NEW o
  PROVE  Wire(Scanner(at, <<>>, o), p, t, open)
<1>1. Len(<<>>) = 0 /\ <<>> \in Seq({})
  OBVIOUS
<1>2. IsSeq(<<>>)
  BY <1>1 DEF IsSeq
<1> DEFINE sc == Scanner(at, <<>>, o)
<1>3. sc.at = at /\ sc.buf = <<>> /\ sc.overflow = o /\ sc = Scanner(sc.at, sc.buf, sc.overflow)
  BY DEF Scanner
<1> HIDE DEF sc
<1>4. ScanGood(sc, p, t, open) /\ Joined(sc, p, t, open)
  BY <1>1, <1>2, <1>3 DEF ScanGood, Joined
<1> QED BY <1>4 DEF Wire, sc

\* The rest of a good line is good.
LEMMA LineRead ==
  ASSUME NEW p, NEW t, NEW open \in BOOLEAN, LineGood(p, t, open), p # <<>>
  PROVE  /\ LineGood(Tail(p), t, open)
         /\ \A i \in 1 .. Len(p) - 1 : Due(Tail(p), i, open) => Due(p, i + 1, open) /\ Due(p, i, open)
         /\ Due(Tail(p), 1, open) => Due(p, 1, open)
         /\ Tail(p) # <<>> => Pair(p[1], Tail(p)[1], t, Due(Tail(p), 1, open))
         /\ Tail(p) = <<>> /\ open => Settled(p[1])
<1>1. Len(p) \in Nat \ {0} /\ IsSeq(Tail(p)) /\ Len(Tail(p)) = Len(p) - 1
      /\ \A i \in 1 .. Len(p) - 1 : Tail(p)[i] = p[i + 1]
  BY Rest DEF LineGood
<1>2. Tail(p) = <<>> <=> Len(p) = 1
  <2>1. Tail(p) = <<>> <=> Len(Tail(p)) = 0
    BY <1>1, Measured
  <2> QED BY <1>1, <2>1
<1>3. ASSUME NEW i \in Nat \ {0}, Due(Tail(p), i, open) PROVE Due(p, i + 1, open) /\ Due(p, i, open)
  <2>1. CASE open
    BY <2>1 DEF Due
  <2>2. CASE \E j \in i .. Len(p) - 1 : Ends(p[j + 1])
    <3>1. PICK j \in i .. Len(p) - 1 : Ends(p[j + 1])
      BY <2>2
    <3>2. j + 1 \in i + 1 .. Len(p) /\ j + 1 \in i .. Len(p)
      BY <1>1
    <3> QED BY <3>1, <3>2 DEF Due
  <2> QED BY <1>1, <1>3, <2>1, <2>2 DEF Due
<1>4. ASSUME Tail(p) # <<>> PROVE Pair(p[1], Tail(p)[1], t, Due(Tail(p), 1, open))
  <2>1. Pair(p[1], p[2], t, Due(p, 1, open)) /\ Tail(p)[1] = p[2]
    BY <1>1, <1>2, <1>4 DEF LineGood
  <2>2. Due(Tail(p), 1, open) => Due(p, 1, open)
    BY <1>3
  <2> QED BY <2>1, <2>2 DEF Pair
<1>5. ASSUME NEW i \in 1 .. Len(Tail(p)) - 1
      PROVE  Pair(Tail(p)[i], Tail(p)[i + 1], t, Due(Tail(p), i, open))
  <2>1. Pair(p[i + 1], p[i + 2], t, Due(p, i + 1, open))
        /\ Tail(p)[i] = p[i + 1] /\ Tail(p)[i + 1] = p[i + 2]
    BY <1>1 DEF LineGood
  <2> QED BY <1>1, <1>3, <2>1 DEF Pair
<1>6. \A i \in 1 .. Len(Tail(p)) : Stated(Tail(p)[i])
  BY <1>1 DEF LineGood
<1>7. open /\ Tail(p) # <<>> => Settled(Tail(p)[Len(Tail(p))])
  BY <1>1, <1>2 DEF LineGood
<1>8. LineGood(Tail(p), t, open)
  BY <1>1, <1>5, <1>6, <1>7 DEF LineGood
<1>9. Tail(p) = <<>> /\ open => Settled(p[1])
  BY <1>2 DEF LineGood
<1> QED BY <1>1, <1>3, <1>4, <1>8, <1>9

\* What a piece does to the scanner: it empties it, or it is in a body and
\* stays in it.
LEMMA ScanKinds ==
  ASSUME NEW sc, NEW x, sc = Scanner(sc.at, sc.buf, sc.overflow),
         sc.at \in {"ground", "esc", "body", "bodyesc"},
         sc.at \in {"ground", "esc"} => sc.buf = <<>>
  PROVE  \/ \E at \in {"ground", "esc", "body", "bodyesc"} : \E o :
              Scan(sc, x).scan = Scanner(at, <<>>, o)
         \/ /\ sc.at = "body" /\ x[1] = "ESC"
            /\ Scan(sc, x).scan = Scanner("bodyesc", sc.buf, sc.overflow)
         \/ /\ sc.at = "body" /\ x[1] = "huge"
            /\ Scan(sc, x).scan = Scanner("body", sc.buf, TRUE)
         \/ /\ sc.at = "body"
            /\ Scan(sc, x).scan = Scanner("body", Append(sc.buf, x), sc.overflow)
<1>1. CASE sc.at = "ground"
  <2>1. Scan(sc, x).scan = IF x[1] = "ESC" THEN Scanner("esc", <<>>, FALSE) ELSE sc
    BY <1>1 DEF Scan, Goes
  <2>2. sc = Scanner("ground", <<>>, sc.overflow)
    BY <1>1
  <2> QED BY <2>1, <2>2
<1>2. CASE sc.at = "body"
  <2>1. Scan(sc, x) = InBody(sc, x)
    BY <1>2 DEF Scan
  <2>2. CASE x[1] = "BEL"
    <3>1. Scan(sc, x) = Finish(sc)
      BY <2>1, <2>2 DEF InBody
    <3>2. Finish(sc).scan = Scanner("ground", <<>>, FALSE)
      BY Zenon DEF Finish, Ground
    <3> QED BY <3>1, <3>2
  <2>3. CASE x[1] = "ESC"
    BY <1>2, <2>1, <2>3 DEF InBody, Goes, Scanner
  <2>4. CASE x[1] = "CTL"
    <3>1. Scan(sc, x) = Goes(Ground)
      BY <2>1, <2>4 DEF InBody
    <3>2. Goes(Ground).scan = Scanner("ground", <<>>, FALSE)
      BY Zenon DEF Goes, Ground
    <3> QED BY <3>1, <3>2
  <2>5. CASE x[1] = "huge"
    <3>1. Scan(sc, x) = Goes([sc EXCEPT !.overflow = TRUE])
      BY <2>1, <2>5 DEF InBody
    <3>2. \A o : [sc EXCEPT !.overflow = o] = Scanner("body", sc.buf, o)
      BY <1>2 DEF Scanner
    <3>3. Goes([sc EXCEPT !.overflow = TRUE]).scan = Scanner("body", sc.buf, TRUE)
      BY <3>2, Zenon DEF Goes
    <3> QED BY <1>2, <2>5, <3>1, <3>3
  <2>6. CASE x[1] \notin {"BEL", "ESC", "CTL", "huge"}
    <3>1. Scan(sc, x).scan = [sc EXCEPT !.buf = Append(@, x)]
      BY <2>1, <2>6 DEF InBody, Goes
    <3>2. [sc EXCEPT !.buf = Append(@, x)] = Scanner("body", Append(sc.buf, x), sc.overflow)
      BY <1>2 DEF Scanner
    <3> QED BY <1>2, <3>1, <3>2
  <2> QED BY <2>2, <2>3, <2>4, <2>5, <2>6
<1>3. CASE sc.at \in {"esc", "bodyesc"}
  <2>1. Scan(sc, x) = AfterEsc(sc, x[1])
    BY <1>3 DEF Scan
  <2>2. CASE x[1] = "]"
    <3>1. Scan(sc, x) = Goes(Body)
      BY <2>1, <2>2 DEF AfterEsc
    <3>2. Goes(Body).scan = Scanner("body", <<>>, FALSE)
      BY Zenon DEF Goes, Body
    <3> QED BY <3>1, <3>2
  <2>3. CASE x[1] = "c"
    <3>1. Scan(sc, x) = Resets
      BY <2>1, <2>3 DEF AfterEsc
    <3>2. Resets.scan = Scanner("ground", <<>>, FALSE)
      BY Zenon DEF Resets, Ground
    <3> QED BY <3>1, <3>2
  <2>4. CASE x[1] = "\\" /\ sc.at = "bodyesc"
    <3>1. Scan(sc, x) = Finish(sc)
      BY <2>1, <2>4 DEF AfterEsc
    <3>2. Finish(sc).scan = Scanner("ground", <<>>, FALSE)
      BY Zenon DEF Finish, Ground
    <3> QED BY <3>1, <3>2
  <2>5. CASE x[1] = "ESC" /\ sc.at = "esc"
    <3>1. Scan(sc, x).scan = sc /\ sc = Scanner("esc", <<>>, sc.overflow)
      BY <2>1, <2>5 DEF AfterEsc, Goes
    <3> QED BY <3>1
  <2>6. CASE /\ x[1] # "]" /\ x[1] # "c" /\ ~(x[1] = "\\" /\ sc.at = "bodyesc")
             /\ ~(x[1] = "ESC" /\ sc.at = "esc")
    <3>1. AfterEsc(sc, x[1]) = Goes(Ground)
      BY <2>6 DEF AfterEsc
    <3>2. Scan(sc, x).scan = Scanner("ground", <<>>, FALSE)
      BY <2>1, <3>1 DEF Goes, Ground
    <3> QED BY <3>2
  <2> QED BY <2>2, <2>3, <2>4, <2>5, <2>6
<1> QED BY <1>1, <1>2, <1>3

\* Reading a piece keeps the wire good, wherever reads cut it.
LEMMA WireRead ==
  ASSUME NEW sc, NEW p, NEW t, NEW open \in BOOLEAN, Wire(sc, p, t, open), p # <<>>
  PROVE  Wire(Scan(sc, Head(p)).scan, Tail(p), t, open)
<1> DEFINE x == Head(p)
           q == Tail(p)
<1>1. /\ LineGood(q, t, open)
      /\ Due(q, 1, open) => Due(p, 1, open)
      /\ q # <<>> => Pair(x, q[1], t, Due(q, 1, open))
      /\ q = <<>> /\ open => Settled(x)
      /\ Len(p) \in Nat \ {0} /\ Head(p) = p[1]
  BY LineRead, Rest DEF Wire, LineGood
<1>2. Stated(x)
  BY <1>1 DEF Wire, LineGood
<1>3. /\ sc = Scanner(sc.at, sc.buf, sc.overflow)
      /\ sc.at \in {"ground", "esc", "body", "bodyesc"}
      /\ sc.at \in {"ground", "esc"} => sc.buf = <<>>
      /\ IsSeq(sc.buf) /\ Len(sc.buf) \in Nat /\ (sc.buf = <<>> <=> Len(sc.buf) = 0)
      /\ \A i \in 1 .. Len(sc.buf) : Stated(sc.buf[i])
      /\ \A i \in 1 .. Len(sc.buf) - 1 : Pair(sc.buf[i], sc.buf[i + 1], t, Due(p, 1, open))
  BY Measured DEF Wire, ScanGood
<1>4. sc.buf # <<>> /\ sc.at = "body" => Pair(sc.buf[Len(sc.buf)], x, t, Due(p, 1, open))
  BY <1>1 DEF Wire, Joined
<1>5. \A i \in 1 .. Len(sc.buf) - 1 : Pair(sc.buf[i], sc.buf[i + 1], t, Due(q, 1, open))
  BY <1>1, <1>3 DEF Pair
<1> HIDE DEF x, q
<1>6. CASE \E at \in {"ground", "esc", "body", "bodyesc"} : \E o : Scan(sc, x).scan = Scanner(at, <<>>, o)
  BY <1>1, <1>6, Emptied DEF x, q
<1>7. ASSUME sc.at = "body", x[1] \in {"ESC", "huge"}, NEW at \in {"body", "bodyesc"}, NEW o
      PROVE  Wire(Scanner(at, sc.buf, o), q, t, open)
  <2> DEFINE r == Scanner(at, sc.buf, o)
  <2>1. r.at = at /\ r.buf = sc.buf /\ r.overflow = o /\ r = Scanner(r.at, r.buf, r.overflow)
    BY DEF Scanner
  <2> HIDE DEF r
  <2>2. sc.buf # <<>> => Settled(sc.buf[Len(sc.buf)])
    BY <1>4, <1>7 DEF Pair, Settled
  <2>3. ScanGood(r, q, t, open)
    BY <1>3, <1>5, <2>1 DEF ScanGood
  <2>4. Joined(r, q, t, open)
    BY <2>1, <2>2 DEF Joined, Pair, Settled
  <2> QED BY <1>1, <2>3, <2>4 DEF Wire, r
<1>8. ASSUME sc.at = "body", NEW o
      PROVE  Wire(Scanner("body", Append(sc.buf, x), o), q, t, open)
  <2> DEFINE b == Append(sc.buf, x)
             r == Scanner("body", b, o)
  <2>1. /\ IsSeq(b) /\ b # <<>> /\ Len(b) = Len(sc.buf) + 1
        /\ \A i \in 1 .. Len(sc.buf) : b[i] = sc.buf[i]
        /\ b[Len(sc.buf) + 1] = x
    BY <1>3, Add
  <2> HIDE DEF b
  <2>2. r.at = "body" /\ r.buf = b /\ r.overflow = o /\ r = Scanner(r.at, r.buf, r.overflow)
    BY DEF Scanner
  <2> HIDE DEF r
  <2>3. \A i \in 1 .. Len(b) : Stated(b[i])
    BY <1>2, <1>3, <2>1
  <2>4. ASSUME NEW i \in 1 .. Len(b) - 1 PROVE Pair(b[i], b[i + 1], t, Due(q, 1, open))
    <3>1. CASE i = Len(sc.buf)
      <4>1. b[i] = sc.buf[Len(sc.buf)] /\ b[i + 1] = x /\ sc.buf # <<>>
        BY <1>3, <2>1, <2>4, <3>1
      <4>2. Pair(b[i], b[i + 1], t, Due(p, 1, open))
        BY <1>4, <1>8, <4>1
      <4> QED BY <1>1, <4>2 DEF Pair
    <3>2. CASE i # Len(sc.buf)
      BY <1>3, <1>5, <2>1, <2>4, <3>2
    <3> QED BY <3>1, <3>2
  <2>5. ScanGood(r, q, t, open)
    BY <2>1, <2>2, <2>3, <2>4 DEF ScanGood
  <2>6. Joined(r, q, t, open)
    BY <1>1, <1>3, <2>1, <2>2 DEF Joined
  <2> QED BY <1>1, <2>5, <2>6 DEF Wire, r, b
<1> QED BY <1>3, <1>6, <1>7, <1>8, ScanKinds DEF x, q

\* The wire stays good when more has been told.
LEMMA WireTold ==
  ASSUME NEW sc, NEW p, NEW t, NEW open \in BOOLEAN, NEW m, Wire(sc, p, t, open), IsSeq(t)
  PROVE  Wire(sc, p, Append(t, m), open)
<1>1. ASSUME NEW x, NEW y, NEW due, Pair(x, y, t, due) PROVE Pair(x, y, Append(t, m), due)
  <2>1. \A f : Announced(f, t) => Announced(f, Append(t, m))
    BY Add, Measured DEF Announced
  <2> QED BY <1>1, <2>1 DEF Pair
<1> QED BY <1>1 DEF Wire, LineGood, ScanGood, Joined

\* A good line after a good line is one.
LEMMA LineCat ==
  ASSUME NEW p, NEW t, NEW w, NEW open \in BOOLEAN, NEW was \in BOOLEAN, was,
         LineGood(p, t, was),
         LineGood(w, t, open), w # <<>>
  PROVE  /\ LineGood(p \o w, t, open) /\ p \o w # <<>>
         /\ p # <<>> => (p \o w)[1] = p[1]
<1> DEFINE r == p \o w
<1>1. /\ IsSeq(p) /\ IsSeq(w) /\ Len(p) \in Nat /\ Len(w) \in Nat \ {0}
      /\ (p = <<>> <=> Len(p) = 0)
  BY Measured DEF LineGood
<1>2. /\ IsSeq(r) /\ Len(r) = Len(p) + Len(w)
      /\ \A i \in 1 .. Len(p) : r[i] = p[i]
      /\ \A i \in Len(p) + 1 .. Len(p) + Len(w) : r[i] = w[i - Len(p)]
  BY <1>1, Cat
<1>3. r # <<>>
  BY <1>1, <1>2, Measured
<1> HIDE DEF r
<1>4. ASSUME NEW i \in 1 .. Len(r) PROVE Stated(r[i])
  <2>1. CASE i \in 1 .. Len(p)
    BY <1>2, <2>1 DEF LineGood
  <2>2. CASE i \in Len(p) + 1 .. Len(p) + Len(w)
    <3>1. i - Len(p) \in 1 .. Len(w)
      BY <1>1, <2>2
    <3> QED BY <1>2, <2>2, <3>1 DEF LineGood
  <2> QED BY <1>1, <1>2, <2>1, <2>2
<1>5. ASSUME NEW i \in 1 .. Len(r) - 1 PROVE Pair(r[i], r[i + 1], t, Due(r, i, open))
  <2>1. CASE i \in 1 .. Len(p) - 1
    <3>1. r[i] = p[i] /\ r[i + 1] = p[i + 1]
      BY <1>1, <1>2, <2>1
    <3>2. Pair(p[i], p[i + 1], t, Due(p, i, was))
      BY <2>1 DEF LineGood
    <3> QED BY <3>1, <3>2 DEF Pair, Due
  <2>2. CASE i = Len(p)
    <3>1. Settled(r[i])
      BY <1>1, <1>2, <1>5, <2>2 DEF LineGood
    <3> QED BY <3>1 DEF Settled, Pair
  <2>3. CASE i \in Len(p) + 1 .. Len(p) + Len(w) - 1
    <3>1. /\ i - Len(p) \in 1 .. Len(w) - 1
          /\ r[i] = w[i - Len(p)] /\ r[i + 1] = w[(i - Len(p)) + 1]
      BY <1>1, <1>2, <2>3
    <3>2. Pair(r[i], r[i + 1], t, Due(w, i - Len(p), open))
      BY <3>1 DEF LineGood
    <3>3. Due(r, i, open) => Due(w, i - Len(p), open)
      <4>1. ASSUME NEW j \in i .. Len(r), Ends(r[j]) PROVE \E l \in i - Len(p) .. Len(w) : Ends(w[l])
        <5>1. j - Len(p) \in i - Len(p) .. Len(w) /\ r[j] = w[j - Len(p)]
          BY <1>1, <1>2, <2>3
        <5> QED BY <4>1, <5>1
      <4> QED BY <4>1 DEF Due
    <3> QED BY <3>2, <3>3 DEF Pair
  <2> QED BY <1>1, <1>2, <2>1, <2>2, <2>3
<1>6. open => Settled(r[Len(r)])
  <2>1. Len(r) \in Len(p) + 1 .. Len(p) + Len(w) /\ r[Len(r)] = w[Len(w)]
    BY <1>1, <1>2
  <2> QED BY <2>1 DEF LineGood
<1>7. LineGood(r, t, open)
  BY <1>2, <1>4, <1>5, <1>6 DEF LineGood
<1>8. p # <<>> => r[1] = p[1]
  BY <1>1, <1>2
<1> QED BY <1>3, <1>7, <1>8 DEF r

\* Writing a good line after what is in the line.
LEMMA WireWrite ==
  ASSUME NEW sc, NEW p, NEW t, NEW w, NEW open \in BOOLEAN, NEW was \in BOOLEAN, was,
         Wire(sc, p, t, was),
         LineGood(w, t, open), w # <<>>
  PROVE  Wire(sc, p \o w, t, open)
<1> DEFINE r == p \o w
<1>1. LineGood(r, t, open) /\ r # <<>> /\ (p # <<>> => r[1] = p[1])
  <2>1. LineGood(p, t, was)
    BY DEF Wire
  <2>2. LineGood(p \o w, t, open)
    BY <2>1, LineCat
  <2>3. p \o w # <<>>
    BY <2>1, LineCat
  <2>4. p # <<>> => (p \o w)[1] = p[1]
    BY <2>1, LineCat
  <2> QED BY <2>2, <2>3, <2>4
<1> HIDE DEF r
<1>2. ScanGood(sc, r, t, open)
  <2>1. ScanGood(sc, p, t, was)
    BY DEF Wire
  <2> QED BY <2>1 DEF ScanGood, Pair, Due
<1>3. Joined(sc, r, t, open)
  <2> SUFFICES ASSUME sc.buf # <<>> PROVE
        /\ sc.at = "body" => Pair(sc.buf[Len(sc.buf)], r[1], t, Due(r, 1, open))
        /\ sc.at = "bodyesc" => Settled(sc.buf[Len(sc.buf)])
    BY <1>1 DEF Joined
  <2>1. CASE p = <<>>
    BY <2>1 DEF Wire, Joined, Settled, Pair
  <2>2. CASE p # <<>>
    BY <1>1, <2>2 DEF Wire, Joined, Pair, Due
  <2> QED BY <2>1, <2>2
<1> QED BY <1>1, <1>2, <1>3 DEF Wire, r

-----------------------------------------------------------------------------
(* The slot: its records, and what is composed of them.                    *)

\* A set of numbers with a bound has a greatest and a least member.
LEMMA Extremes ==
  ASSUME NEW S, NEW n \in Nat, S \subseteq 0 .. n, S # {}
  PROVE  (\E x \in S : \A y \in S : x >= y) /\ (\E x \in S : \A y \in S : x <= y)
<1>1. ASSUME NEW T \in SUBSET Nat, T # {} PROVE \E x \in T : \A y \in T : x <= y
  <2>1. PICK x \in T : \A y \in T : ~(<<y, x>> \in OpToRel(<, Nat))
    BY <1>1, WFMin, NatLessThanWellFounded
  <2>2. ASSUME NEW y \in T PROVE x <= y
    <3>1. ~(y < x)
      BY <2>1 DEF OpToRel
    <3> QED BY <3>1
  <2> QED BY <2>2
<1>2. \E x \in S : \A y \in S : x <= y
  BY <1>1
<1>3. \E x \in S : \A y \in S : x >= y
  <2> DEFINE T == {n - x : x \in S}
  <2>0. \A x \in S : n - x \in Nat
    OBVIOUS
  <2>1. T \in SUBSET Nat /\ T # {}
    BY <2>0
  <2>2. PICK a \in T : \A b \in T : a <= b
    BY <1>1, <2>1
  <2>3. PICK x \in S : a = n - x
    OBVIOUS
  <2>4. \A y \in S : n - x <= n - y
    BY <2>2, <2>3
  <2> QED BY <2>4
<1> QED BY <1>2, <1>3

IsReport(r) ==
  r \in [id : {r.id}, state : {r.state}, kind : {r.kind}, progress : {r.progress},
         app : {r.app}, title : {r.title}, msg : {r.msg}]

IsSlot(p) ==
  p \in [recs : {p.recs}, clock : Nat, status : {p.status}, busy : BOOLEAN,
         showing : BOOLEAN, show : {p.show}, buttons : {p.buttons}]

(* No more records than there is room for, one for an id, no two written at *)
(* once.                                                                   *)
RecsGood(recs, clock) ==
  /\ IsFiniteSet(recs) /\ Cardinality(recs) <= PsMax
  /\ \A x \in recs : IsReport(x.rep) /\ x.rep.state \in States /\ x.seen \in 1 .. clock
  /\ \A x, y \in recs : x.rep.id = y.rep.id \/ x.seen = y.seen => x = y

(* What the slot shows is a record that is held and none wants it more. *)
Agrees(p) ==
  /\ p.showing = (p.recs # {})
  /\ p.showing =>
       /\ \E x \in p.recs :
            /\ [p.show EXCEPT !.app = x.rep.app] = x.rep
            /\ x.rep.app # "" => p.show.app = x.rep.app
            /\ \A y \in p.recs : Rank[y.rep.state] <= Rank[x.rep.state]
       /\ p.status = Line(p.show)
       /\ p.busy = Busy(p.show)

SlotGood(p) == IsSlot(p) /\ RecsGood(p.recs, p.clock) /\ Agrees(p)

\* Every state that is reported has a rank.
LEMMA Ranked == \A s \in States : Rank[s] \in 1 .. 5
BY DEF Rank, States

\* Of records that are held there is one that no other is over.
LEMMA Best ==
  ASSUME NEW recs, NEW clock \in Nat, RecsGood(recs, clock), recs # {}
  PROVE  \E x \in recs : \A y \in recs : Over(x, y)
<1> DEFINE ranks == {Rank[x.rep.state] : x \in recs}
<1>1. ranks \subseteq 0 .. 5 /\ ranks # {}
  BY Ranked DEF RecsGood
<1>2. PICK top \in ranks : \A r \in ranks : top >= r
  BY <1>1, Extremes
<1> DEFINE first == {x \in recs : Rank[x.rep.state] = top}
           times == {x.seen : x \in first}
<1>3. times \subseteq 0 .. clock /\ times # {}
  BY DEF RecsGood
<1>4. PICK late \in times : \A r \in times : late >= r
  BY <1>3, Extremes
<1>5. PICK x \in first : x.seen = late
  OBVIOUS
<1>6. ASSUME NEW y \in recs PROVE Over(x, y)
  <2>1. Rank[x.rep.state] = top /\ Rank[y.rep.state] \in Int /\ top >= Rank[y.rep.state] /\ top \in Int
    BY <1>1, <1>2
  <2>2. CASE Rank[y.rep.state] = top
    <3>1. late >= y.seen
      BY <1>4, <2>2
    <3> QED BY <1>5, <2>1, <2>2, <3>1 DEF Over
  <2> QED BY <2>1, <2>2 DEF Over
<1> QED BY <1>6

\* Records that are left are as good as all of them.
LEMMA Fewer ==
  ASSUME NEW recs, NEW clock, RecsGood(recs, clock), NEW left, left \subseteq recs
  PROVE  RecsGood(left, clock)
<1>1. IsFiniteSet(left) /\ Cardinality(left) <= Cardinality(recs)
  BY FS_Subset DEF RecsGood
<1>2. Cardinality(left) \in Nat /\ Cardinality(recs) \in Nat /\ Cardinality(recs) <= PsMax
  BY <1>1, FS_CardinalityType DEF RecsGood
<1>3. Cardinality(left) <= PsMax
  BY <1>1, <1>2, StatusAssumption DEF StatusAssumption
<1> QED BY <1>1, <1>3 DEF RecsGood

\* Composing the line makes the slot agree with its records, and moves nothing
\* else.
LEMMA Recomposed ==
  ASSUME NEW p, IsSlot(p), RecsGood(p.recs, p.clock)
  PROVE  /\ SlotGood(Recompose(p))
         /\ Recompose(p).recs = p.recs /\ Recompose(p).clock = p.clock
         /\ Recompose(p).buttons = p.buttons
<1> DEFINE r == Recompose(p)
<1>1. CASE p.recs = {} /\ p.showing
  <2>1. r = [p EXCEPT !.status = Blank, !.busy = FALSE, !.showing = FALSE]
    BY <1>1 DEF Recompose
  <2> HIDE DEF r
  <2>2. /\ IsSlot(r) /\ r.recs = p.recs /\ r.clock = p.clock /\ r.buttons = p.buttons
        /\ r.showing = FALSE
    BY <2>1 DEF IsSlot
  <2>3. Agrees(r)
    BY <1>1, <2>2 DEF Agrees
  <2> QED BY <2>2, <2>3 DEF SlotGood, r
<1>2. CASE p.recs = {} /\ ~p.showing
  <2>1. r = p
    BY <1>2 DEF Recompose
  <2>2. p.showing = FALSE /\ (p.recs # {}) = FALSE
    BY <1>2 DEF IsSlot
  <2>3. Agrees(p)
    BY <2>2 DEF Agrees
  <2> QED BY <2>1, <2>3 DEF SlotGood
<1>3. CASE p.recs # {}
  <2> DEFINE best == CHOOSE x \in p.recs : \A y \in p.recs : Over(x, y)
             app  == Inherited(p.recs, best.rep)
             show == [best.rep EXCEPT !.app = app]
  <2>1. best \in p.recs /\ \A y \in p.recs : Over(best, y)
    BY <1>3, Best DEF IsSlot
  <2>2. r = [p EXCEPT !.status = Line(show), !.busy = Busy(show), !.show = show, !.showing = TRUE]
    BY <1>3 DEF Recompose
  <2>3. best.rep.app # "" => app = best.rep.app
    BY DEF Inherited
  <2> HIDE DEF best, app, r
  <2>4. IsReport(best.rep) /\ best.rep.state \in States
    BY <2>1 DEF RecsGood
  <2>5. [show EXCEPT !.app = best.rep.app] = best.rep /\ show.app = app
    BY <2>4 DEF IsReport
  <2> HIDE DEF show
  <2>6. Busy(show) \in BOOLEAN
    BY DEF Busy
  <2>7. /\ IsSlot(r) /\ r.recs = p.recs /\ r.clock = p.clock /\ r.buttons = p.buttons
        /\ r.showing = TRUE /\ r.show = show /\ r.status = Line(show) /\ r.busy = Busy(show)
    BY <2>2, <2>6 DEF IsSlot
  <2>8. \A y \in p.recs : Rank[y.rep.state] <= Rank[best.rep.state]
    BY <2>1, Ranked DEF Over, RecsGood
  <2>9. Agrees(r)
    BY <1>3, <2>1, <2>3, <2>5, <2>7, <2>8 DEF Agrees
  <2> QED BY <2>7, <2>9 DEF SlotGood, r
<1> QED BY <1>1, <1>2, <1>3 DEF IsSlot

\* The slot with some of its records.
LEMMA Left ==
  ASSUME NEW p, SlotGood(p), NEW left, left \subseteq p.recs
  PROVE  LET r == Recompose([p EXCEPT !.recs = left])
         IN  SlotGood(r) /\ r.recs = left /\ r.buttons = p.buttons
<1> DEFINE q == [p EXCEPT !.recs = left]
<1>1. IsSlot(q) /\ q.recs = left /\ q.clock = p.clock /\ q.buttons = p.buttons
  BY DEF IsSlot, SlotGood
<1>2. RecsGood(left, p.clock)
  BY Fewer DEF SlotGood
<1> HIDE DEF q
<1>3. SlotGood(Recompose(q)) /\ Recompose(q).recs = left /\ Recompose(q).buttons = p.buttons
  BY <1>1, <1>2, Recomposed
<1> QED BY <1>3 DEF q

\* Making room leaves room for one.
LEMMA Evicted ==
  ASSUME NEW recs, NEW clock \in Nat, RecsGood(recs, clock)
  PROVE  /\ Evict(recs) \subseteq recs
         /\ Cardinality(Evict(recs)) \in Nat /\ Cardinality(Evict(recs)) < PsMax
<1>1. Cardinality(recs) \in Nat /\ IsFiniteSet(recs) /\ Cardinality(recs) <= PsMax /\ PsMax \in Nat \ {0}
  BY FS_CardinalityType, StatusAssumption DEF RecsGood, StatusAssumption
<1>2. CASE Cardinality(recs) < PsMax
  BY <1>1, <1>2 DEF Evict
<1>3. CASE ~(Cardinality(recs) < PsMax)
  <2> DEFINE old == CHOOSE x \in recs : \A y \in recs : x.seen <= y.seen
             times == {x.seen : x \in recs}
  <2>1. recs # {}
    BY <1>1, <1>3, FS_EmptySet
  <2>2. times \subseteq 0 .. clock /\ times # {}
    BY <2>1 DEF RecsGood
  <2>3. PICK first \in times : \A r \in times : first <= r
    BY <2>2, Extremes
  <2>4. PICK x \in recs : x.seen = first
    OBVIOUS
  <2>5. \A y \in recs : x.seen <= y.seen
    BY <2>3, <2>4
  <2>6. old \in recs
    BY <2>4, <2>5
  <2>7. Evict(recs) = recs \ {old}
    BY <1>3 DEF Evict
  <2> HIDE DEF old
  <2>8. Cardinality(recs \ {old}) = Cardinality(recs) - 1
    BY <1>1, <2>6, FS_RemoveElement
  <2>9. Cardinality(recs) > 0
    BY <1>1, <1>3
  <2> QED BY <1>1, <2>7, <2>8, <2>9
<1> QED BY <1>2, <1>3

\* A report keeps the slot good.
LEMMA ReportGood ==
  ASSUME NEW p, SlotGood(p), NEW rep, IsReport(rep), rep.state \in States \cup {"clear"}
  PROVE  SlotGood(OnProgramStatus(p, rep)) /\ OnProgramStatus(p, rep).buttons = p.buttons
<1>1. CASE rep.state = "clear"
  <2>1. Cleared(p.recs, rep.id) \subseteq p.recs
    BY DEF Cleared
  <2>2. [p EXCEPT !.recs = Cleared(@, rep.id)] = [p EXCEPT !.recs = Cleared(p.recs, rep.id)]
    BY DEF SlotGood, IsSlot
  <2> QED BY <1>1, <2>1, <2>2, Left DEF OnProgramStatus
<1>2. CASE rep.state # "clear"
  <2> DEFINE same == {x \in p.recs : x.rep.id = rep.id}
             kept == IF same = {} THEN Evict(p.recs) ELSE p.recs \ same
             new  == [rep |-> rep, seen |-> p.clock + 1]
             recs == kept \cup {new}
             q    == [p EXCEPT !.recs = recs, !.clock = p.clock + 1]
  <2>1. OnProgramStatus(p, rep) = Recompose(q)
    BY <1>2 DEF OnProgramStatus, SlotGood, IsSlot
  <2>2. p.clock \in Nat /\ RecsGood(p.recs, p.clock)
    BY DEF SlotGood, IsSlot
  <2>3. /\ kept \subseteq p.recs /\ IsFiniteSet(kept)
        /\ Cardinality(kept) \in Nat /\ Cardinality(kept) < PsMax
    <3>1. CASE same = {}
      BY <2>2, <3>1, Evicted, FS_Subset DEF RecsGood
    <3>2. CASE same # {}
      <4>1. PICK x : x \in same
        BY <3>2
      <4>2. IsFiniteSet(p.recs) /\ Cardinality(p.recs) \in Nat /\ Cardinality(p.recs) <= PsMax /\ PsMax \in Nat
        BY <2>2, FS_CardinalityType, StatusAssumption DEF RecsGood, StatusAssumption
      <4>3. IsFiniteSet(p.recs \ {x}) /\ Cardinality(p.recs \ {x}) = Cardinality(p.recs) - 1
        BY <4>1, <4>2, FS_RemoveElement
      <4>4. kept \subseteq p.recs \ {x}
        BY <3>2, <4>1
      <4>5. IsFiniteSet(kept) /\ Cardinality(kept) <= Cardinality(p.recs \ {x})
        BY <4>3, <4>4, FS_Subset
      <4>6. Cardinality(kept) \in Nat
        BY <4>5, FS_CardinalityType
      <4> HIDE DEF kept
      <4> QED BY <4>2, <4>3, <4>4, <4>5, <4>6
    <3> QED BY <3>1, <3>2
  <2>4. \A x \in kept : x.rep.id # rep.id
    BY <2>3
  <2> HIDE DEF kept
  <2>5. new.rep = rep /\ new.seen = p.clock + 1
    OBVIOUS
  <2> HIDE DEF new
  <2>6. IsFiniteSet(recs) /\ Cardinality(recs) <= PsMax
    <3>1. IsFiniteSet(recs) /\ Cardinality(recs) <= Cardinality(kept) + 1 /\ Cardinality(recs) \in Nat
      <4>1. IsFiniteSet(recs)
            /\ Cardinality(recs) = IF new \in kept THEN Cardinality(kept) ELSE Cardinality(kept) + 1
        BY <2>3, FS_AddElement
      <4> HIDE DEF recs
      <4> QED BY <2>3, <4>1
    <3> HIDE DEF recs
    <3> QED BY <2>3, <3>1, StatusAssumption DEF StatusAssumption
  <2>7. \A x \in p.recs : IsReport(x.rep) /\ x.rep.state \in States /\ x.seen \in 1 .. p.clock
    BY <2>2 DEF RecsGood
  <2>8. \A x \in recs : IsReport(x.rep) /\ x.rep.state \in States /\ x.seen \in 1 .. p.clock + 1
    BY <1>2, <2>2, <2>3, <2>5, <2>7
  <2>9. \A x, y \in recs : x.rep.id = y.rep.id \/ x.seen = y.seen => x = y
    <3>1. \A x \in kept : x.rep.id # new.rep.id /\ x.seen # new.seen
      BY <2>2, <2>3, <2>4, <2>5, <2>7
    <3>2. \A x, y \in kept : x.rep.id = y.rep.id \/ x.seen = y.seen => x = y
      BY <2>2, <2>3 DEF RecsGood
    <3> QED BY <3>1, <3>2
  <2> HIDE DEF recs
  <2>10. RecsGood(recs, p.clock + 1)
    BY <2>6, <2>8, <2>9 DEF RecsGood
  <2>11. IsSlot(q) /\ q.recs = recs /\ q.clock = p.clock + 1 /\ q.buttons = p.buttons
    <3>1. IsSlot(p) /\ p.clock + 1 \in Nat
      BY <2>2 DEF SlotGood
    <3> QED BY <3>1 DEF IsSlot
  <2> HIDE DEF q
  <2> QED BY <2>1, <2>10, <2>11, Recomposed
<1> QED BY <1>1, <1>2

\* A shell's prompt, the end of the program, and a full reset keep it good.
LEMMA DropGood ==
  ASSUME NEW p, SlotGood(p)
  PROVE  /\ SlotGood(DropTransient(p)) /\ DropTransient(p).buttons = p.buttons
         /\ \A x \in DropTransient(p).recs : ~Busy(x.rep)
         /\ SlotGood(DropAll(p)) /\ DropAll(p).buttons = p.buttons
<1> DEFINE left == {x \in p.recs : ~Busy(x.rep)}
<1>1. [p EXCEPT !.recs = {x \in @ : ~Busy(x.rep)}] = [p EXCEPT !.recs = left]
  BY DEF SlotGood, IsSlot
<1>2. left \subseteq p.recs /\ {} \subseteq p.recs /\ \A x \in left : ~Busy(x.rep)
  OBVIOUS
<1> HIDE DEF left
<1> QED BY <1>1, <1>2, Left DEF DropTransient, DropAll

\* The verbs of the older protocol keep it good, and only buttons adds any.
LEMMA VerbGood ==
  ASSUME NEW p, SlotGood(p), NEW verb, NEW payload
  PROVE  /\ SlotGood(OnOsc5577(p, verb, payload))
         /\ \A b \in OnOsc5577(p, verb, payload).buttons :
              b \in p.buttons \/ (verb = "buttons" /\ b \in ParseButtons(payload))
<1> DEFINE r == OnOsc5577(p, verb, payload)
<1>1. IsSlot(p) /\ RecsGood(p.recs, p.clock)
  BY DEF SlotGood
<1>2. /\ IsSlot(Take(p)) /\ Take(p).recs = {} /\ Take(p).showing = FALSE
      /\ Take(p).clock = p.clock /\ Take(p).buttons = p.buttons
  BY <1>1 DEF IsSlot, Take
<1>3. RecsGood({}, p.clock)
  BY <1>1, Fewer
<1>4. ASSUME NEW q, IsSlot(q), q.recs = {}, q.showing = FALSE, q.clock = p.clock PROVE SlotGood(q)
  <2>1. q.showing = (q.recs # {})
    BY <1>4
  <2> QED BY <1>3, <1>4, <2>1 DEF SlotGood, Agrees
<1>5. CASE verb = "status"
  <2>1. r = [Take(p) EXCEPT !.status = <<"said", payload>>]
    BY <1>5 DEF OnOsc5577
  <2> HIDE DEF r
  <2>2. IsSlot(r) /\ r.recs = {} /\ r.showing = FALSE /\ r.clock = p.clock /\ r.buttons = p.buttons
    BY <1>2, <2>1 DEF IsSlot
  <2>3. SlotGood(r) /\ \A b \in r.buttons : b \in p.buttons
    BY <1>4, <2>2
  <2> QED BY <2>3 DEF r
<1>6. CASE verb = "busy"
  <2> DEFINE on == payload \notin No
  <2>1. r = [Take(p) EXCEPT !.busy = on] /\ on \in BOOLEAN
    BY <1>6 DEF OnOsc5577
  <2> HIDE DEF r, on
  <2>2. IsSlot(r) /\ r.recs = {} /\ r.showing = FALSE /\ r.clock = p.clock /\ r.buttons = p.buttons
    BY <1>2, <2>1 DEF IsSlot
  <2>3. SlotGood(r) /\ \A b \in r.buttons : b \in p.buttons
    BY <1>4, <2>2
  <2> QED BY <2>3 DEF r
<1>7. CASE verb = "clear"
  <2>1. r = [Take(p) EXCEPT !.status = Blank, !.busy = FALSE, !.buttons = {}]
    BY <1>7 DEF OnOsc5577
  <2> HIDE DEF r
  <2>2. IsSlot(r) /\ r.recs = {} /\ r.showing = FALSE /\ r.clock = p.clock /\ r.buttons = {}
    BY <1>2, <2>1 DEF IsSlot
  <2>3. SlotGood(r) /\ \A b \in r.buttons : b \in p.buttons
    BY <1>4, <2>2
  <2> QED BY <2>3 DEF r
<1>8. CASE verb = "buttons"
  <2>1. r = [p EXCEPT !.buttons = ParseButtons(payload)]
    BY <1>8 DEF OnOsc5577
  <2> HIDE DEF r
  <2>2. /\ IsSlot(r) /\ r.recs = p.recs /\ r.showing = p.showing /\ r.clock = p.clock
        /\ r.buttons = ParseButtons(payload) /\ r.show = p.show /\ r.status = p.status /\ r.busy = p.busy
    BY <1>1, <2>1 DEF IsSlot
  <2>3. SlotGood(r)
    BY <2>2 DEF SlotGood, Agrees
  <2> QED BY <1>8, <2>2, <2>3 DEF r
<1>9. CASE verb \notin {"status", "busy", "clear", "buttons"}
  <2>1. r = p
    BY <1>9 DEF OnOsc5577
  <2> HIDE DEF r
  <2>2. SlotGood(r) /\ r.buttons = p.buttons
    BY <2>1
  <2> QED BY <2>2 DEF r
<1> QED BY <1>5, <1>6, <1>7, <1>8, <1>9

\* A button is one of the fields it was read from.
LEMMA ButtonIsField ==
  ASSUME NEW f, NEW b \in ParseButtons(f) PROVE \E j \in 1 .. Len(f) : f[j].id = b
BY DEF ParseButtons

-----------------------------------------------------------------------------
(* What the scanner makes of the stream.                                   *)

\* What a whole body can be.
LEMMA Dispatched ==
  ASSUME NEW buf
  PROVE  \/ Dispatch(buf) \in {Quiet, <<"query">>, <<"prompt">>}
         \/ /\ buf # <<>> /\ ~Discarded(Tail(buf))
            /\ Dispatch(buf) = <<"report", Parsed(Tail(buf))>>
         \/ /\ Len(buf) >= 3 /\ buf[2] = <<"version", "1">>
            /\ Dispatch(buf) = <<"verb", buf[3][2], IF Len(buf) > 3 THEN buf[4][2] ELSE "">>
<1>1. CASE buf = <<>>
  BY <1>1 DEF Dispatch
<1>2. CASE buf # <<>> /\ buf[1] = <<"osc", "5577">>
  <2>1. Dispatch(buf) = Dispatch5577(buf)
    BY <1>2 DEF Dispatch
  <2> QED BY <2>1 DEF Dispatch5577
<1>3. CASE buf # <<>> /\ buf[1] = <<"osc", "7501">>
  <2>1. Dispatch(buf) = Dispatch7501(Tail(buf))
    BY <1>3 DEF Dispatch
  <2> QED BY <1>3, <2>1 DEF Dispatch7501
<1>4. CASE buf # <<>> /\ buf[1] = <<"osc", "133;A">>
  <2>1. Dispatch(buf) = <<"prompt">>
    <3>1. <<"osc", "133;A">> # <<"osc", "5577">> /\ <<"osc", "133;A">> # <<"osc", "7501">>
      OBVIOUS
    <3> QED BY <1>4, <3>1 DEF Dispatch
  <2> QED BY <2>1
<1>5. CASE buf # <<>> /\ buf[1] \notin {<<"osc", "5577">>, <<"osc", "7501">>, <<"osc", "133;A">>}
  BY <1>5 DEF Dispatch
<1> QED BY <1>1, <1>2, <1>3, <1>4, <1>5

\* What a piece can make the scanner say: a body's end says what the body was.
LEMMA Heeded ==
  ASSUME NEW sc, NEW x, sc.at \in {"ground", "esc", "body", "bodyesc"}
  PROVE  \/ Scan(sc, x).event \in {Quiet, <<"reset">>}
         \/ /\ \/ sc.at = "body" /\ x[1] = "BEL"
               \/ sc.at = "bodyesc" /\ x[1] = "\\"
            /\ Scan(sc, x).scan = Ground
            /\ Scan(sc, x).event = Dispatch(sc.buf)
<1>0. /\ \A s : Goes(s).event = Quiet
      /\ Resets.event = <<"reset">>
      /\ Finish(sc).scan = Ground
      /\ Finish(sc).event = Quiet \/ Finish(sc).event = Dispatch(sc.buf)
  BY DEF Goes, Resets, Finish
<1>1. CASE sc.at = "ground"
  <2>1. \E s : Scan(sc, x) = Goes(s)
    BY <1>1 DEF Scan
  <2> QED BY <1>0, <2>1
<1>2. CASE sc.at = "body"
  <2>1. Scan(sc, x) = InBody(sc, x)
    BY <1>2 DEF Scan
  <2>2. CASE x[1] = "BEL"
    <3>1. InBody(sc, x) = Finish(sc)
      BY <2>2 DEF InBody
    <3> QED BY <1>0, <1>2, <2>1, <2>2, <3>1
  <2>3. CASE x[1] # "BEL"
    <3>1. \E s : InBody(sc, x) = Goes(s)
      BY <2>3 DEF InBody
    <3> QED BY <1>0, <2>1, <3>1
  <2> QED BY <2>2, <2>3
<1>3. CASE sc.at \in {"esc", "bodyesc"}
  <2>1. Scan(sc, x) = AfterEsc(sc, x[1])
    BY <1>3 DEF Scan
  <2>2. CASE x[1] = "\\" /\ sc.at = "bodyesc"
    <3>1. AfterEsc(sc, x[1]) = Finish(sc)
      BY <2>2 DEF AfterEsc
    <3> QED BY <1>0, <2>1, <2>2, <3>1
  <2>3. CASE ~(x[1] = "\\" /\ sc.at = "bodyesc")
    <3>1. AfterEsc(sc, x[1]) = Resets \/ \E s : AfterEsc(sc, x[1]) = Goes(s)
      BY <2>3 DEF AfterEsc
    <3> QED BY <1>0, <2>1, <3>1
  <2> QED BY <2>2, <2>3
<1> QED BY <1>1, <1>2, <1>3

\* A report that is not discarded is of a state, or clears.
LEMMA ReportSaid ==
  ASSUME NEW buf, IsSeq(buf), buf # <<>>, \A i \in 1 .. Len(buf) : Stated(buf[i]),
         ~Discarded(Tail(buf))
  PROVE  IsReport(Parsed(Tail(buf))) /\ Parsed(Tail(buf)).state \in States \cup {"clear"}
<1> DEFINE pairs == Tail(buf)
           at    == {i \in 1 .. Len(pairs) : pairs[i][1] = "state"}
<1>1. /\ Len(pairs) \in Nat
      /\ \A i \in 1 .. Len(pairs) : pairs[i] = buf[i + 1] /\ i + 1 \in 1 .. Len(buf)
  BY Rest
<1>2. at # {} /\ at \subseteq 0 .. Len(pairs)
  <2>1. \E i \in 1 .. Len(pairs) : pairs[i][1] = "state"
    BY DEF Discarded
  <2>2. at # {}
    BY <2>1
  <2>3. Len(pairs) \in Nat
    BY <1>1
  <2> HIDE DEF pairs
  <2>4. at \subseteq 0 .. Len(pairs)
    BY <2>3
  <2> QED BY <2>2, <2>4
<1> HIDE DEF pairs
<1>3. Max(at) \in at
  <2>1. \E i \in at : \A j \in at : i >= j
    BY <1>1, <1>2, Extremes
  <2> HIDE DEF at
  <2> QED BY <2>1 DEF Max
<1>4. Field(pairs, "state", "none") = pairs[Max(at)][2]
  BY <1>2 DEF Field
<1>5. pairs[Max(at)][2] \in States \cup {"clear"}
  BY <1>1, <1>3 DEF Stated
<1>6. Parsed(pairs).state = Field(pairs, "state", "none")
  BY DEF Parsed, Report
<1>7. IsReport(Parsed(pairs))
  <2>1. \A a, b, c, d, e, f, g : IsReport(Report(a, b, c, d, e, f, g))
    BY DEF IsReport, Report
  <2> QED BY <2>1 DEF Parsed
<1> QED BY <1>4, <1>5, <1>6, <1>7 DEF pairs

\* What is heard from a good wire: reports are reports, buttons were asked for,
\* and a hello that is answered was held by the scanner.
LEMMA HeardGood ==
  ASSUME NEW sc, NEW p, NEW t, NEW open \in BOOLEAN, Wire(sc, p, t, open), p # <<>>,
         NEW e, e = Scan(sc, Head(p)).event
  PROVE  /\ e[1] = "report" => IsReport(e[2]) /\ e[2].state \in States \cup {"clear"}
         /\ e[1] = "verb" /\ e[2] = "buttons" => Announced(e[3], t)
         /\ e[1] = "verb" /\ e[2] = "hello" =>
              Scan(sc, Head(p)).scan = Ground /\ Caught(sc, p, open) = 1
<1> DEFINE buf == sc.buf
           x   == Head(p)
           pay == IF Len(buf) > 3 THEN buf[4][2] ELSE ""
<1>1. /\ sc.at \in {"ground", "esc", "body", "bodyesc"}
      /\ IsSeq(buf) /\ Len(buf) \in Nat /\ (buf = <<>> <=> Len(buf) = 0)
      /\ \A i \in 1 .. Len(buf) : Stated(buf[i])
      /\ \A i \in 1 .. Len(buf) - 1 : Pair(buf[i], buf[i + 1], t, Due(p, 1, open))
  BY Measured DEF Wire, ScanGood
<1>2. x = p[1] /\ Len(p) \in Nat \ {0}
  BY Rest DEF Wire, LineGood
<1>3. CASE e \in {Quiet, <<"reset">>}
  BY <1>3 DEF Quiet
<1>4. CASE /\ \/ sc.at = "body" /\ x[1] = "BEL"
              \/ sc.at = "bodyesc" /\ x[1] = "\\"
           /\ Scan(sc, x).scan = Ground
           /\ e = Dispatch(buf)
  <2>1. Ends(x) /\ Due(p, 1, open)
    BY <1>2, <1>4 DEF Ends, Due
  <2>2. CASE e \in {Quiet, <<"query">>, <<"prompt">>}
    BY <2>2 DEF Quiet
  <2>3. CASE buf # <<>> /\ ~Discarded(Tail(buf)) /\ e = <<"report", Parsed(Tail(buf))>>
    <3>1. IsReport(Parsed(Tail(buf))) /\ Parsed(Tail(buf)).state \in States \cup {"clear"}
      BY <1>1, <2>3, ReportSaid
    <3>2. e[1] = "report" /\ e[2] = Parsed(Tail(buf))
      BY <2>3
    <3> QED BY <3>1, <3>2
  <2>4. CASE Len(buf) >= 3 /\ buf[2] = <<"version", "1">> /\ e = <<"verb", buf[3][2], pay>>
    <3>0. Len(buf) > 3 => pay = buf[4][2]
      OBVIOUS
    <3> HIDE DEF pay
    <3>1. e[1] = "verb" /\ e[2] = buf[3][2] /\ e[3] = pay
      BY <2>4
    <3>2. buf[3][1] = "verb"
      <4>1. Pair(buf[2], buf[3], t, Due(p, 1, open))
        <5>1. 2 \in 1 .. Len(buf) - 1
          BY <1>1, <2>4
        <5> QED BY <1>1, <5>1
      <4>2. buf[2][1] = "version" /\ buf[2][2] = "1"
        BY <2>4
      <4> QED BY <4>1, <4>2 DEF Pair, Says
    <3>3. ASSUME e[2] = "hello" PROVE Caught(sc, p, open) = 1
      <4>1. Hello(buf[3])
        BY <3>1, <3>2, <3>3 DEF Hello, Says
      <4> QED BY <2>1, <2>4, <4>1 DEF Caught
    <3>4. ASSUME e[2] = "buttons" PROVE Announced(e[3], t)
      <4>1. Says(buf[3], "verb", "buttons")
        BY <3>1, <3>2, <3>4 DEF Says
      <4>2. CASE Len(buf) > 3
        <5>1. Pair(buf[3], buf[4], t, Due(p, 1, open))
          <6>1. 3 \in 1 .. Len(buf) - 1
            BY <1>1, <4>2
          <6>2. Pair(buf[3], buf[3 + 1], t, Due(p, 1, open))
            BY <1>1, <6>1, Zenon
          <6>3. 3 + 1 = 4
            OBVIOUS
          <6> QED BY <6>2, <6>3, Zenon
        <5>2. Announced(buf[4][2], t)
          BY <2>1, <4>1, <5>1 DEF Pair
        <5> QED BY <3>0, <3>1, <4>2, <5>2
      <4>3. CASE Len(buf) = 3
        <5>1. sc.at = "body" => x[1] = "payload"
          BY <1>1, <1>2, <4>1, <4>3 DEF Wire, Joined, Pair
        <5>2. sc.at = "bodyesc" => FALSE
          BY <1>1, <4>1, <4>3 DEF Wire, Joined, Settled
        <5> QED BY <1>4, <5>1, <5>2
      <4>4. Len(buf) \in Nat /\ Len(buf) >= 3
        BY <1>1, <2>4
      <4>5. Len(buf) > 3 \/ Len(buf) = 3
        <5> DEFINE l == Len(buf)
        <5>1. l \in Nat /\ l >= 3
          BY <4>4
        <5> HIDE DEF l
        <5>2. l > 3 \/ l = 3
          BY <5>1
        <5> QED BY <5>2 DEF l
      <4> QED BY <4>2, <4>3, <4>5
    <3> QED BY <1>4, <3>1, <3>3, <3>4
  <2> QED BY <1>4, <2>2, <2>3, <2>4, Dispatched
<1>5. \/ e \in {Quiet, <<"reset">>}
      \/ /\ \/ sc.at = "body" /\ x[1] = "BEL"
            \/ sc.at = "bodyesc" /\ x[1] = "\\"
         /\ Scan(sc, x).scan = Ground
         /\ e = Dispatch(buf)
  BY <1>1, Heeded
<1> QED BY <1>3, <1>4, <1>5

\* Reading takes what is answered off what is owed.
LEMMA HelloRead ==
  ASSUME NEW sc, NEW p, NEW t, NEW open \in BOOLEAN, Wire(sc, p, t, open), p # <<>>,
         NEW n \in {0, 1},
         n = 1 => Scan(sc, Head(p)).scan = Ground /\ Caught(sc, p, open) = 1
  PROVE  n + Cardinality(Owed(Tail(p), open)) + Caught(Scan(sc, Head(p)).scan, Tail(p), open)
           <= Cardinality(Owed(p, open)) + Caught(sc, p, open)
<1> DEFINE x == Head(p)
           q == Tail(p)
           r == Scan(sc, x).scan
           A == Cardinality(Owed(p, open))
           B == Cardinality(Owed(q, open))
<1>1. /\ IsSeq(p) /\ IsSeq(q) /\ Len(p) \in Nat \ {0} /\ x = p[1]
      /\ Due(q, 1, open) => Due(p, 1, open)
  BY Rest, LineRead DEF Wire, LineGood
<1>2. A \in Nat /\ B \in Nat
  BY <1>1, OwedFinite
<1>3. B <= A /\ (1 \in Owed(p, open) => B + 1 <= A)
  <2>1. B + (IF 1 \in Owed(p, open) THEN 1 ELSE 0) <= A
    BY <1>1, OwedRead
  <2> HIDE DEF A, B
  <2> QED BY <1>2, <2>1
<1>4. /\ sc = Scanner(sc.at, sc.buf, sc.overflow)
      /\ sc.at \in {"ground", "esc", "body", "bodyesc"}
      /\ sc.at \in {"ground", "esc"} => sc.buf = <<>>
      /\ IsSeq(sc.buf) /\ Len(sc.buf) \in Nat
  BY Measured DEF Wire, ScanGood
<1>5. Caught(sc, p, open) \in {0, 1} /\ Caught(r, q, open) \in {0, 1}
  BY DEF Caught
<1>6. Len(<<>>) = 0
  OBVIOUS
<1> HIDE DEF x, q, r
<1>7. CASE \E at \in {"ground", "esc", "body", "bodyesc"} : \E o : r = Scanner(at, <<>>, o)
  <2>1. r.buf = <<>>
    BY <1>7 DEF Scanner
  <2>2. Caught(r, q, open) = 0
    BY <1>6, <2>1 DEF Caught
  <2> HIDE DEF A, B
  <2>3. n + B + Caught(r, q, open) <= A + Caught(sc, p, open)
    BY <1>2, <1>3, <1>5, <2>2
  <2> QED BY <2>3 DEF A, B, r, q, x
<1>8. ASSUME sc.at = "body", r.buf = sc.buf \/ r.buf = Append(sc.buf, x), r.at # "ground"
      PROVE  n + B + Caught(r, q, open) <= A + Caught(sc, p, open)
  <2>1. n = 0
    BY <1>8 DEF Ground, Scanner, r, x
  <2>2. CASE r.buf = sc.buf
    <3>1. Caught(r, q, open) <= Caught(sc, p, open)
      BY <1>1, <1>5, <2>2 DEF Caught
    <3> HIDE DEF A, B
    <3> QED BY <1>2, <1>3, <1>5, <2>1, <3>1
  <2>3. CASE r.buf = Append(sc.buf, x)
    <3>1. /\ Len(r.buf) = Len(sc.buf) + 1 /\ r.buf[Len(sc.buf) + 1] = x
          /\ \A i \in 1 .. Len(sc.buf) : r.buf[i] = sc.buf[i]
      BY <1>4, <2>3, Add
    <3>2. CASE Len(sc.buf) = 2 /\ Caught(r, q, open) = 1
      <4>1. Hello(x) /\ Due(q, 1, open)
        BY <3>1, <3>2 DEF Caught
      <4>2. 1 \in Owed(p, open)
        BY <1>1, <4>1 DEF Owed
      <4> HIDE DEF A, B
      <4> QED BY <1>2, <1>3, <1>5, <2>1, <3>2, <4>2
    <3>3. CASE Len(sc.buf) # 2 /\ Caught(r, q, open) = 1
      <4>0. Len(r.buf) >= 3 /\ Hello(r.buf[3]) /\ Due(q, 1, open)
        BY <3>3 DEF Caught
      <4>1. Len(sc.buf) >= 3 /\ r.buf[3] = sc.buf[3] /\ Hello(sc.buf[3]) /\ Due(q, 1, open)
        <5>1. Len(sc.buf) >= 3
          <6> DEFINE l == Len(sc.buf)
          <6>1. l \in Nat /\ l # 2 /\ l + 1 >= 3
            BY <1>4, <3>1, <3>3, <4>0
          <6> HIDE DEF l
          <6>2. l >= 3
            BY <6>1
          <6> QED BY <6>2 DEF l
        <5>2. 3 \in 1 .. Len(sc.buf)
          BY <1>4, <5>1
        <5> QED BY <3>1, <4>0, <5>1, <5>2
      <4>2. Caught(sc, p, open) = 1
        BY <1>1, <4>1 DEF Caught
      <4> HIDE DEF A, B
      <4> QED BY <1>2, <1>3, <2>1, <3>3, <4>2
    <3>4. CASE Caught(r, q, open) = 0
      <4> HIDE DEF A, B
      <4> QED BY <1>2, <1>3, <1>5, <2>1, <3>4
    <3> QED BY <1>5, <3>2, <3>3, <3>4
  <2> QED BY <1>8, <2>2, <2>3
<1>9. CASE \/ sc.at = "body" /\ r = Scanner("bodyesc", sc.buf, sc.overflow)
           \/ sc.at = "body" /\ r = Scanner("body", sc.buf, TRUE)
           \/ sc.at = "body" /\ r = Scanner("body", Append(sc.buf, x), sc.overflow)
  <2>1. sc.at = "body" /\ (r.buf = sc.buf \/ r.buf = Append(sc.buf, x)) /\ r.at # "ground"
    BY <1>9 DEF Scanner
  <2>2. n + B + Caught(r, q, open) <= A + Caught(sc, p, open)
    BY <1>8, <2>1
  <2> QED BY <2>2 DEF r, q, x
<1> QED BY <1>4, <1>7, <1>9, ScanKinds DEF r, x

-----------------------------------------------------------------------------
(* What goes into the line.                                                *)

\* A sequence of the program is a good line once it has been told.
LEMMA GestureGood ==
  ASSUME NEW g \in Gestures, NEW t, IsSeq(t)
  PROVE  /\ SaysWhatItMeans(g.writes, g.means) /\ g.writes # <<>> /\ IsSeq(g.writes)
         /\ LineGood(g.writes, Append(t, g.means), TRUE)
<1> DEFINE w == g.writes
           u == Append(t, g.means)
<1>1. SaysWhatItMeans(w, g.means)
  BY StatusAssumption DEF StatusAssumption
<1>2. IsSeq(w) /\ w # <<>> /\ Len(w) \in Nat /\ Len(w) # 0
  BY <1>1, Measured DEF SaysWhatItMeans, IsSeq
<1>3. Len(t) + 1 \in 1 .. Len(u) /\ u[Len(t) + 1] = g.means
  BY Add, Measured
<1> HIDE DEF u, w
<1>4. \A i \in 1 .. Len(w) : Stated(w[i])
  BY <1>1 DEF SaysWhatItMeans, Stated
<1>5. ASSUME NEW i \in 1 .. Len(w) - 1 PROVE Pair(w[i], w[i + 1], u, Due(w, i, TRUE))
  <2>1. i \in 1 .. Len(w)
    BY <1>2
  <2>2. Says(w[i], "version", "1") => w[i + 1][1] = "verb"
    BY <1>1, <2>1 DEF SaysWhatItMeans
  <2>3. Says(w[i], "verb", "buttons") =>
          w[i + 1][1] = "payload" /\ g.means = <<"verb", "buttons", w[i + 1][2]>>
    BY <1>1, <2>1 DEF SaysWhatItMeans
  <2> QED BY <1>3, <2>2, <2>3 DEF Pair, Announced
<1>6. Settled(w[Len(w)])
  <2>1. Len(w) \in 1 .. Len(w) /\ ~(Len(w) < Len(w))
    BY <1>2
  <2> QED BY <1>1, <2>1 DEF SaysWhatItMeans, Settled
<1>7. LineGood(w, u, TRUE)
  BY <1>2, <1>4, <1>5, <1>6 DEF LineGood
<1> QED BY <1>1, <1>2, <1>7 DEF u, w

\* A sequence that its program's death has cut short comes to no end.
LEMMA CutGood ==
  ASSUME NEW g \in Gestures, NEW n \in 1 .. Len(g.writes) - 1, NEW t
  PROVE  LET w == SubSeq(g.writes, 1, n)
         IN  IsSeq(w) /\ w # <<>> /\ LineGood(w, t, FALSE) /\ \A i \in 1 .. Len(w) : ~Ends(w[i])
<1> DEFINE w == g.writes
           c == SubSeq(w, 1, n)
<1>1. SaysWhatItMeans(w, g.means)
  BY StatusAssumption DEF StatusAssumption
<1> HIDE DEF w
<1>2. PICK S : w \in Seq(S)
  BY <1>1 DEF SaysWhatItMeans
<1>3. n \in Nat \ {0} /\ n < Len(w) /\ n <= Len(w) /\ Len(w) \in Nat /\ n \in Nat
  BY <1>2 DEF w
<1>4. c \in Seq(S) /\ Len(c) = n /\ \A i \in 1 .. n : c[i] = w[i]
  BY <1>2, <1>3, FirstOnes
<1>5. IsSeq(c) /\ c # <<>>
  <2>1. IsSeq(c)
    BY <1>4 DEF IsSeq
  <2> HIDE DEF c
  <2> QED BY <1>3, <1>4, <2>1, Measured
<1> HIDE DEF c
<1>6. \A i \in 1 .. Len(c) : ~Ends(c[i]) /\ Stated(c[i])
  <2>1. \A i \in 1 .. n : i \in 1 .. Len(w) - 1 /\ i \in 1 .. Len(w)
    BY <1>3
  <2> QED BY <1>1, <1>4, <2>1 DEF SaysWhatItMeans, Ends, Stated
<1>7. ASSUME NEW i \in 1 .. Len(c) - 1 PROVE Pair(c[i], c[i + 1], t, Due(c, i, FALSE))
  <2>1. i \in 1 .. Len(w) /\ c[i] = w[i] /\ c[i + 1] = w[i + 1] /\ i \in Nat
    BY <1>3, <1>4
  <2>2. ~Due(c, i, FALSE)
    <3>1. \A j \in i .. Len(c) : j \in 1 .. Len(c)
      BY <1>3, <1>4
    <3> QED BY <1>6, <3>1 DEF Due
  <2> QED BY <1>1, <2>1, <2>2 DEF SaysWhatItMeans, Pair
<1>8. LineGood(c, t, FALSE)
  BY <1>5, <1>6, <1>7 DEF LineGood
<1> QED BY <1>5, <1>6, <1>8 DEF c, w

\* Sequences of two pieces.
LEMMA Two ==
  ASSUME NEW a, NEW b
  PROVE  IsSeq(<<a, b>>) /\ Len(<<a, b>>) = 2 /\ <<a, b>>[1] = a /\ <<a, b>>[2] = b
<1>1. <<a, b>> \in Seq({a, b}) /\ Len(<<a, b>>) = 2 /\ <<a, b>>[1] = a /\ <<a, b>>[2] = b
  OBVIOUS
<1> QED BY <1>1 DEF IsSeq

\* Sequences of four pieces.
LEMMA Four ==
  ASSUME NEW a, NEW b, NEW c, NEW d
  PROVE  LET u == <<a, b, c, d>>
         IN  IsSeq(u) /\ Len(u) = 4 /\ u[1] = a /\ u[2] = b /\ u[3] = c /\ u[4] = d
<1>1. <<a, b, c, d>> \in Seq({a, b, c, d}) /\ Len(<<a, b, c, d>>) = 4
  OBVIOUS
<1>2. /\ <<a, b, c, d>>[1] = a /\ <<a, b, c, d>>[2] = b
      /\ <<a, b, c, d>>[3] = c /\ <<a, b, c, d>>[4] = d
  OBVIOUS
<1> QED BY <1>1, <1>2 DEF IsSeq

(* A good line in which nobody says hello. *)
Plain(w, t) ==
  IsSeq(w) /\ w # <<>> /\ LineGood(w, t, TRUE) /\ \A i \in 1 .. Len(w) : ~Hello(w[i])

\* Plain after plain is plain.
LEMMA PlainCat == ASSUME NEW v, NEW w, NEW t, Plain(v, t), Plain(w, t) PROVE Plain(v \o w, t)
<1>1. LineGood(v \o w, t, TRUE) /\ v \o w # <<>>
  BY LineCat DEF Plain
<1>2. /\ IsSeq(v \o w) /\ Len(v \o w) = Len(v) + Len(w)
      /\ \A i \in 1 .. Len(v) : (v \o w)[i] = v[i]
      /\ \A i \in Len(v) + 1 .. Len(v) + Len(w) : (v \o w)[i] = w[i - Len(v)]
      /\ Len(v) \in Nat /\ Len(w) \in Nat
  BY Cat, Measured DEF Plain
<1>3. ASSUME NEW i \in 1 .. Len(v \o w) PROVE ~Hello((v \o w)[i])
  <2>1. CASE i \in 1 .. Len(v)
    BY <1>2, <2>1 DEF Plain
  <2>2. CASE i \in Len(v) + 1 .. Len(v) + Len(w)
    <3>1. i - Len(v) \in 1 .. Len(w)
      BY <1>2, <2>2
    <3> QED BY <1>2, <2>2, <3>1 DEF Plain
  <2> QED BY <1>2, <2>1, <2>2
<1> QED BY <1>1, <1>2, <1>3 DEF Plain

\* Two plain pieces.
LEMMA PlainTwo ==
  ASSUME NEW a, NEW b, NEW t, Settled(a), Settled(b), Stated(a), Stated(b), ~Hello(a), ~Hello(b)
  PROVE  Plain(<<a, b>>, t)
<1> DEFINE u == <<a, b>>
<1>1. IsSeq(u) /\ Len(u) = 2 /\ u[1] = a /\ u[2] = b
  BY Two
<1> HIDE DEF u
<1>2. \A i \in 1 .. 2 : i = 1 \/ i = 2
  OBVIOUS
<1>3. \A i \in 1 .. 2 : Stated(u[i]) /\ ~Hello(u[i]) /\ Settled(u[i])
  BY <1>1, <1>2
<1>4. ASSUME NEW i \in 1 .. 1 PROVE Pair(u[i], u[i + 1], t, Due(u, i, TRUE))
  <2>1. Settled(u[i])
    BY <1>3
  <2> QED BY <2>1 DEF Pair, Settled
<1>5. u # <<>>
  BY <1>1, Measured
<1>6. LineGood(u, t, TRUE)
  <2>1. Len(u) - 1 = 1
    BY <1>1
  <2> QED BY <1>1, <1>3, <1>4, <2>1 DEF LineGood
<1> QED BY <1>1, <1>3, <1>5, <1>6 DEF Plain, u

\* The answers of the pane, echoed, ask for nothing.
LEMMA AnswersGood ==
  ASSUME NEW w, NEW b, w \in {QueryReply, HelloReply, Verb("click", b)}, NEW t
  PROVE  Plain(w, t)
<1>1. /\ \A n : n # "verb" /\ n # "version" /\ n # "state" =>
           \A v : Settled(<<n, v>>) /\ Stated(<<n, v>>) /\ ~Hello(<<n, v>>)
      /\ C("ESC") = <<"ESC", "">> /\ C("]") = <<"]", "">> /\ C("\\") = <<"\\", "">>
  BY DEF Settled, Stated, Hello, Says, C
<1>2. Plain(<<C("ESC"), C("]")>>, t) /\ Plain(ST, t)
  BY <1>1, PlainTwo DEF ST
<1>3. ASSUME NEW body, Plain(body, t) PROVE Plain(Osc(body, ST), t)
  BY <1>2, <1>3, PlainCat DEF Osc
<1>4. ASSUME NEW v, NEW pay, v \notin {"hello", "buttons"} PROVE Plain(Verb(v, pay), t)
  <2> DEFINE x1 == <<"osc", "5577">>
             x2 == <<"version", "1">>
             x3 == <<"verb", v>>
             x4 == <<"payload", pay>>
             u  == <<x1, x2, x3, x4>>
  <2>1. Settled(x1) /\ Settled(x3) /\ Settled(x4) /\ Says(x2, "version", "1") /\ x3[1] = "verb"
        /\ ~Says(x2, "verb", "buttons")
    BY <1>4 DEF Settled, Says
  <2>2. Stated(x1) /\ Stated(x2) /\ Stated(x3) /\ Stated(x4)
    BY DEF Stated
  <2>3. ~Hello(x1) /\ ~Hello(x2) /\ ~Hello(x3) /\ ~Hello(x4)
    BY <1>4 DEF Hello, Says
  <2>4. Verb(v, pay) = Osc(u, ST)
    BY DEF Verb
  <2> HIDE DEF x1, x2, x3, x4
  <2>5. IsSeq(u) /\ Len(u) = 4 /\ u[1] = x1 /\ u[2] = x2 /\ u[3] = x3 /\ u[4] = x4
    BY Four
  <2> HIDE DEF u
  <2>6. \A i \in 1 .. 4 : i = 1 \/ i = 2 \/ i = 3 \/ i = 4
    OBVIOUS
  <2>7. \A i \in 1 .. 4 : Stated(u[i]) /\ ~Hello(u[i])
    BY <2>2, <2>3, <2>5, <2>6
  <2>8. Pair(u[1], u[2], t, Due(u, 1, TRUE)) /\ Pair(u[2], u[3], t, Due(u, 2, TRUE))
        /\ Pair(u[3], u[4], t, Due(u, 3, TRUE))
    BY <2>1, <2>5 DEF Pair, Settled
  <2>9. \A i \in 1 .. 3 : Pair(u[i], u[i + 1], t, Due(u, i, TRUE))
    <3>1. \A i \in 1 .. 3 : (i = 1 /\ i + 1 = 2) \/ (i = 2 /\ i + 1 = 3) \/ (i = 3 /\ i + 1 = 4)
      OBVIOUS
    <3> QED BY <2>8, <3>1, Zenon
  <2>10. u # <<>>
    BY <2>5, Measured
  <2>11. Plain(u, t)
    <3>1. Len(u) - 1 = 3
      BY <2>5
    <3>2. LineGood(u, t, TRUE)
      BY <2>1, <2>5, <2>7, <2>9, <3>1 DEF LineGood
    <3> QED BY <2>5, <2>7, <2>10, <3>2 DEF Plain
  <2> QED BY <1>3, <2>4, <2>11
<1>5. Plain(QueryReply, t)
  <2>1. Plain(<<<<"osc", "7501">>, <<"?", "">>>>, t)
    BY <1>1, PlainTwo
  <2> QED BY <1>3, <2>1 DEF QueryReply, Query
<1> QED BY <1>4, <1>5 DEF HelloReply

-----------------------------------------------------------------------------
(* The invariant.                                                          *)

(* A pane whose program is gone has nothing to read, and claims no work. *)
Gone == ~running /\ pipe = <<>> /\ \A x \in slot.recs : ~Busy(x.rep)

(* A button was asked for by this run. *)
ButtonsTold(p, t) ==
  \A b \in p.buttons : \E i \in 1 .. Len(t) :
    /\ t[i][1] = "verb" /\ t[i][2] = "buttons"
    /\ \E j \in 1 .. Len(t[i][3]) : t[i][3][j].id = b

HellosKept(a, sc, p, open) ==
  a.hello + Cardinality(Owed(p, open)) + Caught(sc, p, open) <= a.asked

(* What has been answered by the clock: by the last answer, that is. *)
QueriesKept(a, at, time) ==
  /\ at \in 0 .. time
  /\ at = 0 => a.query = 0
  /\ at # 0 => a.query <= 1 + (at - 1) \div Gap

Counted(a) == a \in [asked : Nat, hello : Nat, query : Nat]

Inv ==
  /\ alive \in BOOLEAN /\ running \in BOOLEAN /\ IsSeq(told) /\ now \in Nat \ {0}
  /\ Wire(scan, pipe, told, running)
  /\ SlotGood(slot) /\ ButtonsTold(slot, told)
  /\ Counted(answers)
  /\ HellosKept(answers, scan, pipe, running)
  /\ QueriesKept(answers, replied, now)
  /\ ~alive => Gone

\* Nothing is owed on an empty line.
LEMMA NothingOwed ==
  ASSUME NEW open \in BOOLEAN, NEW t
  PROVE  /\ Cardinality(Owed(<<>>, open)) = 0 /\ LineGood(<<>>, t, open) /\ IsSeq(<<>>)
         /\ Caught(Ground, <<>>, open) = 0
<1>1. Len(<<>>) = 0 /\ <<>> \in Seq({})
  OBVIOUS
<1>2. IsSeq(<<>>)
  BY <1>1 DEF IsSeq
<1>3. Owed(<<>>, open) = {}
  BY <1>1 DEF Owed
<1>4. LineGood(<<>>, t, open)
  BY <1>1, <1>2 DEF LineGood
<1>5. Ground.buf = <<>>
  BY DEF Ground, Scanner
<1> QED BY <1>1, <1>2, <1>3, <1>4, <1>5, FS_EmptySet DEF Caught

\* The bare slot is good.
LEMMA NoSlotGood == SlotGood(NoSlot) /\ NoSlot.buttons = {}
<1>1. IsSlot(NoSlot) /\ NoSlot.recs = {} /\ NoSlot.showing = FALSE /\ NoSlot.buttons = {}
  BY DEF IsSlot, NoSlot
<1>2. \A c : RecsGood({}, c)
  BY FS_EmptySet, StatusAssumption DEF RecsGood, StatusAssumption
<1>3. NoSlot.showing = (NoSlot.recs # {})
  BY <1>1
<1> QED BY <1>1, <1>2, <1>3 DEF SlotGood, Agrees

\* A fresh run has asked for nothing and is owed nothing.
LEMMA FreshWire ==
  Wire(Ground, <<>>, <<>>, TRUE) /\ HellosKept(NoAnswers, Ground, <<>>, TRUE) /\ Counted(NoAnswers)
<1>1. \A open \in BOOLEAN : LineGood(<<>>, <<>>, open) /\ Cardinality(Owed(<<>>, open)) = 0
                            /\ Caught(Ground, <<>>, open) = 0
  BY NothingOwed
<1>2. Counted(NoAnswers) /\ NoAnswers.hello = 0 /\ NoAnswers.asked = 0
  BY DEF Counted, NoAnswers
<1>3. ASSUME NEW open \in BOOLEAN
      PROVE  Wire(Ground, <<>>, <<>>, open) /\ HellosKept(NoAnswers, Ground, <<>>, open)
  <2>1. \A o : Wire(Scanner("ground", <<>>, o), <<>>, <<>>, open)
    BY <1>1, Emptied
  <2>2. HellosKept(NoAnswers, Ground, <<>>, open)
    BY <1>1, <1>2 DEF HellosKept
  <2>3. Wire(Ground, <<>>, <<>>, open)
    BY <2>1, Zenon DEF Ground
  <2> QED BY <2>2, <2>3
<1> QED BY <1>2, <1>3

\* The first state is good.
LEMMA InitInv == Init => Inv
<1> SUFFICES ASSUME Init PROVE Inv
  OBVIOUS
<1>1. IsSeq(<<>>)
  BY NothingOwed
<1>2. Wire(scan, pipe, told, running) /\ HellosKept(answers, scan, pipe, running) /\ Counted(answers)
  BY FreshWire DEF Init
<1>3. SlotGood(slot) /\ ButtonsTold(slot, told)
  BY NoSlotGood DEF Init, ButtonsTold
<1>4. QueriesKept(answers, replied, now)
  BY DEF Init, QueriesKept, NoAnswers
<1>5. /\ alive \in BOOLEAN /\ running \in BOOLEAN /\ IsSeq(told) /\ now \in Nat \ {0} /\ alive
  BY <1>1 DEF Init
<1> QED BY <1>2, <1>3, <1>4, <1>5 DEF Inv

\* A button stays told when more is.
LEMMA ButtonsMore ==
  ASSUME NEW p, NEW t, IsSeq(t), NEW m, ButtonsTold(p, t) PROVE ButtonsTold(p, Append(t, m))
<1>1. \A i \in 1 .. Len(t) : Append(t, m)[i] = t[i] /\ i \in 1 .. Len(Append(t, m))
  BY Add, Measured
<1> QED BY <1>1 DEF ButtonsTold

\* A program writes a sequence.
LEMMA WriteStep == ASSUME Inv, NEW g \in Gestures, Write(g) PROVE Inv'
<1> DEFINE w == g.writes
<1>1. /\ running = TRUE /\ running' = TRUE /\ alive' = alive /\ scan' = scan /\ slot' = slot
      /\ replied' = replied /\ now' = now /\ pipe' = pipe \o w
      /\ told' = Append(told, g.means) /\ answers' = [answers EXCEPT !.asked = @ + Asks(g)]
  BY DEF Write, Inv
<1>2. SaysWhatItMeans(w, g.means) /\ w # <<>> /\ IsSeq(w) /\ LineGood(w, told', TRUE)
  BY <1>1, GestureGood DEF Inv
<1>3. Wire(scan, pipe, told', running)
  BY <1>1, WireTold DEF Inv
<1>4. Wire(scan, pipe \o w, told', running)
  BY <1>1, <1>2, <1>3, WireWrite
<1>5. Asks(g) \in Nat
  BY DEF Asks
<1>6. Counted(answers') /\ answers'.hello = answers.hello /\ answers'.query = answers.query
      /\ answers'.asked = answers.asked + Asks(g)
  <2>1. Counted(answers)
    BY DEF Inv
  <2> QED BY <1>1, <1>5, <2>1 DEF Counted
<1>7. HellosKept(answers', scan, pipe \o w, running)
  <2>1. Cardinality(Owed(pipe \o w, TRUE)) <= Cardinality(Owed(pipe, TRUE)) + Asks(g)
    BY <1>2, OwedWritten DEF Inv, Wire, LineGood
  <2>2. Caught(scan, pipe \o w, running) = Caught(scan, pipe, running)
    BY <1>1 DEF Caught, Due
  <2>3. Cardinality(Owed(pipe, running)) \in Nat /\ Cardinality(Owed(pipe \o w, running)) \in Nat
    <3>1. IsSeq(pipe) /\ IsSeq(pipe \o w)
      BY <1>2, Cat DEF Inv, Wire, LineGood
    <3> QED BY <3>1, OwedFinite DEF Inv
  <2>4. Caught(scan, pipe, running) \in Nat
    BY DEF Caught
  <2>5. answers.hello + Cardinality(Owed(pipe, running)) + Caught(scan, pipe, running) <= answers.asked
    BY DEF Inv, HellosKept
  <2>6. answers.hello \in Nat /\ answers.asked \in Nat
    BY DEF Inv, Counted
  <2>7. Cardinality(Owed(pipe \o w, running)) <= Cardinality(Owed(pipe, running)) + Asks(g)
    BY <1>1, <2>1
  <2> QED BY <1>5, <1>6, <2>2, <2>3, <2>4, <2>5, <2>6, <2>7 DEF HellosKept
<1>8. IsSeq(told') /\ ButtonsTold(slot, told')
  BY <1>1, Add, ButtonsMore DEF Inv
<1>9. QueriesKept(answers', replied, now)
  BY <1>6 DEF Inv, QueriesKept
<1>10. alive
  BY <1>1 DEF Inv, Gone
<1> HIDE DEF w
<1> QED BY <1>1, <1>4, <1>6, <1>7, <1>8, <1>9, <1>10 DEF Inv

\* What a program that is cut short leaves is not owed.
LEMMA ExitStep == ASSUME Inv, Exit PROVE Inv'
<1>1. /\ running = TRUE /\ running' = FALSE /\ alive' = alive /\ scan' = scan /\ slot' = slot
      /\ replied' = replied /\ now' = now /\ told' = told /\ answers' = answers /\ alive
  BY DEF Exit, Inv, Gone
<1>2. Wire(scan, pipe', told, FALSE) /\ Cardinality(Owed(pipe', FALSE)) <= Cardinality(Owed(pipe, TRUE))
      /\ Cardinality(Owed(pipe', FALSE)) \in Nat /\ Cardinality(Owed(pipe, TRUE)) \in Nat
  <2>0. IsSeq(pipe) /\ Wire(scan, pipe, told, running)
    BY DEF Inv, Wire, LineGood
  <2>1. CASE pipe' = pipe
    <3>1. Wire(scan, pipe, told, FALSE)
      BY <1>1, <2>0 DEF Wire, LineGood, ScanGood, Joined, Pair, Due
    <3>2. Owed(pipe, FALSE) \subseteq Owed(pipe, TRUE)
      BY DEF Owed, Due
    <3>3. IsFiniteSet(Owed(pipe, TRUE))
      BY <2>0, OwedFinite
    <3> QED BY <2>0, <2>1, <3>1, <3>2, <3>3, OwedFinite, FS_Subset
  <2>2. ASSUME NEW g \in Gestures, NEW n \in 1 .. Len(g.writes) - 1,
               pipe' = pipe \o SubSeq(g.writes, 1, n)
        PROVE  /\ Wire(scan, pipe', told, FALSE)
               /\ Cardinality(Owed(pipe', FALSE)) <= Cardinality(Owed(pipe, TRUE))
               /\ Cardinality(Owed(pipe', FALSE)) \in Nat /\ Cardinality(Owed(pipe, TRUE)) \in Nat
    <3> DEFINE c == SubSeq(g.writes, 1, n)
    <3>1. IsSeq(c) /\ c # <<>> /\ LineGood(c, told, FALSE) /\ \A i \in 1 .. Len(c) : ~Ends(c[i])
      BY CutGood
    <3>2. pipe' = pipe \o c
      BY <2>2
    <3> HIDE DEF c
    <3>3. Wire(scan, pipe \o c, told, FALSE)
      <4>1. ASSUME NEW open \in BOOLEAN, LineGood(c, told, open) PROVE Wire(scan, pipe \o c, told, open)
        BY <1>1, <2>0, <3>1, <4>1, WireWrite
      <4> QED BY <3>1, <4>1
    <3>4. Cardinality(Owed(pipe \o c, FALSE)) <= Cardinality(Owed(pipe, TRUE))
      BY <2>0, <3>1, OwedCut
    <3>5. IsSeq(pipe \o c)
      BY <2>0, <3>1, Cat
    <3>6. Cardinality(Owed(pipe \o c, FALSE)) \in Nat /\ Cardinality(Owed(pipe, TRUE)) \in Nat
      BY <2>0, <3>5, OwedFinite
    <3> QED BY <3>2, <3>3, <3>4, <3>6
  <2> QED BY <2>1, <2>2 DEF Exit
<1>3. Caught(scan, pipe', FALSE) \in {0, 1} /\ Caught(scan, pipe, TRUE) \in {0, 1}
      /\ Caught(scan, pipe', FALSE) <= Caught(scan, pipe, TRUE)
  BY DEF Caught, Due
<1>4. HellosKept(answers, scan, pipe', FALSE)
  <2>1. answers.hello + Cardinality(Owed(pipe, TRUE)) + Caught(scan, pipe, TRUE) <= answers.asked
    BY <1>1 DEF Inv, HellosKept
  <2>2. answers.hello \in Nat /\ answers.asked \in Nat
    BY DEF Inv, Counted
  <2> DEFINE A == Cardinality(Owed(pipe', FALSE))
             B == Cardinality(Owed(pipe, TRUE))
             c == Caught(scan, pipe', FALSE)
             d == Caught(scan, pipe, TRUE)
  <2>3. A <= B /\ A \in Nat /\ B \in Nat /\ c \in {0, 1} /\ d \in {0, 1} /\ c <= d
        /\ answers.hello + B + d <= answers.asked
    BY <1>2, <1>3, <2>1
  <2> HIDE DEF A, B, c, d
  <2>4. answers.hello + A + c <= answers.asked
    BY <2>2, <2>3
  <2> QED BY <2>4 DEF HellosKept, A, c
<1> QED BY <1>1, <1>2, <1>4 DEF Inv

\* Time passes: what has been answered stays within what the clock allows.
LEMMA TickStep == ASSUME Inv, Tick PROVE Inv'
<1>1. /\ now' = now + 1 /\ now \in Nat
      /\ UNCHANGED <<pipe, alive, running, scan, slot, replied, told, answers>>
  BY DEF Tick, Inv
<1>2. QueriesKept(answers, replied, now')
  BY <1>1 DEF Inv, QueriesKept
<1> QED BY <1>1, <1>2 DEF Inv, Gone

\* A later answer by a gap is one more quarter of a second.
LEMMA GapStep ==
  ASSUME NEW a \in Nat, NEW b \in Nat, a + Gap <= b PROVE a \div Gap + 1 <= b \div Gap
<1>1. Gap \in Nat /\ Gap > 0
  BY StatusAssumption DEF StatusAssumption
<1> DEFINE q == a \div Gap
           r == b \div Gap
<1>2. q \in Nat /\ q * Gap <= a
  BY <1>1
<1>3. r \in Nat /\ b < (r + 1) * Gap
  BY <1>1
<1> HIDE DEF q, r
<1>4. (q + 1) * Gap < (r + 1) * Gap
  BY <1>1, <1>2, <1>3
<1>5. q + 1 <= r
  BY <1>1, <1>2, <1>3, <1>4
<1> QED BY <1>5 DEF q, r

\* And more time is no fewer quarters.
LEMMA GapMore ==
  ASSUME NEW a \in Nat, NEW b \in Nat, a <= b PROVE a \div Gap \in Nat /\ a \div Gap <= b \div Gap
<1>1. Gap \in Nat /\ Gap > 0
  BY StatusAssumption DEF StatusAssumption
<1> DEFINE q == a \div Gap
           r == b \div Gap
<1>2. q \in Nat /\ q * Gap <= a
  BY <1>1
<1>3. r \in Nat /\ b < (r + 1) * Gap
  BY <1>1
<1> HIDE DEF q, r
<1>4. q * Gap < (r + 1) * Gap
  BY <1>1, <1>2, <1>3
<1>5. q <= r
  BY <1>1, <1>2, <1>3, <1>4
<1> QED BY <1>2, <1>5 DEF q, r

\* An answer goes back into the line, if at all, and is owed nothing.
LEMMA EchoKept ==
  ASSUME NEW sc, NEW p, NEW w, NEW b, w \in {QueryReply, HelloReply, Verb("click", b)},
         running \in BOOLEAN, Wire(sc, p, told, running)
  PROVE  /\ Wire(sc, p \o Echoed(w), told, running)
         /\ Owed(p \o Echoed(w), running) = Owed(p, running)
         /\ Caught(sc, p \o Echoed(w), running) = Caught(sc, p, running)
<1>1. IsSeq(p)
  BY DEF Wire, LineGood
<1>2. IsSeq(w) /\ w # <<>> /\ LineGood(w, told, TRUE) /\ \A i \in 1 .. Len(w) : ~Hello(w[i])
  <2>1. Plain(w, told)
    BY AnswersGood
  <2> QED BY <2>1 DEF Plain
<1>3. CASE Echo /\ running
  <2>1. Echoed(w) = w
    BY <1>3 DEF Echoed
  <2>2. running = TRUE
    BY <1>3
  <2>3. Wire(sc, p \o w, told, running)
    BY <1>2, <2>2, WireWrite
  <2>4. Owed(p \o w, running) = Owed(p, running)
    BY <1>1, <1>2, <2>2, OwedEcho
  <2>5. Caught(sc, p \o w, running) = Caught(sc, p, running)
    BY <2>2 DEF Caught, Due
  <2> QED BY <2>1, <2>3, <2>4, <2>5
<1>4. CASE ~(Echo /\ running)
  <2>1. Echoed(w) = <<>>
    BY <1>4 DEF Echoed
  <2>2. p \o <<>> = p
    BY <1>1 DEF IsSeq
  <2> QED BY <2>1, <2>2
<1> QED BY <1>3, <1>4

\* A click is made when the line is at rest.
LEMMA ClickStep == ASSUME Inv, Click PROVE Inv'
<1>1. /\ UNCHANGED <<alive, running, scan, slot, replied, now, told, answers>>
      /\ running \in BOOLEAN /\ Wire(scan, pipe, told, running)
  BY DEF Click, Inv
<1>2. PICK b \in slot.buttons : pipe' = pipe \o (IF alive THEN Echoed(Verb("click", b)) ELSE <<>>)
  BY DEF Click
<1>3. CASE alive
  <2>1. pipe' = pipe \o Echoed(Verb("click", b))
    BY <1>2, <1>3
  <2>2. /\ Wire(scan, pipe', told, running) /\ Owed(pipe', running) = Owed(pipe, running)
        /\ Caught(scan, pipe', running) = Caught(scan, pipe, running)
    BY <1>1, <2>1, EchoKept
  <2>3. HellosKept(answers, scan, pipe', running)
    BY <2>2 DEF Inv, HellosKept
  <2> QED BY <1>1, <1>3, <2>2, <2>3 DEF Inv
<1>4. CASE ~alive
  <2>1. pipe' = pipe
    <3>1. IsSeq(pipe)
      BY <1>1 DEF Wire, LineGood
    <3> QED BY <1>2, <1>4, <3>1 DEF IsSeq
  <2> QED BY <1>1, <2>1 DEF Inv, Gone
<1> QED BY <1>3, <1>4 DEF Inv

\* The end of the file: the pane claims no more work.
LEMMA EndStep == ASSUME Inv, EndOfFile PROVE Inv'
<1>1. /\ ~running /\ pipe = <<>> /\ slot' = DropTransient(slot) /\ told' = Append(told, <<"exit">>)
      /\ alive' = FALSE /\ UNCHANGED <<pipe, running, scan, replied, now, answers>>
  BY DEF EndOfFile, Died
<1>2. SlotGood(slot') /\ slot'.buttons = slot.buttons /\ \A x \in slot'.recs : ~Busy(x.rep)
  BY <1>1, DropGood DEF Inv
<1>3. Wire(scan, pipe, told', running) /\ IsSeq(told')
  BY <1>1, WireTold, Add DEF Inv
<1>4. ButtonsTold(slot, told')
  BY <1>1, ButtonsMore DEF Inv
<1>5. ButtonsTold(slot', told')
  BY <1>2, <1>4 DEF ButtonsTold
<1> QED BY <1>1, <1>2, <1>3, <1>5 DEF Inv, Gone

\* A new run begins with nothing said and nothing owed.
LEMMA RestartStep == ASSUME Inv, Restart PROVE Inv'
<1>1. /\ ~alive /\ pipe = <<>> /\ pipe' = pipe /\ scan' = Ground /\ alive' = TRUE /\ running' = TRUE
      /\ now' = 1 /\ told' = <<>> /\ answers' = NoAnswers /\ replied' = 0
      /\ slot' = [slot EXCEPT !.status = Blank, !.busy = FALSE, !.buttons = {},
                              !.recs = {}, !.showing = FALSE]
  BY DEF Restart, Rescanned, Inv, Gone
<1>2. IsSlot(slot) /\ RecsGood(slot.recs, slot.clock)
  BY DEF Inv, SlotGood
<1>3. /\ IsSlot(slot') /\ slot'.recs = {} /\ slot'.showing = FALSE /\ slot'.buttons = {}
      /\ slot'.clock = slot.clock
  BY <1>1, <1>2 DEF IsSlot
<1>4. RecsGood({}, slot.clock)
  BY <1>2, Fewer
<1>5. Agrees(slot')
  <2>1. slot'.showing = (slot'.recs # {})
    BY <1>3
  <2> QED BY <1>3, <2>1 DEF Agrees
<1>6. SlotGood(slot') /\ ButtonsTold(slot', told')
  BY <1>3, <1>4, <1>5 DEF SlotGood, ButtonsTold
<1>7. Wire(scan', pipe', told', running') /\ HellosKept(answers', scan', pipe', running')
      /\ Counted(answers')
  BY <1>1, FreshWire
<1>8. QueriesKept(answers', replied', now')
  BY <1>1 DEF QueriesKept, NoAnswers
<1>9. IsSeq(told')
  BY <1>1, NothingOwed
<1>10. alive' \in BOOLEAN /\ running' \in BOOLEAN /\ now' \in Nat \ {0} /\ alive'
  BY <1>1
<1> QED BY <1>6, <1>7, <1>8, <1>9, <1>10 DEF Inv

\* What a step of the scanner may do to the slot.
LEMMA SlotStep ==
  ASSUME Inv, Feed
  PROVE  SlotGood(slot') /\ ButtonsTold(slot', told)
<1> DEFINE e == Scan(scan, Head(pipe)).event
<1>1. pipe # <<>> /\ SlotGood(slot) /\ ButtonsTold(slot, told) /\ running \in BOOLEAN
      /\ Wire(scan, pipe, told, running)
  BY DEF Feed, Inv
<1>2. /\ e[1] = "report" => IsReport(e[2]) /\ e[2].state \in States \cup {"clear"}
      /\ e[1] = "verb" /\ e[2] = "buttons" => Announced(e[3], told)
  BY <1>1, HeardGood
<1>3. \/ slot' = slot
      \/ e[1] = "report" /\ slot' = OnProgramStatus(slot, e[2])
      \/ e[1] = "verb" /\ slot' = OnOsc5577(slot, e[2], e[3])
      \/ slot' = DropTransient(slot)
      \/ slot' = DropAll(slot)
  BY DEF Feed
<1> HIDE DEF e
<1>4. CASE slot' = slot
  BY <1>1, <1>4
<1>5. CASE e[1] = "report" /\ slot' = OnProgramStatus(slot, e[2])
  <2>1. SlotGood(slot') /\ slot'.buttons = slot.buttons
    BY <1>1, <1>2, <1>5, ReportGood
  <2> QED BY <1>1, <2>1 DEF ButtonsTold
<1>6. CASE e[1] = "verb" /\ slot' = OnOsc5577(slot, e[2], e[3])
  <2>1. SlotGood(slot')
        /\ \A b \in slot'.buttons : b \in slot.buttons \/ (e[2] = "buttons" /\ b \in ParseButtons(e[3]))
    BY <1>1, <1>6, VerbGood
  <2>2. ASSUME NEW b \in slot'.buttons
        PROVE  \E i \in 1 .. Len(told) : /\ told[i][1] = "verb" /\ told[i][2] = "buttons"
                                         /\ \E j \in 1 .. Len(told[i][3]) : told[i][3][j].id = b
    <3>1. CASE b \in slot.buttons
      BY <1>1, <3>1 DEF ButtonsTold
    <3>2. CASE e[2] = "buttons" /\ b \in ParseButtons(e[3])
      <4>1. PICK i \in 1 .. Len(told) : told[i] = <<"verb", "buttons", e[3]>>
        BY <1>2, <1>6, <3>2 DEF Announced
      <4>2. \E j \in 1 .. Len(e[3]) : e[3][j].id = b
        BY <3>2, ButtonIsField
      <4>3. told[i][1] = "verb" /\ told[i][2] = "buttons" /\ told[i][3] = e[3]
        BY <4>1
      <4> QED BY <4>2, <4>3
    <3> QED BY <2>1, <3>1, <3>2
  <2> QED BY <2>1, <2>2 DEF ButtonsTold
<1>7. CASE slot' = DropTransient(slot) \/ slot' = DropAll(slot)
  <2>1. SlotGood(slot') /\ slot'.buttons = slot.buttons
    BY <1>1, <1>7, DropGood
  <2> QED BY <1>1, <2>1 DEF ButtonsTold
<1> QED BY <1>3, <1>4, <1>5, <1>6, <1>7

\* What a step of the scanner may do to the line, and what it answers.
LEMMA LineStep ==
  ASSUME Inv, Feed
  PROVE  /\ Wire(scan', pipe', told, running)
         /\ Counted(answers') /\ HellosKept(answers', scan', pipe', running)
         /\ QueriesKept(answers', replied', now)
<1> DEFINE r == Scan(scan, Head(pipe))
           e == r.event
           q == Tail(pipe)
           t == told
           A == Cardinality(Owed(pipe, running))
           B == Cardinality(Owed(q, running))
           c == Caught(scan, pipe, running)
           d == Caught(r.scan, q, running)
<1>1. /\ pipe # <<>> /\ running \in BOOLEAN /\ Wire(scan, pipe, t, running)
      /\ Counted(answers) /\ HellosKept(answers, scan, pipe, running)
      /\ QueriesKept(answers, replied, now) /\ now \in Nat \ {0} /\ scan' = r.scan
  BY DEF Feed, Inv
<1>2. Wire(r.scan, q, t, running)
  BY <1>1, WireRead
<1>3. \A n \in {0, 1} : (n = 1 => e[1] = "verb" /\ e[2] = "hello") => n + B + d <= A + c
  <2>1. e[1] = "verb" /\ e[2] = "hello" => r.scan = Ground /\ c = 1
    BY <1>1, HeardGood
  <2> QED BY <1>1, <2>1, HelloRead
<1>4. A \in Nat /\ B \in Nat /\ c \in {0, 1} /\ d \in {0, 1} /\ answers.hello + A + c <= answers.asked
      /\ answers.hello \in Nat /\ answers.asked \in Nat /\ answers.query \in Nat
  <2>1. IsSeq(pipe) /\ IsSeq(q)
    BY <1>1, <1>2 DEF Wire, LineGood
  <2>2. A \in Nat /\ B \in Nat
    BY <1>1, <2>1, OwedFinite
  <2>3. c \in {0, 1} /\ d \in {0, 1}
    BY DEF Caught
  <2> QED BY <1>1, <2>2, <2>3 DEF Counted, HellosKept
<1>5. /\ Wire(r.scan, q \o Echoed(HelloReply), t, running)
      /\ Owed(q \o Echoed(HelloReply), running) = Owed(q, running)
      /\ Caught(r.scan, q \o Echoed(HelloReply), running) = d
  BY <1>1, <1>2, EchoKept
<1>6. /\ Wire(r.scan, q \o Echoed(QueryReply), t, running)
      /\ Owed(q \o Echoed(QueryReply), running) = Owed(q, running)
      /\ Caught(r.scan, q \o Echoed(QueryReply), running) = d
  BY <1>1, <1>2, EchoKept
<1>7. \/ pipe' = q /\ UNCHANGED <<replied, answers>>
      \/ /\ e[1] = "verb" /\ e[2] = "hello"
         /\ pipe' = q \o Echoed(HelloReply)
         /\ answers' = [answers EXCEPT !.hello = @ + 1] /\ replied' = replied
      \/ /\ replied = 0 \/ now - replied >= Gap
         /\ replied' = now /\ pipe' = q \o Echoed(QueryReply)
         /\ answers' = [answers EXCEPT !.query = @ + 1]
  <2>1. Gap \in Nat /\ replied \in Nat /\ now \in Nat
    BY <1>1, StatusAssumption DEF StatusAssumption, QueriesKept
  <2> QED BY <2>1 DEF Feed
<1> HIDE DEF r, q, A, B, c, d
<1>8. CASE pipe' = q /\ UNCHANGED <<replied, answers>>
  <2>1. 0 + B + d <= A + c
    BY <1>3
  <2>2. answers.hello + B + d <= answers.asked
    BY <1>4, <2>1
  <2>3. HellosKept(answers', scan', pipe', running)
    BY <1>1, <1>8, <2>2 DEF HellosKept, B, d
  <2> QED BY <1>1, <1>2, <1>8, <2>3
<1>9. CASE /\ e[1] = "verb" /\ e[2] = "hello"
           /\ pipe' = q \o Echoed(HelloReply)
           /\ answers' = [answers EXCEPT !.hello = @ + 1] /\ replied' = replied
  <2>1. 1 + B + d <= A + c
    BY <1>3, <1>9
  <2>2. Counted(answers') /\ answers'.hello = answers.hello + 1 /\ answers'.asked = answers.asked
        /\ answers'.query = answers.query
    BY <1>1, <1>9 DEF Counted
  <2>3. answers'.hello + B + d <= answers'.asked
    BY <1>4, <2>1, <2>2
  <2>4. HellosKept(answers', scan', pipe', running)
    BY <1>1, <1>5, <1>9, <2>3 DEF HellosKept, B
  <2>5. QueriesKept(answers', replied', now)
    BY <1>1, <1>9, <2>2 DEF QueriesKept
  <2> QED BY <1>1, <1>5, <1>9, <2>2, <2>4, <2>5
<1>10. CASE /\ replied = 0 \/ now - replied >= Gap
            /\ replied' = now /\ pipe' = q \o Echoed(QueryReply)
            /\ answers' = [answers EXCEPT !.query = @ + 1]
  <2>1. 0 + B + d <= A + c
    BY <1>3
  <2>2. Counted(answers') /\ answers'.hello = answers.hello /\ answers'.asked = answers.asked
        /\ answers'.query = answers.query + 1
    <3>1. Counted(answers) /\ answers' = [answers EXCEPT !.query = @ + 1]
      BY <1>1, <1>10
    <3> QED BY <3>1 DEF Counted
  <2>3. answers'.hello + B + d <= answers'.asked
    BY <1>4, <2>1, <2>2
  <2>4. HellosKept(answers', scan', pipe', running)
    BY <1>1, <1>6, <1>10, <2>3 DEF HellosKept, B
  <2>5. QueriesKept(answers', replied', now)
    <3>1. Gap \in Nat /\ replied \in Nat /\ now \in Nat \ {0}
      BY <1>1, StatusAssumption DEF StatusAssumption, QueriesKept
    <3>2. CASE replied = 0
      <4>1. answers.query = 0
        BY <1>1, <3>2 DEF QueriesKept
      <4>2. (now - 1) \div Gap \in Nat
        BY <3>1, GapMore
      <4> QED BY <1>10, <2>2, <3>1, <4>1, <4>2 DEF QueriesKept
    <3>3. CASE replied # 0
      <4>1. answers.query <= 1 + (replied - 1) \div Gap
        BY <1>1, <3>3 DEF QueriesKept
      <4>2. replied - 1 \in Nat /\ now - 1 \in Nat /\ (replied - 1) + Gap <= now - 1
            /\ replied - 1 <= now - 1
        BY <1>10, <3>1, <3>3
      <4>3. (replied - 1) \div Gap + 1 <= (now - 1) \div Gap
        BY <4>2, GapStep
      <4>4. (replied - 1) \div Gap \in Nat /\ (now - 1) \div Gap \in Nat
        BY <4>2, GapMore
      <4>5. answers'.query <= 1 + (now - 1) \div Gap
        <5> DEFINE x == (replied - 1) \div Gap
                   y == (now - 1) \div Gap
        <5>1. x \in Nat /\ y \in Nat /\ x + 1 <= y /\ answers.query <= 1 + x
          BY <4>1, <4>3, <4>4
        <5> HIDE DEF x, y
        <5>2. answers'.query <= 1 + y
          BY <1>4, <2>2, <5>1
        <5> QED BY <5>2 DEF y
      <4> QED BY <1>10, <3>1, <4>5 DEF QueriesKept
    <3> QED BY <3>2, <3>3
  <2> QED BY <1>1, <1>6, <1>10, <2>2, <2>4, <2>5
<1> QED BY <1>7, <1>8, <1>9, <1>10

\* The scanner reads a piece.
LEMMA FeedStep == ASSUME Inv, Feed PROVE Inv'
<1>1. UNCHANGED <<alive, running, now>> /\ alive /\ told' = told
  BY DEF Feed
<1> QED BY <1>1, SlotStep, LineStep DEF Inv

\* Every step keeps the invariant.
LEMMA Stays == Inv /\ [Next]_vars => Inv'
<1>1. ASSUME Inv, UNCHANGED vars PROVE Inv'
  BY <1>1 DEF vars, Inv, Gone
<1> QED BY <1>1, WriteStep, ExitStep, TickStep, FeedStep, ClickStep, EndStep, RestartStep DEF Next

-----------------------------------------------------------------------------
(* The theorems.                                                           *)

(***************************************************************************)
(* The strengthened invariant holds in every state.                        *)
(***************************************************************************)
THEOREM Inductive == Spec => []Inv
BY InitInv, Stays, PTL DEF Spec

(***************************************************************************)
(* The line, its mark and what the control API names are those of one      *)
(* record that is held and that no other outranks; a pane whose program is *)
(* gone claims no work; every button was asked for by the run it would be  *)
(* sent to, for whatever the program writes and wherever reads cut it.     *)
(***************************************************************************)
THEOREM SlotIsTrue == Spec => []SlotAgrees
<1>1. Inv => SlotAgrees
  <2> SUFFICES ASSUME Inv PROVE SlotAgrees
    OBVIOUS
  <2>1. Agrees(slot) /\ ButtonsTold(slot, told) /\ (~alive => \A x \in slot.recs : ~Busy(x.rep))
    BY DEF Inv, SlotGood, Gone
  <2> QED BY <2>1 DEF SlotAgrees, Agrees, ButtonsTold
<1> QED BY <1>1, Inductive, PTL

(***************************************************************************)
(* A pane that echoes is never answered into a loop: hellos are answered   *)
(* no more often than asked and questions no faster than the gap, for      *)
(* every gap and however long the run.                                     *)
(***************************************************************************)
THEOREM NoLoop == Spec => []NoAmplification
<1>1. Inv => NoAmplification
  <2> SUFFICES ASSUME Inv PROVE NoAmplification
    OBVIOUS
  <2>1. answers.hello \in Nat /\ answers.asked \in Nat /\ answers.query \in Nat
        /\ now \in Nat \ {0}
    BY DEF Inv, Counted
  <2>2. answers.hello <= answers.asked
    <3> DEFINE A == Cardinality(Owed(pipe, running))
               c == Caught(scan, pipe, running)
    <3>1. A \in Nat /\ c \in {0, 1}
      <4>1. IsSeq(pipe) /\ running \in BOOLEAN
        BY DEF Inv, Wire, LineGood
      <4> QED BY <4>1, OwedFinite DEF Caught
    <3>2. answers.hello + A + c <= answers.asked
      BY DEF Inv, HellosKept
    <3> HIDE DEF A, c
    <3> QED BY <2>1, <3>1, <3>2
  <2>3. answers.query <= 1 + (now - 1) \div Gap
    <3>1. QueriesKept(answers, replied, now) /\ replied \in 0 .. now
      BY DEF Inv, QueriesKept
    <3>2. CASE replied = 0
      <4>1. (now - 1) \div Gap \in Nat
        BY <2>1, GapMore
      <4> QED BY <3>1, <3>2, <4>1 DEF QueriesKept
    <3>3. CASE replied # 0
      <4> DEFINE x == (replied - 1) \div Gap
                 y == (now - 1) \div Gap
      <4>1. answers.query <= 1 + x
        BY <3>1, <3>3 DEF QueriesKept
      <4>2. x \in Nat /\ y \in Nat /\ x <= y
        <5>1. replied - 1 \in Nat /\ now - 1 \in Nat /\ replied - 1 <= now - 1
          BY <2>1, <3>1, <3>3
        <5> QED BY <5>1, GapMore
      <4> HIDE DEF x, y
      <4>3. answers.query <= 1 + y
        BY <2>1, <4>1, <4>2
      <4> QED BY <4>3 DEF y
    <3> QED BY <3>2, <3>3
  <2> QED BY <2>2, <2>3 DEF NoAmplification
<1> QED BY <1>1, Inductive, PTL

(* The bounds of the behaviours. *)
Bounds == now \in 1 .. MaxTicks \cup {1} /\ runs \in 1 .. MaxRuns \cup {1} /\ written \in 0 .. MaxGestures

(***************************************************************************)
(* The variables keep their types: no more records than there is room for, *)
(* one for an id, and no two that were written at once.                    *)
(***************************************************************************)
THEOREM TypeCorrect == Spec => []TypeOK
<1>1. Init => Bounds
  BY StatusAssumption DEF Init, Bounds, StatusAssumption
<1>2. Bounds /\ [Next]_vars => Bounds'
  <2> SUFFICES ASSUME Bounds, [Next]_vars PROVE Bounds'
    OBVIOUS
  <2> USE StatusAssumption DEF StatusAssumption, Bounds
  <2>1. ASSUME NEW g \in Gestures, Write(g) PROVE Bounds'
    BY <2>1 DEF Write
  <2>2. CASE Exit
    BY <2>2 DEF Exit
  <2>3. CASE Tick
    BY <2>3 DEF Tick
  <2>4. CASE Feed
    BY <2>4 DEF Feed
  <2>5. CASE Click
    BY <2>5 DEF Click
  <2>6. CASE EndOfFile
    BY <2>6 DEF EndOfFile
  <2>7. CASE Restart
    BY <2>7 DEF Restart
  <2>8. CASE UNCHANGED vars
    BY <2>8 DEF vars
  <2> QED BY <2>1, <2>2, <2>3, <2>4, <2>5, <2>6, <2>7, <2>8 DEF Next
<1>3. Inv /\ Bounds => TypeOK
  <2> SUFFICES ASSUME Inv, Bounds PROVE TypeOK
    OBVIOUS
  <2>1. scan.at \in {"ground", "esc", "body", "bodyesc"} /\ replied \in 0 .. now
    BY DEF Inv, Wire, ScanGood, QueriesKept
  <2>2. RecsGood(slot.recs, slot.clock)
    BY DEF Inv, SlotGood
  <2>3. alive \in BOOLEAN /\ running \in BOOLEAN
    BY DEF Inv
  <2> QED BY <2>1, <2>2, <2>3 DEF TypeOK, Bounds, RecsGood
<1> QED BY <1>1, <1>2, <1>3, Inductive, PTL DEF Spec

-----------------------------------------------------------------------------
(* What was said, and what of it is still true.                            *)

\* A set with zero and every next number holds all numbers.
LEMMA Onwards ==
  ASSUME NEW S \in SUBSET Nat, 0 \in S, \A i \in Nat : i \in S => i + 1 \in S
  PROVE  S = Nat
<1> SUFFICES ASSUME Nat \ S # {} PROVE FALSE
  OBVIOUS
<1>1. PICK x \in Nat \ S : \A y \in Nat \ S : ~(<<y, x>> \in OpToRel(<, Nat))
  BY WFMin, NatLessThanWellFounded
<1>2. x # 0 /\ x - 1 \in Nat /\ x - 1 < x /\ (x - 1) + 1 = x
  OBVIOUS
<1>3. x - 1 \in S
  BY <1>1, <1>2 DEF OpToRel
<1> QED BY <1>1, <1>2, <1>3

(* H[k] is what is still true after the first k things said. *)
HeldBy(t, H) ==
  /\ H[0] = {}
  /\ \A k \in 0 .. Len(t) : H[k] \subseteq 1 .. k
  /\ \A k \in 1 .. Len(t) : H[k] = Still(t, H[k - 1], k)

\* What is still true is part of what was, and what has been said last.
LEMMA StillIn ==
  ASSUME NEW t, NEW n \in Nat \ {0}, NEW was, was \subseteq 1 .. n - 1
  PROVE  Still(t, was, n) \subseteq 1 .. n
<1> DEFINE e == t[n]
<1>0. was \subseteq 1 .. n /\ {n} \subseteq 1 .. n
  OBVIOUS
<1>1. CASE e[1] = "report" /\ e[2].state = "clear"
  BY <1>0, <1>1 DEF Still
<1>2. CASE e[1] = "report" /\ e[2].state # "clear"
  BY <1>0, <1>2 DEF Still, Newest
<1>3. CASE e[1] = "verb" /\ e[2] \in {"status", "busy", "clear"}
  BY <1>0, <1>3 DEF Still
<1>4. CASE e[1] = "reset"
  BY <1>0, <1>4 DEF Still
<1>5. CASE e[1] \in {"prompt", "exit"}
  BY <1>0, <1>5 DEF Still
<1>6. CASE ~(e[1] \in {"report", "reset", "prompt", "exit"}) /\ ~(e[1] = "verb" /\ e[2] \in {"status", "busy", "clear"})
  BY <1>0, <1>6 DEF Still
<1> QED BY <1>1, <1>2, <1>3, <1>4, <1>5, <1>6

\* What is still true depends on the things said that are in question only.
LEMMA StillSame ==
  ASSUME NEW t, NEW u, NEW was, NEW n, u[n] = t[n], \A i \in was : u[i] = t[i]
  PROVE  Still(u, was, n) = Still(t, was, n)
<1> DEFINE e == t[n]
<1>1. /\ {i \in was : ~IsPrefix(e[2].id, u[i][2].id)} = {i \in was : ~IsPrefix(e[2].id, t[i][2].id)}
      /\ {i \in was : u[i][2].id # e[2].id} = {i \in was : t[i][2].id # e[2].id}
      /\ {i \in was : u[i][2].state \notin {"working", "blocked"}}
           = {i \in was : t[i][2].state \notin {"working", "blocked"}}
  OBVIOUS
<1> QED BY <1>1, Zenon DEF Still

\* What the property calls held is what is held after all that was said.
LEMMA HeldLast ==
  ASSUME NEW H, IsSeq(told), HeldBy(told, H)
  PROVE  Held = H[Len(told)]
<1> DEFINE N == Len(told)
           F(f, n) == IF n = 0 THEN {} ELSE Still(told, f[n - 1], n)
           held == CHOOSE f : f = [n \in 0 .. N |-> F(f, n)]
           g == [n \in 0 .. N |-> H[n]]
<1>0. N \in Nat
  BY Measured
<1>1. g = [n \in 0 .. N |-> F(g, n)]
  <2>1. ASSUME NEW n \in 0 .. N PROVE g[n] = F(g, n)
    <3>1. CASE n = 0
      BY <3>1 DEF HeldBy
    <3>2. CASE n # 0
      <4>1. n - 1 \in 0 .. N /\ n \in 1 .. N
        BY <1>0, <3>2
      <4>2. g[n - 1] = H[n - 1] /\ g[n] = H[n]
        BY <4>1
      <4> QED BY <3>2, <4>1, <4>2 DEF HeldBy
    <3> QED BY <3>1, <3>2
  <2>2. g = [n \in 0 .. N |-> g[n]]
    OBVIOUS
  <2> HIDE DEF g, F, N
  <2> QED BY <2>1, <2>2
<1>2. held = [n \in 0 .. N |-> F(held, n)]
  <2> HIDE DEF g
  <2> QED BY <1>1
<1>3. Held = held[N]
  BY DEF Held
<1> HIDE DEF held
<1>4. \A n \in 0 .. N : held[n] = F(held, n)
  BY <1>2
<1> DEFINE S == {n \in Nat : n <= N => held[n] = H[n]}
<1>5. 0 \in S
  <2>1. 0 \in 0 .. N /\ F(held, 0) = {} /\ H[0] = {}
    BY <1>0 DEF HeldBy
  <2>2. held[0] = {}
    BY <1>4, <2>1
  <2> QED BY <2>1, <2>2
<1>6. ASSUME NEW n \in Nat, n \in S PROVE n + 1 \in S
  <2> SUFFICES ASSUME n + 1 <= N PROVE held[n + 1] = H[n + 1]
    OBVIOUS
  <2> DEFINE j == n + 1
  <2>1. j \in 1 .. N /\ j \in 0 .. N /\ j # 0 /\ j - 1 = n /\ n <= N
    BY <1>0
  <2>2. held[n] = H[n]
    BY <1>6, <2>1
  <2> HIDE DEF j
  <2>3. held[j] = Still(told, held[j - 1], j) /\ H[j] = Still(told, H[j - 1], j)
    BY <1>4, <2>1 DEF HeldBy
  <2> QED BY <2>1, <2>2, <2>3 DEF j
<1>7. S \in SUBSET Nat
  OBVIOUS
<1> HIDE DEF S
<1>8. S = Nat
  BY <1>5, <1>6, <1>7, Onwards
<1>9. N \in S
  BY <1>0, <1>8
<1> QED BY <1>0, <1>3, <1>9 DEF S

\* One more thing said.
LEMMA HeldMore ==
  ASSUME NEW t, IsSeq(t), NEW e, NEW H, HeldBy(t, H)
  PROVE  \E H2 : HeldBy(Append(t, e), H2) /\ (\A k \in 0 .. Len(t) : H2[k] = H[k])
                 /\ H2[Len(t) + 1] = Still(Append(t, e), H[Len(t)], Len(t) + 1)
<1> DEFINE n == Len(t)
           u == Append(t, e)
           s == Still(u, H[n], n + 1)
           H2 == [k \in 0 .. n + 1 |-> IF k <= n THEN H[k] ELSE s]
<1>1. n \in Nat /\ Len(u) = n + 1 /\ \A i \in 1 .. n : u[i] = t[i]
  BY Add, Measured
<1>2. (\A k \in 0 .. n : H2[k] = H[k]) /\ H2[n + 1] = s
  BY <1>1
<1> HIDE DEF H2
<1>3. \A k \in 0 .. n : H[k] \subseteq 1 .. k
  BY DEF HeldBy
<1>4. H[n] \subseteq 1 .. (n + 1) - 1
  BY <1>1, <1>3
<1>5. s \subseteq 1 .. n + 1
  BY <1>1, <1>4, StillIn
<1>6. ASSUME NEW k \in 1 .. n PROVE H[k] = Still(u, H[k - 1], k)
  <2>1. H[k] = Still(t, H[k - 1], k)
    BY DEF HeldBy
  <2>2. \A i \in H[k - 1] : u[i] = t[i]
    <3>1. k - 1 \in 0 .. n
      BY <1>1
    <3>2. H[k - 1] \subseteq 1 .. k - 1
      BY <1>3, <3>1
    <3> QED BY <1>1, <3>2
  <2>3. u[k] = t[k]
    BY <1>1
  <2> HIDE DEF u
  <2>4. Still(u, H[k - 1], k) = Still(t, H[k - 1], k)
    BY <2>2, <2>3, StillSame
  <2> QED BY <2>1, <2>4
<1> HIDE DEF s, u
<1>7. \A k \in 0 .. n + 1 : k \in 0 .. n \/ k = n + 1
  BY <1>1
<1>8. \A k \in 1 .. n + 1 : (k \in 1 .. n /\ k - 1 \in 0 .. n /\ k \in 0 .. n) \/ k = n + 1
  <2> HIDE DEF n
  <2> QED BY <1>1
<1>9. \A k \in 0 .. n + 1 : H2[k] \subseteq 1 .. k
  BY <1>2, <1>3, <1>5, <1>7
<1>10. \A k \in 1 .. n + 1 : H2[k] = Still(u, H2[k - 1], k)
  <2>1. ASSUME NEW k \in 1 .. n + 1, k \in 1 .. n PROVE H2[k] = Still(u, H2[k - 1], k)
    BY <1>2, <1>6, <1>8, <2>1
  <2>2. H2[n + 1] = Still(u, H2[(n + 1) - 1], n + 1)
    <3>1. (n + 1) - 1 = n /\ n \in 0 .. n
      BY <1>1
    <3> QED BY <1>2, <3>1 DEF s
  <2> QED BY <1>8, <2>1, <2>2
<1>11. H2[0] = {}
  BY <1>1, <1>2 DEF HeldBy
<1> QED BY <1>1, <1>2, <1>9, <1>10, <1>11 DEF HeldBy, u, s

-----------------------------------------------------------------------------
(* The records, and the reports they are of.                               *)

(* The records are of the reports that t has at S, and were written in      *)
(* their order: no report is of two records and no record of two reports.   *)
Keeps(recs, t, S) ==
  /\ \A x \in recs : \E i \in S : t[i][2] = x.rep
  /\ \A i \in S : \E x \in recs : t[i][2] = x.rep
  /\ \A x, y \in recs : \A i, j \in S :
       t[i][2] = x.rep /\ t[j][2] = y.rep => (x.seen < y.seen <=> i < j)

\* A record has one report and a report one record.
LEMMA Matched ==
  ASSUME NEW recs, NEW clock \in Nat, RecsGood(recs, clock), NEW t, NEW S \in SUBSET Nat, Keeps(recs, t, S)
  PROVE  /\ \A x, y \in recs : \A i \in S : t[i][2] = x.rep /\ t[i][2] = y.rep => x = y
         /\ \A x \in recs : \A i, j \in S : t[i][2] = x.rep /\ t[j][2] = x.rep => i = j
<1>1. ASSUME NEW x \in recs, NEW y \in recs, NEW i \in S, t[i][2] = x.rep, t[i][2] = y.rep PROVE x = y
  BY <1>1 DEF RecsGood
<1>2. ASSUME NEW x \in recs, NEW i \in S, NEW j \in S, t[i][2] = x.rep, t[j][2] = x.rep PROVE i = j
  <2>1. x.seen \in Nat
    BY DEF RecsGood
  <2>2. ~(x.seen < x.seen)
    BY <2>1
  <2>3. ~(i < j) /\ ~(j < i)
    BY <1>2, <2>2 DEF Keeps
  <2> QED BY <2>3
<1> QED BY <1>1, <1>2

\* There are as many of the one as of the other.
LEMMA Equally ==
  ASSUME NEW recs, NEW clock \in Nat, RecsGood(recs, clock), NEW t, NEW S \in SUBSET Nat, Keeps(recs, t, S)
  PROVE  IsFiniteSet(S) /\ Cardinality(S) = Cardinality(recs) /\ Cardinality(S) \in Nat
<1> DEFINE f == [x \in recs |-> CHOOSE i \in S : t[i][2] = x.rep]
<1>1. \A x \in recs : f[x] \in S /\ t[f[x]][2] = x.rep
  BY DEF Keeps
<1>2. f \in [recs -> S]
  BY <1>1
<1> HIDE DEF f
<1>M. /\ \A x, y \in recs : \A i \in S : t[i][2] = x.rep /\ t[i][2] = y.rep => x = y
      /\ \A x \in recs : \A i, j \in S : t[i][2] = x.rep /\ t[j][2] = x.rep => i = j
  BY Matched
<1>3. ASSUME NEW x \in recs, NEW y \in recs, f[x] = f[y] PROVE x = y
  BY <1>1, <1>3, <1>M
<1>4. ASSUME NEW i \in S PROVE \E x \in recs : f[x] = i
  <2>1. PICK x \in recs : t[i][2] = x.rep
    BY DEF Keeps
  <2> QED BY <1>1, <1>M, <2>1
<1>5. f \in Bijection(recs, S)
  <2>1. f \in Injection(recs, S)
    BY <1>2, <1>3 DEF Injection, IsInjective
  <2>2. f \in Surjection(recs, S)
    BY <1>2, <1>4 DEF Surjection
  <2> QED BY <2>1, <2>2 DEF Bijection
<1>6. IsFiniteSet(recs) /\ Cardinality(recs) \in Nat
  BY FS_CardinalityType DEF RecsGood
<1>7. IsFiniteSet(S) /\ Cardinality(S) = Cardinality(recs)
  <2>1. ExistsBijection(recs, S)
    BY <1>5 DEF ExistsBijection
  <2> QED BY <1>6, <2>1, FS_Bijection
<1> QED BY <1>6, <1>7

(* The records left, of recs, are those of the reports at T, of S. *)
Alike(recs, left, t, S, T) ==
  /\ left \subseteq recs /\ T \subseteq S
  /\ \A x \in recs : \A i \in S : t[i][2] = x.rep => (x \in left <=> i \in T)

\* Some of the records go, and the reports of those.
LEMMA KeepsSome ==
  ASSUME NEW recs, NEW t, NEW S, Keeps(recs, t, S), NEW left, NEW T, Alike(recs, left, t, S, T)
  PROVE  Keeps(left, t, T)
<1> USE DEF Alike
<1>1. ASSUME NEW x \in left PROVE \E i \in T : t[i][2] = x.rep
  BY DEF Keeps
<1>2. ASSUME NEW i \in T PROVE \E x \in left : t[i][2] = x.rep
  BY DEF Keeps
<1>3. \A x, y \in left : \A i, j \in T :
        t[i][2] = x.rep /\ t[j][2] = y.rep => (x.seen < y.seen <=> i < j)
  BY DEF Keeps
<1> QED BY <1>1, <1>2, <1>3 DEF Keeps

\* A record is written of the last report, that is like no other.
LEMMA KeepsOneMore ==
  ASSUME NEW recs, NEW clock \in Nat, \A x \in recs : x.seen \in 1 .. clock,
         NEW n \in Nat \ {0}, NEW S, S \subseteq 1 .. n - 1, NEW t, Keeps(recs, t, S),
         NEW new, new.seen = clock + 1, new.rep = t[n][2],
         \A x \in recs : x.rep # new.rep
  PROVE  Keeps(recs \cup {new}, t, S \cup {n})
<1> DEFINE R == recs \cup {new}
           T == S \cup {n}
<1>1. \A i \in S : t[i][2] # new.rep /\ i < n /\ i \in Nat
  BY DEF Keeps
<1>2. \A x \in recs : x.seen < new.seen /\ ~(new.seen < x.seen)
  OBVIOUS
<1>3. ASSUME NEW x \in R, NEW y \in R, NEW i \in T, NEW j \in T, t[i][2] = x.rep, t[j][2] = y.rep
      PROVE  x.seen < y.seen <=> i < j
  <2>1. x \in recs <=> i \in S
    BY <1>1, <1>3
  <2>2. y \in recs <=> j \in S
    BY <1>1, <1>3
  <2>3. CASE x \in recs /\ y \in recs
    BY <1>3, <2>1, <2>2, <2>3 DEF Keeps
  <2>4. CASE x \in recs /\ y \notin recs
    BY <1>1, <1>2, <2>1, <2>2, <2>4
  <2>5. CASE x \notin recs /\ y \in recs
    BY <1>1, <1>2, <2>1, <2>2, <2>5
  <2>6. CASE x \notin recs /\ y \notin recs
    BY <2>1, <2>2, <2>6
  <2> QED BY <2>3, <2>4, <2>5, <2>6
<1>4. \A x \in R : \E i \in T : t[i][2] = x.rep
  BY DEF Keeps
<1>5. \A i \in T : \E x \in R : t[i][2] = x.rep
  BY DEF Keeps
<1> QED BY <1>3, <1>4, <1>5 DEF Keeps

\* Where there is room for one, the newest are all of them.
LEMMA NewestAll ==
  ASSUME NEW S, IsFiniteSet(S), Cardinality(S) < PsMax, NEW n \in Nat \ {0}, S \subseteq 1 .. n - 1
  PROVE  Newest(S \cup {n}) = S \cup {n}
<1> DEFINE T == S \cup {n}
<1>1. ASSUME NEW i \in T PROVE Cardinality({j \in T : j > i}) < PsMax
  <2> DEFINE U == {j \in T : j > i}
             V == T \ {i}
  <2>1. U \subseteq V
    OBVIOUS
  <2>2. IsFiniteSet(T) /\ Cardinality(T) = Cardinality(S) + 1
    <3>1. n \notin S
      OBVIOUS
    <3> QED BY <3>1, FS_AddElement
  <2>3. Cardinality(S) \in Nat /\ PsMax \in Nat
    BY FS_CardinalityType, StatusAssumption DEF StatusAssumption
  <2> HIDE DEF T
  <2>4. IsFiniteSet(V) /\ Cardinality(V) = Cardinality(T) - 1
    BY <2>2, <2>3, FS_RemoveElement
  <2>5. Cardinality(U) <= Cardinality(V) /\ IsFiniteSet(U)
    BY <2>1, <2>4, FS_Subset
  <2>6. Cardinality(U) \in Nat
    BY <2>5, FS_CardinalityType
  <2> HIDE DEF U, V
  <2>7. Cardinality(U) < PsMax
    BY <2>2, <2>3, <2>4, <2>5, <2>6
  <2> QED BY <2>7 DEF U
<1> QED BY <1>1 DEF Newest

\* Where there is no room, they are all but the first.
LEMMA NewestRest ==
  ASSUME NEW S, IsFiniteSet(S), Cardinality(S) = PsMax, NEW n \in Nat \ {0}, S \subseteq 1 .. n - 1,
         NEW m \in S, \A i \in S : m <= i
  PROVE  Newest(S \cup {n}) = (S \ {m}) \cup {n}
<1> DEFINE T == S \cup {n}
<1>0. /\ Cardinality(S) \in Nat /\ PsMax \in Nat \ {0} /\ n \notin S /\ m \in Nat /\ m < n
      /\ S \subseteq Nat
  BY FS_CardinalityType, StatusAssumption DEF StatusAssumption
<1>1. Cardinality({j \in T : j > m}) = PsMax
  <2>1. {j \in T : j > m} = (S \ {m}) \cup {n}
    <3>1. \A j \in S : j > m <=> j # m
      BY <1>0
    <3>2. n > m
      BY <1>0
    <3> QED BY <1>0, <3>1, <3>2
  <2>2. IsFiniteSet(S \ {m}) /\ Cardinality(S \ {m}) = Cardinality(S) - 1 /\ n \notin S \ {m}
    BY <1>0, FS_RemoveElement
  <2>3. Cardinality((S \ {m}) \cup {n}) = Cardinality(S \ {m}) + 1
    BY <2>2, FS_AddElement
  <2>4. Cardinality((S \ {m}) \cup {n}) = PsMax
    BY <1>0, <2>2, <2>3
  <2> QED BY <2>1, <2>4
<1>2. ASSUME NEW i \in T, i # m PROVE Cardinality({j \in T : j > i}) < PsMax
  <2> DEFINE U == {j \in T : j > i}
             V == T \ {i}
             W == V \ {m}
  <2>1. U \subseteq W
    BY <1>0
  <2>2. IsFiniteSet(T) /\ Cardinality(T) = Cardinality(S) + 1 /\ m \in T
    BY <1>0, FS_AddElement
  <2> HIDE DEF T
  <2>4. IsFiniteSet(V) /\ Cardinality(V) = Cardinality(T) - 1 /\ m \in V
    BY <1>0, <1>2, <2>2, FS_RemoveElement
  <2> HIDE DEF V
  <2>5. IsFiniteSet(W) /\ Cardinality(W) = Cardinality(V) - 1
    BY <2>4, FS_RemoveElement
  <2>6. Cardinality(U) <= Cardinality(W) /\ IsFiniteSet(U)
    BY <2>1, <2>5, FS_Subset
  <2>7. Cardinality(U) \in Nat
    BY <2>6, FS_CardinalityType
  <2> HIDE DEF U, W
  <2>8. Cardinality(U) < PsMax
    BY <1>0, <2>2, <2>4, <2>5, <2>6, <2>7
  <2> QED BY <2>8 DEF U
<1>3. m \in T
  OBVIOUS
<1>4. \A i \in T : Cardinality({j \in T : j > i}) < PsMax <=> i # m
  <2>1. ~(PsMax < PsMax)
    BY <1>0
  <2> QED BY <1>1, <1>2, <2>1
<1>5. Newest(T) = {i \in T : i # m}
  BY <1>4 DEF Newest
<1> QED BY <1>0, <1>5

\* Composing the line leaves the records.
LEMMA RecsLeft == ASSUME NEW q, IsSlot(q) PROVE Recompose(q).recs = q.recs
<1>1. CASE q.recs = {} /\ q.showing
  <2>1. Recompose(q) = [q EXCEPT !.status = Blank, !.busy = FALSE, !.showing = FALSE]
    BY <1>1 DEF Recompose
  <2> QED BY <2>1 DEF IsSlot
<1>2. CASE q.recs = {} /\ ~q.showing
  BY <1>2 DEF Recompose
<1>3. CASE q.recs # {}
  <2> DEFINE best == CHOOSE x \in q.recs : \A y \in q.recs : Over(x, y)
             show == [best.rep EXCEPT !.app = Inherited(q.recs, best.rep)]
  <2>1. Recompose(q) = [q EXCEPT !.status = Line(show), !.busy = Busy(show), !.show = show, !.showing = TRUE]
    BY <1>3 DEF Recompose
  <2> HIDE DEF show
  <2> DEFINE l == Line(show)
             b == Busy(show)
  <2>2. b \in BOOLEAN
    BY DEF Busy
  <2> HIDE DEF l, b
  <2>3. Recompose(q) = [q EXCEPT !.status = l, !.busy = b, !.show = show, !.showing = TRUE]
    BY <2>1 DEF l, b
  <2> QED BY <2>2, <2>3 DEF IsSlot
<1> QED BY <1>1, <1>2, <1>3 DEF IsSlot

\* The records after something was heard.
Hearing(p, e) ==
  CASE e[1] = "report" -> OnProgramStatus(p, e[2]).recs
    [] e[1] = "verb"   -> OnOsc5577(p, e[2], e[3]).recs
    [] e[1] = "prompt" -> DropTransient(p).recs
    [] e[1] = "reset"  -> {}
    [] OTHER           -> p.recs

(* The reports of S that are of another id. *)
Others(S, t, id) == {i \in S : t[i][2].id # id}

\* A record is written: the report that was like it, or the oldest when there is
\* no room, makes way, on both sides.
LEMMA WrittenKept ==
  ASSUME NEW p, SlotGood(p), NEW t, NEW n \in Nat \ {0}, NEW S, S \subseteq 1 .. n - 1,
         Keeps(p.recs, t, S), NEW rep, rep = t[n][2], rep.state # "clear"
  PROVE  Keeps(OnProgramStatus(p, rep).recs, t, Newest(Others(S, t, rep.id) \cup {n}))
<1> DEFINE same == {x \in p.recs : x.rep.id = rep.id}
           kept == IF same = {} THEN Evict(p.recs) ELSE p.recs \ same
           new  == [rep |-> rep, seen |-> p.clock + 1]
           q    == [p EXCEPT !.recs = kept \cup {new}, !.clock = p.clock + 1]
           K    == Others(S, t, rep.id)
<1> USE DEF Others
<1>0. /\ IsSlot(p) /\ RecsGood(p.recs, p.clock) /\ p.clock \in Nat /\ S \in SUBSET Nat
      /\ PsMax \in Nat \ {0} /\ IsFiniteSet(p.recs) /\ Cardinality(p.recs) \in Nat /\ Cardinality(p.recs) <= PsMax
  BY FS_CardinalityType, StatusAssumption DEF SlotGood, IsSlot, RecsGood, StatusAssumption
<1>1. OnProgramStatus(p, rep).recs = kept \cup {new}
  <2>1. OnProgramStatus(p, rep) = Recompose(q)
    BY DEF OnProgramStatus, SlotGood, IsSlot
  <2> HIDE DEF kept, new
  <2>2. IsSlot(q) /\ q.recs = kept \cup {new}
    <3>1. IsSlot(p) /\ p.clock + 1 \in Nat
      BY <1>0
    <3> QED BY <3>1 DEF IsSlot
  <2> QED BY <2>1, <2>2, RecsLeft
<1>2. new.rep = rep /\ new.seen = p.clock + 1
  OBVIOUS
<1> HIDE DEF new
<1>3. \A x \in p.recs : x.seen \in 1 .. p.clock
  BY <1>0 DEF RecsGood
<1>4. IsFiniteSet(S) /\ Cardinality(S) = Cardinality(p.recs)
  BY <1>0, Equally
<1>5. K \subseteq S /\ K \in SUBSET Nat
  BY <1>0
<1>6. CASE same # {}
  <2>1. kept \subseteq p.recs /\ kept = {x \in p.recs : x.rep.id # rep.id}
    BY <1>6
  <2>2. Keeps(kept, t, K)
    <3>1. Alike(p.recs, kept, t, S, K)
      BY <1>5, <2>1 DEF Alike
    <3> HIDE DEF kept, K
    <3> QED BY <3>1, KeepsSome
  <2>3. PICK x \in p.recs : x.rep.id = rep.id
    BY <1>6
  <2>4. Cardinality(kept) < PsMax
    <3>1. IsFiniteSet(p.recs \ {x}) /\ Cardinality(p.recs \ {x}) = Cardinality(p.recs) - 1
      BY <1>0, FS_RemoveElement
    <3>2. kept \subseteq p.recs \ {x}
      BY <2>1, <2>3
    <3> HIDE DEF kept
    <3>3. IsFiniteSet(kept) /\ Cardinality(kept) <= Cardinality(p.recs \ {x})
      BY <3>1, <3>2, FS_Subset
    <3>4. Cardinality(kept) \in Nat
      BY <3>3, FS_CardinalityType
    <3> QED BY <1>0, <3>1, <3>3, <3>4
  <2>5. \A y \in kept : y.rep # new.rep /\ y.seen \in 1 .. p.clock
    BY <1>2, <1>3, <2>1
  <2> HIDE DEF kept, K
  <2>6. RecsGood(kept, p.clock)
    BY <1>0, <2>1, Fewer
  <2>7. IsFiniteSet(K) /\ Cardinality(K) < PsMax
    BY <1>0, <1>5, <2>2, <2>4, <2>6, Equally
  <2>8. K \subseteq 1 .. n - 1
    BY <1>5
  <2>9. Newest(K \cup {n}) = K \cup {n}
    BY <2>7, <2>8, NewestAll
  <2>10. Keeps(kept \cup {new}, t, K \cup {n})
    BY <1>0, <1>2, <2>2, <2>5, <2>8, KeepsOneMore
  <2> QED BY <1>1, <2>9, <2>10 DEF K
<1>7. CASE same = {}
  <2>1. K = S
    <3>1. \A i \in S : \E x \in p.recs : t[i][2] = x.rep
      BY DEF Keeps
    <3> QED BY <1>7, <3>1
  <2>2. \A x \in p.recs : x.rep # new.rep
    BY <1>2, <1>7
  <2>3. kept = Evict(p.recs)
    BY <1>7
  <2> HIDE DEF kept, K
  <2>4. CASE Cardinality(p.recs) < PsMax
    <3>1. kept = p.recs
      BY <2>3, <2>4 DEF Evict
    <3>2. Newest(S \cup {n}) = S \cup {n}
      BY <1>4, <2>4, NewestAll
    <3>3. Keeps(p.recs \cup {new}, t, S \cup {n})
      BY <1>0, <1>2, <1>3, <2>2, KeepsOneMore
    <3> QED BY <1>1, <2>1, <3>1, <3>2, <3>3 DEF K
  <2>5. CASE ~(Cardinality(p.recs) < PsMax)
    <3> DEFINE old == CHOOSE x \in p.recs : \A y \in p.recs : x.seen <= y.seen
    <3>1. kept = p.recs \ {old}
      BY <2>3, <2>5 DEF Evict
    <3>2. old \in p.recs /\ \A y \in p.recs : old.seen <= y.seen
      <4> DEFINE times == {x.seen : x \in p.recs}
      <4>1. p.recs # {}
        BY <1>0, <2>5, FS_EmptySet
      <4>2. times \subseteq 0 .. p.clock /\ times # {}
        BY <1>3, <4>1
      <4>3. PICK first \in times : \A r \in times : first <= r
        BY <1>0, <4>2, Extremes
      <4>4. PICK x \in p.recs : x.seen = first
        OBVIOUS
      <4>5. \A y \in p.recs : x.seen <= y.seen
        BY <4>3, <4>4
      <4> QED BY <4>5
    <3> HIDE DEF old
    <3>3. PICK m \in S : t[m][2] = old.rep
      BY <3>2 DEF Keeps
    <3>4. ASSUME NEW i \in S PROVE m <= i
      <4>1. PICK y \in p.recs : t[i][2] = y.rep
        BY DEF Keeps
      <4>2. ~(y.seen < old.seen)
        BY <1>3, <3>2
      <4>3. ~(i < m)
        BY <3>2, <3>3, <4>1, <4>2 DEF Keeps
      <4> QED BY <1>0, <4>3
    <3>5. Cardinality(S) = PsMax
      BY <1>0, <1>4, <2>5
    <3>6. Newest(S \cup {n}) = (S \ {m}) \cup {n}
      BY <1>4, <3>4, <3>5, NewestRest
    <3>7. Keeps(kept, t, S \ {m})
      <4>1. ASSUME NEW x \in p.recs, NEW i \in S, t[i][2] = x.rep PROVE x \in kept <=> i \in S \ {m}
        <5>1. /\ \A x2, y \in p.recs : \A i2 \in S : t[i2][2] = x2.rep /\ t[i2][2] = y.rep => x2 = y
              /\ \A x2 \in p.recs : \A i2, j \in S : t[i2][2] = x2.rep /\ t[j][2] = x2.rep => i2 = j
          BY <1>0, Matched
        <5>2. x = old <=> i = m
          BY <3>2, <3>3, <4>1, <5>1
        <5> QED BY <3>1, <5>2
      <4>2. kept \subseteq p.recs /\ S \ {m} \subseteq S
        BY <3>1
      <4> DEFINE T == S \ {m}
      <4>4. Alike(p.recs, kept, t, S, T)
        BY <4>1, <4>2 DEF Alike
      <4> HIDE DEF T
      <4>3. Keeps(kept, t, T)
        BY <4>4, KeepsSome
      <4> QED BY <4>3 DEF T
    <3>8. (\A x \in kept : x.seen \in 1 .. p.clock /\ x.rep # new.rep) /\ S \ {m} \subseteq 1 .. n - 1
      BY <1>3, <2>2, <3>1
    <3>9. Keeps(kept \cup {new}, t, (S \ {m}) \cup {n})
      <4> DEFINE T == S \ {m}
      <4>1. T \subseteq 1 .. n - 1 /\ Keeps(kept, t, T)
        BY <3>7, <3>8
      <4> HIDE DEF T
      <4>2. Keeps(kept \cup {new}, t, T \cup {n})
        BY <1>0, <1>2, <3>8, <4>1, KeepsOneMore
      <4> QED BY <4>2 DEF T
    <3> QED BY <1>1, <2>1, <3>6, <3>9 DEF K
  <2> QED BY <2>4, <2>5
<1> QED BY <1>6, <1>7

\* What was under way is dropped on both sides.
LEMMA QuietedKept ==
  ASSUME NEW p, SlotGood(p), NEW t, NEW S, Keeps(p.recs, t, S)
  PROVE  Keeps(DropTransient(p).recs, t, {i \in S : t[i][2].state \notin {"working", "blocked"}})
<1> DEFINE left == {x \in p.recs : ~Busy(x.rep)}
           T == {i \in S : t[i][2].state \notin {"working", "blocked"}}
<1>1. DropTransient(p).recs = left
  <2>1. [p EXCEPT !.recs = {x \in @ : ~Busy(x.rep)}] = [p EXCEPT !.recs = left]
    BY DEF SlotGood, IsSlot
  <2>2. left \subseteq p.recs
    OBVIOUS
  <2> HIDE DEF left
  <2> QED BY <2>1, <2>2, Left DEF DropTransient
<1>2. Alike(p.recs, left, t, S, T)
  BY DEF Alike, Busy
<1> HIDE DEF left, T
<1>3. Keeps(left, t, T)
  BY <1>2, KeepsSome
<1> QED BY <1>1, <1>3 DEF T

\* Hearing what was said keeps of the records what is still true.
LEMMA HearingKept ==
  ASSUME NEW p, SlotGood(p), NEW t, NEW n \in Nat \ {0}, NEW S, S \subseteq 1 .. n - 1,
         Keeps(p.recs, t, S), NEW e, e = t[n],
         e[1] = "report" => IsPrefix(e[2].id, e[2].id), e[1] # "exit"
  PROVE  Keeps(Hearing(p, e), t, Still(t, S, n))
<1>0. IsSlot(p)
  BY DEF SlotGood
<1>E. Keeps({}, t, {})
  BY DEF Keeps
<1>1. CASE e[1] = "report" /\ e[2].state = "clear"
  <2> DEFINE id == e[2].id
             left == Cleared(p.recs, id)
             T == {i \in S : ~IsPrefix(id, t[i][2].id)}
  <2>1. Hearing(p, e) = left
    <3>1. Hearing(p, e) = Recompose([p EXCEPT !.recs = left]).recs
      <4>1. [p EXCEPT !.recs = Cleared(@, id)] = [p EXCEPT !.recs = left]
        BY <1>0 DEF IsSlot
      <4> HIDE DEF left
      <4> QED BY <1>1, <4>1 DEF Hearing, OnProgramStatus
    <3>2. left \subseteq p.recs
      BY DEF Cleared
    <3> HIDE DEF left
    <3> QED BY <3>1, <3>2, Left
  <2>2. Still(t, S, n) = T
    BY <1>1 DEF Still
  <2>3. Alike(p.recs, left, t, S, T)
    <3>1. IsPrefix(id, id)
      BY <1>1
    <3> QED BY <3>1 DEF Alike, Cleared, Descends, IsStrictPrefix
  <2> HIDE DEF left, T
  <2> QED BY <2>1, <2>2, <2>3, KeepsSome
<1>2. CASE e[1] = "report" /\ e[2].state # "clear"
  <2>1. Hearing(p, e) = OnProgramStatus(p, e[2]).recs
    BY <1>2 DEF Hearing
  <2>2. Still(t, S, n) = Newest({i \in S : t[i][2].id # e[2].id} \cup {n})
    BY <1>2 DEF Still
  <2>3. PICK rep : rep = t[n][2]
    OBVIOUS
  <2>4. Keeps(OnProgramStatus(p, rep).recs, t, Newest(Others(S, t, rep.id) \cup {n}))
    <3>1. rep.state # "clear"
      BY <1>2, <2>3
    <3> QED BY <2>3, <3>1, WrittenKept
  <2> QED BY <2>1, <2>2, <2>3, <2>4 DEF Others
<1>3. CASE e[1] = "verb"
  <2>0. Hearing(p, e) = OnOsc5577(p, e[2], e[3]).recs
    BY <1>3 DEF Hearing
  <2>1. IsSlot(Take(p)) /\ Take(p).recs = {}
    BY <1>0 DEF Take, IsSlot
  <2>2. CASE e[2] = "status"
    <3>1. OnOsc5577(p, e[2], e[3]) = [Take(p) EXCEPT !.status = <<"said", e[3]>>]
      BY <2>2 DEF OnOsc5577
    <3>2. OnOsc5577(p, e[2], e[3]).recs = {}
      BY <2>1, <3>1 DEF IsSlot
    <3>3. Still(t, S, n) = {}
      BY <1>3, <2>2 DEF Still
    <3> QED BY <1>E, <2>0, <3>2, <3>3
  <2>3. CASE e[2] = "busy"
    <3> DEFINE b == e[3] \notin No
    <3>1. OnOsc5577(p, e[2], e[3]) = [Take(p) EXCEPT !.busy = b]
      BY <2>3 DEF OnOsc5577
    <3> HIDE DEF b
    <3>2. OnOsc5577(p, e[2], e[3]).recs = {}
      BY <2>1, <3>1 DEF IsSlot
    <3>3. Still(t, S, n) = {}
      BY <1>3, <2>3 DEF Still
    <3> QED BY <1>E, <2>0, <3>2, <3>3
  <2>4. CASE e[2] = "clear"
    <3>1. OnOsc5577(p, e[2], e[3]) = [Take(p) EXCEPT !.status = Blank, !.busy = FALSE, !.buttons = {}]
      BY <2>4 DEF OnOsc5577
    <3>2. OnOsc5577(p, e[2], e[3]).recs = {}
      BY <2>1, <3>1 DEF IsSlot
    <3>3. Still(t, S, n) = {}
      BY <1>3, <2>4 DEF Still
    <3> QED BY <1>E, <2>0, <3>2, <3>3
  <2>5. CASE e[2] \notin {"status", "busy", "clear"}
    <3>1. OnOsc5577(p, e[2], e[3]).recs = p.recs
      <4>1. CASE e[2] = "buttons"
        <5>1. OnOsc5577(p, e[2], e[3]) = [p EXCEPT !.buttons = ParseButtons(e[3])]
          BY <4>1 DEF OnOsc5577
        <5> QED BY <1>0, <5>1 DEF IsSlot
      <4>2. CASE e[2] # "buttons"
        BY <2>5, <4>2 DEF OnOsc5577
      <4> QED BY <4>1, <4>2
    <3>2. Still(t, S, n) = S
      BY <1>3, <2>5 DEF Still
    <3> QED BY <2>0, <3>1, <3>2
  <2> QED BY <2>2, <2>3, <2>4, <2>5
<1>4. CASE e[1] = "prompt"
  <2>1. Hearing(p, e) = DropTransient(p).recs
    BY <1>4 DEF Hearing
  <2>2. Still(t, S, n) = {i \in S : t[i][2].state \notin {"working", "blocked"}}
    BY <1>4 DEF Still
  <2> QED BY <2>1, <2>2, QuietedKept
<1>5. CASE e[1] = "reset"
  BY <1>5, <1>E DEF Hearing, Still
<1>6. CASE e[1] \notin {"report", "verb", "prompt", "reset"}
  <2>1. Hearing(p, e) = p.recs
    BY <1>6 DEF Hearing
  <2>2. Still(t, S, n) = S
    BY <1>6 DEF Still
  <2> QED BY <2>1, <2>2
<1> QED BY <1>1, <1>2, <1>3, <1>4, <1>5, <1>6

-----------------------------------------------------------------------------
(* The line, as the scanner will read it.                                  *)

(* What leaves the records alone, whoever said it. *)
Inert(e) ==
  \/ e \in {Quiet, <<"query">>}
  \/ e[1] = "verb" /\ e[2] \notin {"status", "busy", "clear"}

(* An event is inert, or it is the next thing that was told. *)
Passes(e, a, b, t) ==
  /\ a \in 0 .. Len(t) /\ b \in 0 .. Len(t)
  /\ (b = a /\ Inert(e)) \/ (b = a + 1 /\ e = t[b])

(* The scanner goes from st[0] over the pieces of p, and has heard m[i] of  *)
(* what was told when it has read i of them.                                *)
Runs(p, t, st, m) ==
  \A i \in 1 .. Len(p) :
    /\ st[i] = Scan(st[i - 1], p[i]).scan
    /\ Passes(Scan(st[i - 1], p[i]).event, m[i - 1], m[i], t)

(* A scanner at sc that has heard the first n things told will read p, hear *)
(* the rest of them and be at end.                                          *)
Reads(sc, p, t, n, end) ==
  /\ n \in 0 .. Len(t)
  /\ \E st, m : /\ st[0] = sc /\ st[Len(p)] = end
                /\ m[0] = n /\ m[Len(p)] = Len(t)
                /\ Runs(p, t, st, m)

\* With nothing to read everything has been heard.
LEMMA ReadsNone ==
  ASSUME NEW sc, NEW t, IsSeq(t)
  PROVE  /\ \A n, end : Reads(sc, <<>>, t, n, end) => end = sc /\ n = Len(t)
         /\ Reads(sc, <<>>, t, Len(t), sc)
<1>1. Len(<<>>) = 0 /\ Len(t) \in Nat
  BY Measured
<1>2. ASSUME NEW n, NEW end, Reads(sc, <<>>, t, n, end) PROVE end = sc /\ n = Len(t)
  BY <1>1, <1>2 DEF Reads
<1>3. Reads(sc, <<>>, t, Len(t), sc)
  <2> DEFINE st == [i \in {0} |-> sc]
             m  == [i \in {0} |-> Len(t)]
  <2>1. st[0] = sc /\ m[0] = Len(t) /\ Len(t) \in 0 .. Len(t)
    BY <1>1
  <2> HIDE DEF st, m
  <2>2. Runs(<<>>, t, st, m)
    BY <1>1 DEF Runs
  <2> QED BY <1>1, <2>1, <2>2 DEF Reads
<1> QED BY <1>2, <1>3

\* The scanner reads one piece.
LEMMA ReadsOn ==
  ASSUME NEW sc, NEW p, IsSeq(p), p # <<>>, NEW t, IsSeq(t), NEW n, NEW end, Reads(sc, p, t, n, end)
  PROVE  \E k : /\ Passes(Scan(sc, Head(p)).event, n, k, t)
                /\ Reads(Scan(sc, Head(p)).scan, Tail(p), t, k, end)
<1>1. PICK st, m : /\ st[0] = sc /\ st[Len(p)] = end /\ m[0] = n /\ m[Len(p)] = Len(t)
                   /\ Runs(p, t, st, m)
  BY DEF Reads
<1> DEFINE q == Tail(p)
           L == Len(p)
           sq == [i \in 0 .. L - 1 |-> st[i + 1]]
           mq == [i \in 0 .. L - 1 |-> m[i + 1]]
<1>2. L \in Nat \ {0} /\ Head(p) = p[1] /\ Len(q) = L - 1 /\ \A i \in 1 .. L - 1 : q[i] = p[i + 1]
  BY Rest
<1>3. \A i \in 0 .. L - 1 : sq[i] = st[i + 1] /\ mq[i] = m[i + 1]
  OBVIOUS
<1> HIDE DEF q, L, sq, mq
<1>4. st[1] = Scan(sc, p[1]).scan /\ Passes(Scan(sc, p[1]).event, n, m[1], t)
  <2>1. PICK i \in 1 .. L : i = 1
    BY <1>2
  <2>2. i - 1 = 0
    BY <2>1
  <2>3. st[i] = Scan(st[i - 1], p[i]).scan /\ Passes(Scan(st[i - 1], p[i]).event, m[i - 1], m[i], t)
    BY <1>1 DEF Runs, L
  <2> QED BY <1>1, <2>1, <2>2, <2>3
<1>5. Runs(q, t, sq, mq)
  <2>1. ASSUME NEW i \in 1 .. L - 1
        PROVE  sq[i] = Scan(sq[i - 1], q[i]).scan /\ Passes(Scan(sq[i - 1], q[i]).event, mq[i - 1], mq[i], t)
    <3>1. i + 1 \in 1 .. L /\ i - 1 \in 0 .. L - 1 /\ i \in 0 .. L - 1 /\ (i + 1) - 1 = i /\ (i - 1) + 1 = i
      BY <1>2
    <3>2. st[i + 1] = Scan(st[(i + 1) - 1], p[i + 1]).scan
          /\ Passes(Scan(st[(i + 1) - 1], p[i + 1]).event, m[(i + 1) - 1], m[i + 1], t)
      BY <1>1, <3>1 DEF Runs, L
    <3>3. sq[i - 1] = st[(i - 1) + 1] /\ mq[i - 1] = m[(i - 1) + 1] /\ sq[i] = st[i + 1] /\ mq[i] = m[i + 1]
          /\ q[i] = p[i + 1]
      BY <1>2, <1>3, <3>1
    <3> QED BY <3>1, <3>2, <3>3
  <2> QED BY <1>2, <2>1 DEF Runs
<1>6. sq[0] = st[1] /\ mq[0] = m[1] /\ sq[L - 1] = end /\ mq[L - 1] = Len(t)
  <2>1. 0 \in 0 .. L - 1 /\ L - 1 \in 0 .. L - 1 /\ 0 + 1 = 1 /\ (L - 1) + 1 = L
    BY <1>2
  <2> QED BY <1>1, <1>3, <2>1 DEF L
<1>7. m[1] \in 0 .. Len(t)
  BY <1>4 DEF Passes
<1>8. Reads(st[1], q, t, m[1], end)
  BY <1>2, <1>5, <1>6, <1>7 DEF Reads
<1> QED BY <1>2, <1>4, <1>8 DEF q

\* A thing passes as it did when more has been told.
LEMMA PassesMore ==
  ASSUME NEW t, NEW u, IsSeq(t), IsSeq(u), Len(t) <= Len(u), \A i \in 1 .. Len(t) : u[i] = t[i],
         NEW e, NEW a, NEW b, Passes(e, a, b, t)
  PROVE  Passes(e, a, b, u)
<1>1. Len(t) \in Nat /\ Len(u) \in Nat
  BY Measured
<1>2. a \in 0 .. Len(u) /\ b \in 0 .. Len(u)
  BY <1>1 DEF Passes
<1>3. CASE b = a + 1 /\ e = t[b]
  <2>1. b \in 1 .. Len(t)
    BY <1>1, <1>3 DEF Passes
  <2> QED BY <1>2, <1>3, <2>1 DEF Passes
<1> QED BY <1>2, <1>3 DEF Passes

\* Something more is written, that was told or is nobody's.
LEMMA ReadsCat ==
  ASSUME NEW sc, NEW mid, NEW end, NEW p, NEW w, IsSeq(p), IsSeq(w), NEW t, NEW u, IsSeq(t), IsSeq(u),
         Len(t) <= Len(u), \A i \in 1 .. Len(t) : u[i] = t[i],
         NEW n, Reads(sc, p, t, n, mid), Reads(mid, w, u, Len(t), end)
  PROVE  Reads(sc, p \o w, u, n, end)
<1>1. PICK st, m : /\ st[0] = sc /\ st[Len(p)] = mid /\ m[0] = n /\ m[Len(p)] = Len(t)
                   /\ Runs(p, t, st, m)
  BY DEF Reads
<1>2. PICK sw, mw : /\ sw[0] = mid /\ sw[Len(w)] = end /\ mw[0] = Len(t) /\ mw[Len(w)] = Len(u)
                    /\ Runs(w, u, sw, mw)
  BY DEF Reads
<1> DEFINE P == Len(p)
           W == Len(w)
           q == p \o w
           sq == [i \in 0 .. P + W |-> IF i <= P THEN st[i] ELSE sw[i - P]]
           mq == [i \in 0 .. P + W |-> IF i <= P THEN m[i] ELSE mw[i - P]]
<1>3. P \in Nat /\ W \in Nat /\ Len(t) \in Nat /\ Len(u) \in Nat
  BY Measured
<1>4. /\ Len(q) = P + W /\ (\A i \in 1 .. P : q[i] = p[i])
      /\ \A i \in P + 1 .. P + W : q[i] = w[i - P]
  BY Cat
<1>5. \A i \in 0 .. P : sq[i] = st[i] /\ mq[i] = m[i]
  BY <1>3
<1>6. \A i \in P .. P + W : sq[i] = sw[i - P] /\ mq[i] = mw[i - P]
  <2>1. ASSUME NEW i \in P .. P + W PROVE sq[i] = sw[i - P] /\ mq[i] = mw[i - P]
    <3>1. CASE i = P
      <4>1. i - P = 0 /\ i <= P /\ i \in 0 .. P + W
        BY <1>3, <3>1
      <4> QED BY <1>1, <1>2, <1>5, <3>1, <4>1
    <3>2. CASE i # P
      BY <1>3, <3>2
    <3> QED BY <3>1, <3>2
  <2> QED BY <2>1
<1> HIDE DEF P, W, q, sq, mq
<1>7. ASSUME NEW i \in 1 .. P
      PROVE  sq[i] = Scan(sq[i - 1], q[i]).scan /\ Passes(Scan(sq[i - 1], q[i]).event, mq[i - 1], mq[i], u)
  <2>1. i - 1 \in 0 .. P /\ i \in 0 .. P
    BY <1>3
  <2>2. st[i] = Scan(st[i - 1], p[i]).scan /\ Passes(Scan(st[i - 1], p[i]).event, m[i - 1], m[i], t)
    BY <1>1 DEF Runs, P
  <2>3. Passes(Scan(st[i - 1], p[i]).event, m[i - 1], m[i], u)
    BY <2>2, PassesMore
  <2>4. sq[i - 1] = st[i - 1] /\ mq[i - 1] = m[i - 1] /\ sq[i] = st[i] /\ mq[i] = m[i] /\ q[i] = p[i]
    BY <1>4, <1>5, <2>1
  <2> QED BY <2>2, <2>3, <2>4
<1>8. ASSUME NEW i \in P + 1 .. P + W
      PROVE  sq[i] = Scan(sq[i - 1], q[i]).scan /\ Passes(Scan(sq[i - 1], q[i]).event, mq[i - 1], mq[i], u)
  <2>1. i - 1 \in P .. P + W /\ i \in P .. P + W /\ i - P \in 1 .. W /\ (i - 1) - P = (i - P) - 1
    BY <1>3
  <2> DEFINE j == i - P
  <2>2. sw[j] = Scan(sw[j - 1], w[j]).scan /\ Passes(Scan(sw[j - 1], w[j]).event, mw[j - 1], mw[j], u)
    BY <1>2, <2>1 DEF Runs, W
  <2>3. sq[i - 1] = sw[j - 1] /\ mq[i - 1] = mw[j - 1] /\ sq[i] = sw[j] /\ mq[i] = mw[j] /\ q[i] = w[j]
    <3>1. sq[i - 1] = sw[(i - 1) - P] /\ mq[i - 1] = mw[(i - 1) - P]
      BY <1>6, <2>1
    <3>2. sq[i] = sw[i - P] /\ mq[i] = mw[i - P] /\ q[i] = w[i - P]
      BY <1>4, <1>6, <2>1
    <3> QED BY <2>1, <3>1, <3>2
  <2> HIDE DEF j
  <2> QED BY <2>2, <2>3
<1>9. Runs(q, u, sq, mq)
  <2>1. \A i \in 1 .. P + W : i \in 1 .. P \/ i \in P + 1 .. P + W
    BY <1>3
  <2> QED BY <1>4, <1>7, <1>8, <2>1 DEF Runs
<1>10. sq[0] = sc /\ mq[0] = n
  <2>1. 0 \in 0 .. P
    BY <1>3
  <2> QED BY <1>1, <1>5, <2>1
<1>11. sq[P + W] = end /\ mq[P + W] = Len(u)
  <2>1. P + W \in P .. P + W /\ (P + W) - P = W
    BY <1>3
  <2> QED BY <1>2, <1>6, <2>1 DEF W
<1>12. n \in 0 .. Len(u)
  <2>1. n \in 0 .. Len(t)
    BY DEF Reads
  <2> QED BY <1>3, <2>1
<1> QED BY <1>4, <1>9, <1>10, <1>11, <1>12 DEF Reads, q

\* The scanner's places, as they are defined, follow one another.
LEMMA AfterEach ==
  ASSUME NEW w, IsSeq(w)
  PROVE  LET a == ScannerAfter(w)
         IN  a[0] = Ground /\ \A i \in 1 .. Len(w) : a[i] = Scan(a[i - 1], w[i]).scan
<1> DEFINE N == Len(w)
           F(f, i) == IF i = 0 THEN Ground ELSE Scan(f[i - 1], w[i]).scan
           after == CHOOSE f : f = [i \in 0 .. N |-> F(f, i)]
           Has(n) == \E f : f[0] = Ground /\ \A i \in 1 .. n : f[i] = Scan(f[i - 1], w[i]).scan
           S == {n \in Nat : Has(n)}
<1>0. N \in Nat
  BY Measured
<1>1. 0 \in S
  <2> DEFINE f == [i \in {0} |-> Ground]
  <2>1. f[0] = Ground /\ \A i \in 1 .. 0 : f[i] = Scan(f[i - 1], w[i]).scan
    OBVIOUS
  <2> QED BY <2>1
<1>2. ASSUME NEW n \in Nat, n \in S PROVE n + 1 \in S
  <2>1. PICK f : f[0] = Ground /\ \A i \in 1 .. n : f[i] = Scan(f[i - 1], w[i]).scan
    BY <1>2
  <2> DEFINE g == [i \in 0 .. n + 1 |-> IF i <= n THEN f[i] ELSE Scan(f[n], w[n + 1]).scan]
  <2>2. (\A i \in 0 .. n : g[i] = f[i]) /\ g[n + 1] = Scan(f[n], w[n + 1]).scan
    BY <1>2
  <2> HIDE DEF g
  <2>3. ASSUME NEW i \in 1 .. n + 1 PROVE g[i] = Scan(g[i - 1], w[i]).scan
    <3>1. CASE i = n + 1
      <4>1. i - 1 = n /\ n \in 0 .. n
        BY <3>1
      <4> QED BY <2>2, <3>1, <4>1
    <3>2. CASE i # n + 1
      <4>1. i \in 1 .. n /\ i \in 0 .. n /\ i - 1 \in 0 .. n
        BY <3>2
      <4> QED BY <2>1, <2>2, <4>1
    <3> QED BY <3>1, <3>2
  <2>4. g[0] = Ground
    <3>1. 0 \in 0 .. n
      OBVIOUS
    <3> QED BY <2>1, <2>2, <3>1
  <2>5. Has(n + 1)
    BY <2>3, <2>4
  <2> HIDE DEF Has
  <2> QED BY <2>5
<1>3. S \in SUBSET Nat
  OBVIOUS
<1> HIDE DEF S
<1>4. S = Nat
  BY <1>1, <1>2, <1>3, Onwards
<1>5. Has(N)
  BY <1>0, <1>4 DEF S
<1>6. PICK f : f[0] = Ground /\ \A i \in 1 .. N : f[i] = Scan(f[i - 1], w[i]).scan
  BY <1>5
<1> HIDE DEF Has
<1> DEFINE g == [i \in 0 .. N |-> f[i]]
<1>7. g = [i \in 0 .. N |-> F(g, i)]
  <2>1. ASSUME NEW i \in 0 .. N PROVE g[i] = F(g, i)
    <3>1. CASE i = 0
      BY <1>6, <3>1
    <3>2. CASE i # 0
      <4>1. i - 1 \in 0 .. N /\ i \in 1 .. N
        BY <1>0, <3>2
      <4>2. g[i - 1] = f[i - 1] /\ g[i] = f[i]
        BY <4>1
      <4> QED BY <1>6, <3>2, <4>1, <4>2
    <3> QED BY <3>1, <3>2
  <2>2. g = [i \in 0 .. N |-> g[i]]
    OBVIOUS
  <2> HIDE DEF g, F, N
  <2> QED BY <2>1, <2>2
<1>8. after = [i \in 0 .. N |-> F(after, i)]
  <2> HIDE DEF g
  <2> QED BY <1>7
<1>9. ScannerAfter(w) = after
  BY DEF ScannerAfter
<1> HIDE DEF after
<1>10. \A i \in 0 .. N : after[i] = F(after, i)
  BY <1>8
<1>11. after[0] = Ground
  <2>1. 0 \in 0 .. N
    BY <1>0
  <2> QED BY <1>10, <2>1
<1>12. ASSUME NEW i \in 1 .. N PROVE after[i] = Scan(after[i - 1], w[i]).scan
  <2>1. i \in 0 .. N /\ i # 0
    BY <1>0
  <2> QED BY <1>10, <2>1
<1> QED BY <1>9, <1>11, <1>12

\* What a sequence that is legible means is what is heard at its end.
LEMMA ReadsGesture ==
  ASSUME NEW g \in Gestures, NEW t, IsSeq(t)
  PROVE  /\ Reads(Ground, g.writes, Append(t, g.means), Len(t), Ground)
         /\ \A n \in 1 .. Len(g.writes) - 1 : \E end : Reads(Ground, SubSeq(g.writes, 1, n), t, Len(t), end)
<1> DEFINE w == g.writes
           a == ScannerAfter(w)
           u == Append(t, g.means)
           W == Len(w)
           T == Len(t)
<1>1. SaysWhatItMeans(w, g.means) /\ Legible(w, g.means)
  BY StatusAssumption, StatusLegible DEF StatusAssumption
<1>2. PICK S : w \in Seq(S) /\ w # <<>>
  BY <1>1 DEF SaysWhatItMeans
<1>3. IsSeq(w) /\ W \in Nat \ {0} /\ T \in Nat
  <2>1. IsSeq(w)
    BY <1>2 DEF IsSeq
  <2> HIDE DEF w
  <2> QED BY <1>2, <2>1, Measured
<1>4. Len(u) = T + 1 /\ u[T + 1] = g.means
  BY Add
<1>5. a[0] = Ground /\ a[W] = Ground /\ \A i \in 1 .. W : a[i] = Scan(a[i - 1], w[i]).scan
  BY <1>1, <1>3, AfterEach DEF Legible
<1>6. \A i \in 1 .. W : Scan(a[i - 1], w[i]).event = IF i = W THEN g.means ELSE Quiet
  BY <1>1 DEF Legible
<1> HIDE DEF w, a, u
<1>7. Reads(Ground, w, u, T, Ground)
  <2> DEFINE m == [i \in 0 .. W |-> IF i < W THEN T ELSE T + 1]
  <2>1. m[0] = T /\ m[W] = T + 1
    BY <1>3
  <2>2. ASSUME NEW i \in 1 .. W PROVE Passes(Scan(a[i - 1], w[i]).event, m[i - 1], m[i], u)
    <3> DEFINE e == Scan(a[i - 1], w[i]).event
    <3>1. e = IF i = W THEN g.means ELSE Quiet
      BY <1>6
    <3>2. m[i - 1] = T /\ m[i] = IF i = W THEN T + 1 ELSE T
      BY <1>3
    <3> HIDE DEF m, e, T, W
    <3>3. T \in 0 .. Len(u) /\ T + 1 \in 0 .. Len(u)
      BY <1>3, <1>4
    <3>4. ASSUME i = W PROVE Passes(e, m[i - 1], m[i], u)
      BY <1>4, <3>1, <3>2, <3>3, <3>4 DEF Passes
    <3>5. ASSUME i # W PROVE Passes(e, m[i - 1], m[i], u)
      BY <3>1, <3>2, <3>3, <3>5 DEF Passes, Inert
    <3>6. Passes(e, m[i - 1], m[i], u)
      BY <3>4, <3>5
    <3> QED BY <3>6 DEF e
  <2> HIDE DEF m
  <2>3. Runs(w, u, a, m)
    BY <1>5, <2>2 DEF Runs
  <2>4. T \in 0 .. Len(u)
    BY <1>3, <1>4
  <2> QED BY <1>4, <1>5, <2>1, <2>3, <2>4 DEF Reads
<1>8. ASSUME NEW n \in 1 .. W - 1 PROVE \E end : Reads(Ground, SubSeq(w, 1, n), t, T, end)
  <2> DEFINE c == SubSeq(w, 1, n)
             m == [i \in 0 .. n |-> T]
  <2>1. Len(c) = n /\ \A i \in 1 .. n : c[i] = w[i]
    <3>1. n \in Nat /\ n <= Len(w)
      BY <1>3
    <3> QED BY <1>2, <3>1, FirstOnes DEF w
  <2>2. m[0] = T /\ m[n] = T /\ n \in Nat
    OBVIOUS
  <2>3. ASSUME NEW i \in 1 .. n
        PROVE  a[i] = Scan(a[i - 1], c[i]).scan /\ Passes(Scan(a[i - 1], c[i]).event, m[i - 1], m[i], t)
    <3>1. i \in 1 .. W /\ i # W /\ c[i] = w[i]
      BY <1>3, <2>1
    <3>2. Scan(a[i - 1], w[i]).event = Quiet /\ a[i] = Scan(a[i - 1], w[i]).scan
      BY <1>5, <1>6, <3>1
    <3>3. m[i - 1] = T /\ m[i] = T /\ T \in 0 .. Len(t)
      BY <1>3
    <3> HIDE DEF c, m
    <3>4. Passes(Quiet, m[i - 1], m[i], t)
      BY <3>3 DEF Passes, Inert
    <3> QED BY <3>1, <3>2, <3>4
  <2> HIDE DEF c, m
  <2>4. Runs(c, t, a, m)
    BY <2>1, <2>3 DEF Runs
  <2>5. T \in 0 .. Len(t)
    BY <1>3
  <2>6. Reads(Ground, c, t, T, a[n])
    BY <1>5, <2>1, <2>2, <2>4, <2>5 DEF Reads
  <2> QED BY <2>6 DEF c
<1> QED BY <1>7, <1>8 DEF w, u

\* Two pieces that move the scanner and say nothing of the records.
LEMMA ReadsTwo ==
  ASSUME NEW sc, NEW x, NEW y, NEW t, IsSeq(t), NEW mid, NEW end,
         Scan(sc, x).scan = mid, Inert(Scan(sc, x).event),
         Scan(mid, y).scan = end, Inert(Scan(mid, y).event)
  PROVE  Reads(sc, <<x, y>>, t, Len(t), end)
<1> DEFINE p == <<x, y>>
           T == Len(t)
           st == [i \in 0 .. 2 |-> IF i = 0 THEN sc ELSE IF i = 1 THEN mid ELSE end]
           m == [i \in 0 .. 2 |-> T]
<1>1. IsSeq(p) /\ Len(p) = 2 /\ p[1] = x /\ p[2] = y
  BY Two
<1>2. st[0] = sc /\ st[1] = mid /\ st[2] = end /\ m[0] = T /\ m[1] = T /\ m[2] = T
  OBVIOUS
<1>3. T \in Nat /\ T \in 0 .. Len(t)
  BY Measured
<1> HIDE DEF p, st, m
<1>4. \A e : Inert(e) => Passes(e, T, T, t)
  BY <1>3 DEF Passes
<1>5. ASSUME NEW i \in 1 .. 2
      PROVE  st[i] = Scan(st[i - 1], p[i]).scan /\ Passes(Scan(st[i - 1], p[i]).event, m[i - 1], m[i], t)
  <2>1. CASE i = 1
    <3>1. i - 1 = 0
      BY <2>1
    <3> QED BY <1>1, <1>2, <1>4, <2>1, <3>1
  <2>2. CASE i = 2
    <3>1. i - 1 = 1
      BY <2>2
    <3> QED BY <1>1, <1>2, <1>4, <2>2, <3>1
  <2> QED BY <2>1, <2>2
<1>6. Runs(p, t, st, m)
  BY <1>1, <1>5 DEF Runs
<1> QED BY <1>1, <1>2, <1>3, <1>6 DEF Reads, p

\* Sequences with the same pieces are the same.
LEMMA Same ==
  ASSUME NEW S, NEW s \in Seq(S), NEW t \in Seq(S), Len(s) = Len(t), \A i \in 1 .. Len(s) : s[i] = t[i]
  PROVE  s = t
OBVIOUS

\* A sequence of two pieces, piece by piece.
LEMMA Grown ==
  ASSUME NEW a, NEW b
  PROVE  Append(Append(<<>>, a), b) = <<a, b>> /\ Tail(<<a, b>>) = <<b>>
<1>1. PICK S : a \in S /\ b \in S
  <2>1. a \in {a, b} /\ b \in {a, b}
    OBVIOUS
  <2> QED BY <2>1
<1>2. Append(<<>>, a) = <<a>>
  BY <1>1
<1>3. Append(<<a>>, b) = <<a, b>>
  <2>1. <<a>> \in Seq(S) /\ <<a, b>> \in Seq(S) /\ Len(<<a, b>>) = 2 /\ <<a, b>>[1] = a /\ <<a, b>>[2] = b
    BY <1>1
  <2>2. Append(<<a>>, b) \in Seq(S) /\ Len(Append(<<a>>, b)) = 2
    BY <1>1
  <2>3. Append(<<a>>, b)[1] = a /\ Append(<<a>>, b)[2] = b
    BY <1>1
  <2>4. \A i \in 1 .. 2 : i = 1 \/ i = 2
    OBVIOUS
  <2> QED BY <2>1, <2>2, <2>3, <2>4, Same, Zenon
<1>6. Tail(<<a, b>>) = <<b>>
  BY <1>1
<1> QED BY <1>2, <1>3, <1>6

\* A sequence of four pieces, piece by piece.
LEMMA FourGrown ==
  ASSUME NEW a, NEW b, NEW c, NEW d
  PROVE  Append(Append(Append(Append(<<>>, a), b), c), d) = <<a, b, c, d>>
<1>1. PICK S : a \in S /\ b \in S /\ c \in S /\ d \in S
  <2>1. a \in {a, b, c, d} /\ b \in {a, b, c, d} /\ c \in {a, b, c, d} /\ d \in {a, b, c, d}
    OBVIOUS
  <2> QED BY <2>1
<1>3. Append(Append(<<>>, a), b) = <<a, b>>
  BY Grown
<1>4. Append(<<a, b>>, c) = <<a, b, c>>
  <2>1. /\ <<a, b>> \in Seq(S) /\ <<a, b, c>> \in Seq(S) /\ Len(<<a, b, c>>) = 3
        /\ <<a, b, c>>[1] = a /\ <<a, b, c>>[2] = b /\ <<a, b, c>>[3] = c
    BY <1>1
  <2>2. Append(<<a, b>>, c) \in Seq(S) /\ Len(Append(<<a, b>>, c)) = 3
    BY <1>1
  <2>3. Append(<<a, b>>, c)[1] = a /\ Append(<<a, b>>, c)[2] = b /\ Append(<<a, b>>, c)[3] = c
    BY <1>1
  <2>4. \A i \in 1 .. 3 : i = 1 \/ i = 2 \/ i = 3
    OBVIOUS
  <2> QED BY <2>1, <2>2, <2>3, <2>4, Same, Zenon
<1>5. Append(<<a, b, c>>, d) = <<a, b, c, d>>
  <2>1. /\ <<a, b, c>> \in Seq(S) /\ <<a, b, c, d>> \in Seq(S) /\ Len(<<a, b, c, d>>) = 4
        /\ <<a, b, c, d>>[1] = a /\ <<a, b, c, d>>[2] = b
        /\ <<a, b, c, d>>[3] = c /\ <<a, b, c, d>>[4] = d
    BY <1>1
  <2>2. Append(<<a, b, c>>, d) \in Seq(S) /\ Len(Append(<<a, b, c>>, d)) = 4
    BY <1>1
  <2>3. /\ Append(<<a, b, c>>, d)[1] = a /\ Append(<<a, b, c>>, d)[2] = b
        /\ Append(<<a, b, c>>, d)[3] = c /\ Append(<<a, b, c>>, d)[4] = d
    BY <1>1
  <2>4. \A i \in 1 .. 4 : i = 1 \/ i = 2 \/ i = 3 \/ i = 4
    OBVIOUS
  <2> QED BY <2>1, <2>2, <2>3, <2>4, Same, Zenon
<1> QED BY <1>3, <1>4, <1>5, Zenon

\* What a piece of a body changes of the scanner.
LEMMA InPlace ==
  ASSUME NEW buf
  PROVE  LET s == Scanner("body", buf, FALSE)
             r == Scanner("bodyesc", buf, FALSE)
         IN  /\ \A x : x[1] \notin {"BEL", "ESC", "CTL", "huge"} =>
                  Scan(s, x).scan = Scanner("body", Append(buf, x), FALSE) /\ Scan(s, x).event = Quiet
             /\ Scan(s, C("ESC")).scan = r /\ Scan(s, C("ESC")).event = Quiet
             /\ Scan(r, C("\\")).scan = Ground /\ Scan(r, C("\\")).event = Dispatch(buf)
<1>1. PICK s : s = Scanner("body", buf, FALSE)
  OBVIOUS
<1>2. s.at = "body" /\ s.buf = buf /\ s.overflow = FALSE /\ s = Scanner(s.at, s.buf, s.overflow)
  BY <1>1 DEF Scanner
<1>3. PICK r : r = Scanner("bodyesc", buf, FALSE)
  OBVIOUS
<1>4. r.at = "bodyesc" /\ r.buf = buf /\ r.overflow = FALSE
  BY <1>3 DEF Scanner
<1>5. ASSUME NEW x, x[1] \notin {"BEL", "ESC", "CTL", "huge"}
      PROVE  Scan(s, x).scan = Scanner("body", Append(buf, x), FALSE) /\ Scan(s, x).event = Quiet
  <2> DEFINE new == Append(buf, x)
  <2>1. Scan(s, x) = Goes([s EXCEPT !.buf = Append(@, x)])
    BY <1>2, <1>5 DEF Scan, InBody
  <2>2. [s EXCEPT !.buf = Append(@, x)] = [s EXCEPT !.buf = new]
    BY <1>2 DEF Scanner
  <2> HIDE DEF new
  <2>3. [s EXCEPT !.buf = new] = Scanner("body", new, FALSE)
    <3>1. [s EXCEPT !.buf = new] = Scanner(s.at, new, s.overflow)
      BY <1>2 DEF Scanner
    <3> QED BY <1>2, <3>1
  <2>4. \A q : Goes(q).scan = q /\ Goes(q).event = Quiet
    BY DEF Goes
  <2> QED BY <2>1, <2>2, <2>3, <2>4 DEF new
<1>6. Scan(s, C("ESC")).scan = r /\ Scan(s, C("ESC")).event = Quiet
  <2>1. C("ESC")[1] = "ESC"
    BY DEF C
  <2>2. Scan(s, C("ESC")) = Goes([s EXCEPT !.at = "bodyesc"])
    BY <1>2, <2>1 DEF Scan, InBody
  <2>3. [s EXCEPT !.at = "bodyesc"] = r
    <3>1. \A at : [s EXCEPT !.at = at] = Scanner(at, s.buf, s.overflow)
      BY <1>2 DEF Scanner
    <3> QED BY <1>2, <1>3, <3>1
  <2>4. \A q : Goes(q).scan = q /\ Goes(q).event = Quiet
    BY DEF Goes
  <2> QED BY <2>2, <2>3, <2>4
<1>7. Scan(r, C("\\")).scan = Ground /\ Scan(r, C("\\")).event = Dispatch(buf)
  <2>1. C("\\")[1] = "\\"
    BY DEF C
  <2>2. Scan(r, C("\\")) = AfterEsc(r, "\\")
    BY <1>4, <2>1 DEF Scan
  <2>3. AfterEsc(r, "\\") = Finish(r)
    BY <1>4 DEF AfterEsc
  <2>4. Finish(r).scan = Ground /\ Finish(r).event = Dispatch(buf)
    BY <1>4 DEF Finish
  <2> QED BY <2>2, <2>3, <2>4
<1> QED BY <1>1, <1>3, <1>5, <1>6, <1>7

\* The answers of the pane, echoed, leave the records alone and nothing
\* unfinished.
LEMMA ReadsAnswer ==
  ASSUME NEW w, NEW b, w \in {QueryReply, HelloReply, Verb("click", b)}, NEW t, IsSeq(t)
  PROVE  IsSeq(w) /\ Reads(Ground, w, t, Len(t), Ground)
<1> DEFINE Idle(s, p, r) == IsSeq(p) /\ Reads(s, p, t, Len(t), r)
           In(buf) == Scanner("body", buf, FALSE)
<1>Q. Inert(Quiet)
  BY DEF Inert
<1>1. ASSUME NEW s1, NEW p1, NEW s2, NEW p2, NEW s3, Idle(s1, p1, s2), Idle(s2, p2, s3)
      PROVE  Idle(s1, p1 \o p2, s3)
  <2>1. IsSeq(p1 \o p2)
    BY <1>1, Cat
  <2>2. Len(t) \in Nat
    BY Measured
  <2> QED BY <1>1, <2>1, <2>2, ReadsCat
<1>2. Idle(Ground, <<C("ESC"), C("]")>>, In(<<>>))
  <2> DEFINE esc == Scanner("esc", <<>>, FALSE)
  <2>1. C("ESC")[1] = "ESC" /\ C("]")[1] = "]" /\ Ground.at = "ground" /\ esc.at = "esc"
    BY DEF C, Ground, Scanner
  <2>2. Scan(Ground, C("ESC")) = Goes(esc)
    BY <2>1 DEF Scan
  <2>3. Scan(esc, C("]")) = Goes(Body)
    <3> HIDE DEF esc
    <3>1. Scan(esc, C("]")) = AfterEsc(esc, "]")
      BY <2>1 DEF Scan
    <3> QED BY <3>1 DEF AfterEsc
  <2>4. Goes(esc).scan = esc /\ Goes(esc).event = Quiet /\ Goes(Body).scan = Body /\ Goes(Body).event = Quiet
    BY DEF Goes
  <2>5. Body = In(<<>>)
    BY DEF Body
  <2> HIDE DEF esc, In, Idle
  <2>6. Reads(Ground, <<C("ESC"), C("]")>>, t, Len(t), Body)
    BY <1>Q, <2>2, <2>3, <2>4, ReadsTwo
  <2> QED BY <2>5, <2>6, Two DEF Idle
<1>3. ASSUME NEW buf, NEW x, x[1] \notin {"BEL", "ESC", "CTL", "huge"}
      PROVE  Scan(In(buf), x).scan = In(Append(buf, x)) /\ Scan(In(buf), x).event = Quiet
  BY <1>3, InPlace
<1>4. ASSUME NEW buf, NEW x, NEW y, x[1] \notin {"BEL", "ESC", "CTL", "huge"},
             y[1] \notin {"BEL", "ESC", "CTL", "huge"}
      PROVE  Idle(In(buf), <<x, y>>, In(Append(Append(buf, x), y)))
  <2>1. /\ Scan(In(buf), x).scan = In(Append(buf, x)) /\ Scan(In(buf), x).event = Quiet
        /\ Scan(In(Append(buf, x)), y).scan = In(Append(Append(buf, x), y))
        /\ Scan(In(Append(buf, x)), y).event = Quiet
    BY <1>3, <1>4
  <2> HIDE DEF In
  <2> QED BY <1>Q, <2>1, ReadsTwo, Two
<1>5. ASSUME NEW buf, Inert(Dispatch(buf))
      PROVE  Idle(In(buf), ST, Ground)
  <2> DEFINE s == In(buf)
             r == Scanner("bodyesc", buf, FALSE)
  <2>1. /\ Scan(s, C("ESC")).scan = r /\ Scan(s, C("ESC")).event = Quiet
        /\ Scan(r, C("\\")).scan = Ground /\ Scan(r, C("\\")).event = Dispatch(buf)
    BY InPlace
  <2> HIDE DEF s, r
  <2>2. Reads(s, <<C("ESC"), C("\\")>>, t, Len(t), Ground)
    BY <1>Q, <1>5, <2>1, ReadsTwo
  <2> QED BY <2>2, Two DEF s, ST
<1>6. ASSUME NEW v, NEW pay, v \notin {"status", "busy", "clear"} PROVE Idle(Ground, Verb(v, pay), Ground)
  <2> DEFINE x1 == <<"osc", "5577">>
             x2 == <<"version", "1">>
             x3 == <<"verb", v>>
             x4 == <<"payload", pay>>
             buf == <<x1, x2, x3, x4>>
  <2>1. /\ x1[1] = "osc" /\ x2[1] = "version" /\ x3[1] = "verb" /\ x4[1] = "payload"
        /\ x3[2] = v /\ x4[2] = pay
    OBVIOUS
  <2>2. Inert(Dispatch(buf))
    <3>1. buf # <<>> /\ buf[1] = <<"osc", "5577">> /\ Len(buf) = 4 /\ buf[2] = <<"version", "1">> /\ buf[3][2] = v
      OBVIOUS
    <3> HIDE DEF buf
    <3>2. Dispatch(buf) = Dispatch5577(buf)
      BY <3>1 DEF Dispatch
    <3>3. \E y : Dispatch(buf) = <<"verb", v, y>>
      BY <3>1, <3>2 DEF Dispatch5577
    <3> QED BY <1>6, <3>3 DEF Inert
  <2>3. Append(Append(Append(Append(<<>>, x1), x2), x3), x4) = buf
    <3> HIDE DEF x1, x2, x3, x4
    <3> QED BY FourGrown, Zenon
  <2>4. <<x1, x2, x3, x4>> = <<x1, x2>> \o <<x3, x4>>
    OBVIOUS
  <2> HIDE DEF x1, x2, x3, x4
  <2>5. Idle(In(<<>>), <<x1, x2>>, In(Append(Append(<<>>, x1), x2)))
    BY <1>4, <2>1
  <2>6. Idle(In(Append(Append(<<>>, x1), x2)), <<x3, x4>>, In(buf))
    <3>1. Idle(In(Append(Append(<<>>, x1), x2)), <<x3, x4>>,
               In(Append(Append(Append(Append(<<>>, x1), x2), x3), x4)))
      BY <1>4, <2>1
    <3> QED BY <2>3, <3>1
  <2> HIDE DEF Idle, In
  <2>7. Idle(In(<<>>), <<x1, x2, x3, x4>>, In(buf))
    BY <1>1, <2>4, <2>5, <2>6
  <2>8. Idle(In(buf), ST, Ground)
    BY <1>5, <2>2
  <2>9. Verb(v, pay) = (<<C("ESC"), C("]")>> \o <<x1, x2, x3, x4>>) \o ST
    BY DEF Verb, Osc, x1, x2, x3, x4
  <2> HIDE DEF buf
  <2>10. Idle(Ground, <<C("ESC"), C("]")>> \o <<x1, x2, x3, x4>>, In(buf))
    BY <1>1, <1>2, <2>7
  <2> QED BY <1>1, <2>8, <2>9, <2>10
<1>7. Idle(Ground, QueryReply, Ground)
  <2> DEFINE x1 == <<"osc", "7501">>
             x2 == <<"?", "">>
             buf == <<x1, x2>>
  <2>1. x1[1] = "osc" /\ x2[1] = "?"
    OBVIOUS
  <2>2. Inert(Dispatch(buf))
    <3>1. buf # <<>> /\ buf[1] = <<"osc", "7501">> /\ Tail(buf) = <<<<"?", "">>>>
      <4>1. IsSeq(buf) /\ Len(buf) = 2 /\ buf[1] = x1
        BY Two
      <4>2. Tail(buf) = <<x2>>
        BY Grown
      <4> HIDE DEF buf
      <4>3. buf # <<>>
        BY <4>1, Measured
      <4> QED BY <4>1, <4>2, <4>3
    <3> HIDE DEF buf
    <3>2. Dispatch(buf) = Dispatch7501(Tail(buf))
      <4>1. <<"osc", "7501">> # <<"osc", "5577">>
        OBVIOUS
      <4>2. buf # <<>> /\ buf[1] = <<"osc", "7501">>
        BY <3>1
      <4> QED BY <4>1, <4>2 DEF Dispatch
    <3> QED BY <3>1, <3>2 DEF Dispatch7501, Inert
  <2>3. Append(Append(<<>>, x1), x2) = buf
    BY Grown
  <2> HIDE DEF x1, x2
  <2>4. Idle(In(<<>>), <<x1, x2>>, In(Append(Append(<<>>, x1), x2)))
    BY <1>4, <2>1
  <2>5. Idle(In(<<>>), buf, In(buf))
    BY <2>3, <2>4
  <2>6. Idle(In(buf), ST, Ground)
    BY <1>5, <2>2
  <2>7. QueryReply = (<<C("ESC"), C("]")>> \o buf) \o ST
    BY DEF QueryReply, Query, Osc, x1, x2
  <2> HIDE DEF buf, Idle, In
  <2>8. Idle(Ground, <<C("ESC"), C("]")>> \o buf, In(buf))
    BY <1>1, <1>2, <2>5
  <2> QED BY <1>1, <2>6, <2>7, <2>8
<1> QED BY <1>6, <1>7 DEF HelloReply

-----------------------------------------------------------------------------
(* What is kept is what was said and is still true.                        *)

(* An id is a path. *)
Fair(t) == \A i \in 1 .. Len(t) : t[i][1] = "report" => IsPrefix(t[i][2].id, t[i][2].id)

(* The n things of t that were heard are what the records recs are of, and  *)
(* the line p will tell the scanner sc the rest.                            *)
Hearsay(sc, p, recs, t, open, H, n, end) ==
  /\ HeldBy(t, H)
  /\ Reads(sc, p, t, n, end)
  /\ open => end = Ground
  /\ Keeps(recs, t, H[n])

Attentive == Fair(told) /\ \E H, n, end : Hearsay(scan, pipe, slot.recs, told, running, H, n, end)

\* No records are those of nothing said.
LEMMA Fresh == Fair(<<>>) /\ \E H : Hearsay(Ground, <<>>, {}, <<>>, TRUE, H, 0, Ground)
<1> DEFINE H == [k \in {0} |-> {}]
<1>1. Len(<<>>) = 0 /\ IsSeq(<<>>)
  BY NothingOwed
<1>2. H[0] = {}
  OBVIOUS
<1> HIDE DEF H
<1>3. HeldBy(<<>>, H)
  BY <1>1, <1>2 DEF HeldBy
<1>4. Reads(Ground, <<>>, <<>>, 0, Ground)
  BY <1>1, ReadsNone
<1>5. Keeps({}, <<>>, H[0])
  BY <1>2 DEF Keeps
<1>6. Hearsay(Ground, <<>>, {}, <<>>, TRUE, H, 0, Ground)
  BY <1>3, <1>4, <1>5 DEF Hearsay
<1>7. Fair(<<>>)
  BY <1>1 DEF Fair
<1> QED BY <1>6, <1>7, Zenon

\* The first state.
LEMMA AttentiveInit == Init => Attentive
<1> SUFFICES ASSUME Init PROVE Attentive
  OBVIOUS
<1>1. scan = Ground /\ pipe = <<>> /\ slot.recs = {} /\ told = <<>> /\ running = TRUE
  BY DEF Init, NoSlot
<1> QED BY <1>1, Fresh DEF Attentive

\* Reports stay what they were when more is told.
LEMMA KeepsTold ==
  ASSUME NEW recs, NEW t, NEW u, NEW S, \A i \in S : u[i] = t[i], Keeps(recs, t, S)
  PROVE  Keeps(recs, u, S)
BY DEF Keeps

\* A path more or less.
LEMMA FairMore ==
  ASSUME NEW t, IsSeq(t), NEW e, Fair(t), e[1] = "report" => IsPrefix(e[2].id, e[2].id)
  PROVE  Fair(Append(t, e))
<1>1. /\ Len(t) \in Nat /\ Len(Append(t, e)) = Len(t) + 1
      /\ \A i \in 1 .. Len(t) : Append(t, e)[i] = t[i]
      /\ Append(t, e)[Len(t) + 1] = e
  BY Add, Measured
<1>2. \A i \in 1 .. Len(t) + 1 : i \in 1 .. Len(t) \/ i = Len(t) + 1
  BY <1>1
<1> QED BY <1>1, <1>2 DEF Fair

\* What was heard before more was told was heard: what is held of it stays.
LEMMA ToldMore ==
  ASSUME NEW t, IsSeq(t), NEW e, NEW H, HeldBy(t, H), NEW n \in 0 .. Len(t), NEW recs, Keeps(recs, t, H[n])
  PROVE  \E H2 : /\ HeldBy(Append(t, e), H2) /\ Keeps(recs, Append(t, e), H2[n])
                 /\ H2[Len(t) + 1] = Still(Append(t, e), H2[Len(t)], Len(t) + 1)
<1> DEFINE u == Append(t, e)
<1>1. PICK H2 : HeldBy(u, H2) /\ (\A k \in 0 .. Len(t) : H2[k] = H[k])
                /\ H2[Len(t) + 1] = Still(u, H[Len(t)], Len(t) + 1)
  BY HeldMore
<1>2. Len(t) \in Nat /\ \A i \in 1 .. Len(t) : u[i] = t[i]
  BY Add, Measured
<1> HIDE DEF u
<1>3. H[n] \subseteq 1 .. Len(t)
  <2>1. H[n] \subseteq 1 .. n
    BY DEF HeldBy
  <2> QED BY <1>2, <2>1
<1>4. Keeps(recs, u, H[n])
  <2>1. \A i \in H[n] : u[i] = t[i]
    BY <1>2, <1>3
  <2> QED BY <2>1, KeepsTold
<1>5. H2[n] = H[n] /\ H2[Len(t)] = H[Len(t)]
  BY <1>1, <1>2
<1> QED BY <1>1, <1>4, <1>5 DEF u

\* A program writes a sequence.
LEMMA WriteHeard == ASSUME Inv, Attentive, NEW g \in Gestures, Write(g) PROVE Attentive'
<1>1. /\ running = TRUE /\ running' = TRUE /\ pipe' = pipe \o g.writes /\ told' = Append(told, g.means)
      /\ scan' = scan /\ slot' = slot
  BY DEF Write, Inv
<1>2. PICK H, n, end : Hearsay(scan, pipe, slot.recs, told, running, H, n, end)
  BY DEF Attentive
<1>3. /\ HeldBy(told, H) /\ Reads(scan, pipe, told, n, Ground) /\ Keeps(slot.recs, told, H[n])
      /\ n \in 0 .. Len(told)
  BY <1>1, <1>2 DEF Hearsay, Reads
<1>4. IsSeq(told) /\ IsSeq(pipe) /\ IsSeq(g.writes)
  BY GestureGood DEF Inv, Wire, LineGood
<1>5. PICK H2 : HeldBy(told', H2) /\ Keeps(slot.recs, told', H2[n])
  BY <1>1, <1>3, <1>4, ToldMore
<1>6. Reads(Ground, g.writes, told', Len(told), Ground)
  BY <1>1, <1>4, ReadsGesture
<1>7. /\ IsSeq(told') /\ Len(told) <= Len(told') /\ \A i \in 1 .. Len(told) : told'[i] = told[i]
  <2>1. Len(told) \in Nat
    BY <1>4, Measured
  <2> QED BY <1>1, <1>4, <2>1, Add
<1>8. Reads(scan, pipe \o g.writes, told', n, Ground)
  BY <1>3, <1>4, <1>6, <1>7, ReadsCat
<1>9. Fair(told')
  <2>1. Legible(g.writes, g.means)
    BY StatusLegible
  <2>2. g.means[1] = "report" => IsPrefix(g.means[2].id, g.means[2].id)
    BY <2>1 DEF Legible
  <2> QED BY <1>1, <1>4, <2>2, FairMore DEF Attentive
<1>10. Hearsay(scan', pipe', slot'.recs, told', running', H2, n, Ground)
  BY <1>1, <1>5, <1>8 DEF Hearsay
<1> QED BY <1>9, <1>10 DEF Attentive

\* A program ends, in the middle of a sequence perhaps.
LEMMA ExitHeard == ASSUME Inv, Attentive, Exit PROVE Attentive'
<1>1. /\ running = TRUE /\ running' = FALSE /\ told' = told /\ scan' = scan /\ slot' = slot
      /\ \/ pipe' = pipe
         \/ \E g \in Gestures : \E k \in 1 .. Len(g.writes) - 1 : pipe' = pipe \o SubSeq(g.writes, 1, k)
  BY DEF Exit, Inv
<1>2. PICK H, n, end : Hearsay(scan, pipe, slot.recs, told, running, H, n, end)
  BY DEF Attentive
<1>3. /\ HeldBy(told, H) /\ Reads(scan, pipe, told, n, Ground) /\ Keeps(slot.recs, told, H[n])
  BY <1>1, <1>2 DEF Hearsay
<1>4. \E r : Reads(scan, pipe', told, n, r)
  <2>1. CASE pipe' = pipe
    BY <1>3, <2>1
  <2>2. ASSUME NEW g \in Gestures, NEW k \in 1 .. Len(g.writes) - 1, pipe' = pipe \o SubSeq(g.writes, 1, k)
        PROVE  \E r : Reads(scan, pipe', told, n, r)
    <3> DEFINE c == SubSeq(g.writes, 1, k)
    <3>1. IsSeq(told) /\ IsSeq(pipe) /\ IsSeq(c) /\ Len(told) \in Nat
      BY CutGood, Measured DEF Inv, Wire, LineGood
    <3>2. PICK r : Reads(Ground, c, told, Len(told), r)
      BY <3>1, ReadsGesture
    <3> HIDE DEF c
    <3>3. Reads(scan, pipe \o c, told, n, r)
      BY <1>3, <3>1, <3>2, ReadsCat
    <3> QED BY <2>2, <3>3 DEF c
  <2> QED BY <1>1, <2>1, <2>2
<1>5. PICK r : Reads(scan, pipe', told, n, r)
  BY <1>4
<1>6. Hearsay(scan', pipe', slot'.recs, told', running', H, n, r)
  BY <1>1, <1>3, <1>5 DEF Hearsay
<1> QED BY <1>1, <1>6 DEF Attentive

\* An answer comes back, or does not, and says nothing of the records.
LEMMA ReadsEcho ==
  ASSUME Inv, NEW sc, NEW q, IsSeq(q), NEW k, NEW end, Reads(sc, q, told, k, end), running => end = Ground,
         NEW w, NEW b, w \in {QueryReply, HelloReply, Verb("click", b)}
  PROVE  \E r : Reads(sc, q \o Echoed(w), told, k, r) /\ (running => r = Ground)
<1>1. IsSeq(told) /\ Len(told) \in Nat /\ running \in BOOLEAN
  BY Measured DEF Inv
<1>2. CASE Echo /\ running
  <2>1. Echoed(w) = w /\ end = Ground
    BY <1>2 DEF Echoed
  <2>2. IsSeq(w) /\ Reads(Ground, w, told, Len(told), Ground)
    BY <1>1, ReadsAnswer
  <2>3. Reads(sc, q \o w, told, k, Ground)
    BY <1>1, <2>1, <2>2, ReadsCat
  <2> QED BY <2>1, <2>3
<1>3. CASE ~(Echo /\ running)
  <2>1. Echoed(w) = <<>>
    BY <1>3 DEF Echoed
  <2>2. q \o <<>> = q
    BY DEF IsSeq
  <2> QED BY <2>1, <2>2
<1> QED BY <1>2, <1>3

\* A button is clicked.
LEMMA ClickHeard == ASSUME Inv, Attentive, Click PROVE Attentive'
<1>1. /\ pipe = <<>> /\ UNCHANGED <<told, scan, slot, running>>
      /\ \E b : pipe' = pipe \o Echoed(Verb("click", b)) \/ pipe' = pipe \o <<>>
  BY DEF Click
<1>2. PICK H, n, end : Hearsay(scan, pipe, slot.recs, told, running, H, n, end)
  BY DEF Attentive
<1>3. /\ HeldBy(told, H) /\ Reads(scan, pipe, told, n, end) /\ Keeps(slot.recs, told, H[n])
      /\ running => end = Ground
  BY <1>2 DEF Hearsay
<1>4. IsSeq(pipe) /\ pipe \o <<>> = pipe
  <2>1. IsSeq(pipe)
    BY <1>1, NothingOwed
  <2>2. PICK S : pipe \in Seq(S)
    BY <2>1 DEF IsSeq
  <2>3. pipe \o <<>> = pipe
    BY <2>2
  <2> QED BY <2>1, <2>3
<1>5. \A b : \E r : Reads(scan, pipe \o Echoed(Verb("click", b)), told, n, r) /\ (running => r = Ground)
  BY <1>3, <1>4, ReadsEcho
<1>6. PICK r : Reads(scan, pipe', told, n, r) /\ (running => r = Ground)
  BY <1>1, <1>3, <1>4, <1>5
<1>7. Hearsay(scan', pipe', slot'.recs, told', running', H, n, r)
  BY <1>1, <1>3, <1>6 DEF Hearsay
<1> QED BY <1>1, <1>7 DEF Attentive

\* The pane notices that its program is gone.
LEMMA EndHeard == ASSUME Inv, Attentive, EndOfFile PROVE Attentive'
<1>1. /\ pipe = <<>> /\ running = FALSE /\ told' = Append(told, <<"exit">>) /\ slot' = DropTransient(slot)
      /\ UNCHANGED <<pipe, scan, running>>
  BY DEF EndOfFile, Died, Inv
<1>2. PICK H, n, end : Hearsay(scan, pipe, slot.recs, told, running, H, n, end)
  BY DEF Attentive
<1>3. IsSeq(told) /\ Len(told) \in Nat /\ SlotGood(slot)
  BY Measured DEF Inv
<1>4. HeldBy(told, H) /\ n = Len(told) /\ Keeps(slot.recs, told, H[n])
  BY <1>1, <1>2, <1>3, ReadsNone DEF Hearsay
<1>5. PICK H2 : /\ HeldBy(told', H2) /\ Keeps(slot.recs, told', H2[Len(told)])
                /\ H2[Len(told) + 1] = Still(told', H2[Len(told)], Len(told) + 1)
  <2>1. n \in 0 .. Len(told) /\ n = Len(told)
    BY <1>3, <1>4
  <2>2. PICK e : e = <<"exit">>
    OBVIOUS
  <2>3. PICK recs : recs = slot.recs
    OBVIOUS
  <2>4. Keeps(recs, told, H[n]) /\ HeldBy(told, H) /\ IsSeq(told)
    BY <1>3, <1>4, <2>3
  <2>5. \E H2 : /\ HeldBy(Append(told, e), H2) /\ Keeps(recs, Append(told, e), H2[n])
                /\ H2[Len(told) + 1] = Still(Append(told, e), H2[Len(told)], Len(told) + 1)
    BY <2>1, <2>4, ToldMore
  <2>6. told' = Append(told, e)
    BY <1>1, <2>2
  <2> QED BY <2>1, <2>3, <2>5, <2>6
<1>6. IsSeq(told') /\ Len(told') = Len(told) + 1 /\ told'[Len(told) + 1] = <<"exit">>
  BY <1>1, <1>3, Add
<1>7. PICK t : t = told'
  OBVIOUS
<1>8. Keeps(slot'.recs, told', H2[Len(told) + 1])
  <2>1. Still(t, H2[Len(told)], Len(told) + 1) = {i \in H2[Len(told)] : t[i][2].state \notin {"working", "blocked"}}
    BY <1>6, <1>7 DEF Still
  <2>2. SlotGood(slot) /\ Keeps(slot.recs, t, H2[Len(told)])
    BY <1>3, <1>5, <1>7
  <2>3. PICK p : p = slot
    OBVIOUS
  <2>4. PICK S : S = H2[Len(told)]
    OBVIOUS
  <2>5. SlotGood(p) /\ Keeps(p.recs, t, S)
    BY <2>2, <2>3, <2>4
  <2>6. Keeps(DropTransient(p).recs, t, {i \in S : t[i][2].state \notin {"working", "blocked"}})
    BY <2>5, QuietedKept
  <2>7. H2[Len(told) + 1] = {i \in S : t[i][2].state \notin {"working", "blocked"}}
    BY <1>5, <1>7, <2>1, <2>4
  <2> QED BY <1>1, <1>7, <2>3, <2>6, <2>7
<1>9. Reads(scan, <<>>, told', Len(told) + 1, scan)
  <2>1. Len(told) + 1 \in 0 .. Len(told')
    BY <1>3, <1>6
  <2> QED BY <1>6, <2>1, ReadsNone
<1>10. Hearsay(scan', pipe', slot'.recs, told', running', H2, Len(told) + 1, scan)
  BY <1>1, <1>5, <1>8, <1>9 DEF Hearsay
<1>11. Fair(told')
  <2>1. <<"exit">>[1] # "report"
    OBVIOUS
  <2> QED BY <1>1, <1>3, <2>1, FairMore DEF Attentive
<1> QED BY <1>10, <1>11 DEF Attentive

\* A new run has said nothing, and its slot holds nothing.
LEMMA RestartHeard == ASSUME Inv, Restart PROVE Attentive'
<1>1. /\ pipe' = <<>> /\ scan' = Ground /\ running' = TRUE /\ told' = <<>>
      /\ slot' = [slot EXCEPT !.status = Blank, !.busy = FALSE, !.buttons = {},
                              !.recs = {}, !.showing = FALSE]
  BY DEF Restart, Rescanned, Inv, Gone
<1>2. slot'.recs = {}
  <2>1. IsSlot(slot)
    BY DEF Inv, SlotGood
  <2> QED BY <1>1, <2>1 DEF IsSlot
<1>3. PICK H : Hearsay(Ground, <<>>, {}, <<>>, TRUE, H, 0, Ground)
  BY Fresh
<1>4. Hearsay(scan', pipe', slot'.recs, told', running', H, 0, Ground)
  BY <1>1, <1>2, <1>3
<1>5. Fair(told')
  BY <1>1, Fresh
<1> QED BY <1>4, <1>5 DEF Attentive

\* What the scanner hears does to the slot.
LEMMA HeardDoes == ASSUME Inv, Feed PROVE slot'.recs = Hearing(slot, Scan(scan, Head(pipe)).event)
<1> DEFINE e == Scan(scan, Head(pipe)).event
<1>1. IsSlot(slot)
  BY DEF Inv, SlotGood
<1>2. \/ e = Quiet /\ slot' = slot
      \/ e[1] = "report" /\ slot' = OnProgramStatus(slot, e[2])
      \/ e[1] = "verb" /\ e[2] = "hello" /\ slot' = slot
      \/ e[1] = "verb" /\ e[2] # "hello" /\ slot' = OnOsc5577(slot, e[2], e[3])
      \/ e[1] = "query" /\ slot' = slot
      \/ e[1] = "prompt" /\ slot' = DropTransient(slot)
      \/ e[1] = "reset" /\ slot' = DropAll(slot)
  BY DEF Feed
<1> HIDE DEF e
<1>3. CASE e = Quiet /\ slot' = slot
  <2>1. Quiet[1] \notin {"report", "verb", "prompt", "reset"}
    BY DEF Quiet
  <2> QED BY <1>3, <2>1 DEF Hearing, e
<1>4. CASE e[1] = "report" /\ slot' = OnProgramStatus(slot, e[2])
  BY <1>4 DEF Hearing, e
<1>5. CASE e[1] = "verb" /\ e[2] = "hello" /\ slot' = slot
  <2>1. OnOsc5577(slot, e[2], e[3]) = slot
    BY <1>5 DEF OnOsc5577
  <2>2. Hearing(slot, e) = OnOsc5577(slot, e[2], e[3]).recs
    BY <1>5 DEF Hearing
  <2> QED BY <1>5, <2>1, <2>2 DEF e
<1>6. CASE e[1] = "verb" /\ e[2] # "hello" /\ slot' = OnOsc5577(slot, e[2], e[3])
  <2>1. Hearing(slot, e) = OnOsc5577(slot, e[2], e[3]).recs
    BY <1>6 DEF Hearing
  <2> QED BY <1>6, <2>1 DEF e
<1>7. CASE e[1] = "query" /\ slot' = slot
  <2>1. Hearing(slot, e) = slot.recs
    BY <1>7 DEF Hearing
  <2> QED BY <1>7, <2>1 DEF e
<1>8. CASE e[1] = "prompt" /\ slot' = DropTransient(slot)
  <2>1. Hearing(slot, e) = DropTransient(slot).recs
    BY <1>8 DEF Hearing
  <2> QED BY <1>8, <2>1 DEF e
<1>9. CASE e[1] = "reset" /\ slot' = DropAll(slot)
  <2>1. SlotGood(slot)
    BY DEF Inv
  <2>2. DropAll(slot).recs = {}
    BY <2>1, Left DEF DropAll
  <2>3. Hearing(slot, e) = {}
    BY <1>9 DEF Hearing
  <2> QED BY <1>9, <2>2, <2>3 DEF e
<1> QED BY <1>2, <1>3, <1>4, <1>5, <1>6, <1>7, <1>8, <1>9


\* What is inert leaves the records alone.
LEMMA InertLeaves == ASSUME NEW p, IsSlot(p), NEW e, Inert(e) PROVE Hearing(p, e) = p.recs
<1>1. CASE e \in {Quiet, <<"query">>}
  <2>1. e[1] \notin {"report", "verb", "prompt", "reset"}
    BY <1>1 DEF Quiet
  <2> QED BY <2>1 DEF Hearing
<1>2. CASE e[1] = "verb" /\ e[2] \notin {"status", "busy", "clear"}
  <2>1. Hearing(p, e) = OnOsc5577(p, e[2], e[3]).recs
    BY <1>2 DEF Hearing
  <2>2. CASE e[2] = "buttons"
    <3>1. OnOsc5577(p, e[2], e[3]) = [p EXCEPT !.buttons = ParseButtons(e[3])]
      BY <2>2 DEF OnOsc5577
    <3> QED BY <2>1, <3>1 DEF IsSlot
  <2>3. CASE e[2] # "buttons"
    BY <1>2, <2>1, <2>3 DEF OnOsc5577
  <2> QED BY <2>2, <2>3
<1> QED BY <1>1, <1>2 DEF Inert

\* The scanner hears nothing of a program's end.
LEMMA NoExit == ASSUME NEW sc, NEW x, sc.at \in {"ground", "esc", "body", "bodyesc"} PROVE Scan(sc, x).event[1] # "exit"
<1> DEFINE e == Scan(sc, x).event
<1>1. e \in {Quiet, <<"reset">>} \/ e = Dispatch(sc.buf)
  BY Heeded
<1>2. \/ Dispatch(sc.buf) \in {Quiet, <<"query">>, <<"prompt">>}
      \/ \E a : Dispatch(sc.buf) = <<"report", a>>
      \/ \E a, b : Dispatch(sc.buf) = <<"verb", a, b>>
  BY Dispatched
<1> HIDE DEF e
<1> QED BY <1>1, <1>2 DEF Quiet, e

\* The scanner reads a piece: what was told is heard in its turn.
LEMMA FeedHeard == ASSUME Inv, Attentive, Feed PROVE Attentive'
<1> DEFINE r == Scan(scan, Head(pipe))
           e == r.event
           q == Tail(pipe)
<1>1. pipe # <<>> /\ scan' = r.scan /\ UNCHANGED <<told, running>>
      /\ (pipe' = q \/ pipe' = q \o Echoed(HelloReply) \/ pipe' = q \o Echoed(QueryReply))
  BY DEF Feed
<1>2. PICK H, n, end : Hearsay(scan, pipe, slot.recs, told, running, H, n, end)
  BY DEF Attentive
<1>3. /\ HeldBy(told, H) /\ Reads(scan, pipe, told, n, end) /\ Keeps(slot.recs, told, H[n])
      /\ (running => end = Ground) /\ n \in 0 .. Len(told)
  BY <1>2 DEF Hearsay, Reads
<1>4. IsSeq(told) /\ Len(told) \in Nat /\ IsSeq(pipe) /\ IsSeq(q) /\ SlotGood(slot)
      /\ scan.at \in {"ground", "esc", "body", "bodyesc"}
  BY <1>1, Measured, Rest DEF Inv, Wire, LineGood, ScanGood
<1>5. PICK k : Passes(e, n, k, told) /\ Reads(r.scan, q, told, k, end)
  BY <1>1, <1>3, <1>4, ReadsOn
<1>6. slot'.recs = Hearing(slot, e)
  BY HeardDoes
<1>7. e[1] # "exit"
  BY <1>4, NoExit
<1> HIDE DEF r, q, e
<1>8. Keeps(slot'.recs, told, H[k])
  <2>1. CASE k = n /\ Inert(e)
    <3>1. IsSlot(slot)
      BY <1>4 DEF SlotGood
    <3>2. Hearing(slot, e) = slot.recs
      BY <2>1, <3>1, InertLeaves
    <3> QED BY <1>3, <1>6, <2>1, <3>2
  <2>2. CASE k = n + 1 /\ e = told[k]
    <3>1. k \in 1 .. Len(told) /\ k \in Nat \ {0} /\ k - 1 = n /\ n \in 0 .. Len(told)
      BY <1>3, <1>4, <1>5, <2>2 DEF Passes
    <3>2. H[k] = Still(told, H[n], k)
      <4>1. H[k] = Still(told, H[k - 1], k)
        BY <1>3, <3>1 DEF HeldBy
      <4> QED BY <3>1, <4>1
    <3>3. H[n] \subseteq 1 .. k - 1
      <4>1. H[n] \subseteq 1 .. n
        BY <1>3, <3>1 DEF HeldBy
      <4> QED BY <3>1, <4>1
    <3>4. e[1] = "report" => IsPrefix(e[2].id, e[2].id)
      BY <2>2, <3>1 DEF Attentive, Fair
    <3>5. PICK S : S = H[n]
      OBVIOUS
    <3>6. Keeps(Hearing(slot, e), told, Still(told, S, k))
      BY <1>3, <1>4, <1>7, <2>2, <3>1, <3>3, <3>4, <3>5, HearingKept
    <3> QED BY <1>6, <3>2, <3>5, <3>6
  <2> QED BY <1>5, <2>1, <2>2 DEF Passes
<1>9. \E last : Reads(r.scan, pipe', told, k, last) /\ (running => last = Ground)
  <2>1. CASE pipe' = q
    BY <1>3, <1>5, <2>1
  <2>2. CASE pipe' = q \o Echoed(HelloReply)
    <3>1. \E last : Reads(r.scan, q \o Echoed(HelloReply), told, k, last) /\ (running => last = Ground)
      BY <1>3, <1>4, <1>5, ReadsEcho
    <3> QED BY <2>2, <3>1
  <2>3. CASE pipe' = q \o Echoed(QueryReply)
    <3>1. \E last : Reads(r.scan, q \o Echoed(QueryReply), told, k, last) /\ (running => last = Ground)
      BY <1>3, <1>4, <1>5, ReadsEcho
    <3> QED BY <2>3, <3>1
  <2> QED BY <1>1, <2>1, <2>2, <2>3
<1>10. PICK last : Reads(r.scan, pipe', told, k, last) /\ (running => last = Ground)
  BY <1>9
<1>11. Hearsay(scan', pipe', slot'.recs, told', running', H, k, last)
  BY <1>1, <1>3, <1>8, <1>10 DEF Hearsay
<1> QED BY <1>1, <1>11 DEF Attentive

\* Every step keeps what was said and what is held of it together.
LEMMA AttentiveStays == Inv /\ Attentive /\ [Next]_vars => Attentive'
<1>1. ASSUME Attentive, UNCHANGED vars PROVE Attentive'
  BY <1>1 DEF vars, Attentive
<1>2. ASSUME Attentive, Tick PROVE Attentive'
  BY <1>2 DEF Tick, Attentive
<1> QED BY <1>1, <1>2, WriteHeard, ExitHeard, FeedHeard, ClickHeard, EndHeard, RestartHeard DEF Next

(***************************************************************************)
(* Once everything written has been read, the records are the reports that *)
(* are still true, whatever legible sequences the program writes, wherever *)
(* reads cut them and whatever the pane echoes: none is lost, kept after   *)
(* it was replaced, cleared or put out by newer ones, or heard from a      *)
(* sequence that was malformed, abandoned or left over from an older run.  *)
(***************************************************************************)
THEOREM HeardAlways == Spec => []Heard
<1>1. Inv /\ Attentive => Heard
  <2> SUFFICES ASSUME Inv, Attentive, pipe = <<>> PROVE {x.rep : x \in slot.recs} = {told[i][2] : i \in Held}
    BY DEF Heard
  <2>1. PICK H, n, end : Hearsay(scan, pipe, slot.recs, told, running, H, n, end)
    BY DEF Attentive
  <2>2. IsSeq(told)
    BY DEF Inv
  <2>3. HeldBy(told, H) /\ n = Len(told) /\ Keeps(slot.recs, told, H[n])
    BY <2>1, <2>2, ReadsNone DEF Hearsay
  <2>4. Held = H[n]
    BY <2>2, <2>3, HeldLast
  <2>5. /\ \A x \in slot.recs : \E i \in Held : told[i][2] = x.rep
        /\ \A i \in Held : \E x \in slot.recs : told[i][2] = x.rep
    BY <2>3, <2>4 DEF Keeps
  <2> QED BY <2>5
<1> QED BY <1>1, AttentiveInit, AttentiveStays, Inductive, PTL DEF Spec
=============================================================================
