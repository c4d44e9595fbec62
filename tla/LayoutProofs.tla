---------------------------- MODULE LayoutProofs ----------------------------
(***************************************************************************)
(* Theorems about Layout, for any panes, splits and tabs.                  *)
(***************************************************************************)
EXTENDS Layout, FiniteSetTheorems, WellFoundedInduction, TLAPS

-----------------------------------------------------------------------------
(* Sequences.                                                              *)

\* The members of a sequence, by their places.
LEMMA Members ==
  ASSUME NEW S, NEW s \in Seq(S)
  PROVE  /\ ToSet(s) \subseteq S
         /\ \A e : e \in ToSet(s) <=> \E i \in 1..Len(s) : s[i] = e
         /\ \A i \in 1..Len(s) : s[i] \in ToSet(s)
         /\ \A e : Contains(s, e) <=> e \in ToSet(s)
         /\ IsInjective(s) <=> \A i, j \in 1..Len(s) : s[i] = s[j] => i = j
         /\ Len(s) \in Nat
         /\ (s = <<>>) <=> (Len(s) = 0)
  BY DEF ToSet, Contains, IsInjective

\* The first of some.
LEMMA HeadOK ==
  ASSUME NEW S, NEW s \in Seq(S), Len(s) >= 1
  PROVE  Head(s) \in ToSet(s)
<1>1. Head(s) = s[1] /\ 1 \in 1..Len(s)
  OBVIOUS
<1> QED BY <1>1, Members

\* Where a member is.
LEMMA IndexOK ==
  ASSUME NEW S, NEW s \in Seq(S), NEW e \in ToSet(s)
  PROVE  IndexOf(s, e) \in 1..Len(s) /\ s[IndexOf(s, e)] = e
<1>1. \E i \in DOMAIN s : s[i] = e
  BY DEF ToSet
<1>2. IndexOf(s, e) \in DOMAIN s /\ s[IndexOf(s, e)] = e
  BY <1>1 DEF IndexOf
<1> QED BY <1>2

\* One place less.
LEMMA RemoveOK ==
  ASSUME NEW S, NEW s \in Seq(S), NEW i \in 1..Len(s)
  PROVE  /\ RemoveAt(s, i) \in Seq(S) /\ Len(RemoveAt(s, i)) = Len(s) - 1
         /\ \A j \in 1..Len(s) - 1 : RemoveAt(s, i)[j] = IF j < i THEN s[j] ELSE s[j + 1]
<1> DEFINE u == SubSeq(s, 1, i - 1)
           v == SubSeq(s, i + 1, Len(s))
<1>1. /\ u \in Seq(S) /\ Len(u) = i - 1 /\ \A j \in 1..i - 1 : u[j] = s[j]
  OBVIOUS
<1>2. /\ v \in Seq(S) /\ Len(v) = Len(s) - i /\ \A j \in 1..Len(s) - i : v[j] = s[i + j]
  OBVIOUS
<1>3. RemoveAt(s, i) = u \o v
  BY DEF RemoveAt
<1> HIDE DEF u, v
<1>4. u \o v \in Seq(S) /\ Len(u \o v) = Len(s) - 1
  BY <1>1, <1>2
<1>5. \A j \in 1..i - 1 : (u \o v)[j] = s[j]
  BY <1>1, <1>2
<1>6. ASSUME NEW j \in i..Len(s) - 1 PROVE (u \o v)[j] = s[j + 1]
  <2>1. (u \o v)[j] = v[j - (i - 1)]
    BY <1>1, <1>2
  <2>2. j - (i - 1) \in 1..Len(s) - i /\ i + (j - (i - 1)) = j + 1
    OBVIOUS
  <2> QED BY <1>2, <2>1, <2>2
<1> QED BY <1>3, <1>4, <1>5, <1>6

\* A member less.
LEMMA WithoutOK ==
  ASSUME NEW S, NEW s \in Seq(S), NEW e
  PROVE  /\ Without(s, e) \in Seq(S)
         /\ e \notin ToSet(s) => Without(s, e) = s
         /\ e \in ToSet(s) => Len(Without(s, e)) = Len(s) - 1
         /\ IsInjective(s) => /\ IsInjective(Without(s, e))
                              /\ ToSet(Without(s, e)) = ToSet(s) \ {e}
<1>1. CASE e \notin ToSet(s)
  BY <1>1, Members DEF Without
<1>2. CASE e \in ToSet(s)
  <2> DEFINE i == IndexOf(s, e)
             r == RemoveAt(s, i)
  <2>1. Without(s, e) = r
    BY <1>2, Members DEF Without
  <2>2. i \in 1..Len(s) /\ s[i] = e
    BY <1>2, IndexOK
  <2> HIDE DEF i
  <2>3. /\ r \in Seq(S) /\ Len(r) = Len(s) - 1
        /\ \A j \in 1..Len(s) - 1 : r[j] = IF j < i THEN s[j] ELSE s[j + 1]
    BY <2>2, RemoveOK
  <2> HIDE DEF r
  <2>4. ASSUME IsInjective(s) PROVE IsInjective(r) /\ ToSet(r) = ToSet(s) \ {e}
    <3>1. \A j, k \in 1..Len(s) : s[j] = s[k] => j = k
      BY <2>4, Members
    <3>2. ASSUME NEW j \in 1..Len(r), NEW k \in 1..Len(r), r[j] = r[k] PROVE j = k
      BY <2>2, <2>3, <3>1, <3>2
    <3>3. ASSUME NEW x \in ToSet(r) PROVE x \in ToSet(s) \ {e}
      <4>1. PICK j \in 1..Len(r) : r[j] = x
        BY <2>3, Members
      <4>2. PICK k \in 1..Len(s) : k # i /\ s[k] = x
        BY <2>2, <2>3, <4>1
      <4> QED BY <2>2, <3>1, <4>2, Members
    <3>4. ASSUME NEW x \in ToSet(s), x # e PROVE x \in ToSet(r)
      <4>1. PICK k \in 1..Len(s) : s[k] = x /\ k # i
        BY <2>2, <3>4, Members
      <4>2. CASE k < i
        <5>1. k \in 1..Len(r) /\ r[k] = s[k]
          BY <2>2, <2>3, <4>1, <4>2
        <5> QED BY <2>3, <4>1, <5>1, Members
      <4>3. CASE k > i
        <5>1. k - 1 \in 1..Len(r) /\ r[k - 1] = s[k]
          BY <2>2, <2>3, <4>1, <4>3
        <5> QED BY <2>3, <4>1, <5>1, Members
      <4> QED BY <2>2, <4>1, <4>2, <4>3
    <3> QED BY <2>3, <3>2, <3>3, <3>4, Members
  <2> QED BY <1>2, <2>1, <2>3, <2>4
<1> QED BY <1>1, <1>2

\* One more, at a place.
LEMMA InsertOK ==
  ASSUME NEW S, NEW s \in Seq(S), NEW e \in S, NEW i \in 1..Len(s) + 1
  PROVE  /\ InsertAt(s, i, e) \in Seq(S) /\ Len(InsertAt(s, i, e)) = Len(s) + 1
         /\ ToSet(InsertAt(s, i, e)) = ToSet(s) \cup {e}
         /\ \A j \in 1..Len(s) + 1 :
              InsertAt(s, i, e)[j] = IF j < i THEN s[j] ELSE IF j = i THEN e ELSE s[j - 1]
         /\ IsInjective(s) /\ e \notin ToSet(s) => IsInjective(InsertAt(s, i, e))
<1> DEFINE u == SubSeq(s, 1, i - 1)
           v == SubSeq(s, i, Len(s))
           w == u \o <<e>>
           r == w \o v
<1>1. /\ u \in Seq(S) /\ Len(u) = i - 1 /\ \A j \in 1..i - 1 : u[j] = s[j]
  OBVIOUS
<1>2. /\ v \in Seq(S) /\ Len(v) = Len(s) + 1 - i /\ \A j \in 1..Len(s) + 1 - i : v[j] = s[i + j - 1]
  OBVIOUS
<1>3. InsertAt(s, i, e) = r
  BY DEF InsertAt
<1> HIDE DEF u, v
<1>4. /\ w \in Seq(S) /\ Len(w) = i
      /\ \A j \in 1..i : w[j] = IF j < i THEN s[j] ELSE e
  <2>1. <<e>> \in Seq(S) /\ Len(<<e>>) = 1 /\ <<e>>[1] = e
    OBVIOUS
  <2>2. w \in Seq(S) /\ Len(w) = i
    BY <1>1, <2>1
  <2>3. \A j \in 1..i - 1 : w[j] = s[j]
    BY <1>1
  <2>4. w[i] = e
    BY <1>1, <2>1
  <2> QED BY <2>2, <2>3, <2>4
<1> HIDE DEF w
<1>5. /\ r \in Seq(S) /\ Len(r) = Len(s) + 1
      /\ \A j \in 1..Len(s) + 1 : r[j] = IF j < i THEN s[j] ELSE IF j = i THEN e ELSE s[j - 1]
  <2>1. r \in Seq(S) /\ Len(r) = Len(s) + 1
    BY <1>2, <1>4
  <2>2. \A j \in 1..i : r[j] = w[j]
    BY <1>2, <1>4
  <2>3. ASSUME NEW j \in i + 1..Len(s) + 1 PROVE r[j] = s[j - 1]
    <3>1. r[j] = v[j - i]
      BY <1>2, <1>4
    <3>2. j - i \in 1..Len(s) + 1 - i /\ i + (j - i) - 1 = j - 1
      OBVIOUS
    <3> QED BY <1>2, <3>1, <3>2
  <2> QED BY <1>4, <2>1, <2>2, <2>3
<1> HIDE DEF r
<1>6. ASSUME NEW x \in ToSet(r) PROVE x \in ToSet(s) \cup {e}
  <2>1. PICK j \in 1..Len(s) + 1 : r[j] = x
    BY <1>5, Members
  <2>2. x = e \/ \E k \in 1..Len(s) : s[k] = x
    <3>1. CASE j < i
      BY <1>5, <2>1, <3>1
    <3>2. CASE j = i
      BY <1>5, <2>1, <3>2
    <3>3. CASE j > i
      <4>1. j - 1 \in 1..Len(s) /\ s[j - 1] = x
        BY <1>5, <2>1, <3>3
      <4> QED BY <4>1
    <3> QED BY <3>1, <3>2, <3>3
  <2> QED BY <2>2, Members
<1>7. ASSUME NEW x \in ToSet(s) \cup {e} PROVE x \in ToSet(r)
  <2>1. CASE x = e
    BY <1>5, <2>1, Members
  <2>2. CASE x \in ToSet(s)
    <3>1. PICK k \in 1..Len(s) : s[k] = x
      BY <2>2, Members
    <3>2. CASE k < i
      <4>1. k \in 1..Len(r) /\ r[k] = s[k]
        BY <1>5, <3>1, <3>2
      <4> QED BY <1>5, <3>1, <4>1, Members
    <3>3. CASE k >= i
      <4>1. k + 1 \in 1..Len(r) /\ r[k + 1] = s[k]
        BY <1>5, <3>1, <3>3
      <4> QED BY <1>5, <3>1, <4>1, Members
    <3> QED BY <3>1, <3>2, <3>3
  <2> QED BY <2>1, <2>2
<1>8. ASSUME IsInjective(s), e \notin ToSet(s) PROVE IsInjective(r)
  <2>1. \A j, k \in 1..Len(s) : s[j] = s[k] => j = k
    BY <1>8, Members
  <2>2. \A j \in 1..Len(s) : s[j] # e
    BY <1>8, Members
  <2> DEFINE Was(j) == IF j < i THEN j ELSE j - 1
  <2>3. ASSUME NEW j \in 1..Len(r), j # i PROVE Was(j) \in 1..Len(s) /\ r[j] = s[Was(j)]
    BY <1>5, <2>3
  <2>4. r[i] = e
    BY <1>5
  <2>5. ASSUME NEW j \in 1..Len(r), NEW k \in 1..Len(r), r[j] = r[k] PROVE j = k
    <3>1. CASE j = i \/ k = i
      BY <2>2, <2>3, <2>4, <2>5, <3>1
    <3>2. CASE j # i /\ k # i
      <4>1. Was(j) = Was(k)
        BY <2>1, <2>3, <2>5, <3>2
      <4> QED BY <1>5, <3>2, <4>1
    <3> QED BY <3>1, <3>2
  <2> QED BY <1>5, <2>5, Members
<1> QED BY <1>3, <1>5, <1>6, <1>7, <1>8

\* One for another.
LEMMA ReplaceOK ==
  ASSUME NEW S, NEW s \in Seq(S), NEW old, NEW new \in S
  PROVE  /\ ReplaceAll(s, old, new) \in Seq(S) /\ Len(ReplaceAll(s, old, new)) = Len(s)
         /\ old \notin ToSet(s) => ReplaceAll(s, old, new) = s
         /\ old \in ToSet(s) => ToSet(ReplaceAll(s, old, new)) = (ToSet(s) \ {old}) \cup {new}
         /\ IsInjective(s) /\ new \notin ToSet(s) => IsInjective(ReplaceAll(s, old, new))
<1> DEFINE r == ReplaceAll(s, old, new)
<1>1. /\ r \in Seq(S) /\ Len(r) = Len(s)
      /\ \A i \in 1..Len(s) : r[i] = IF s[i] = old THEN new ELSE s[i]
  <2>1. r = [i \in 1..Len(s) |-> IF s[i] = old THEN new ELSE s[i]]
    BY DEF ReplaceAll
  <2> HIDE DEF r
  <2>2. Len(s) \in Nat
    OBVIOUS
  <2> QED BY <2>1, <2>2
<1>2. ASSUME old \notin ToSet(s) PROVE r = s
  <2>1. \A i \in 1..Len(s) : r[i] = s[i]
    BY <1>1, <1>2, Members
  <2> HIDE DEF r
  <2> QED BY <1>1, <2>1
<1> HIDE DEF r
<1>3. ASSUME old \in ToSet(s) PROVE ToSet(r) = (ToSet(s) \ {old}) \cup {new}
  <2>1. ASSUME NEW x \in ToSet(r) PROVE x \in (ToSet(s) \ {old}) \cup {new}
    BY <1>1, Members
  <2>2. ASSUME NEW x \in (ToSet(s) \ {old}) \cup {new} PROVE x \in ToSet(r)
    <3>1. CASE x = new
      <4>1. PICK i \in 1..Len(s) : s[i] = old
        BY <1>3, Members
      <4> QED BY <1>1, <3>1, <4>1, Members
    <3>2. CASE x \in ToSet(s) \ {old}
      <4>1. PICK i \in 1..Len(s) : s[i] = x
        BY <3>2, Members
      <4> QED BY <1>1, <3>2, <4>1, Members
    <3> QED BY <2>2, <3>1, <3>2
  <2> QED BY <2>1, <2>2
<1>4. ASSUME IsInjective(s), new \notin ToSet(s) PROVE IsInjective(r)
  <2>1. \A i, j \in 1..Len(s) : s[i] = s[j] => i = j
    BY <1>4, Members
  <2>2. \A i \in 1..Len(s) : s[i] # new
    BY <1>4, Members
  <2>3. ASSUME NEW i \in 1..Len(r), NEW j \in 1..Len(r), r[i] = r[j] PROVE i = j
    BY <1>1, <2>1, <2>2, <2>3
  <2> QED BY <1>1, <2>3, Members
<1> QED BY <1>1, <1>2, <1>3, <1>4 DEF r

\* The other way round.
LEMMA ReverseOK ==
  ASSUME NEW S, NEW s \in Seq(S)
  PROVE  /\ Reverse(s) \in Seq(S) /\ Len(Reverse(s)) = Len(s)
         /\ ToSet(Reverse(s)) = ToSet(s)
         /\ IsInjective(s) => IsInjective(Reverse(s))
<1> DEFINE r == Reverse(s)
<1>1. /\ r \in Seq(S) /\ Len(r) = Len(s)
      /\ \A i \in 1..Len(s) : r[i] = s[Len(s) - i + 1]
  <2>1. r = [i \in 1..Len(s) |-> s[Len(s) - i + 1]]
    BY DEF Reverse
  <2>2. Len(s) \in Nat /\ \A i \in 1..Len(s) : Len(s) - i + 1 \in 1..Len(s)
    OBVIOUS
  <2> HIDE DEF r
  <2> QED BY <2>1, <2>2
<1> HIDE DEF r
<1>2. \A i \in 1..Len(s) : Len(s) - i + 1 \in 1..Len(s) /\ Len(s) - (Len(s) - i + 1) + 1 = i
  OBVIOUS
<1>3. \A x : x \in ToSet(r) <=> x \in ToSet(s)
  <2>1. ASSUME NEW x \in ToSet(r) PROVE x \in ToSet(s)
    BY <1>1, <1>2, <2>1, Members
  <2>2. ASSUME NEW x \in ToSet(s) PROVE x \in ToSet(r)
    <3>1. PICK i \in 1..Len(s) : s[i] = x
      BY <2>2, Members
    <3>2. r[Len(s) - i + 1] = x
      BY <1>1, <1>2, <3>1
    <3> QED BY <1>1, <1>2, <3>2, Members
  <2> QED BY <2>1, <2>2
<1>4. ASSUME IsInjective(s) PROVE IsInjective(r)
  <2>1. \A i, j \in 1..Len(s) : s[i] = s[j] => i = j
    BY <1>4, Members
  <2>2. ASSUME NEW i \in 1..Len(r), NEW j \in 1..Len(r), r[i] = r[j] PROVE i = j
    <3>1. Len(s) - i + 1 = Len(s) - j + 1
      BY <1>1, <1>2, <2>1, <2>2
    <3> QED BY <1>1, <3>1
  <2> QED BY <1>1, <2>2, Members
<1>5. ToSet(r) = ToSet(s)
  BY <1>3
<1> QED BY <1>1, <1>4, <1>5 DEF r

-----------------------------------------------------------------------------
(* Measures.  What would otherwise be an induction over a tree is the       *)
(* absence of a lowest, or of a highest, exception.                         *)

LEMMA Lowest ==
  ASSUME NEW S, S # {}, NEW m, \A x \in S : m[x] \in Nat
  PROVE  \E x \in S : \A y \in S : m[x] <= m[y]
<1> DEFINE T == {m[x] : x \in S}
<1>1. T \subseteq Nat /\ T # {}
  OBVIOUS
<1>2. PICK n \in T : \A k \in T : ~(<<k, n>> \in OpToRel(<, Nat))
  BY <1>1, WFMin, NatLessThanWellFounded
<1>3. PICK x \in S : m[x] = n
  OBVIOUS
<1>4. \A y \in S : ~(m[y] < m[x])
  <2> TAKE y \in S
  <2>1. m[y] \in T
    OBVIOUS
  <2> QED BY <1>1, <1>2, <1>3, <2>1 DEF OpToRel
<1> QED BY <1>4

LEMMA Highest ==
  ASSUME NEW S, S # {}, NEW m, NEW N \in Nat, \A x \in S : m[x] \in 0..N
  PROVE  \E x \in S : \A y \in S : m[y] <= m[x]
<1> DEFINE g == [x \in S |-> N - m[x]]
<1>1. \A x \in S : g[x] \in Nat /\ g[x] = N - m[x]
  OBVIOUS
<1> HIDE DEF g
<1>2. PICK x \in S : \A y \in S : g[x] <= g[y]
  BY <1>1, Lowest
<1> QED BY <1>1, <1>2

-----------------------------------------------------------------------------
(***************************************************************************)
(* The invariant.  Each node that is in a tree belongs to a tab and has a  *)
(* depth: `own' and `up' say which.  They are not in the program, which    *)
(* has only pointers; that they can be given is what makes the pointers a  *)
(* forest.  `loose' are the panes in hand: allocated, and in no tree.      *)
(***************************************************************************)
Fields == {"tabs", "cur", "root", "focus", "zoom", "live", "parent", "kids",
           "dir", "mini", "floats", "quit"}

IsRec(a) == a = [f \in Fields |-> a[f]]

Typed(a) ==
  /\ a.tabs \in Seq(Tab) /\ a.cur \in Nat /\ a.root \in [Tab -> Node \cup {Nil}]
  /\ a.focus \in [Tab -> Pane \cup {Nil}] /\ a.zoom \in [Tab -> Pane \cup {Nil}]
  /\ a.live \in SUBSET Node /\ a.parent \in [Node -> Split \cup {Nil}]
  /\ a.kids \in [Split -> Seq(Node)] /\ a.dir \in [Split -> Dirs]
  /\ a.mini \in SUBSET Pane /\ a.floats \in Seq(Pane) /\ a.quit \in BOOLEAN

Owned(a, own, loose) ==
  /\ own \in [Node -> Tab \cup {Nil}]
  /\ loose \subseteq a.live \cap Pane
  /\ \A n \in Node : own[n] # Nil <=> n \in a.live \ loose
  /\ \A n \in Node : own[n] # Nil => own[n] \in Tabs(a)

Depths(up) == up \in [Node -> Nat] /\ \E N \in Nat : \A n \in Node : up[n] <= N

\* What has no parent is a root, and what has one is its child, and deeper.
Upward(a, own, up) ==
  \A n \in Node :
    /\ a.parent[n] = Nil /\ own[n] # Nil => a.root[own[n]] = n
    /\ a.parent[n] # Nil => /\ own[n] # Nil /\ own[a.parent[n]] = own[n]
                            /\ up[a.parent[n]] < up[n]
                            /\ n \in ToSet(a.kids[a.parent[n]])

\* A split is worth its node, and knows its children.
Downward(a, own) ==
  \A s \in Split :
    /\ own[s] = Nil => a.kids[s] = <<>>
    /\ own[s] # Nil => /\ Len(a.kids[s]) >= 2 /\ IsInjective(a.kids[s])
                       /\ \A k \in ToSet(a.kids[s]) : a.parent[k] = s

\* A tab on the strip has a root and a focus of its own.
Homes(a, own) ==
  /\ IsInjective(a.tabs)
  /\ \A t \in Tabs(a) : /\ a.root[t] \in Node /\ own[a.root[t]] = t
                        /\ a.parent[a.root[t]] = Nil
                        /\ a.focus[t] \in Pane /\ own[a.focus[t]] = t
  /\ \A t \in Tab \ Tabs(a) : a.root[t] = Nil /\ a.focus[t] = Nil /\ a.zoom[t] = Nil
  /\ \A t \in Tab : a.zoom[t] # Nil /\ own[a.zoom[t]] # Nil => own[a.zoom[t]] = t

View(a) == IF a.tabs = <<>> THEN a.quit ELSE a.cur \in DOMAIN a.tabs

Sound(a, own, up, loose) ==
  /\ IsRec(a) /\ Typed(a) /\ Depths(up) /\ Owned(a, own, loose)
  /\ Upward(a, own, up) /\ Downward(a, own) /\ Homes(a, own) /\ View(a)

\* Sound, whoever belongs where.
Good(a) == \E own, up : Sound(a, own, up, {})

\* The part of it that knows no tabs.
Trees(a, own, up, loose) ==
  /\ IsRec(a) /\ Typed(a) /\ Depths(up) /\ Owned(a, own, loose)
  /\ Upward(a, own, up) /\ Downward(a, own)

\* A record with these fields is an app.
LEMMA AppsAre == \A a : a \in Apps <=> IsRec(a) /\ Typed(a)
  BY DEF Apps, IsRec, Typed, Fields

-----------------------------------------------------------------------------
(* Asking the tree. *)

\* The nodes of a tab are those that belong to it.
LEMMA NodesOK ==
  ASSUME NEW a, NEW own, NEW up, NEW loose, Sound(a, own, up, loose)
  PROVE  /\ \A t \in Tabs(a) : NodesOf(a)[a.root[t]] = {n \in Node : own[n] = t}
         /\ \A p \in Pane : NodesOf(a)[p] = {p}
         /\ \A s \in Split : NodesOf(a)[s] = {s} \cup UNION {NodesOf(a)[k] : k \in ToSet(a.kids[s])}
<1> DEFINE F(f, n) == {n} \cup IF n \in Pane THEN {}
                               ELSE UNION {f[k] : k \in ToSet(a.kids[n])}
           Closed(S) == \A s \in Split \cap S : ToSet(a.kids[s]) \subseteq S
           Below(n) == {m \in Node : \A S \in SUBSET Node : n \in S /\ Closed(S) => m \in S}
           d == [n \in Node |-> Below(n)]
           under == NodesOf(a)
<1>1. \A s \in Split : ToSet(a.kids[s]) \subseteq Node
  BY Members DEF Sound, Typed
<1>2. \A n \in Node :
        /\ n \in Below(n) /\ Closed(Below(n)) /\ Below(n) \subseteq Node
        /\ \A S \in SUBSET Node : n \in S /\ Closed(S) => Below(n) \subseteq S
  <2> TAKE n \in Node
  <2>1. Closed(Below(n))
    BY <1>1
  <2> QED BY <2>1
<1>12. \A n \in Node : d[n] = Below(n)
  OBVIOUS
<1> HIDE DEF Below, d
<1>3. ASSUME NEW n \in Node PROVE Below(n) = F(d, n)
  <2>1. CASE n \in Pane
    <3>1. Closed({n}) /\ n \notin Split
      BY <2>1, LayoutAssumption DEF LayoutAssumption
    <3>2. F(d, n) = {n}
      BY <2>1
    <3>3. Below(n) \subseteq {n} /\ n \in Below(n)
      BY <1>2, <3>1
    <3> QED BY <3>2, <3>3
  <2>2. CASE n \in Split
    <3> DEFINE U == UNION {d[k] : k \in ToSet(a.kids[n])}
    <3>1. n \notin Pane /\ \A k \in ToSet(a.kids[n]) : k \in Node /\ d[k] = Below(k)
      BY <1>1, <1>12, <2>2, LayoutAssumption DEF LayoutAssumption
    <3>2. F(d, n) = {n} \cup U
      BY <3>1
    <3>3. \A k \in ToSet(a.kids[n]) : Below(k) \subseteq U
      BY <3>1
    <3>4. \A x \in U : \E k \in ToSet(a.kids[n]) : x \in Below(k)
      BY <3>1
    <3> HIDE DEF U
    <3>5. \A k \in ToSet(a.kids[n]) : Below(k) \subseteq Below(n)
      <4> TAKE k \in ToSet(a.kids[n])
      <4>1. k \in Below(n)
        BY <1>2, <2>2
      <4> QED BY <1>2, <3>1, <4>1
    <3>6. Closed({n} \cup U)
      <4> SUFFICES ASSUME NEW s \in Split, s \in {n} \cup U, NEW k \in ToSet(a.kids[s])
                   PROVE  k \in {n} \cup U
        OBVIOUS
      <4>1. CASE s = n
        BY <1>2, <3>1, <3>3, <4>1
      <4>2. CASE s # n
        <5>1. PICK j \in ToSet(a.kids[n]) : s \in Below(j)
          BY <3>4, <4>2
        <5>2. k \in Below(j)
          BY <1>2, <3>1, <5>1
        <5> QED BY <3>3, <5>2
      <4> QED BY <4>1, <4>2
    <3>7. {n} \cup U \in SUBSET Node
      BY <1>2, <3>1, <3>4
    <3>8. Below(n) \subseteq {n} \cup U
      BY <1>2, <3>6, <3>7
    <3>9. {n} \cup U \subseteq Below(n)
      BY <1>2, <3>4, <3>5
    <3> QED BY <3>2, <3>8, <3>9
  <2> QED BY <2>1, <2>2 DEF Node
<1>4. d = [n \in Node |-> F(d, n)]
  BY <1>3 DEF d
<1>5. under = [n \in Node |-> F(under, n)]
  <2> DEFINE Is(f) == f = [n \in Node |-> F(f, n)]
  <2>1. under = CHOOSE f : Is(f)
    BY DEF NodesOf
  <2>2. \E f : Is(f)
    BY <1>4
  <2> HIDE DEF Is, under
  <2>3. Is(under)
    BY <2>1, <2>2
  <2> QED BY <2>3 DEF Is
<1>6. \A n \in Node : under[n] = F(under, n) /\ d[n] = F(d, n)
  BY <1>4, <1>5
<1>7. \A n \in Node : under[n] = d[n]
  <2> DEFINE Odd == {n \in Node : under[n] # d[n]}
  <2> SUFFICES ASSUME Odd # {} PROVE FALSE
    OBVIOUS
  <2>1. PICK N \in Nat : \A n \in Node : up[n] \in 0..N
    BY DEF Sound, Depths
  <2>2. PICK n \in Odd : \A m \in Odd : up[m] <= up[n]
    BY <2>1, Highest
  <2>3. n \in Split
    BY <1>6, <2>2 DEF Node
  <2>4. \A k \in ToSet(a.kids[n]) : under[k] = d[k]
    <3> TAKE k \in ToSet(a.kids[n])
    <3>1. own[n] # Nil
      BY <2>3, Members DEF Sound, Downward, Typed
    <3>2. k \in Node /\ a.parent[k] = n
      BY <1>1, <2>3, <3>1 DEF Sound, Downward
    <3>3. n # Nil /\ up[n] < up[k] /\ up[n] \in Nat /\ up[k] \in Nat
      BY <2>3, <3>2, LayoutAssumption DEF LayoutAssumption, Sound, Upward, Depths, Node
    <3> QED BY <2>2, <3>2, <3>3
  <2>5. UNION {under[k] : k \in ToSet(a.kids[n])} = UNION {d[k] : k \in ToSet(a.kids[n])}
    <3> DEFINE K == ToSet(a.kids[n])
    <3> HIDE DEF K, under, d
    <3> SUFFICES UNION {under[k] : k \in K} = UNION {d[k] : k \in K}
      BY DEF K
    <3>1. \A k \in K : under[k] = d[k]
      BY <2>4 DEF K
    <3>2. {under[k] : k \in K} = {d[k] : k \in K}
      BY <3>1
    <3> QED BY <3>2
  <2>6. F(under, n) = F(d, n)
    BY <2>5
  <2> QED BY <1>6, <2>2, <2>6
<1>8. ASSUME NEW t \in Tabs(a) PROVE Below(a.root[t]) = {n \in Node : own[n] = t}
  <2> DEFINE T == {n \in Node : own[n] = t}
             r == a.root[t]
  <2>1. r \in Node /\ r \in T /\ t # Nil /\ t \in Tab
    BY Members, LayoutAssumption DEF Sound, Homes, Typed, LayoutAssumption, Tabs
  <2>2. Closed(T)
    <3> SUFFICES ASSUME NEW s \in Split, own[s] = t, NEW k \in ToSet(a.kids[s]) PROVE k \in T
      OBVIOUS
    <3>1. k \in Node /\ a.parent[k] = s
      BY <1>1, <2>1 DEF Sound, Downward
    <3>2. s # Nil
      BY LayoutAssumption DEF LayoutAssumption, Node
    <3> QED BY <3>1, <3>2 DEF Sound, Upward
  <2>3. Below(r) \subseteq T
    <3>1. T \in SUBSET Node
      OBVIOUS
    <3> HIDE DEF T, Closed
    <3> QED BY <1>2, <2>1, <2>2, <3>1
  <2>4. T \subseteq Below(r)
    <3> DEFINE Out == T \ Below(r)
    <3> SUFFICES ASSUME Out # {} PROVE FALSE
      OBVIOUS
    <3>1. \A n \in Out : up[n] \in Nat
      BY DEF Sound, Depths
    <3>2. PICK n \in Out : \A m \in Out : up[n] <= up[m]
      BY <3>1, Lowest
    <3>3. a.parent[n] # Nil
      <4>1. n # r
        BY <1>2, <2>1
      <4> QED BY <2>1, <4>1 DEF Sound, Upward
    <3>4. /\ a.parent[n] \in Split /\ a.parent[n] \in T /\ n \in ToSet(a.kids[a.parent[n]])
          /\ up[a.parent[n]] < up[n] /\ up[a.parent[n]] \in Nat /\ up[n] \in Nat
      BY <3>3 DEF Sound, Upward, Typed, Depths, Node
    <3>5. a.parent[n] \in Below(r)
      BY <3>2, <3>4
    <3> QED BY <1>2, <2>1, <3>4, <3>5
  <2> QED BY <2>3, <2>4
<1>9. \A p \in Pane : under[p] = {p}
  BY <1>6 DEF Node
<1>13. \A s \in Split : under[s] = {s} \cup UNION {under[k] : k \in ToSet(a.kids[s])}
  <2> HIDE DEF under
  <2>1. \A s \in Split : s \in Node /\ s \notin Pane
    BY LayoutAssumption DEF LayoutAssumption, Node
  <2> QED BY <1>6, <2>1
<1>10. \A t \in Tabs(a) : a.root[t] \in Node
  BY DEF Sound, Homes
<1> HIDE DEF under
<1>11. \A t \in Tabs(a) : under[a.root[t]] = {n \in Node : own[n] = t}
  BY <1>7, <1>8, <1>10, <1>12
<1> QED BY <1>9, <1>11, <1>13 DEF under

\* Its leaves are the panes among them.
LEMMA LeavesOK ==
  ASSUME NEW a, NEW own, NEW up, NEW loose, Sound(a, own, up, loose)
  PROVE  \A t \in Tabs(a) : t # Nil /\ t \in Tab /\ Leaves(a, t) = {p \in Pane : own[p] = t}
<1> TAKE t \in Tabs(a)
<1>1. t \in Tab /\ t # Nil
  BY LayoutAssumption, Members DEF Sound, Typed, LayoutAssumption, Tabs
<1>2. a.root[t] # Nil
  BY LayoutAssumption DEF Sound, Homes, LayoutAssumption
<1> QED BY <1>1, <1>2, NodesOK DEF Leaves, Node

\* A node's tab is the one it belongs to.
LEMMA TabOK ==
  ASSUME NEW a, NEW own, NEW up, NEW loose, Sound(a, own, up, loose)
  PROVE  \A n \in Node : own[n] # Nil => TabOf(a, n) = own[n]
<1> DEFINE F(f, m) == IF a.parent[m] = Nil THEN m ELSE f[a.parent[m]]
           Is(f) == f = [m \in Node |-> F(f, m)]
           w == [m \in Node |-> IF own[m] # Nil THEN a.root[own[m]] ELSE m]
           top == CHOOSE f : Is(f)
<1>1. \A m \in Node : a.parent[m] # Nil => a.parent[m] \in Node
  BY DEF Sound, Typed, Node
<1>2. \A m \in Node : w[m] = F(w, m)
  BY <1>1 DEF Sound, Upward
<1>3. Is(w)
  BY <1>2
<1>4. \A m \in Node : top[m] = F(top, m)
  <2> HIDE DEF Is
  <2>1. Is(top)
    BY <1>3
  <2> HIDE DEF top
  <2> QED BY <2>1 DEF Is
<1> HIDE DEF w, top, Is
<1>5. \A m \in Node : top[m] = w[m]
  <2> DEFINE Odd == {m \in Node : top[m] # w[m]}
  <2> SUFFICES ASSUME Odd # {} PROVE FALSE
    OBVIOUS
  <2>1. \A m \in Odd : up[m] \in Nat
    BY DEF Sound, Depths
  <2>2. PICK m \in Odd : \A n \in Odd : up[m] <= up[n]
    BY <2>1, Lowest
  <2>3. CASE a.parent[m] = Nil
    BY <1>2, <1>4, <2>2, <2>3
  <2>4. CASE a.parent[m] # Nil
    <3>1. a.parent[m] \in Node /\ up[a.parent[m]] < up[m] /\ up[a.parent[m]] \in Nat /\ up[m] \in Nat
      BY <1>1, <2>2, <2>4 DEF Sound, Upward, Depths
    <3>2. a.parent[m] \notin Odd
      BY <2>2, <3>1
    <3> QED BY <1>2, <1>4, <2>2, <2>4, <3>1, <3>2
  <2> QED BY <2>3, <2>4
<1>6. ASSUME NEW n \in Node, own[n] # Nil PROVE TabOf(a, n) = own[n]
  <2> DEFINE holds == {t \in Tabs(a) : a.root[t] = top[n]}
  <2>1. top[n] = a.root[own[n]] /\ own[n] \in Tabs(a)
    BY <1>5, <1>6 DEF w, Sound, Owned
  <2>2. holds = {own[n]}
    BY <2>1 DEF Sound, Homes
  <2>3. TabOf(a, n) = IF holds = {} THEN Nil ELSE CHOOSE t \in holds : TRUE
    BY DEF TabOf, top, Is
  <2> QED BY <2>2, <2>3
<1> QED BY <1>6

\* A split's children are nodes of its tab, and deeper.
LEMMA TreeKids ==
  ASSUME NEW a, NEW own, NEW up, NEW loose, Trees(a, own, up, loose),
         NEW s \in Split, NEW k \in ToSet(a.kids[s])
  PROVE  /\ own[s] # Nil /\ k \in Node /\ own[k] = own[s] /\ a.parent[k] = s
         /\ s \in Node /\ up[s] \in Nat /\ up[k] \in Nat /\ up[s] < up[k]
<1>1. own[s] # Nil
  BY Members DEF Trees, Downward, Typed
<1>2. k \in Node /\ a.parent[k] = s
  BY <1>1, Members DEF Trees, Downward, Typed
<1>3. s # Nil /\ s \in Node
  BY LayoutAssumption DEF LayoutAssumption, Node
<1> QED BY <1>1, <1>2, <1>3 DEF Trees, Upward, Depths

LEMMA KidsOK ==
  ASSUME NEW a, NEW own, NEW up, NEW loose, Sound(a, own, up, loose),
         NEW s \in Split, NEW k \in ToSet(a.kids[s])
  PROVE  /\ own[s] # Nil /\ k \in Node /\ own[k] = own[s] /\ a.parent[k] = s
         /\ s \in Node /\ up[s] \in Nat /\ up[k] \in Nat /\ up[s] < up[k]
  BY TreeKids DEF Sound, Trees

\* The first leaf under a node is a pane of the node's tab.
LEMMA FirstOK ==
  ASSUME NEW a, NEW own, NEW up, NEW loose, Trees(a, own, up, loose),
         NEW n \in Node, own[n] # Nil
  PROVE  FirstLeaf(a, n) \in Pane /\ own[FirstLeaf(a, n)] = own[n]
<1> DEFINE F(f, m) == IF m \in Pane THEN m ELSE f[Head(a.kids[m])]
           Is(f) == f = [m \in a.live |-> F(f, m)]
           Closed(S) == \A s \in Split \cap S : Head(a.kids[s]) \in S
           Below(m) == {k \in a.live : \A S \in SUBSET a.live : m \in S /\ Closed(S) => k \in S}
           Some(T) == CHOOSE p : p \in T
           w == [m \in a.live |-> Some(Pane \cap Below(m))]
           first == CHOOSE f : Is(f)
<1>1. \A s \in Split \cap a.live : Head(a.kids[s]) \in a.live /\ Head(a.kids[s]) \in ToSet(a.kids[s])
  <2> TAKE s \in Split \cap a.live
  <2>1. own[s] # Nil /\ s \in Node
    BY LayoutAssumption DEF LayoutAssumption, Trees, Owned, Typed
  <2>2. a.kids[s] \in Seq(Node) /\ Len(a.kids[s]) >= 2
    BY <2>1 DEF Trees, Downward, Typed
  <2>3. Head(a.kids[s]) \in ToSet(a.kids[s])
    BY <2>2, Members
  <2>4. own[Head(a.kids[s])] # Nil /\ Head(a.kids[s]) \in Node
    BY <2>1, <2>3, TreeKids
  <2> QED BY <2>3, <2>4 DEF Trees, Owned
<1>2. \A m \in a.live :
        /\ m \in Below(m) /\ Closed(Below(m)) /\ Below(m) \in SUBSET a.live
        /\ \A S \in SUBSET a.live : m \in S /\ Closed(S) => Below(m) \subseteq S
  <2> TAKE m \in a.live
  <2>1. Closed(Below(m))
    BY <1>1
  <2> QED BY <2>1
<1> HIDE DEF Below
<1>3. ASSUME NEW m \in a.live PROVE w[m] = F(w, m)
  <2>1. CASE m \in Pane
    <3>1. {m} \in SUBSET a.live /\ Closed({m})
      BY <2>1, LayoutAssumption DEF LayoutAssumption
    <3>2. Pane \cap Below(m) = {m}
      <4> HIDE DEF Closed
      <4> QED BY <1>2, <2>1, <3>1
    <3>3. w[m] = m
      BY <3>2
    <3> QED BY <2>1, <3>3
  <2>2. CASE m \in Split
    <3> DEFINE h == Head(a.kids[m])
    <3>1. h \in a.live /\ m \notin Pane
      BY <1>1, <2>2, LayoutAssumption DEF LayoutAssumption
    <3>2. Below(h) \subseteq Below(m)
      BY <1>2, <2>2, <3>1
    <3>3. Below(m) \subseteq {m} \cup Below(h)
      <4>1. {m} \cup Below(h) \in SUBSET a.live
        BY <1>2, <3>1
      <4>2. Closed({m} \cup Below(h))
        BY <1>2, <3>1
      <4> HIDE DEF Closed, h
      <4> QED BY <1>2, <4>1, <4>2
    <3>4. Pane \cap Below(m) = Pane \cap Below(h)
      BY <3>1, <3>2, <3>3
    <3> HIDE DEF h
    <3>5. w[m] = w[h]
      <4> HIDE DEF Some
      <4> QED BY <3>1, <3>4
    <3> HIDE DEF w
    <3> QED BY <3>1, <3>5 DEF h
  <2> QED BY <2>1, <2>2 DEF Trees, Typed, Node
<1>4. Is(w)
  BY <1>3
<1>5. \A m \in a.live : first[m] = F(first, m)
  <2> HIDE DEF Is
  <2>1. Is(first)
    BY <1>4
  <2> HIDE DEF first
  <2> QED BY <2>1 DEF Is
<1> HIDE DEF w, first, Is
<1>6. \A m \in Node : own[m] # Nil => first[m] \in Pane /\ own[first[m]] = own[m]
  <2> DEFINE Odd == {m \in Node : own[m] # Nil /\ ~(first[m] \in Pane /\ own[first[m]] = own[m])}
  <2> SUFFICES ASSUME Odd # {} PROVE FALSE
    OBVIOUS
  <2>1. PICK N \in Nat : \A m \in Node : up[m] \in 0..N
    BY DEF Trees, Depths
  <2>2. PICK m \in Odd : \A k \in Odd : up[k] <= up[m]
    BY <2>1, Highest
  <2>3. m \in a.live /\ m \in Node /\ own[m] # Nil
    BY <2>2 DEF Trees, Owned
  <2>4. m \in Split
    BY <1>5, <2>2, <2>3 DEF Node
  <2> DEFINE h == Head(a.kids[m])
  <2>5. h \in ToSet(a.kids[m])
    BY <1>1, <2>3, <2>4
  <2>6. h \in Node /\ own[h] = own[m] /\ up[m] < up[h] /\ up[m] \in Nat /\ up[h] \in Nat
    BY <2>4, <2>5, TreeKids
  <2>7. h \notin Odd
    BY <2>2, <2>6
  <2>8. first[m] = first[h]
    BY <1>5, <2>3, <2>4, LayoutAssumption DEF LayoutAssumption
  <2> HIDE DEF h
  <2> QED BY <2>2, <2>3, <2>6, <2>7, <2>8
<1>7. FirstLeaf(a, n) = first[n]
  BY DEF FirstLeaf, first, Is
<1> QED BY <1>6, <1>7

-----------------------------------------------------------------------------
(* Walks along a sequence. *)

\* What holds of the first number, and of the next if of the one before, holds
\* of every one.
LEMMA Onwards ==
  ASSUME NEW S \in SUBSET Nat, 0 \in S, \A n \in Nat : n \in S => n + 1 \in S
  PROVE  S = Nat
<1> DEFINE Odd == Nat \ S
           m == [n \in Nat |-> n]
<1> SUFFICES ASSUME Odd # {} PROVE FALSE
  OBVIOUS
<1>1. PICK n \in Odd : \A k \in Odd : m[n] <= m[k]
  <2> HIDE DEF Odd
  <2>1. \A k \in Odd : m[k] \in Nat
    BY DEF Odd
  <2> HIDE DEF m
  <2> QED BY <2>1, Lowest
<1>2. n # 0 /\ n - 1 \in Nat /\ n = (n - 1) + 1
  OBVIOUS
<1> QED BY <1>1, <1>2

\* What is kept of a sequence is a sequence.
LEMMA KeptOK ==
  ASSUME NEW T, NEW s \in Seq(T), NEW S
  PROVE  Kept(s, S) \in Seq(T)
<1> DEFINE F(f, i) == IF i = 0 THEN <<>>
                      ELSE IF s[i] \in S THEN Append(f[i - 1], s[i]) ELSE f[i - 1]
           Is(f, n) == f = [i \in 0..n |-> F(f, i)]
           kept == CHOOSE f : Is(f, Len(s))
           Reached(n) == \E f : Is(f, n) /\ f[n] \in Seq(T)
           All == {n \in Nat : n <= Len(s) => Reached(n)}
<1>1. 0 \in All
  <2> DEFINE f == [i \in 0..0 |-> <<>>]
  <2>1. f = [i \in 0..0 |-> F(f, i)] /\ f[0] \in Seq(T)
    OBVIOUS
  <2> QED BY <2>1
<1> HIDE DEF Reached
<1>2. ASSUME NEW n \in Nat, n \in All PROVE n + 1 \in All
  <2> SUFFICES ASSUME n + 1 <= Len(s) PROVE Reached(n + 1)
    OBVIOUS
  <2>1. PICK f : Is(f, n) /\ f[n] \in Seq(T)
    BY <1>2 DEF Reached
  <2> DEFINE e == F(f, n + 1)
             g == [i \in 0..n + 1 |-> IF i = n + 1 THEN e ELSE f[i]]
  <2>2. \A i \in 0..n : f[i] = F(f, i)
    BY <2>1
  <2>3. e \in Seq(T)
    BY <2>1
  <2>4. (\A i \in 0..n : g[i] = f[i]) /\ g[n + 1] = e
    <3> HIDE DEF e
    <3> QED OBVIOUS
  <2>5. g[n + 1] = e
    BY <2>4
  <2> HIDE DEF Is
  <2>6. \A i \in 0..n + 1 : g[i] = F(g, i)
    <3> HIDE DEF g
    <3> TAKE i \in 0..n + 1
    <3>1. CASE i = n + 1
      <4>1. n \in 0..n /\ i - 1 = n /\ g[i - 1] = f[n] /\ f[(n + 1) - 1] = f[n]
        BY <2>4, <3>1
      <4> QED BY <2>5, <3>1, <4>1
    <3>2. CASE i \in 1..n
      <4>1. i - 1 \in 0..n
        BY <3>2
      <4> QED BY <2>2, <2>4, <3>2, <4>1
    <3>3. CASE i = 0
      BY <2>2, <2>4, <3>3
    <3> QED BY <3>1, <3>2, <3>3
  <2>7. g = [i \in 0..n + 1 |-> F(g, i)]
    BY <2>6
  <2> QED BY <2>3, <2>5, <2>7 DEF Is, Reached
<1> HIDE DEF Is
<1>3. All = Nat
  <2>1. All \in SUBSET Nat
    OBVIOUS
  <2> HIDE DEF All
  <2> QED BY <1>1, <1>2, <2>1, Onwards
<1>4. PICK h : Is(h, Len(s)) /\ h[Len(s)] \in Seq(T)
  <2>1. Len(s) \in Nat
    OBVIOUS
  <2>2. Len(s) \in All
    BY <1>3, <2>1
  <2> QED BY <2>1, <2>2 DEF Reached
<1>5. Is(kept, Len(s))
  BY <1>4
<1>6. Kept(s, S) = kept[Len(s)]
  BY DEF Kept, Is
<1> HIDE DEF kept
<1>7. \A i \in 0..Len(s) : h[i] = F(h, i) /\ kept[i] = F(kept, i)
  BY <1>4, <1>5 DEF Is
<1>8. kept[Len(s)] = h[Len(s)]
  <2> DEFINE Same == {n \in Nat : n <= Len(s) => kept[n] = h[n]}
  <2>1. 0 \in Same
    BY <1>7
  <2>2. ASSUME NEW n \in Nat, n \in Same PROVE n + 1 \in Same
    <3> SUFFICES ASSUME n + 1 <= Len(s) PROVE kept[n + 1] = h[n + 1]
      OBVIOUS
    <3>1. n + 1 \in 0..Len(s) /\ n + 1 # 0 /\ (n + 1) - 1 = n /\ kept[n] = h[n]
      BY <2>2
    <3> QED BY <1>7, <3>1
  <2>3. Same = Nat
    <3>1. Same \in SUBSET Nat
      OBVIOUS
    <3> HIDE DEF Same
    <3> QED BY <2>1, <2>2, <3>1, Onwards
  <2> QED BY <2>3
<1> QED BY <1>4, <1>6, <1>8

\* Two sequences end to end.
LEMMA JoinOK ==
  ASSUME NEW T, NEW s \in Seq(T), NEW u \in Seq(T)
  PROVE  s \o u \in Seq(T) /\ ToSet(s \o u) = ToSet(s) \cup ToSet(u)
<1>1. s \o u \in Seq(T) /\ Len(s \o u) = Len(s) + Len(u)
  OBVIOUS
<1>2. \A i \in 1..Len(s) : (s \o u)[i] = s[i]
  OBVIOUS
<1>3. \A i \in 1..Len(u) : (s \o u)[Len(s) + i] = u[i]
  <2> TAKE i \in 1..Len(u)
  <2>1. Len(s) + i \in 1..Len(s) + Len(u) /\ Len(s) + i > Len(s) /\ (Len(s) + i) - Len(s) = i
    OBVIOUS
  <2> QED BY <2>1
<1> DEFINE c == s \o u
<1> HIDE DEF c
<1>4. ASSUME NEW x \in ToSet(c) PROVE x \in ToSet(s) \cup ToSet(u)
  <2>1. PICK j \in 1..Len(c) : c[j] = x
    BY <1>1, Members DEF c
  <2>2. CASE j <= Len(s)
    BY <1>2, <2>1, <2>2, Members DEF c
  <2>3. CASE j > Len(s)
    <3>1. j - Len(s) \in 1..Len(u) /\ Len(s) + (j - Len(s)) = j
      BY <1>1, <2>1, <2>3 DEF c
    <3>2. u[j - Len(s)] = x
      BY <1>3, <2>1, <3>1 DEF c
    <3> QED BY <3>1, <3>2, Members
  <2> QED BY <2>1, <2>2, <2>3
<1>5. ASSUME NEW x \in ToSet(s) PROVE x \in ToSet(c)
  <2>1. PICK j \in 1..Len(s) : s[j] = x
    BY Members
  <2>2. j \in 1..Len(c) /\ c[j] = x
    BY <1>1, <1>2, <2>1 DEF c
  <2> QED BY <1>1, <2>2, Members DEF c
<1>6. ASSUME NEW x \in ToSet(u) PROVE x \in ToSet(c)
  <2>1. PICK j \in 1..Len(u) : u[j] = x
    BY Members
  <2>2. Len(s) + j \in 1..Len(c) /\ c[Len(s) + j] = x
    BY <1>1, <1>3, <2>1 DEF c
  <2> QED BY <1>1, <2>2, Members DEF c
<1> QED BY <1>1, <1>4, <1>5, <1>6 DEF c

\* Sequences end to end have the members of each.
LEMMA FlattenOK ==
  ASSUME NEW T, NEW ss \in Seq(Seq(T))
  PROVE  /\ FlattenSeq(ss) \in Seq(T)
         /\ ToSet(FlattenSeq(ss)) = UNION {ToSet(ss[i]) : i \in 1..Len(ss)}
<1> DEFINE F(f, i) == IF i = 1 THEN ss[i] ELSE f[i - 1] \o ss[i]
           Is(f, n) == f = [i \in 1..n |-> F(f, i)]
           flat == CHOOSE f : Is(f, Len(ss))
           U(n) == UNION {ToSet(ss[i]) : i \in 1..n}
           Reached(n) == \E f : Is(f, n)
           All == {n \in Nat : n <= Len(ss) => Reached(n)}
<1>1. CASE Len(ss) = 0
  <2>1. ss = <<>> /\ FlattenSeq(ss) = ss
    BY <1>1 DEF FlattenSeq
  <2>2. <<>> \in Seq(T) /\ ToSet(<<>>) = {}
    BY DEF ToSet
  <2>3. 1..Len(ss) = {}
    BY <1>1
  <2>4. UNION {ToSet(ss[i]) : i \in 1..Len(ss)} = {}
    BY <2>3
  <2> QED BY <2>1, <2>2, <2>4
<1>2. CASE Len(ss) # 0
  <2>1. Reached(0)
    <3> DEFINE f == [i \in 1..0 |-> ss[i]]
    <3>1. f = [i \in 1..0 |-> F(f, i)]
      OBVIOUS
    <3> QED BY <3>1
  <2> HIDE DEF Reached
  <2>2. ASSUME NEW n \in Nat, n \in All PROVE n + 1 \in All
    <3> SUFFICES ASSUME n + 1 <= Len(ss) PROVE Reached(n + 1)
      OBVIOUS
    <3>0. Reached(n)
      BY <2>2
    <3>1. PICK f : Is(f, n)
      <4> HIDE DEF Is
      <4> QED BY <3>0 DEF Reached
    <3> DEFINE e == F(f, n + 1)
               g == [i \in 1..n + 1 |-> IF i = n + 1 THEN e ELSE f[i]]
    <3>2. \A i \in 1..n : f[i] = F(f, i)
      BY <3>1
    <3>3. (\A i \in 1..n : g[i] = f[i]) /\ g[n + 1] = e
      <4> HIDE DEF e
      <4> QED OBVIOUS
    <3> HIDE DEF Is
    <3>4. \A i \in 1..n + 1 : g[i] = F(g, i)
      <4> HIDE DEF g
      <4> TAKE i \in 1..n + 1
      <4>1. CASE i = n + 1 /\ n # 0
        <5>1. n \in 1..n /\ i - 1 = n /\ g[i - 1] = f[n] /\ f[(n + 1) - 1] = f[n]
          BY <3>3, <4>1
        <5> QED BY <3>3, <4>1, <5>1
      <4>2. CASE i = 1
        <5>1. CASE n = 0
          BY <3>3, <4>2, <5>1
        <5>2. CASE n # 0
          <6>1. 1 \in 1..n
            BY <5>2
          <6> QED BY <3>2, <3>3, <4>2, <6>1
        <5> QED BY <5>1, <5>2
      <4>3. CASE i \in 2..n
        <5>1. i \in 1..n /\ i - 1 \in 1..n
          BY <4>3
        <5> QED BY <3>2, <3>3, <4>3, <5>1
      <4> QED BY <4>1, <4>2, <4>3
    <3>5. g = [i \in 1..n + 1 |-> F(g, i)]
      BY <3>4
    <3> QED BY <3>5 DEF Is, Reached
  <2> HIDE DEF Is
  <2>3. All = Nat
    <3>1. All \in SUBSET Nat /\ 0 \in All
      BY <2>1
    <3> HIDE DEF All
    <3> QED BY <2>2, <3>1, Onwards
  <2>4. Len(ss) \in Nat /\ Len(ss) \in 1..Len(ss)
    BY <1>2
  <2>5. Is(flat, Len(ss))
    <3>1. Reached(Len(ss))
      <4>1. Len(ss) \in All
        BY <2>3, <2>4
      <4> QED BY <2>4, <4>1
    <3> QED BY <3>1 DEF Reached
  <2>6. FlattenSeq(ss) = flat[Len(ss)]
    BY <1>2 DEF FlattenSeq, Is
  <2> HIDE DEF flat
  <2>7. \A i \in 1..Len(ss) : flat[i] = F(flat, i)
    BY <2>5 DEF Is
  <2>8. \A i \in 1..Len(ss) : ss[i] \in Seq(T)
    OBVIOUS
  <2> DEFINE Right(n) == flat[n] \in Seq(T) /\ ToSet(flat[n]) = U(n)
             Far == {n \in Nat : n + 1 <= Len(ss) => Right(n + 1)}
  <2>9. 0 \in Far
    <3>1. flat[1] = ss[1] /\ 1 \in 1..Len(ss)
      BY <2>4, <2>7
    <3>2. U(1) = ToSet(ss[1])
      OBVIOUS
    <3> HIDE DEF U
    <3> QED BY <2>8, <3>1, <3>2
  <2>10. ASSUME NEW n \in Nat, n \in Far PROVE n + 1 \in Far
    <3> HIDE DEF Right
    <3> SUFFICES ASSUME (n + 1) + 1 <= Len(ss) PROVE Right((n + 1) + 1)
      OBVIOUS
    <3> DEFINE m == (n + 1) + 1
    <3>1. m \in 1..Len(ss) /\ m # 1 /\ m - 1 = n + 1 /\ n + 1 <= Len(ss)
      OBVIOUS
    <3>2. flat[m] = flat[n + 1] \o ss[m]
      BY <2>7, <3>1
    <3>3. Right(n + 1)
      BY <2>10, <3>1
    <3>4. U(m) = U(n + 1) \cup ToSet(ss[m])
      <4>1. 1..m = (1..n + 1) \cup {m}
        BY <3>1
      <4> HIDE DEF m
      <4> QED BY <4>1
    <3> HIDE DEF m, U
    <3>5. flat[n + 1] \in Seq(T) /\ ToSet(flat[n + 1]) = U(n + 1) /\ ss[m] \in Seq(T)
      BY <2>8, <3>1, <3>3 DEF Right
    <3>6. flat[m] \in Seq(T) /\ ToSet(flat[m]) = U(m)
      BY <3>2, <3>4, <3>5, JoinOK
    <3> QED BY <3>6 DEF m, Right
  <2>11. Far = Nat
    <3>1. Far \in SUBSET Nat
      OBVIOUS
    <3> HIDE DEF Far
    <3> QED BY <2>9, <2>10, <3>1, Onwards
  <2>12. Right(Len(ss))
    <3>1. Len(ss) - 1 \in Nat /\ (Len(ss) - 1) + 1 = Len(ss)
      BY <2>4
    <3>2. Len(ss) - 1 \in Far
      <4> HIDE DEF Far
      <4> QED BY <2>11, <3>1
    <3> HIDE DEF Right
    <3> QED BY <2>4, <3>1, <3>2
  <2> QED BY <2>6, <2>12
<1> QED BY <1>1, <1>2

\* The first place of some, and the last.
LEMMA FirstPlace ==
  ASSUME NEW S \in SUBSET Nat, S # {}
  PROVE  Min(S) \in S
<1> DEFINE m == [n \in Nat |-> n]
<1>1. \A n \in S : m[n] = n /\ m[n] \in Nat
  OBVIOUS
<1> HIDE DEF m
<1>2. PICK n \in S : \A k \in S : m[n] <= m[k]
  BY <1>1, Lowest
<1>3. \E x \in S : \A y \in S : x =< y
  BY <1>1, <1>2
<1> QED BY <1>3 DEF Min

LEMMA LastPlace ==
  ASSUME NEW N \in Nat, NEW S \in SUBSET (1..N), S # {}
  PROVE  Max(S) \in S
<1> DEFINE m == [n \in Nat |-> n]
<1>1. \A n \in S : m[n] = n /\ m[n] \in 0..N
  OBVIOUS
<1> HIDE DEF m
<1>2. PICK n \in S : \A k \in S : m[k] <= m[n]
  BY <1>1, Highest
<1>3. \E x \in S : \A y \in S : x >= y
  BY <1>1, <1>2
<1> QED BY <1>3 DEF Max

\* The leaves of a tab, in order, are its leaves.
LEMMA LeafSeqOK ==
  ASSUME NEW a, NEW own, NEW up, NEW loose, Sound(a, own, up, loose), NEW t \in Tabs(a)
  PROVE  LeafSeq(a, t) \in Seq(Pane) /\ ToSet(LeafSeq(a, t)) = Leaves(a, t)
<1> DEFINE Each(f, n) == [i \in DOMAIN a.kids[n] |-> f[a.kids[n][i]]]
           F(f, n) == IF n \in Pane THEN <<n>> ELSE FlattenSeq(Each(f, n))
           Is(f) == f = [n \in Node |-> F(f, n)]
           row == CHOOSE f : Is(f)
<1>1. PICK N \in Nat : \A n \in Node : up[n] \in 0..N
  BY DEF Sound, Depths
<1>2. \A n \in Node : n \notin Pane => n \in Split
  BY DEF Node
<1>3. \A s \in Split : /\ a.kids[s] \in Seq(Node) /\ DOMAIN a.kids[s] = 1..Len(a.kids[s])
                       /\ \A i \in 1..Len(a.kids[s]) :
                            LET k == a.kids[s][i]
                            IN k \in Node /\ k \in ToSet(a.kids[s]) /\ up[s] < up[k]
  <2> TAKE s \in Split
  <2>1. a.kids[s] \in Seq(Node)
    BY DEF Sound, Typed
  <2>2. \A i \in 1..Len(a.kids[s]) : a.kids[s][i] \in ToSet(a.kids[s])
    BY <2>1, Members
  <2> QED BY <2>1, <2>2, KidsOK
<1>4. ASSUME NEW f, NEW s \in Split, \A k \in ToSet(a.kids[s]) : f[k] \in Seq(Pane)
      PROVE  /\ FlattenSeq(Each(f, s)) \in Seq(Pane)
             /\ ToSet(FlattenSeq(Each(f, s))) = UNION {ToSet(f[k]) : k \in ToSet(a.kids[s])}
  <2> DEFINE ss == Each(f, s)
  <2>1. ss \in Seq(Seq(Pane)) /\ Len(ss) = Len(a.kids[s])
        /\ \A i \in 1..Len(ss) : ss[i] = f[a.kids[s][i]]
    BY <1>3, <1>4
  <2> HIDE DEF ss
  <2>2. UNION {ToSet(ss[i]) : i \in 1..Len(ss)} = UNION {ToSet(f[k]) : k \in ToSet(a.kids[s])}
    <3> DEFINE u == a.kids[s]
    <3>1. u \in Seq(Node)
      BY <1>3
    <3>2. Len(ss) = Len(u) /\ \A i \in 1..Len(u) : ss[i] = f[u[i]]
      BY <2>1
    <3> HIDE DEF u
    <3>3. \A k : k \in ToSet(u) <=> \E i \in 1..Len(u) : u[i] = k
      BY <3>1, Members
    <3> DEFINE X == UNION {ToSet(ss[i]) : i \in 1..Len(ss)}
               Y == UNION {ToSet(f[k]) : k \in ToSet(u)}
    <3>4. ASSUME NEW x \in X PROVE x \in Y
      <4>1. PICK i \in 1..Len(u) : x \in ToSet(ss[i])
        BY <3>2
      <4>2. x \in ToSet(f[u[i]]) /\ u[i] \in ToSet(u)
        BY <3>2, <3>3, <4>1
      <4> QED BY <4>2
    <3>5. ASSUME NEW x \in Y PROVE x \in X
      <4>1. PICK k \in ToSet(u) : x \in ToSet(f[k])
        OBVIOUS
      <4>2. PICK i \in 1..Len(u) : u[i] = k
        BY <3>3
      <4>3. x \in ToSet(ss[i]) /\ i \in 1..Len(ss)
        BY <3>2, <4>1, <4>2
      <4> QED BY <4>3
    <3> HIDE DEF X, Y
    <3>6. X = Y
      BY <3>4, <3>5
    <3> QED BY <3>6 DEF X, Y, u
  <2>3. FlattenSeq(ss) \in Seq(Pane) /\ ToSet(FlattenSeq(ss)) = UNION {ToSet(ss[i]) : i \in 1..Len(ss)}
    BY <2>1, FlattenOK
  <2> QED BY <2>2, <2>3 DEF ss
<1>5. ASSUME NEW f, NEW g, NEW s \in Split, \A k \in ToSet(a.kids[s]) : f[k] = g[k]
      PROVE  Each(f, s) = Each(g, s)
  BY <1>3, <1>5
<1>6. ASSUME NEW f, NEW n \in Node, \A k \in Node : f[k] \in Seq(Pane)
      PROVE  F(f, n) \in Seq(Pane)
  <2>1. CASE n \in Pane
    BY <2>1
  <2>2. CASE n \notin Pane
    <3>1. n \in Split /\ \A k \in ToSet(a.kids[n]) : f[k] \in Seq(Pane)
      BY <1>2, <1>6, <2>2, KidsOK
    <3> HIDE DEF Each
    <3> QED BY <1>4, <2>2, <3>1
  <2> QED BY <2>1, <2>2
<1> DEFINE Upto(f, h) == /\ f \in [Node -> Seq(Pane)]
                         /\ \A n \in Node : N - up[n] < h => f[n] = F(f, n)
           Reached(h) == \E f : Upto(f, h)
           All == {h \in Nat : Reached(h)}
<1>7. 0 \in All
  <2> DEFINE f == [n \in Node |-> <<>>]
  <2>1. f \in [Node -> Seq(Pane)]
    OBVIOUS
  <2>2. \A n \in Node : ~(N - up[n] < 0)
    BY <1>1
  <2> HIDE DEF f, F
  <2> QED BY <2>1, <2>2
<1>8. ASSUME NEW h \in Nat, h \in All PROVE h + 1 \in All
  <2>1. PICK f : Upto(f, h)
    BY <1>8
  <2> DEFINE g == [n \in Node |-> IF N - up[n] < h + 1 THEN F(f, n) ELSE <<>>]
  <2>2. \A n \in Node : f[n] \in Seq(Pane) /\ (N - up[n] < h => f[n] = F(f, n))
    BY <2>1
  <2> HIDE DEF Upto
  <2>3. \A n \in Node : F(f, n) \in Seq(Pane)
    BY <1>6, <2>2
  <2> HIDE DEF F
  <2>4. g \in [Node -> Seq(Pane)]
    BY <2>3
  <2>5. \A n \in Node : g[n] = IF N - up[n] < h + 1 THEN F(f, n) ELSE <<>>
    OBVIOUS
  <2> HIDE DEF g
  <2>6. ASSUME NEW n \in Node, N - up[n] < h + 1 PROVE g[n] = F(g, n)
    <3>1. g[n] = F(f, n)
      BY <2>5, <2>6
    <3>2. CASE n \in Pane
      BY <3>1, <3>2 DEF F
    <3>3. CASE n \notin Pane
      <4>1. n \in Split
        BY <1>2, <3>3
      <4>2. \A k \in ToSet(a.kids[n]) : f[k] = g[k]
        <5> TAKE k \in ToSet(a.kids[n])
        <5>1. k \in Node /\ up[n] < up[k]
          BY <4>1, KidsOK
        <5>2. N - up[k] < h /\ N - up[k] < h + 1
          BY <1>1, <2>6, <5>1
        <5> QED BY <2>2, <2>5, <5>1, <5>2
      <4>3. Each(f, n) = Each(g, n)
        BY <1>5, <4>1, <4>2
      <4> HIDE DEF Each
      <4> QED BY <3>1, <3>3, <4>3 DEF F
    <3> QED BY <3>2, <3>3
  <2> QED BY <2>4, <2>6 DEF Upto
<1> HIDE DEF Upto
<1>9. All = Nat
  <2>1. All \in SUBSET Nat
    OBVIOUS
  <2> HIDE DEF All
  <2> QED BY <1>7, <1>8, <2>1, Onwards
<1>10. PICK f : Upto(f, N + 1)
  <2>1. N + 1 \in All
    BY <1>9
  <2> QED BY <2>1
<1> HIDE DEF F
<1>11. f = [n \in Node |-> F(f, n)]
  <2>1. \A n \in Node : N - up[n] < N + 1
    BY <1>1
  <2> QED BY <1>10, <2>1 DEF Upto
<1>12. Is(row)
  <2> SUFFICES \E h : Is(h)
    <3> HIDE DEF Is
    <3> QED OBVIOUS
  <2> QED BY <1>11
<1>13. LeafSeq(a, t) = row[a.root[t]] /\ Leaves(a, t) = NodesOf(a)[a.root[t]] \cap Pane /\ a.root[t] \in Node
  <2>1. a.root[t] \in Node /\ a.root[t] # Nil
    BY LayoutAssumption DEF Sound, Homes, LayoutAssumption
  <2> QED BY <2>1 DEF LeafSeq, Leaves, F, Is
<1> HIDE DEF row
<1>14. \A n \in Node : row[n] = F(row, n)
  BY <1>12
<1> DEFINE Right(n) == row[n] \in Seq(Pane) /\ ToSet(row[n]) = NodesOf(a)[n] \cap Pane
           Odd == {n \in Node : ~Right(n)}
<1>15. Odd = {}
  <2> SUFFICES ASSUME Odd # {} PROVE FALSE
    OBVIOUS
  <2>1. PICK n \in Odd : \A m \in Odd : up[m] <= up[n]
    <3> HIDE DEF Right
    <3> QED BY <1>1, Highest
  <2>2. CASE n \in Pane
    <3>1. row[n] = <<n>>
      BY <1>14, <2>1, <2>2 DEF F
    <3>2. ToSet(<<n>>) = {n} /\ <<n>> \in Seq(Pane)
      BY <2>2 DEF ToSet
    <3>3. NodesOf(a)[n] = {n}
      BY <2>2, NodesOK
    <3> QED BY <2>1, <2>2, <3>1, <3>2, <3>3
  <2>3. CASE n \notin Pane
    <3>1. n \in Split /\ row[n] = FlattenSeq(Each(row, n))
      BY <1>2, <1>14, <2>1, <2>3 DEF F
    <3>2. \A k \in ToSet(a.kids[n]) : Right(k)
      <4> TAKE k \in ToSet(a.kids[n])
      <4>1. k \in Node /\ up[n] < up[k] /\ up[n] \in Nat /\ up[k] \in Nat
        BY <3>1, KidsOK
      <4> HIDE DEF Right
      <4>2. k \notin Odd
        BY <2>1, <4>1
      <4> QED BY <4>1, <4>2
    <3> HIDE DEF Each
    <3>3. row[n] \in Seq(Pane) /\ ToSet(row[n]) = UNION {ToSet(row[k]) : k \in ToSet(a.kids[n])}
      BY <1>4, <3>1, <3>2
    <3> DEFINE K == ToSet(a.kids[n])
    <3> HIDE DEF K
    <3>4. NodesOf(a)[n] = {n} \cup UNION {NodesOf(a)[k] : k \in K}
      BY <3>1, NodesOK DEF K
    <3>5. \A k \in K : ToSet(row[k]) = NodesOf(a)[k] \cap Pane
      BY <3>2 DEF K
    <3>6. UNION {ToSet(row[k]) : k \in K} = NodesOf(a)[n] \cap Pane
      BY <2>3, <3>4, <3>5
    <3> QED BY <2>1, <3>3, <3>6 DEF K
  <2> QED BY <2>2, <2>3
<1>16. Right(a.root[t])
  BY <1>13, <1>15
<1> QED BY <1>13, <1>16

\* The allocator has a split for a pane in hand: a split has two children, none
\* of which is a root, nor in hand.
LEMMA AllocOK ==
  ASSUME NEW a, NEW own, NEW up, NEW loose, Sound(a, own, up, loose), loose # {}, a.tabs # <<>>
  PROVE  Allocated(a) \in Split /\ Allocated(a) \notin a.live
<1> SUFFICES ASSUME Split \subseteq a.live PROVE FALSE
  BY DEF Allocated
<1> DEFINE f == [s \in Split |-> a.kids[s][1]]
           g == [s \in Split |-> a.kids[s][2]]
           F == {f[s] : s \in Split}
           G == {g[s] : s \in Split}
<1>1. PICK l \in loose : TRUE
  OBVIOUS
<1>2. PICK t \in Tabs(a) : TRUE
  <2>1. a.tabs \in Seq(Tab) /\ Len(a.tabs) # 0
    BY DEF Sound, Typed
  <2>2. a.tabs[1] \in ToSet(a.tabs)
    BY <2>1, Members
  <2> QED BY <2>2 DEF Tabs
<1> DEFINE r == a.root[t]
<1>3. l \in Node /\ own[l] = Nil /\ a.parent[l] = Nil
  BY <1>1 DEF Sound, Owned, Upward, Node
<1>4. r \in Node /\ own[r] # Nil /\ a.parent[r] = Nil
  BY <1>2, LayoutAssumption, Members DEF Sound, Homes, LayoutAssumption, Tabs, Typed
<1>5. \A s \in Split : s # Nil /\ own[s] # Nil
  BY LayoutAssumption DEF LayoutAssumption, Sound, Owned, Node
<1>6. \A s \in Split :
        /\ f[s] \in Node /\ g[s] \in Node /\ f[s] # g[s]
        /\ a.parent[f[s]] = s /\ a.parent[g[s]] = s
  <2> TAKE s \in Split
  <2>1. a.kids[s] \in Seq(Node) /\ Len(a.kids[s]) >= 2 /\ IsInjective(a.kids[s])
    BY <1>5 DEF Sound, Typed, Downward
  <2>2. 1 \in 1..Len(a.kids[s]) /\ 2 \in 1..Len(a.kids[s])
    BY <2>1
  <2>3. f[s] \in ToSet(a.kids[s]) /\ g[s] \in ToSet(a.kids[s]) /\ f[s] # g[s]
    BY <2>1, <2>2, Members
  <2> QED BY <2>3, KidsOK
<1> HIDE DEF f, g, r
<1>7. /\ IsFiniteSet(F) /\ Cardinality(F) = Cardinality(Split)
      /\ IsFiniteSet(G) /\ Cardinality(G) = Cardinality(Split)
  <2>0. IsFiniteSet(Split)
    BY LayoutAssumption DEF LayoutAssumption
  <2>1. f \in Surjection(Split, F) /\ f \in Injection(Split, F)
    <3>1. f \in [Split -> F]
      BY DEF f
    <3> HIDE DEF F
    <3>2. \A x \in F : \E s \in Split : f[s] = x
      BY DEF F
    <3> QED BY <1>6, <3>1, <3>2 DEF Surjection, Injection, IsInjective
  <2>2. g \in Surjection(Split, G) /\ g \in Injection(Split, G)
    <3>1. g \in [Split -> G]
      BY DEF g
    <3> HIDE DEF G
    <3>2. \A x \in G : \E s \in Split : g[s] = x
      BY DEF G
    <3> QED BY <1>6, <3>1, <3>2 DEF Surjection, Injection, IsInjective
  <2> QED BY <2>0, <2>1, <2>2, FS_Surjection
<1>8. F \cap G = {}
  BY <1>6
<1>9. l # r /\ l \notin F \cup G /\ r \notin (F \cup G) \cup {l}
  BY <1>3, <1>4, <1>5, <1>6
<1>10. ((F \cup G) \cup {l}) \cup {r} \in SUBSET Node
  BY <1>3, <1>4, <1>6
<1>11. IsFiniteSet(Node) /\ Cardinality(Node) = Cardinality(Pane) + Cardinality(Split)
  <2>1. Cardinality(Pane) \in Nat /\ Cardinality(Split) \in Nat /\ Cardinality(Pane \cap Split) = 0
    BY LayoutAssumption, FS_CardinalityType, FS_EmptySet DEF LayoutAssumption
  <2>2. IsFiniteSet(Pane) /\ IsFiniteSet(Split)
    BY LayoutAssumption DEF LayoutAssumption
  <2>3. /\ IsFiniteSet(Pane \cup Split)
        /\ Cardinality(Pane \cup Split) = Cardinality(Pane) + Cardinality(Split) - Cardinality(Pane \cap Split)
    BY <2>2, FS_Union
  <2> QED BY <2>1, <2>3 DEF Node
<1> HIDE DEF F, G
<1>12. IsFiniteSet(F \cup G) /\ Cardinality(F \cup G) = Cardinality(Split) + Cardinality(Split)
  <2>1. Cardinality(F \cap G) = 0 /\ Cardinality(Split) \in Nat
    BY <1>8, LayoutAssumption, FS_CardinalityType, FS_EmptySet DEF LayoutAssumption
  <2>2. Cardinality(F \cup G) = Cardinality(F) + Cardinality(G) - Cardinality(F \cap G)
    BY <1>7, FS_Union
  <2>3. IsFiniteSet(F \cup G)
    BY <1>7, FS_Union
  <2> QED BY <1>7, <2>1, <2>2, <2>3
<1>13. /\ IsFiniteSet((F \cup G) \cup {l})
       /\ Cardinality((F \cup G) \cup {l}) = Cardinality(F \cup G) + 1
  BY <1>9, <1>12, FS_AddElement
<1>14. Cardinality(((F \cup G) \cup {l}) \cup {r}) = Cardinality((F \cup G) \cup {l}) + 1
  BY <1>9, <1>13, FS_AddElement
<1>15. Cardinality(((F \cup G) \cup {l}) \cup {r}) <= Cardinality(Node)
  BY <1>10, <1>11, FS_Subset
<1> QED
  <2>1. Cardinality(Pane) \in Nat /\ Cardinality(Split) \in Nat
    BY LayoutAssumption, FS_CardinalityType DEF LayoutAssumption
  <2> QED BY <1>11, <1>12, <1>13, <1>14, <1>15, <2>1, LayoutAssumption DEF LayoutAssumption

-----------------------------------------------------------------------------
(* layout(), and what else leaves the trees alone. *)

\* The same trees: what is asked of them has the same answers.
SameTrees(a, b) ==
  /\ IsRec(b) /\ Typed(b)
  /\ b.tabs = a.tabs /\ b.root = a.root /\ b.live = a.live
  /\ b.parent = a.parent /\ b.kids = a.kids /\ b.quit = a.quit

LEMMA SameAnswers ==
  ASSUME NEW a, NEW b, SameTrees(a, b)
  PROVE  /\ NodesOf(b) = NodesOf(a) /\ Tabs(b) = Tabs(a)
         /\ \A t : Leaves(b, t) = Leaves(a, t)
         /\ \A n : TabOf(b, n) = TabOf(a, n)
<1>1. b.kids = a.kids /\ b.tabs = a.tabs /\ b.root = a.root /\ b.parent = a.parent
  BY DEF SameTrees
<1>2. NodesOf(b) = NodesOf(a) /\ Tabs(b) = Tabs(a)
  BY <1>1 DEF NodesOf, Tabs
<1>3. \A t : Leaves(b, t) = Leaves(a, t)
  BY <1>1, <1>2 DEF Leaves
<1>4. \A n : TabOf(b, n) = TabOf(a, n)
  BY <1>1, <1>2 DEF TabOf
<1> QED BY <1>2, <1>3, <1>4

\* They are sound as long as the view is on the strip and focus and zoom are at
\* home.
LEMMA SameSound ==
  ASSUME NEW a, NEW own, NEW up, NEW loose, Sound(a, own, up, loose),
         NEW b, SameTrees(a, b), View(b),
         \A t \in Tabs(a) : b.focus[t] \in Pane /\ own[b.focus[t]] = t,
         \A t \in Tab \ Tabs(a) : b.focus[t] = Nil /\ b.zoom[t] = Nil,
         \A t \in Tab : b.zoom[t] # Nil /\ own[b.zoom[t]] # Nil => own[b.zoom[t]] = t
  PROVE  Sound(b, own, up, loose)
<1>1. /\ IsRec(b) /\ Typed(b) /\ b.tabs = a.tabs /\ b.root = a.root /\ b.live = a.live
      /\ b.parent = a.parent /\ b.kids = a.kids /\ Tabs(b) = Tabs(a)
  BY DEF SameTrees, Tabs
<1>2. Owned(b, own, loose)
  BY <1>1 DEF Sound, Owned
<1>3. Upward(b, own, up) /\ Downward(b, own)
  BY <1>1 DEF Sound, Upward, Downward
<1>4. Homes(b, own)
  BY <1>1 DEF Sound, Homes
<1> QED BY <1>1, <1>2, <1>3, <1>4 DEF Sound

\* The same but for floats, minimised panes, and zooms that are forgotten.
Alike(a, b) ==
  /\ SameTrees(a, b) /\ b.cur = a.cur /\ b.focus = a.focus /\ b.dir = a.dir
  /\ \A t \in Tab : b.zoom[t] \in {a.zoom[t], Nil}

LEMMA AlikeSelf ==
  ASSUME NEW a, IsRec(a), Typed(a)
  PROVE  Alike(a, a)
  BY DEF Alike, SameTrees

LEMMA AlikeAgain ==
  ASSUME NEW a, NEW b, NEW c, Alike(a, b), Alike(b, c)
  PROVE  Alike(a, c)
  BY DEF Alike, SameTrees

LEMMA AlikeSound ==
  ASSUME NEW a, NEW own, NEW up, NEW loose, Sound(a, own, up, loose), NEW b, Alike(a, b)
  PROVE  Sound(b, own, up, loose)
<1>1. SameTrees(a, b) /\ b.tabs = a.tabs /\ b.cur = a.cur /\ b.focus = a.focus /\ b.quit = a.quit
  BY DEF Alike, SameTrees
<1>2. View(b)
  BY <1>1 DEF Sound, View
<1>3. \A t \in Tabs(a) : b.focus[t] \in Pane /\ own[b.focus[t]] = t
  BY <1>1 DEF Sound, Homes
<1>4. \A t \in Tab : b.zoom[t] \in {a.zoom[t], Nil}
  BY DEF Alike
<1>5. \A t \in Tab \ Tabs(a) : b.focus[t] = Nil /\ b.zoom[t] = Nil
  BY <1>1, <1>4 DEF Sound, Homes
<1>6. \A t \in Tab : b.zoom[t] # Nil /\ own[b.zoom[t]] # Nil => own[b.zoom[t]] = t
  BY <1>4 DEF Sound, Homes
<1> QED BY <1>1, <1>2, <1>3, <1>5, <1>6, SameSound

LEMMA LandedOK ==
  ASSUME NEW a, IsRec(a), Typed(a)
  PROVE  Alike(a, Landed(a))
<1> DEFINE ups == {i \in DOMAIN a.floats : a.floats[i] \in Leaves(a, Cur(a)) \ a.mini}
           v == RemoveAt(a.floats, Max(ups))
           b == [a EXCEPT !.floats = v]
<1>1. CASE ups # {}
  <2>1. a.floats \in Seq(Pane) /\ Len(a.floats) \in Nat /\ ups \in SUBSET (1..Len(a.floats))
    BY DEF Typed
  <2> HIDE DEF ups
  <2>2. Max(ups) \in 1..Len(a.floats)
    BY <1>1, <2>1, LastPlace
  <2>3. v \in Seq(Pane)
    BY <2>1, <2>2, RemoveOK
  <2> HIDE DEF v
  <2>4. /\ IsRec(b) /\ b.floats = v /\ b.tabs = a.tabs /\ b.cur = a.cur /\ b.root = a.root
        /\ b.focus = a.focus /\ b.zoom = a.zoom /\ b.live = a.live /\ b.parent = a.parent
        /\ b.kids = a.kids /\ b.dir = a.dir /\ b.mini = a.mini /\ b.quit = a.quit
    BY DEF IsRec, Fields
  <2> HIDE DEF b
  <2>5. Alike(a, b)
    BY <2>3, <2>4 DEF Alike, SameTrees, Typed
  <2>6. Landed(a) \in {a, b}
    BY DEF Landed, b, v, ups
  <2> QED BY <2>5, <2>6, AlikeSelf
<1>2. CASE ups = {}
  <2>1. Landed(a) = a
    BY <1>2 DEF Landed
  <2> QED BY <2>1, AlikeSelf
<1> QED BY <1>1, <1>2

LEMMA RestoredOK ==
  ASSUME NEW a, IsRec(a), Typed(a)
  PROVE  Alike(a, Restored(a)) /\ a.focus[Cur(a)] \notin Restored(a).mini
<1> DEFINE b == Restored(a)
<1>1. /\ IsRec(b) /\ b.floats = a.floats /\ b.tabs = a.tabs /\ b.cur = a.cur /\ b.root = a.root
      /\ b.focus = a.focus /\ b.zoom = a.zoom /\ b.live = a.live /\ b.parent = a.parent
      /\ b.kids = a.kids /\ b.dir = a.dir /\ b.mini = a.mini \ {a.focus[Cur(a)]} /\ b.quit = a.quit
  BY DEF Restored, IsRec, Fields
<1> HIDE DEF b
<1> QED BY <1>1 DEF Alike, SameTrees, Typed, b

LEMMA RaisedOK ==
  ASSUME NEW a, IsRec(a), Typed(a)
  PROVE  Alike(a, Raised(a)) /\ Raised(a).mini = a.mini
<1> DEFINE f == a.focus[Cur(a)]
           v == Append(Without(a.floats, f), f)
           b == [a EXCEPT !.floats = v]
<1>1. CASE f \in Floating(a)
  <2>1. a.floats \in Seq(Pane) /\ f \in Pane
    BY <1>1, Members DEF Typed, Floating
  <2> HIDE DEF f
  <2>2. Without(a.floats, f) \in Seq(Pane)
    BY <2>1, WithoutOK
  <2>3. v \in Seq(Pane)
    BY <2>1, <2>2
  <2> HIDE DEF v
  <2>4. /\ IsRec(b) /\ b.floats = v /\ b.tabs = a.tabs /\ b.cur = a.cur /\ b.root = a.root
        /\ b.focus = a.focus /\ b.zoom = a.zoom /\ b.live = a.live /\ b.parent = a.parent
        /\ b.kids = a.kids /\ b.dir = a.dir /\ b.mini = a.mini /\ b.quit = a.quit
    BY DEF IsRec, Fields
  <2> HIDE DEF b
  <2>5. Alike(a, b)
    BY <2>3, <2>4 DEF Alike, SameTrees, Typed
  <2>6. Raised(a) = b
    BY <1>1 DEF Raised, b, v, f
  <2> QED BY <2>4, <2>5, <2>6
<1>2. CASE f \notin Floating(a)
  <2>1. Raised(a) = a
    BY <1>2 DEF Raised
  <2> QED BY <2>1, AlikeSelf
<1> QED BY <1>1, <1>2

LEMMA UnzoomedOK ==
  ASSUME NEW a, IsRec(a), Typed(a), Cur(a) \in Tab
  PROVE  /\ Alike(a, Unzoomed(a)) /\ Unzoomed(a).mini = a.mini
         /\ LET t == Cur(a)  z == Unzoomed(a).zoom[t]
            IN z = Nil \/ (Exists(a, z) /\ TabOf(a, z) = t)
<1> DEFINE t == Cur(a)
           z == a.zoom[t]
           b == [a EXCEPT !.zoom[t] = Nil]
<1>1. CASE z # Nil /\ ~(Exists(a, z) /\ TabOf(a, z) = t)
  <2>1. /\ IsRec(b) /\ b.floats = a.floats /\ b.tabs = a.tabs /\ b.cur = a.cur /\ b.root = a.root
        /\ b.focus = a.focus /\ b.zoom = [a.zoom EXCEPT ![t] = Nil] /\ b.live = a.live
        /\ b.parent = a.parent
        /\ b.kids = a.kids /\ b.dir = a.dir /\ b.mini = a.mini /\ b.quit = a.quit
    <3> HIDE DEF t
    <3> QED BY DEF IsRec, Fields
  <2>2. Unzoomed(a) = b
    BY <1>1 DEF Unzoomed
  <2> HIDE DEF b, t
  <2>3. Alike(a, b) /\ b.zoom[t] = Nil
    BY <2>1 DEF Alike, SameTrees, Typed, t
  <2> QED BY <2>1, <2>2, <2>3 DEF t
<1>2. CASE ~(z # Nil /\ ~(Exists(a, z) /\ TabOf(a, z) = t))
  <2>1. Unzoomed(a) = a
    BY <1>2 DEF Unzoomed
  <2> QED BY <1>2, <2>1, AlikeSelf
<1> QED BY <1>1, <1>2

\* Whatever is laid out is what it was, and fit to be looked at.
LEMMA LaidOK ==
  ASSUME NEW a, NEW own, NEW up, NEW loose, Sound(a, own, up, loose)
  PROVE  /\ Alike(a, Laid(a)) /\ Sound(Laid(a), own, up, loose)
         /\ a.tabs # <<>> =>
              LET f == Laid(a)  t == Cur(f)
              IN /\ f.focus[t] \in Leaves(f, t) \ f.mini
                 /\ f.zoom[t] \in Leaves(f, t) \cup {Nil}
<1> DEFINE t == Cur(a)
           b == Landed(a)
           c == Restored(b)
           d == Raised(c)
           e == Unzoomed(d)
<1>1. CASE a.tabs = <<>>
  <2>1. Laid(a) = a
    BY <1>1 DEF Laid
  <2> QED BY <1>1, <2>1, AlikeSelf DEF Sound
<1>2. CASE a.tabs # <<>>
  <2>1. Laid(a) = e
    BY <1>2 DEF Laid
  <2>2. Alike(a, b)
    BY LandedOK DEF Sound
  <2>3. Alike(b, c) /\ b.focus[Cur(b)] \notin c.mini
    BY <2>2, RestoredOK DEF Alike, SameTrees
  <2>4. Alike(c, d) /\ d.mini = c.mini
    BY <2>3, RaisedOK DEF Alike, SameTrees
  <2>5. t \in Tab /\ t \in Tabs(a)
    <3>1. a.cur \in DOMAIN a.tabs /\ a.tabs \in Seq(Tab)
      BY <1>2 DEF Sound, View, Typed
    <3>2. a.cur \in 1..Len(a.tabs)
      BY <3>1
    <3> QED BY <3>1, <3>2, Members DEF Cur, Tabs
  <2>6. Alike(a, d)
    BY <2>2, <2>3, <2>4, AlikeAgain
  <2>7. Cur(b) = t /\ Cur(d) = t /\ b.focus = a.focus
    BY <2>2, <2>6 DEF Alike, SameTrees, Cur
  <2>8. /\ Alike(d, e) /\ e.mini = d.mini
        /\ e.zoom[t] = Nil \/ (Exists(d, e.zoom[t]) /\ TabOf(d, e.zoom[t]) = t)
    BY <2>5, <2>6, <2>7, UnzoomedOK DEF Alike, SameTrees
  <2> HIDE DEF b, c, d, e
  <2>9. Alike(a, e) /\ Sound(e, own, up, loose)
    BY <2>6, <2>8, AlikeAgain, AlikeSound
  <2>10. Cur(e) = t /\ e.focus = a.focus
    BY <2>9 DEF Alike, SameTrees, Cur
  <2>11. SameTrees(a, d) /\ SameTrees(a, e)
    BY <2>6, <2>9 DEF Alike
  <2>12. \A u \in Tabs(a) : u # Nil /\ Leaves(a, u) = {p \in Pane : own[p] = u}
    BY LeavesOK
  <2>13. e.focus[t] \in Leaves(e, t)
    <3>1. a.focus[t] \in Pane /\ own[a.focus[t]] = t
      BY <2>5 DEF Sound, Homes
    <3> QED BY <2>5, <2>10, <2>11, <2>12, <3>1, SameAnswers
  <2>14. e.focus[t] \notin e.mini
    BY <2>3, <2>4, <2>7, <2>8, <2>10
  <2>15. e.zoom[t] \in Leaves(e, t) \cup {Nil}
    <3> DEFINE z == e.zoom[t]
    <3> SUFFICES ASSUME Exists(d, z), TabOf(d, z) = t PROVE z \in Leaves(e, t)
      BY <2>8
    <3>1. PICK u \in Tabs(a) : z \in Leaves(a, u)
      BY <2>11, SameAnswers DEF Exists
    <3>2. z \in Pane /\ own[z] = u
      BY <2>12, <3>1
    <3>3. own[z] # Nil /\ z \in Node /\ TabOf(a, z) = own[z]
      BY <2>12, <3>1, <3>2, TabOK DEF Node
    <3>4. own[z] = t
      BY <2>11, <3>3, SameAnswers
    <3> QED BY <2>5, <2>11, <2>12, <3>2, <3>4, SameAnswers
  <2> QED BY <2>1, <2>9, <2>10, <2>13, <2>14, <2>15
<1> QED BY <1>1, <1>2

\* The place of a tab on the strip.
LEMMA PlaceOK ==
  ASSUME NEW a, Typed(a), NEW t \in Tabs(a)
  PROVE  IndexOf(a.tabs, t) \in DOMAIN a.tabs /\ a.tabs[IndexOf(a.tabs, t)] = t
         /\ IndexOf(a.tabs, t) \in Nat /\ a.tabs # <<>> /\ t \in Tab
<1>1. a.tabs \in Seq(Tab) /\ t \in ToSet(a.tabs)
  BY DEF Typed, Tabs
<1>2. IndexOf(a.tabs, t) \in 1..Len(a.tabs) /\ a.tabs[IndexOf(a.tabs, t)] = t /\ t \in Tab
  BY <1>1, IndexOK, Members
<1> QED BY <1>1, <1>2

\* The tab on screen is one of the strip's.
LEMMA CurOK ==
  ASSUME NEW a, Typed(a), View(a), a.tabs # <<>>
  PROVE  Cur(a) \in Tabs(a) /\ Cur(a) \in Tab /\ a.cur \in DOMAIN a.tabs
<1>1. a.cur \in DOMAIN a.tabs /\ a.tabs \in Seq(Tab)
  BY DEF View, Typed
<1>2. a.cur \in 1..Len(a.tabs)
  BY <1>1
<1> QED BY <1>1, <1>2, Members DEF Cur, Tabs

\* The view moved.
LEMMA LookedOK ==
  ASSUME NEW a, NEW own, NEW up, NEW loose, Sound(a, own, up, loose), NEW k \in DOMAIN a.tabs
  PROVE  LET b == [a EXCEPT !.cur = k]
         IN /\ Sound(b, own, up, loose) /\ SameTrees(a, b)
            /\ b.cur = k /\ b.focus = a.focus /\ b.zoom = a.zoom
            /\ b.dir = a.dir /\ b.mini = a.mini /\ b.floats = a.floats
<1> DEFINE b == [a EXCEPT !.cur = k]
<1>1. k \in Nat /\ a.tabs # <<>>
  BY DEF Sound, Typed
<1>2. /\ IsRec(b) /\ b.floats = a.floats /\ b.tabs = a.tabs /\ b.cur = k /\ b.root = a.root
      /\ b.focus = a.focus /\ b.zoom = a.zoom /\ b.live = a.live /\ b.parent = a.parent
      /\ b.kids = a.kids /\ b.dir = a.dir /\ b.mini = a.mini /\ b.quit = a.quit
  BY DEF Sound, IsRec, Fields
<1> HIDE DEF b
<1>3. SameTrees(a, b)
  BY <1>1, <1>2 DEF Sound, SameTrees, Typed
<1>4. View(b)
  BY <1>1, <1>2 DEF View
<1>5. Sound(b, own, up, loose)
  BY <1>2, <1>3, <1>4, SameSound DEF Sound, Homes
<1> QED BY <1>2, <1>3, <1>5 DEF b

\* A tab laid out without being looked at.
LEMMA LaidTabOK ==
  ASSUME NEW a, NEW own, NEW up, NEW loose, Sound(a, own, up, loose), NEW t \in Tabs(a)
  PROVE  Alike(a, LaidTab(a, t)) /\ Sound(LaidTab(a, t), own, up, loose)
<1> DEFINE b == [a EXCEPT !.cur = IndexOf(a.tabs, t)]
           c == Laid(b)
           d == [c EXCEPT !.cur = a.cur]
<1>1. CASE t = Cur(a)
  BY <1>1, LaidOK DEF LaidTab
<1>2. CASE t # Cur(a)
  <2>1. LaidTab(a, t) = Laid(d)
    BY <1>2 DEF LaidTab
  <2>2. IndexOf(a.tabs, t) \in DOMAIN a.tabs /\ a.cur \in DOMAIN a.tabs
    BY PlaceOK, CurOK DEF Sound
  <2>3. Sound(b, own, up, loose) /\ SameTrees(a, b) /\ b.focus = a.focus /\ b.zoom = a.zoom /\ b.dir = a.dir
    BY <2>2, LookedOK
  <2> HIDE DEF b
  <2>4. Alike(b, c) /\ Sound(c, own, up, loose)
    BY <2>3, LaidOK
  <2> HIDE DEF c
  <2>5. c.tabs = a.tabs
    BY <2>3, <2>4 DEF Alike, SameTrees
  <2>6. Sound(d, own, up, loose) /\ SameTrees(c, d) /\ d.cur = a.cur /\ d.focus = c.focus
        /\ d.zoom = c.zoom /\ d.dir = c.dir
    BY <2>2, <2>4, <2>5, LookedOK
  <2> HIDE DEF d
  <2>7. Alike(a, d)
    BY <2>3, <2>4, <2>6 DEF Alike, SameTrees
  <2> QED BY <2>1, <2>6, <2>7, LaidOK, AlikeAgain
<1> QED BY <1>1, <1>2

-----------------------------------------------------------------------------
(* Cutting and joining. *)

\* What is freed is typed.
LEMMA FreedReads ==
  ASSUME NEW a, IsRec(a), Typed(a), NEW nodes
  PROVE  LET b == Freed(a, nodes)
         IN /\ IsRec(b) /\ Typed(b)
            /\ b.tabs = a.tabs /\ b.cur = a.cur /\ b.root = a.root /\ b.focus = a.focus
            /\ b.zoom = a.zoom /\ b.quit = a.quit /\ b.live = a.live \ nodes
            /\ b.parent = [n \in Node |-> IF n \in nodes THEN Nil ELSE a.parent[n]]
            /\ b.kids = [s \in Split |-> IF s \in nodes THEN <<>> ELSE a.kids[s]]
<1> DEFINE v == Kept(a.floats, Pane \ nodes)
           b == Freed(a, nodes)
<1>1. v \in Seq(Pane)
  BY KeptOK DEF Typed
<1>2. b = [a EXCEPT !.live = @ \ nodes, !.mini = @ \ nodes,
            !.floats = v,
            !.parent = [n \in Node |-> IF n \in nodes THEN Nil ELSE @[n]],
            !.dir = [s \in Split |-> IF s \in nodes THEN "cols" ELSE @[s]],
            !.kids = [s \in Split |-> IF s \in nodes THEN <<>> ELSE @[s]]]
  BY DEF Freed
<1> HIDE DEF v, b
<1>3. /\ IsRec(b) /\ b.floats = v /\ b.tabs = a.tabs /\ b.cur = a.cur /\ b.root = a.root
      /\ b.focus = a.focus /\ b.zoom = a.zoom /\ b.live = a.live \ nodes
      /\ b.parent = [n \in Node |-> IF n \in nodes THEN Nil ELSE a.parent[n]]
      /\ b.kids = [s \in Split |-> IF s \in nodes THEN <<>> ELSE a.kids[s]]
      /\ b.dir = [s \in Split |-> IF s \in nodes THEN "cols" ELSE a.dir[s]]
      /\ b.mini = a.mini \ nodes /\ b.quit = a.quit
  BY <1>2 DEF IsRec, Fields
<1>4. b.parent \in [Node -> Split \cup {Nil}]
  BY <1>3 DEF Typed
<1>5. b.kids \in [Split -> Seq(Node)]
  BY <1>3 DEF Typed
<1>6. b.dir \in [Split -> Dirs]
  BY <1>3 DEF Typed, Dirs
<1>7. Typed(b)
  BY <1>1, <1>3, <1>4, <1>5, <1>6 DEF Typed
<1> QED BY <1>3, <1>7 DEF b

\* A pane is born into the program's hands.
LEMMA BornOK ==
  ASSUME NEW a, NEW own, NEW up, Sound(a, own, up, {}), NEW new \in Pane, new \notin a.live
  PROVE  LET b == [a EXCEPT !.live = @ \cup {new}]
         IN /\ Sound(b, own, up, {new})
            /\ b.tabs = a.tabs /\ b.cur = a.cur /\ b.root = a.root /\ b.focus = a.focus
            /\ b.zoom = a.zoom /\ b.live = a.live \cup {new} /\ b.parent = a.parent
            /\ b.kids = a.kids /\ b.floats = a.floats /\ b.dir = a.dir
<1> DEFINE b == [a EXCEPT !.live = @ \cup {new}]
<1>1. /\ IsRec(b) /\ b.floats = a.floats /\ b.tabs = a.tabs /\ b.cur = a.cur /\ b.root = a.root
      /\ b.focus = a.focus /\ b.zoom = a.zoom /\ b.live = a.live \cup {new} /\ b.parent = a.parent
      /\ b.kids = a.kids /\ b.dir = a.dir /\ b.mini = a.mini /\ b.quit = a.quit
  BY DEF Sound, IsRec, Fields
<1> HIDE DEF b
<1>2. Typed(b)
  BY <1>1 DEF Sound, Typed, Node
<1>3. Tabs(b) = Tabs(a)
  BY <1>1 DEF Tabs
<1>4. Owned(b, own, {new})
  BY <1>1, <1>3 DEF Sound, Owned
<1>5. Upward(b, own, up) /\ Downward(b, own) /\ Homes(b, own) /\ View(b)
  BY <1>1, <1>3 DEF Sound, Upward, Downward, Homes, View
<1> QED BY <1>1, <1>2, <1>4, <1>5 DEF Sound, b

\* A pane in hand is let go.
LetGo(a, p) == Freed(a, {p})

LEMMA GoneOK ==
  ASSUME NEW a, NEW own, NEW up, NEW p \in Pane, Sound(a, own, up, {p})
  PROVE  Good(LetGo(a, p)) /\ LetGo(a, p).live = a.live \ {p}
<1> DEFINE b == Freed(a, {p})
<1>1. /\ IsRec(b) /\ Typed(b)
      /\ b.tabs = a.tabs /\ b.cur = a.cur /\ b.root = a.root /\ b.focus = a.focus
      /\ b.zoom = a.zoom /\ b.quit = a.quit /\ b.live = a.live \ {p}
      /\ b.parent = [n \in Node |-> IF n \in {p} THEN Nil ELSE a.parent[n]]
      /\ b.kids = [s \in Split |-> IF s \in {p} THEN <<>> ELSE a.kids[s]]
  BY FreedReads DEF Sound
<1> HIDE DEF b
<1>2. own[p] = Nil /\ a.parent[p] = Nil /\ p \notin Split /\ p \in Node
  BY LayoutAssumption DEF Sound, Owned, Upward, Node, LayoutAssumption
<1>3. b.parent = a.parent /\ b.kids = a.kids
  BY <1>1, <1>2 DEF Sound, Typed
<1>4. Tabs(b) = Tabs(a)
  BY <1>1 DEF Tabs
<1>5. Owned(b, own, {})
  BY <1>1, <1>4 DEF Sound, Owned
<1>6. Upward(b, own, up) /\ Downward(b, own) /\ Homes(b, own) /\ View(b)
  BY <1>1, <1>3, <1>4 DEF Sound, Upward, Downward, Homes, View
<1>7. Sound(b, own, up, {})
  BY <1>1, <1>5, <1>6 DEF Sound
<1> QED BY <1>1, <1>7 DEF Good, LetGo, b

\* What belongs to a tab, belonging to nothing.
Disowned(own, t) == [n \in Node |-> IF own[n] = t THEN Nil ELSE own[n]]

\* A tab has gone with what belongs to it, but for what is kept in hand.
Pruned(a, own, t, b, hand) ==
  /\ IsRec(b) /\ Typed(b) /\ View(b)
  /\ hand \subseteq Pane /\ \A p \in hand : own[p] = t
  /\ b.tabs = Without(a.tabs, t) /\ b.root = [a.root EXCEPT ![t] = Nil]
  /\ b.focus = [a.focus EXCEPT ![t] = Nil]
  /\ b.zoom[t] = Nil /\ \A u \in Tab : b.zoom[u] \in {a.zoom[u], Nil}
  /\ b.parent = [n \in Node |-> IF own[n] = t THEN Nil ELSE a.parent[n]]
  /\ b.kids = [s \in Split |-> IF own[s] = t THEN <<>> ELSE a.kids[s]]
  /\ \A n \in Node : n \in b.live <=> n \in a.live /\ (own[n] # t \/ n \in hand)

LEMMA PrunedSound ==
  ASSUME NEW a, NEW own, NEW up, Sound(a, own, up, {}), NEW t \in Tabs(a), NEW b, NEW hand,
         Pruned(a, own, t, b, hand)
  PROVE  /\ Sound(b, Disowned(own, t), up, hand)
         /\ Tabs(b) = Tabs(a) \ {t}
<1> USE DEF Pruned
<1> DEFINE new == Disowned(own, t)
<1>1. /\ Tabs(b) = Tabs(a) \ {t} /\ IsInjective(b.tabs)
  BY Members, WithoutOK DEF Sound, Typed, Homes, Tabs
<1>2. t \in Tab /\ t # Nil
  BY LeavesOK
<1>3. new \in [Node -> Tab \cup {Nil}] /\ \A n \in Node : new[n] = IF own[n] = t THEN Nil ELSE own[n]
  BY DEF Disowned, Sound, Owned
<1> HIDE DEF new
<1>4. \A n \in Node : own[n] \in Tab \cup {Nil} /\ (own[n] # Nil => own[n] \in Tabs(a))
                      /\ (own[n] # Nil <=> n \in a.live)
  BY DEF Sound, Owned
<1>5. Owned(b, new, hand)
  <2>1. hand \subseteq b.live \cap Pane
    BY <1>2, <1>4 DEF Node
  <2>2. \A n \in Node : new[n] # Nil <=> n \in b.live \ hand
    BY <1>2, <1>3, <1>4
  <2> QED BY <1>1, <1>3, <1>4, <2>1, <2>2 DEF Owned
<1>6. Upward(b, new, up)
  <2> SUFFICES ASSUME NEW n \in Node
               PROVE  /\ b.parent[n] = Nil /\ new[n] # Nil => b.root[new[n]] = n
                      /\ b.parent[n] # Nil => /\ new[n] # Nil /\ new[b.parent[n]] = new[n]
                                              /\ up[b.parent[n]] < up[n]
                                              /\ n \in ToSet(b.kids[b.parent[n]])
    BY DEF Upward
  <2>1. CASE own[n] = t
    BY <1>3, <2>1
  <2>2. CASE own[n] # t
    <3>1. new[n] = own[n] /\ b.parent[n] = a.parent[n]
      BY <1>3, <2>2
    <3>2. ASSUME a.parent[n] = Nil, own[n] # Nil PROVE b.root[own[n]] = n
      BY <1>4, <2>2, <3>2 DEF Sound, Upward, Typed
    <3>3. ASSUME a.parent[n] # Nil
          PROVE  /\ own[n] # Nil /\ new[a.parent[n]] = own[n] /\ up[a.parent[n]] < up[n]
                 /\ n \in ToSet(b.kids[a.parent[n]])
      <4>1. a.parent[n] \in Split /\ own[n] # Nil /\ own[a.parent[n]] = own[n]
            /\ up[a.parent[n]] < up[n] /\ n \in ToSet(a.kids[a.parent[n]])
        BY <3>3 DEF Sound, Upward, Typed
      <4> QED BY <1>3, <2>2, <4>1 DEF Node
    <3> QED BY <3>1, <3>2, <3>3
  <2> QED BY <2>1, <2>2
<1>7. Downward(b, new)
  <2> SUFFICES ASSUME NEW s \in Split
               PROVE  /\ new[s] = Nil => b.kids[s] = <<>>
                      /\ new[s] # Nil => /\ Len(b.kids[s]) >= 2 /\ IsInjective(b.kids[s])
                                         /\ \A k \in ToSet(b.kids[s]) : b.parent[k] = s
    BY DEF Downward
  <2>1. CASE own[s] = t
    BY <1>3, <2>1 DEF Node
  <2>2. CASE own[s] # t
    <3>1. new[s] = own[s] /\ b.kids[s] = a.kids[s]
      BY <1>3, <2>2 DEF Node
    <3>2. \A k \in ToSet(a.kids[s]) : b.parent[k] = a.parent[k]
      BY <2>2, KidsOK
    <3> QED BY <3>1, <3>2 DEF Sound, Downward
  <2> QED BY <2>1, <2>2
<1>8. Homes(b, new)
  <2>1. ASSUME NEW u \in Tabs(b)
        PROVE  /\ b.root[u] \in Node /\ new[b.root[u]] = u /\ b.parent[b.root[u]] = Nil
               /\ b.focus[u] \in Pane /\ new[b.focus[u]] = u
    <3>1. u \in Tabs(a) /\ u # t /\ u \in Tab
      BY <1>1, <2>1, LeavesOK
    <3>2. b.root[u] = a.root[u] /\ b.focus[u] = a.focus[u]
      BY <3>1 DEF Sound, Typed
    <3> QED BY <1>3, <3>1, <3>2 DEF Sound, Homes, Node
  <2>2. ASSUME NEW u \in Tab \ Tabs(b) PROVE b.root[u] = Nil /\ b.focus[u] = Nil /\ b.zoom[u] = Nil
    <3>1. CASE u = t
      BY <1>2, <3>1 DEF Sound, Typed
    <3>2. CASE u # t
      BY <1>1, <2>2, <3>2 DEF Sound, Typed, Homes
    <3> QED BY <3>1, <3>2
  <2>3. ASSUME NEW u \in Tab, b.zoom[u] # Nil, new[b.zoom[u]] # Nil PROVE new[b.zoom[u]] = u
    <3>1. b.zoom[u] = a.zoom[u] /\ b.zoom[u] \in Node
      BY <2>3 DEF Typed, Node
    <3> QED BY <1>3, <2>3, <3>1 DEF Sound, Homes
  <2> QED BY <1>1, <2>1, <2>2, <2>3 DEF Homes
<1> QED BY <1>1, <1>5, <1>6, <1>7, <1>8 DEF Sound, new

\* The nodes of a tab, if it has any.
Within(a, t) == IF a.root[t] = Nil THEN {} ELSE NodesOf(a)[a.root[t]]

\* What tab_remove makes of an app.
LEMMA TabRemovedReads ==
  ASSUME NEW a, IsRec(a), Typed(a), NEW t \in Tabs(a), View(a), IsInjective(a.tabs)
  PROVE  LET b == TabRemoved(a, t)
             nodes == Within(a, t)
         IN /\ IsRec(b) /\ Typed(b) /\ View(b)
            /\ b.tabs = Without(a.tabs, t) /\ b.root = [a.root EXCEPT ![t] = Nil]
            /\ b.focus = [a.focus EXCEPT ![t] = Nil] /\ b.zoom = [a.zoom EXCEPT ![t] = Nil]
            /\ b.live = a.live \ nodes
            /\ b.parent = [n \in Node |-> IF n \in nodes THEN Nil ELSE a.parent[n]]
            /\ b.kids = [s \in Split |-> IF s \in nodes THEN <<>> ELSE a.kids[s]]
<1> DEFINE nodes == Within(a, t)
           left == Without(a.tabs, t)
           f == Freed(a, nodes)
           b == TabRemoved(a, t)
<1>1. b = [f EXCEPT
        !.tabs = left, !.root[t] = Nil, !.focus[t] = Nil, !.zoom[t] = Nil,
        !.cur = IF left # <<>> /\ @ > Len(left) THEN Len(left) ELSE @,
        !.quit = @ \/ left = <<>>]
  BY DEF TabRemoved, Within
<1> HIDE DEF b, nodes
<1>2. /\ IsRec(f) /\ Typed(f)
      /\ f.tabs = a.tabs /\ f.cur = a.cur /\ f.root = a.root /\ f.focus = a.focus
      /\ f.zoom = a.zoom /\ f.quit = a.quit /\ f.live = a.live \ nodes
      /\ f.parent = [n \in Node |-> IF n \in nodes THEN Nil ELSE a.parent[n]]
      /\ f.kids = [s \in Split |-> IF s \in nodes THEN <<>> ELSE a.kids[s]]
  BY FreedReads
<1> HIDE DEF f
<1>3. left \in Seq(Tab) /\ Len(left) = Len(a.tabs) - 1 /\ Len(left) \in Nat /\ t \in Tab
  BY WithoutOK, Members DEF Typed, Tabs
<1> HIDE DEF left
<1>4. /\ IsRec(b) /\ b.tabs = left /\ b.root = [f.root EXCEPT ![t] = Nil]
      /\ b.focus = [f.focus EXCEPT ![t] = Nil] /\ b.zoom = [f.zoom EXCEPT ![t] = Nil]
      /\ b.live = f.live /\ b.parent = f.parent /\ b.kids = f.kids /\ b.dir = f.dir
      /\ b.mini = f.mini /\ b.floats = f.floats
  BY <1>1, <1>2 DEF IsRec, Fields
<1>5. /\ b.cur = IF left # <<>> /\ a.cur > Len(left) THEN Len(left) ELSE a.cur
      /\ b.quit = (a.quit \/ left = <<>>)
  BY <1>1, <1>2 DEF IsRec, Fields
<1>6. Typed(b)
  BY <1>2, <1>3, <1>4, <1>5 DEF Typed
<1>7. View(b)
  <2>1. a.cur \in 1..Len(a.tabs) /\ a.cur \in Nat
    <3>1. a.tabs # <<>>
      BY PlaceOK
    <3>2. a.cur \in DOMAIN a.tabs /\ a.tabs \in Seq(Tab)
      BY <3>1 DEF View, Typed
    <3> QED BY <3>2
  <2>2. CASE left = <<>>
    BY <1>4, <1>5, <2>2 DEF View
  <2>3. CASE left # <<>>
    <3>1. Len(left) # 0
      BY <1>3, <2>3, Members
    <3>2. b.cur \in 1..Len(left)
      BY <1>3, <1>5, <2>1, <2>3, <3>1
    <3> QED BY <1>3, <1>4, <2>3, <3>2 DEF View
  <2> QED BY <2>2, <2>3
<1> QED BY <1>2, <1>4, <1>6, <1>7 DEF b, left, nodes

\* A tab closed.
LEMMA TabRemovedOK ==
  ASSUME NEW a, NEW own, NEW up, Sound(a, own, up, {}), NEW t \in Tabs(a)
  PROVE  /\ Sound(TabRemoved(a, t), Disowned(own, t), up, {})
         /\ Tabs(TabRemoved(a, t)) = Tabs(a) \ {t}
         /\ \A n \in Node : n \in TabRemoved(a, t).live <=> n \in a.live /\ own[n] # t
<1> DEFINE b == TabRemoved(a, t)
           nodes == Within(a, t)
<1>1. nodes = {n \in Node : own[n] = t} /\ a.root[t] # Nil
  BY NodesOK, LayoutAssumption DEF LayoutAssumption, Sound, Homes, Within
<1>2. /\ IsRec(b) /\ Typed(b) /\ View(b)
      /\ b.tabs = Without(a.tabs, t) /\ b.root = [a.root EXCEPT ![t] = Nil]
      /\ b.focus = [a.focus EXCEPT ![t] = Nil] /\ b.zoom = [a.zoom EXCEPT ![t] = Nil]
      /\ b.live = a.live \ nodes
      /\ b.parent = [n \in Node |-> IF n \in nodes THEN Nil ELSE a.parent[n]]
      /\ b.kids = [s \in Split |-> IF s \in nodes THEN <<>> ELSE a.kids[s]]
  <2>1. IsRec(a) /\ Typed(a) /\ View(a) /\ IsInjective(a.tabs)
    BY DEF Sound, Homes
  <2> QED BY <2>1, TabRemovedReads
<1> HIDE DEF b, nodes
<1>3. t \in Tab
  BY LeavesOK
<1>4. b.zoom[t] = Nil /\ \A u \in Tab : b.zoom[u] \in {a.zoom[u], Nil}
  BY <1>2, <1>3 DEF Sound, Typed
<1>5. b.parent = [n \in Node |-> IF own[n] = t THEN Nil ELSE a.parent[n]]
  BY <1>1, <1>2
<1>6. b.kids = [s \in Split |-> IF own[s] = t THEN <<>> ELSE a.kids[s]]
  BY <1>1, <1>2 DEF Node
<1>7. \A n \in Node : n \in b.live <=> n \in a.live /\ own[n] # t
  BY <1>1, <1>2
<1>8. Pruned(a, own, t, b, {})
  BY <1>2, <1>4, <1>5, <1>6, <1>7 DEF Pruned
<1> QED BY <1>7, <1>8, PrunedSound DEF b

\* A pane in hand that no zoom names.
Aloof(a, p) == \A u \in Tab : a.zoom[u] # p

\* Of the panes only one has moved, to a tab or out of every one.
Moves(own, new, p, t) == \A q \in Pane : new[q] = IF q = p THEN t ELSE own[q]

\* A pane in hand gets a tab of its own.
LEMMA OpenedOK ==
  ASSUME NEW a, NEW own, NEW up, NEW new \in Pane, Sound(a, own, up, {new}), Aloof(a, new),
         NEW t \in Tab, t \notin Tabs(a), a.tabs # <<>>
  PROVE  LET b == Opened(a, new, t)
         IN /\ b.tabs = Append(a.tabs, t) /\ b.cur = a.cur /\ b.live = a.live /\ Tabs(b) = Tabs(a) \cup {t}
            /\ \E own2 : Sound(b, own2, up, {}) /\ Moves(own, own2, new, t)
<1> DEFINE b == Opened(a, new, t)
           own2 == [own EXCEPT ![new] = t]
<1>1. /\ IsRec(b) /\ b.floats = a.floats /\ b.tabs = Append(a.tabs, t) /\ b.cur = a.cur
      /\ b.root = [a.root EXCEPT ![t] = new]
      /\ b.focus = [a.focus EXCEPT ![t] = new] /\ b.zoom = a.zoom /\ b.live = a.live
      /\ b.parent = a.parent
      /\ b.kids = a.kids /\ b.dir = a.dir /\ b.mini = a.mini /\ b.quit = a.quit
  BY DEF Opened, Sound, IsRec, Fields
<1> HIDE DEF b
<1>2. Typed(b)
  BY <1>1 DEF Sound, Typed, Node
<1>3. Tabs(b) = Tabs(a) \cup {t} /\ IsInjective(b.tabs) /\ Len(b.tabs) = Len(a.tabs) + 1
  <2>1. a.tabs \in Seq(Tab) /\ IsInjective(a.tabs) /\ t \notin ToSet(a.tabs)
    BY DEF Sound, Typed, Homes, Tabs
  <2>2. Append(a.tabs, t) = InsertAt(a.tabs, Len(a.tabs) + 1, t)
    <3>1. SubSeq(a.tabs, 1, Len(a.tabs)) = a.tabs /\ SubSeq(a.tabs, Len(a.tabs) + 1, Len(a.tabs)) = <<>>
      BY <2>1
    <3>2. (Len(a.tabs) + 1) - 1 = Len(a.tabs)
      BY <2>1
    <3>3. Append(a.tabs, t) = a.tabs \o <<t>> /\ (a.tabs \o <<t>>) \o <<>> = a.tabs \o <<t>>
      BY <2>1
    <3> QED BY <3>1, <3>2, <3>3 DEF InsertAt
  <2>3. Len(a.tabs) + 1 \in 1..Len(a.tabs) + 1
    BY <2>1
  <2> QED BY <1>1, <2>1, <2>2, <2>3, InsertOK DEF Tabs
<1>4. /\ t # Nil /\ new \in Node /\ own[new] = Nil /\ a.parent[new] = Nil
      /\ own \in [Node -> Tab \cup {Nil}] /\ new \notin Split
  BY LayoutAssumption DEF LayoutAssumption, Sound, Owned, Upward, Node
<1>5. own2 \in [Node -> Tab \cup {Nil}] /\ \A n \in Node : own2[n] = IF n = new THEN t ELSE own[n]
  BY <1>4
<1>6. \A n \in Node : own[n] # t
  BY <1>4 DEF Sound, Owned
<1> HIDE DEF own2
<1>7. Owned(b, own2, {})
  BY <1>1, <1>3, <1>4, <1>5 DEF Sound, Owned
<1>8. Upward(b, own2, up)
  <2> SUFFICES ASSUME NEW n \in Node
               PROVE  /\ b.parent[n] = Nil /\ own2[n] # Nil => b.root[own2[n]] = n
                      /\ b.parent[n] # Nil => /\ own2[n] # Nil /\ own2[b.parent[n]] = own2[n]
                                              /\ up[b.parent[n]] < up[n]
                                              /\ n \in ToSet(b.kids[b.parent[n]])
    BY DEF Upward
  <2>1. CASE n = new
    BY <1>1, <1>4, <1>5, <2>1 DEF Sound, Typed
  <2>2. CASE n # new
    <3>1. own2[n] = own[n] /\ b.parent[n] = a.parent[n]
      BY <1>1, <1>5, <2>2
    <3>2. ASSUME a.parent[n] = Nil, own[n] # Nil PROVE b.root[own[n]] = n
      BY <1>1, <1>4, <1>6, <3>2 DEF Sound, Upward, Typed
    <3>3. ASSUME a.parent[n] # Nil
          PROVE  /\ own[n] # Nil /\ own2[a.parent[n]] = own[n] /\ up[a.parent[n]] < up[n]
                 /\ n \in ToSet(b.kids[a.parent[n]])
      <4>1. a.parent[n] \in Split /\ own[n] # Nil /\ own[a.parent[n]] = own[n]
            /\ up[a.parent[n]] < up[n] /\ n \in ToSet(a.kids[a.parent[n]])
        BY <3>3 DEF Sound, Upward, Typed
      <4> QED BY <1>1, <1>4, <1>5, <4>1 DEF Node
    <3> QED BY <3>1, <3>2, <3>3
  <2> QED BY <2>1, <2>2
<1>9. Downward(b, own2)
  <2>1. \A s \in Split : own2[s] = own[s]
    BY <1>4, <1>5 DEF Node
  <2> QED BY <1>1, <2>1 DEF Sound, Downward
<1>10. Homes(b, own2)
  <2>1. ASSUME NEW u \in Tabs(b)
        PROVE  /\ b.root[u] \in Node /\ own2[b.root[u]] = u /\ b.parent[b.root[u]] = Nil
               /\ b.focus[u] \in Pane /\ own2[b.focus[u]] = u
    <3>1. CASE u = t
      BY <1>1, <1>4, <1>5, <3>1 DEF Sound, Typed
    <3>2. CASE u # t
      <4>1. u \in Tabs(a) /\ u \in Tab /\ u # Nil
        BY <1>3, <2>1, <3>2, LeavesOK
      <4>2. b.root[u] = a.root[u] /\ b.focus[u] = a.focus[u]
        BY <1>1, <3>2, <4>1 DEF Sound, Typed
      <4>3. a.root[u] # new /\ a.focus[u] # new
        BY <1>4, <4>1 DEF Sound, Homes
      <4> QED BY <1>1, <1>5, <4>1, <4>2, <4>3 DEF Sound, Homes, Node
    <3> QED BY <3>1, <3>2
  <2>2. ASSUME NEW u \in Tab \ Tabs(b) PROVE b.root[u] = Nil /\ b.focus[u] = Nil /\ b.zoom[u] = Nil
    BY <1>1, <1>3, <2>2 DEF Sound, Typed, Homes
  <2>3. ASSUME NEW u \in Tab, b.zoom[u] # Nil, own2[b.zoom[u]] # Nil PROVE own2[b.zoom[u]] = u
    <3>1. b.zoom[u] = a.zoom[u] /\ b.zoom[u] \in Node /\ b.zoom[u] # new
      BY <1>1, <1>2, <2>3 DEF Typed, Node, Aloof
    <3> QED BY <1>5, <2>3, <3>1 DEF Sound, Homes
  <2> QED BY <1>3, <2>1, <2>2, <2>3 DEF Homes
<1>11. View(b)
  <2>1. a.cur \in 1..Len(a.tabs) /\ a.tabs \in Seq(Tab)
    BY DEF Sound, View, Typed
  <2>2. b.tabs # <<>> /\ b.cur \in DOMAIN b.tabs
    BY <1>1, <1>3, <2>1
  <2> QED BY <2>2 DEF View
<1>12. Sound(b, own2, up, {})
  BY <1>1, <1>2, <1>7, <1>8, <1>9, <1>10, <1>11 DEF Sound
<1>13. Moves(own, own2, new, t)
  BY <1>5 DEF Moves, Node
<1> QED BY <1>1, <1>3, <1>12, <1>13 DEF b

\* A pane in hand joins the row its neighbour is in.
LEMMA JoinedOK ==
  ASSUME NEW a, NEW own, NEW up, NEW node \in Pane, Sound(a, own, up, {node}), Aloof(a, node),
         NEW leaf \in Pane, NEW t \in Tab, own[leaf] = t, NEW d, NEW before \in BOOLEAN,
         a.parent[leaf] # Nil, a.dir[a.parent[leaf]] = d
  PROVE  LET b == Placed(a, t, leaf, node, d, before)
         IN /\ b.tabs = a.tabs /\ b.cur = a.cur /\ b.focus = a.focus /\ b.live = a.live
            /\ \E own2, up2 : Sound(b, own2, up2, {}) /\ Moves(own, own2, node, t)
<1> DEFINE p == a.parent[leaf]
           at == IndexOf(a.kids[p], leaf)
           seat == IF before THEN at ELSE at + 1
           row == InsertAt(a.kids[p], seat, node)
           b == Placed(a, t, leaf, node, d, before)
           own2 == [own EXCEPT ![node] = t]
           up2 == [up EXCEPT ![node] = up[leaf]]
<1>1. b = [[a EXCEPT !.zoom[t] = Nil] EXCEPT !.parent[node] = p, !.kids[p] = InsertAt(@, seat, node)]
  BY DEF Placed
<1> HIDE DEF b
<1>2. /\ IsRec(b) /\ b.floats = a.floats /\ b.tabs = a.tabs /\ b.cur = a.cur /\ b.root = a.root
      /\ b.focus = a.focus /\ b.zoom = [a.zoom EXCEPT ![t] = Nil] /\ b.live = a.live
      /\ b.parent = [a.parent EXCEPT ![node] = p]
      /\ b.kids = [a.kids EXCEPT ![p] = row] /\ b.dir = a.dir /\ b.mini = a.mini /\ b.quit = a.quit
  <2> HIDE DEF seat, p
  <2> QED BY <1>1 DEF Sound, IsRec, Fields
<1>3. /\ node \in Node /\ own[node] = Nil /\ a.parent[node] = Nil /\ node \notin Split
      /\ leaf \in Node /\ t # Nil /\ leaf # node /\ t \in Tabs(a) /\ leaf \notin Split
  BY LayoutAssumption DEF LayoutAssumption, Sound, Owned, Upward, Node
<1>4. /\ p \in Split /\ p # Nil /\ p \in Node /\ own[p] = t /\ leaf \in ToSet(a.kids[p])
      /\ up[p] < up[leaf] /\ up[p] \in Nat /\ up[leaf] \in Nat
  BY <1>3, LayoutAssumption DEF LayoutAssumption, Sound, Typed, Upward, Node, Depths
<1> HIDE DEF p
<1>5. /\ row \in Seq(Node) /\ Len(row) >= 2 /\ ToSet(row) = ToSet(a.kids[p]) \cup {node}
      /\ IsInjective(row)
  <2>1. a.kids[p] \in Seq(Node) /\ Len(a.kids[p]) >= 2 /\ IsInjective(a.kids[p])
    BY <1>3, <1>4 DEF Sound, Typed, Downward
  <2>2. at \in 1..Len(a.kids[p])
    BY <1>4, <2>1, IndexOK
  <2> HIDE DEF at
  <2>3. seat \in 1..Len(a.kids[p]) + 1
    BY <2>1, <2>2
  <2>4. node \notin ToSet(a.kids[p])
    BY <1>3, <1>4, KidsOK
  <2> HIDE DEF seat
  <2> QED BY <1>3, <2>1, <2>3, <2>4, InsertOK
<1> HIDE DEF row
<1>6. Typed(b)
  BY <1>2, <1>4, <1>5 DEF Sound, Typed
<1>7. /\ own2 \in [Node -> Tab \cup {Nil}] /\ \A n \in Node : own2[n] = IF n = node THEN t ELSE own[n]
      /\ up2 \in [Node -> Nat] /\ \A n \in Node : up2[n] = IF n = node THEN up[leaf] ELSE up[n]
  BY <1>3, <1>4 DEF Sound, Owned, Depths
<1> HIDE DEF own2, up2
<1>8. Depths(up2)
  <2>1. PICK N \in Nat : \A n \in Node : up[n] <= N
    BY DEF Sound, Depths
  <2>2. \A n \in Node : up2[n] <= N
    BY <1>3, <1>7, <2>1
  <2> QED BY <1>7, <2>2 DEF Depths
<1>9. Tabs(b) = Tabs(a)
  BY <1>2 DEF Tabs
<1>10. Owned(b, own2, {})
  BY <1>2, <1>3, <1>7, <1>9 DEF Sound, Owned
<1>11. \A s \in Split : b.kids[s] = IF s = p THEN row ELSE a.kids[s]
  BY <1>2, <1>4 DEF Sound, Typed
<1>12. \A n \in Node : b.parent[n] = IF n = node THEN p ELSE a.parent[n]
  BY <1>2, <1>3 DEF Sound, Typed
<1>13. Upward(b, own2, up2)
  <2> SUFFICES ASSUME NEW n \in Node
               PROVE  /\ b.parent[n] = Nil /\ own2[n] # Nil => b.root[own2[n]] = n
                      /\ b.parent[n] # Nil => /\ own2[n] # Nil /\ own2[b.parent[n]] = own2[n]
                                              /\ up2[b.parent[n]] < up2[n]
                                              /\ n \in ToSet(b.kids[b.parent[n]])
    BY DEF Upward
  <2>1. CASE n = node
    BY <1>3, <1>4, <1>5, <1>7, <1>11, <1>12, <2>1
  <2>2. CASE n # node
    <3>1. own2[n] = own[n] /\ b.parent[n] = a.parent[n] /\ up2[n] = up[n]
      BY <1>7, <1>12, <2>2
    <3>2. ASSUME a.parent[n] = Nil, own[n] # Nil PROVE b.root[own[n]] = n
      BY <1>2, <3>2 DEF Sound, Upward
    <3>3. ASSUME a.parent[n] # Nil
          PROVE  /\ own[n] # Nil /\ own2[a.parent[n]] = own[n] /\ up2[a.parent[n]] < up[n]
                 /\ n \in ToSet(b.kids[a.parent[n]])
      <4>1. a.parent[n] \in Split /\ own[n] # Nil /\ own[a.parent[n]] = own[n]
            /\ up[a.parent[n]] < up[n] /\ n \in ToSet(a.kids[a.parent[n]])
        BY <3>3 DEF Sound, Upward, Typed
      <4>2. a.parent[n] # node /\ a.parent[n] \in Node
        BY <1>3, <4>1 DEF Node
      <4> QED BY <1>5, <1>7, <1>11, <4>1, <4>2
    <3> QED BY <3>1, <3>2, <3>3
  <2> QED BY <2>1, <2>2
<1>14. Downward(b, own2)
  <2> SUFFICES ASSUME NEW s \in Split
               PROVE  /\ own2[s] = Nil => b.kids[s] = <<>>
                      /\ own2[s] # Nil => /\ Len(b.kids[s]) >= 2 /\ IsInjective(b.kids[s])
                                          /\ \A k \in ToSet(b.kids[s]) : b.parent[k] = s
    BY DEF Downward
  <2>1. own2[s] = own[s]
    BY <1>3, <1>7 DEF Node
  <2>2. ASSUME NEW x \in ToSet(a.kids[s]) PROVE b.parent[x] = s
    <3>1. x \in Node /\ a.parent[x] = s /\ x # node
      BY <1>3, KidsOK
    <3> QED BY <1>12, <3>1
  <2>3. CASE s = p
    BY <1>3, <1>4, <1>5, <1>11, <1>12, <2>1, <2>2, <2>3
  <2>4. CASE s # p
    BY <1>11, <2>1, <2>2, <2>4 DEF Sound, Downward
  <2> QED BY <2>3, <2>4
<1>15. Homes(b, own2)
  <2>1. ASSUME NEW u \in Tabs(b)
        PROVE  /\ b.root[u] \in Node /\ own2[b.root[u]] = u /\ b.parent[b.root[u]] = Nil
               /\ b.focus[u] \in Pane /\ own2[b.focus[u]] = u
    <3>1. u \in Tabs(a) /\ u # Nil
      BY <1>9, LeavesOK
    <3>2. /\ a.root[u] \in Node /\ own[a.root[u]] = u /\ a.parent[a.root[u]] = Nil
          /\ a.focus[u] \in Pane /\ own[a.focus[u]] = u
      BY <3>1 DEF Sound, Homes
    <3>3. a.root[u] # node /\ a.focus[u] # node
      BY <1>3, <3>1, <3>2
    <3> QED BY <1>2, <1>7, <1>12, <3>2, <3>3 DEF Node
  <2>2. ASSUME NEW u \in Tab \ Tabs(b) PROVE b.root[u] = Nil /\ b.focus[u] = Nil /\ b.zoom[u] = Nil
    BY <1>2, <1>9, <2>2 DEF Sound, Typed, Homes
  <2>3. ASSUME NEW u \in Tab, b.zoom[u] # Nil, own2[b.zoom[u]] # Nil PROVE own2[b.zoom[u]] = u
    <3>1. b.zoom[u] = a.zoom[u] /\ b.zoom[u] \in Node /\ b.zoom[u] # node
      BY <1>2, <1>6, <2>3 DEF Sound, Typed, Node, Aloof
    <3> QED BY <1>7, <2>3, <3>1 DEF Sound, Homes
  <2> QED BY <1>2, <2>1, <2>2, <2>3 DEF Sound, Homes
<1>16. View(b)
  BY <1>2 DEF Sound, View
<1>17. Sound(b, own2, up2, {})
  BY <1>2, <1>6, <1>8, <1>10, <1>13, <1>14, <1>15, <1>16 DEF Sound
<1>18. Moves(own, own2, node, t)
  BY <1>7 DEF Moves, Node
<1> QED BY <1>2, <1>17, <1>18 DEF b

\* A pane in hand and its neighbour become the children of a new split.
LEMMA GrownOK ==
  ASSUME NEW a, NEW own, NEW up, NEW node \in Pane, Sound(a, own, up, {node}), Aloof(a, node),
         NEW leaf \in Pane, NEW t \in Tab, own[leaf] = t, NEW d \in Dirs, NEW before \in BOOLEAN,
         ~(a.parent[leaf] # Nil /\ a.dir[a.parent[leaf]] = d)
  PROVE  LET b == Placed(a, t, leaf, node, d, before)
         IN /\ b.tabs = a.tabs /\ b.cur = a.cur /\ b.focus = a.focus
            /\ b.live \cap Pane = a.live \cap Pane
            /\ \E own2, up2 : Sound(b, own2, up2, {}) /\ Moves(own, own2, node, t)
<1> DEFINE p == a.parent[leaf]
           s == Allocated(a)
           pair == IF before THEN <<node, leaf>> ELSE <<leaf, node>>
           row == ReplaceAll(a.kids[p], leaf, s)
           b == Placed(a, t, leaf, node, d, before)
           shown == [a EXCEPT !.zoom[t] = Nil]
           hung == [shown EXCEPT !.parent[s] = p,
                      !.root[t] = IF p = Nil THEN s ELSE @,
                      !.kids = [x \in Split |-> IF x = p THEN ReplaceAll(@[x], leaf, s) ELSE @[x]]]
           own2 == [n \in Node |-> IF n \in {node, s} THEN t ELSE own[n]]
           up2 == [n \in Node |-> IF n = s THEN up[leaf]
                                  ELSE IF n \in {leaf, node} THEN up[leaf] + 1 ELSE up[n]]
<1>1. /\ node \in Node /\ own[node] = Nil /\ a.parent[node] = Nil /\ node \notin Split
      /\ leaf \in Node /\ t # Nil /\ leaf # node /\ t \in Tabs(a) /\ leaf \notin Split
      /\ up[leaf] \in Nat /\ leaf \in a.live /\ node \in a.live
  BY LayoutAssumption DEF LayoutAssumption, Sound, Owned, Upward, Node, Depths
<1>2. /\ s \in Split /\ s \notin a.live /\ s \in Node /\ s # Nil /\ s # leaf /\ s # node
      /\ own[s] = Nil /\ a.parent[s] = Nil /\ a.kids[s] = <<>>
  <2>1. a.tabs # <<>>
    BY <1>1, PlaceOK DEF Sound
  <2>2. s \in Split /\ s \notin a.live
    BY <2>1, AllocOK
  <2> HIDE DEF s
  <2> QED BY <1>1, <2>2, LayoutAssumption DEF LayoutAssumption, Sound, Owned, Upward, Downward, Node
<1>3. /\ p \in Split \cup {Nil} /\ p # s
      /\ p # Nil => /\ p \in Node /\ own[p] = t /\ leaf \in ToSet(a.kids[p])
                    /\ up[p] < up[leaf] /\ up[p] \in Nat
  <2> HIDE DEF s
  <2> QED BY <1>1, <1>2 DEF Sound, Typed, Upward, Node, Depths
<1>4. b = [hung EXCEPT !.live = @ \cup {s}, !.dir[s] = d, !.kids[s] = pair,
             !.parent[leaf] = s, !.parent[node] = s]
  <2>1. shown.parent = a.parent
    BY DEF Sound, IsRec, Fields
  <2>2. hung = Replaced(shown, t, leaf, s)
    <3> HIDE DEF shown, s
    <3> QED BY <2>1 DEF Replaced
  <2> HIDE DEF hung, s, pair
  <2> QED BY <2>2 DEF Placed, s, pair
<1> HIDE DEF b, s, p, pair
<1>5. /\ IsRec(shown) /\ shown.floats = a.floats /\ shown.tabs = a.tabs /\ shown.cur = a.cur
      /\ shown.root = a.root /\ shown.focus = a.focus /\ shown.zoom = [a.zoom EXCEPT ![t] = Nil]
      /\ shown.live = a.live /\ shown.parent = a.parent
      /\ shown.kids = a.kids /\ shown.dir = a.dir /\ shown.mini = a.mini /\ shown.quit = a.quit
  BY DEF Sound, IsRec, Fields
<1> HIDE DEF shown
<1>6. /\ IsRec(hung) /\ hung.floats = a.floats /\ hung.tabs = a.tabs /\ hung.cur = a.cur
      /\ hung.root = [a.root EXCEPT ![t] = IF p = Nil THEN s ELSE @] /\ hung.focus = a.focus
      /\ hung.zoom = [a.zoom EXCEPT ![t] = Nil]
      /\ hung.live = a.live /\ hung.parent = [a.parent EXCEPT ![s] = p]
      /\ hung.kids = [x \in Split |-> IF x = p THEN ReplaceAll(a.kids[x], leaf, s) ELSE a.kids[x]]
      /\ hung.dir = a.dir /\ hung.mini = a.mini /\ hung.quit = a.quit
  BY <1>5 DEF IsRec, Fields
<1> HIDE DEF hung
<1>7. /\ IsRec(b) /\ b.floats = a.floats /\ b.tabs = a.tabs /\ b.cur = a.cur
      /\ b.root = hung.root /\ b.focus = a.focus /\ b.zoom = hung.zoom
      /\ b.live = a.live \cup {s} /\ b.parent = [[hung.parent EXCEPT ![leaf] = s] EXCEPT ![node] = s]
      /\ b.kids = [hung.kids EXCEPT ![s] = pair]
      /\ b.dir = [a.dir EXCEPT ![s] = d] /\ b.mini = a.mini /\ b.quit = a.quit
  BY <1>4, <1>6 DEF IsRec, Fields
<1>8. pair \in Seq(Node) /\ Len(pair) >= 2 /\ IsInjective(pair) /\ ToSet(pair) = {leaf, node}
  <2>1. pair \in Seq(Node) /\ Len(pair) = 2 /\ {pair[1], pair[2]} = {leaf, node} /\ pair[1] # pair[2]
    BY <1>1 DEF pair
  <2>2. \A i : i \in 1..Len(pair) <=> i = 1 \/ i = 2
    BY <2>1
  <2> HIDE DEF pair
  <2>3. IsInjective(pair)
    <3>1. \A i, j \in 1..Len(pair) : pair[i] = pair[j] => i = j
      BY <2>1, <2>2
    <3> QED BY <2>1, <3>1, Members
  <2>4. \A e : e \in ToSet(pair) <=> e \in {leaf, node}
    <3>1. \A e : e \in ToSet(pair) <=> \E i \in 1..Len(pair) : pair[i] = e
      BY <2>1, Members
    <3>2. \A e : (\E i \in 1..Len(pair) : pair[i] = e) <=> e = pair[1] \/ e = pair[2]
      BY <2>2
    <3>3. \A e : e = pair[1] \/ e = pair[2] <=> e \in {leaf, node}
      BY <2>1
    <3> QED BY <3>1, <3>2, <3>3
  <2> QED BY <2>1, <2>3, <2>4
<1>9. p # Nil => /\ row \in Seq(Node) /\ Len(row) >= 2 /\ IsInjective(row)
                 /\ ToSet(row) = (ToSet(a.kids[p]) \ {leaf}) \cup {s}
  <2> SUFFICES ASSUME p # Nil
               PROVE  /\ row \in Seq(Node) /\ Len(row) >= 2 /\ IsInjective(row)
                      /\ ToSet(row) = (ToSet(a.kids[p]) \ {leaf}) \cup {s}
    OBVIOUS
  <2>1. a.kids[p] \in Seq(Node) /\ Len(a.kids[p]) >= 2 /\ IsInjective(a.kids[p])
    BY <1>1, <1>3 DEF Sound, Typed, Downward
  <2>2. s \notin ToSet(a.kids[p])
    BY <1>1, <1>2, <1>3, KidsOK
  <2> QED BY <1>2, <1>3, <2>1, <2>2, ReplaceOK
<1>10. \A x \in Split : b.kids[x] = IF x = s THEN pair ELSE IF x = p THEN row ELSE a.kids[x]
  BY <1>2, <1>6, <1>7
<1> HIDE DEF row
<1>11. \A n \in Node : b.parent[n] = IF n \in {leaf, node} THEN s ELSE IF n = s THEN p ELSE a.parent[n]
  BY <1>1, <1>2, <1>6, <1>7 DEF Sound, Typed
<1>12. \A u \in Tab : b.root[u] = IF u = t /\ p = Nil THEN s ELSE a.root[u]
  BY <1>6, <1>7 DEF Sound, Typed
<1>13. Typed(b)
  <2>1. b.kids \in [Split -> Seq(Node)]
    <3>1. \A x \in Split : b.kids[x] \in Seq(Node)
      <4> TAKE x \in Split
      <4>1. a.kids[x] \in Seq(Node)
        BY DEF Sound, Typed
      <4>2. x = p => p # Nil
        BY LayoutAssumption DEF LayoutAssumption, Node
      <4> QED BY <1>8, <1>9, <1>10, <4>1, <4>2
    <3>2. b.kids = [x \in Split |-> b.kids[x]]
      BY <1>6, <1>7
    <3> QED BY <3>1, <3>2
  <2>2. b.parent \in [Node -> Split \cup {Nil}]
    <3>1. hung.parent = [a.parent EXCEPT ![s] = p]
          /\ b.parent = [[hung.parent EXCEPT ![leaf] = s] EXCEPT ![node] = s]
      BY <1>6, <1>7
    <3>2. a.parent \in [Node -> Split \cup {Nil}]
      BY DEF Sound, Typed
    <3>3. hung.parent \in [Node -> Split \cup {Nil}]
      BY <1>3, <3>1, <3>2
    <3> QED BY <1>2, <3>1, <3>3
  <2>3. b.root \in [Tab -> Node \cup {Nil}] /\ b.zoom \in [Tab -> Pane \cup {Nil}]
    BY <1>2, <1>6, <1>7 DEF Sound, Typed
  <2>4. b.dir \in [Split -> Dirs] /\ b.live \in SUBSET Node
    BY <1>2, <1>7 DEF Sound, Typed
  <2> QED BY <1>7, <2>1, <2>2, <2>3, <2>4 DEF Sound, Typed
<1>14. /\ own2 \in [Node -> Tab \cup {Nil}]
       /\ \A n \in Node : own2[n] = IF n \in {node, s} THEN t ELSE own[n]
       /\ up2 \in [Node -> Nat]
       /\ \A n \in Node : up2[n] = IF n = s THEN up[leaf]
                                   ELSE IF n \in {leaf, node} THEN up[leaf] + 1 ELSE up[n]
  BY <1>1 DEF Sound, Owned, Depths
<1> HIDE DEF own2, up2
<1>15. Depths(up2)
  <2>1. PICK N \in Nat : \A n \in Node : up[n] <= N
    BY DEF Sound, Depths
  <2>2. \A n \in Node : up[n] \in Nat
    BY DEF Sound, Depths
  <2>3. \A n \in Node : up2[n] <= N + 1
    BY <1>1, <1>14, <2>1, <2>2
  <2> QED BY <1>14, <2>3 DEF Depths
<1>16. Tabs(b) = Tabs(a)
  BY <1>7 DEF Tabs
<1>17. Owned(b, own2, {})
  BY <1>1, <1>2, <1>7, <1>14, <1>16 DEF Sound, Owned
<1>18. Upward(b, own2, up2)
  <2> SUFFICES ASSUME NEW n \in Node
               PROVE  /\ b.parent[n] = Nil /\ own2[n] # Nil => b.root[own2[n]] = n
                      /\ b.parent[n] # Nil => /\ own2[n] # Nil /\ own2[b.parent[n]] = own2[n]
                                              /\ up2[b.parent[n]] < up2[n]
                                              /\ n \in ToSet(b.kids[b.parent[n]])
    BY DEF Upward
  <2>1. CASE n \in {leaf, node}
    <3>1. b.parent[n] = s /\ own2[n] = t /\ own2[s] = t /\ up2[s] = up[leaf] /\ up2[n] = up[leaf] + 1
      BY <1>1, <1>2, <1>11, <1>14, <2>1
    <3>2. b.kids[s] = pair
      BY <1>2, <1>10
    <3> QED BY <1>1, <1>2, <1>8, <2>1, <3>1, <3>2
  <2>2. CASE n = s
    <3>1. b.parent[n] = p /\ own2[n] = t /\ up2[n] = up[leaf]
      BY <1>1, <1>2, <1>11, <1>14, <2>2
    <3>2. CASE p = Nil
      BY <1>1, <1>12, <2>2, <3>1, <3>2
    <3>3. CASE p # Nil
      <4>1. own2[p] = t /\ up2[p] = up[p] /\ b.kids[p] = row
        BY <1>1, <1>3, <1>10, <1>14, <3>3
      <4> QED BY <1>1, <1>3, <1>9, <2>2, <3>1, <3>3, <4>1
    <3> QED BY <3>2, <3>3
  <2>3. CASE n \notin {leaf, node, s}
    <3>1. own2[n] = own[n] /\ b.parent[n] = a.parent[n] /\ up2[n] = up[n]
      BY <1>11, <1>14, <2>3
    <3>2. ASSUME a.parent[n] = Nil, own[n] # Nil PROVE b.root[own[n]] = n
      <4>1. a.root[own[n]] = n /\ own[n] \in Tab
        BY <3>2 DEF Sound, Upward, Owned
      <4>2. ~(own[n] = t /\ p = Nil)
        <5> SUFFICES ASSUME own[n] = t, p = Nil PROVE FALSE
          OBVIOUS
        <5>1. a.root[t] = leaf
          BY <1>1 DEF Sound, Upward, p
        <5> QED BY <2>3, <4>1, <5>1
      <4> QED BY <1>12, <4>1, <4>2
    <3>3. ASSUME a.parent[n] # Nil
          PROVE  /\ own[n] # Nil /\ own2[a.parent[n]] = own[n] /\ up2[a.parent[n]] < up[n]
                 /\ n \in ToSet(b.kids[a.parent[n]])
      <4>1. a.parent[n] \in Split /\ own[n] # Nil /\ own[a.parent[n]] = own[n]
            /\ up[a.parent[n]] < up[n] /\ n \in ToSet(a.kids[a.parent[n]])
        BY <3>3 DEF Sound, Upward, Typed
      <4>2. a.parent[n] \notin {leaf, node, s} /\ a.parent[n] \in Node
        BY <1>1, <1>2, <4>1 DEF Node
      <4>3. own2[a.parent[n]] = own[n] /\ up2[a.parent[n]] = up[a.parent[n]]
        BY <1>14, <4>1, <4>2
      <4>4. b.kids[a.parent[n]] = IF a.parent[n] = p THEN row ELSE a.kids[a.parent[n]]
        BY <1>10, <4>1, <4>2
      <4>5. n \in ToSet(b.kids[a.parent[n]])
        BY <1>9, <2>3, <3>3, <4>1, <4>4
      <4> QED BY <4>1, <4>3, <4>5
    <3> QED BY <3>1, <3>2, <3>3
  <2> QED BY <2>1, <2>2, <2>3
<1>19. Downward(b, own2)
  <2> SUFFICES ASSUME NEW x \in Split
               PROVE  /\ own2[x] = Nil => b.kids[x] = <<>>
                      /\ own2[x] # Nil => /\ Len(b.kids[x]) >= 2 /\ IsInjective(b.kids[x])
                                          /\ \A k \in ToSet(b.kids[x]) : b.parent[k] = x
    BY DEF Downward
  <2>0. x \in Node /\ x \notin {leaf, node}
    BY <1>1 DEF Node
  <2>1. CASE x = s
    <3>1. own2[x] = t /\ b.kids[x] = pair
      BY <1>2, <1>10, <1>14, <2>1
    <3> QED BY <1>1, <1>8, <1>11, <2>1, <3>1
  <2>2. CASE x # s
    <3>1. own2[x] = own[x]
      BY <1>14, <2>0, <2>2
    <3>2. ASSUME NEW k \in ToSet(a.kids[x]), k # leaf PROVE b.parent[k] = x
      <4>1. k \in Node /\ a.parent[k] = x /\ own[k] # Nil
        BY KidsOK
      <4> QED BY <1>1, <1>2, <1>11, <3>2, <4>1
    <3>3. CASE x = p
      <4>1. p # Nil /\ b.kids[x] = row
        BY <1>10, <2>2, <3>3, LayoutAssumption DEF LayoutAssumption, Node
      <4>2. own[x] = t
        BY <1>3, <3>3, <4>1
      <4>3. ASSUME NEW k \in ToSet(row) PROVE b.parent[k] = x
        <5>1. CASE k = s
          BY <1>2, <1>11, <3>3, <5>1
        <5>2. CASE k # s
          BY <1>9, <3>2, <3>3, <4>1, <5>2
        <5> QED BY <5>1, <5>2
      <4> QED BY <1>1, <1>9, <3>1, <4>1, <4>2, <4>3
    <3>4. CASE x # p
      <4>1. b.kids[x] = a.kids[x]
        BY <1>10, <2>2, <3>4
      <4>2. leaf \notin ToSet(a.kids[x])
        BY <3>4, KidsOK DEF p
      <4> QED BY <3>1, <3>2, <4>1, <4>2 DEF Sound, Downward
    <3> QED BY <3>3, <3>4
  <2> QED BY <2>1, <2>2
<1>20. Homes(b, own2)
  <2>1. ASSUME NEW u \in Tabs(b)
        PROVE  /\ b.root[u] \in Node /\ own2[b.root[u]] = u /\ b.parent[b.root[u]] = Nil
               /\ b.focus[u] \in Pane /\ own2[b.focus[u]] = u
    <3>1. u \in Tabs(a) /\ u # Nil /\ u \in Tab
      BY <1>16, LeavesOK
    <3>2. /\ a.root[u] \in Node /\ own[a.root[u]] = u /\ a.parent[a.root[u]] = Nil
          /\ a.focus[u] \in Pane /\ own[a.focus[u]] = u
      BY <3>1 DEF Sound, Homes
    <3>3. a.root[u] \notin {node, s} /\ a.focus[u] \notin {node, s}
      BY <1>1, <1>2, <3>1, <3>2
    <3>4. own2[b.focus[u]] = u
      BY <1>7, <1>14, <3>2, <3>3 DEF Node
    <3>5. CASE u = t /\ p = Nil
      <4>1. b.root[u] = s
        BY <1>12, <3>1, <3>5
      <4>2. b.parent[s] = Nil /\ own2[s] = t
        BY <1>2, <1>11, <1>14, <3>5
      <4> QED BY <1>2, <1>7, <3>2, <3>4, <3>5, <4>1, <4>2
    <3>6. CASE ~(u = t /\ p = Nil)
      <4>1. b.root[u] = a.root[u]
        BY <1>12, <3>1, <3>6
      <4>2. a.root[u] # leaf
        BY <1>1, <3>2, <3>6 DEF p
      <4>3. b.parent[a.root[u]] = Nil /\ own2[a.root[u]] = u
        BY <1>11, <1>14, <3>2, <3>3, <4>2
      <4> QED BY <1>7, <3>2, <3>4, <4>1, <4>3
    <3> QED BY <3>5, <3>6
  <2>2. ASSUME NEW u \in Tab \ Tabs(b) PROVE b.root[u] = Nil /\ b.focus[u] = Nil /\ b.zoom[u] = Nil
    <3>1. u # t /\ u \notin Tabs(a)
      BY <1>1, <1>16, <2>2
    <3>2. a.root[u] = Nil /\ a.focus[u] = Nil /\ a.zoom[u] = Nil
      BY <3>1 DEF Sound, Homes
    <3>3. b.zoom[u] = a.zoom[u]
      BY <1>6, <1>7, <3>1 DEF Sound, Typed
    <3> QED BY <1>7, <1>12, <3>1, <3>2, <3>3
  <2>3. ASSUME NEW u \in Tab, b.zoom[u] # Nil, own2[b.zoom[u]] # Nil PROVE own2[b.zoom[u]] = u
    <3>1. b.zoom[u] = a.zoom[u] /\ b.zoom[u] \in Pane /\ b.zoom[u] # node
      BY <1>6, <1>7, <1>13, <2>3 DEF Sound, Typed, Aloof
    <3>2. b.zoom[u] \in Node /\ b.zoom[u] # s
      BY <1>2, <3>1, LayoutAssumption DEF LayoutAssumption, Node
    <3> QED BY <1>14, <2>3, <3>1, <3>2 DEF Sound, Homes
  <2> QED BY <1>7, <2>1, <2>2, <2>3 DEF Sound, Homes
<1>21. View(b)
  BY <1>7 DEF Sound, View
<1>22. Sound(b, own2, up2, {})
  BY <1>7, <1>13, <1>15, <1>17, <1>18, <1>19, <1>20, <1>21 DEF Sound
<1>23. Moves(own, own2, node, t)
  BY <1>2, <1>14, LayoutAssumption DEF Moves, Node, LayoutAssumption
<1>24. b.live \cap Pane = a.live \cap Pane
  BY <1>2, <1>7, LayoutAssumption DEF LayoutAssumption
<1> QED BY <1>7, <1>22, <1>23, <1>24 DEF b

\* Either way.
LEMMA PlacedOK ==
  ASSUME NEW a, NEW own, NEW up, NEW node \in Pane, Sound(a, own, up, {node}), Aloof(a, node),
         NEW leaf \in Pane, NEW t \in Tab, own[leaf] = t, NEW d \in Dirs, NEW before \in BOOLEAN
  PROVE  LET b == Placed(a, t, leaf, node, d, before)
         IN /\ b.tabs = a.tabs /\ b.cur = a.cur /\ b.focus = a.focus
            /\ b.live \cap Pane = a.live \cap Pane
            /\ \E own2, up2 : Sound(b, own2, up2, {}) /\ Moves(own, own2, node, t)
<1>1. CASE a.parent[leaf] # Nil /\ a.dir[a.parent[leaf]] = d
  BY <1>1, JoinedOK
<1>2. CASE ~(a.parent[leaf] # Nil /\ a.dir[a.parent[leaf]] = d)
  BY <1>2, GrownOK
<1> QED BY <1>1, <1>2

\* Cut out of its split, a pane is in hand; a node is left where it was, and
\* the tabs have their roots.
Torn(a, own, up, t, leaf, one, kept) ==
  /\ one.tabs = a.tabs /\ one.cur = a.cur /\ one.focus = a.focus /\ one.zoom = a.zoom
  /\ one.quit = a.quit /\ one.live \cap Pane = a.live \cap Pane
  /\ kept \in Node
  /\ \E own2 : /\ Trees(one, own2, up, {leaf}) /\ Moves(own, own2, leaf, Nil)
               /\ own2[kept] = t
               /\ \A u \in Tabs(a) : /\ one.root[u] \in Node /\ own2[one.root[u]] = u
                                     /\ one.parent[one.root[u]] = Nil
  /\ \A u \in Tab \ Tabs(a) : one.root[u] = Nil

\* Neither none nor one.
LEMMA TwoOrMore == \A n \in Nat : n >= 1 /\ n # 1 => n >= 2
  OBVIOUS

\* The pane cut out of its row.
Cut(a, leaf) ==
  [a EXCEPT !.kids[a.parent[leaf]] = Without(@, leaf), !.parent[leaf] = Nil]

\* The row without it, and what it was before.
LEMMA CutReads ==
  ASSUME NEW a, NEW own, NEW up, Sound(a, own, up, {}), NEW leaf \in Pane,
         own[leaf] # Nil, a.parent[leaf] # Nil
  PROVE  LET p == a.parent[leaf]  row == Without(a.kids[p], leaf)  c == Cut(a, leaf)
         IN /\ p \in Split /\ p \in Node /\ p # leaf /\ leaf \in Node /\ leaf \notin Split
            /\ own[p] = own[leaf] /\ leaf \in a.live /\ up[p] \in Nat /\ up[p] < up[leaf]
            /\ row \in Seq(Node) /\ Len(row) = Len(a.kids[p]) - 1 /\ Len(row) >= 1
            /\ IsInjective(row) /\ ToSet(row) = ToSet(a.kids[p]) \ {leaf}
            /\ IsRec(c) /\ Typed(c) /\ c.floats = a.floats /\ c.tabs = a.tabs /\ c.cur = a.cur
            /\ c.root = a.root /\ c.focus = a.focus /\ c.zoom = a.zoom /\ c.live = a.live
            /\ c.parent = [a.parent EXCEPT ![leaf] = Nil]
            /\ c.kids = [a.kids EXCEPT ![p] = row]
            /\ c.dir = a.dir /\ c.mini = a.mini /\ c.quit = a.quit
<1> DEFINE p == a.parent[leaf]
           row == Without(a.kids[p], leaf)
           c == Cut(a, leaf)
<1>1. /\ p \in Split /\ p \in Node /\ p # leaf /\ leaf \in Node /\ leaf \notin Split
      /\ own[p] = own[leaf] /\ leaf \in a.live /\ up[p] \in Nat /\ up[p] < up[leaf]
      /\ leaf \in ToSet(a.kids[p])
  BY LayoutAssumption DEF LayoutAssumption, Sound, Typed, Owned, Upward, Node, Depths
<1>2. a.kids[p] \in Seq(Node) /\ Len(a.kids[p]) >= 2 /\ IsInjective(a.kids[p]) /\ Len(a.kids[p]) \in Nat
  BY <1>1, Members DEF Sound, Typed, Downward
<1>3. /\ row \in Seq(Node) /\ Len(row) = Len(a.kids[p]) - 1 /\ Len(row) >= 1
      /\ IsInjective(row) /\ ToSet(row) = ToSet(a.kids[p]) \ {leaf}
  <2>1. /\ row \in Seq(Node) /\ Len(row) = Len(a.kids[p]) - 1
        /\ IsInjective(row) /\ ToSet(row) = ToSet(a.kids[p]) \ {leaf}
    BY <1>1, <1>2, WithoutOK
  <2> HIDE DEF row, p
  <2> QED BY <1>2, <2>1
<1>4. /\ IsRec(c) /\ c.floats = a.floats /\ c.tabs = a.tabs /\ c.cur = a.cur
      /\ c.root = a.root /\ c.focus = a.focus /\ c.zoom = a.zoom /\ c.live = a.live
      /\ c.parent = [a.parent EXCEPT ![leaf] = Nil]
      /\ c.kids = [a.kids EXCEPT ![p] = row]
      /\ c.dir = a.dir /\ c.mini = a.mini /\ c.quit = a.quit
  <2>1. IsRec(a)
    BY DEF Sound
  <2>2. c.kids = [a.kids EXCEPT ![p] = Without(@, leaf)]
    BY <2>1 DEF IsRec, Fields, Cut
  <2>3. [a.kids EXCEPT ![p] = Without(@, leaf)] = [a.kids EXCEPT ![p] = row]
    OBVIOUS
  <2> HIDE DEF row
  <2> QED BY <2>1, <2>2, <2>3 DEF IsRec, Fields, Cut
<1> HIDE DEF p, row, c
<1>5. Typed(c)
  <2>1. c.kids \in [Split -> Seq(Node)] /\ c.parent \in [Node -> Split \cup {Nil}]
    BY <1>1, <1>3, <1>4 DEF Sound, Typed
  <2> QED BY <1>4, <2>1 DEF Sound, Typed
<1> QED BY <1>1, <1>3, <1>4, <1>5 DEF p, row, c

\* A split that keeps two children or more.
LEMMA CutOK ==
  ASSUME NEW a, NEW own, NEW up, Sound(a, own, up, {}), NEW leaf \in Pane, NEW t \in Tab,
         own[leaf] = t, a.parent[leaf] # Nil, Len(Without(a.kids[a.parent[leaf]], leaf)) # 1
  PROVE  Torn(a, own, up, t, leaf, Cut(a, leaf), Head(Without(a.kids[a.parent[leaf]], leaf)))
<1> DEFINE p == a.parent[leaf]
           row == Without(a.kids[p], leaf)
           c == Cut(a, leaf)
           own2 == [n \in Node |-> IF n = leaf THEN Nil ELSE own[n]]
<1>0. t # Nil
  BY LayoutAssumption DEF LayoutAssumption
<1>1. /\ p \in Split /\ p \in Node /\ p # leaf /\ leaf \in Node /\ leaf \notin Split
      /\ own[p] = t /\ leaf \in a.live
      /\ row \in Seq(Node) /\ Len(row) >= 1
      /\ IsInjective(row) /\ ToSet(row) = ToSet(a.kids[p]) \ {leaf}
      /\ IsRec(c) /\ Typed(c) /\ c.tabs = a.tabs /\ c.cur = a.cur
      /\ c.root = a.root /\ c.focus = a.focus /\ c.zoom = a.zoom /\ c.live = a.live
      /\ c.parent = [a.parent EXCEPT ![leaf] = Nil]
      /\ c.kids = [a.kids EXCEPT ![p] = row] /\ c.quit = a.quit
  BY <1>0, CutReads
<1>2. Len(row) >= 2 /\ Head(row) \in ToSet(row)
  <2>1. Len(row) # 1 /\ Len(row) \in Nat /\ Len(row) >= 1
    BY <1>1, Members
  <2>2. Head(row) \in ToSet(row)
    BY <1>1, HeadOK
  <2>3. Len(row) >= 2
    BY ONLY <2>1, TwoOrMore
  <2> QED BY <2>2, <2>3
<1> HIDE DEF p, row, c
<1>3. /\ own2 \in [Node -> Tab \cup {Nil}]
      /\ \A n \in Node : own2[n] = IF n = leaf THEN Nil ELSE own[n]
  BY DEF Sound, Owned
<1> HIDE DEF own2
<1>4. \A n \in Node : c.parent[n] = IF n = leaf THEN Nil ELSE a.parent[n]
  BY <1>1 DEF Sound, Typed
<1>5. \A s \in Split : c.kids[s] = IF s = p THEN row ELSE a.kids[s]
  BY <1>1 DEF Sound, Typed
<1>6. Tabs(c) = Tabs(a)
  BY <1>1 DEF Tabs
<1>7. Owned(c, own2, {leaf})
  <2>1. \A n \in Node : own2[n] # Nil => own2[n] \in Tabs(c)
    BY <1>3, <1>6 DEF Sound, Owned
  <2>2. \A n \in Node : own2[n] # Nil <=> n \in c.live \ {leaf}
    BY <1>1, <1>3 DEF Sound, Owned
  <2> QED BY <1>1, <1>3, <2>1, <2>2 DEF Owned
<1>8. Upward(c, own2, up)
  <2> SUFFICES ASSUME NEW n \in Node
               PROVE  /\ c.parent[n] = Nil /\ own2[n] # Nil => c.root[own2[n]] = n
                      /\ c.parent[n] # Nil => /\ own2[n] # Nil /\ own2[c.parent[n]] = own2[n]
                                              /\ up[c.parent[n]] < up[n]
                                              /\ n \in ToSet(c.kids[c.parent[n]])
    BY DEF Upward
  <2>1. CASE n = leaf
    BY <1>3, <1>4, <2>1
  <2>2. CASE n # leaf
    <3>1. own2[n] = own[n] /\ c.parent[n] = a.parent[n]
      BY <1>3, <1>4, <2>2
    <3>2. ASSUME a.parent[n] # Nil
          PROVE  /\ own[n] # Nil /\ own2[a.parent[n]] = own[n] /\ up[a.parent[n]] < up[n]
                 /\ n \in ToSet(c.kids[a.parent[n]])
      <4>1. a.parent[n] \in Split /\ own[n] # Nil /\ own[a.parent[n]] = own[n]
            /\ up[a.parent[n]] < up[n] /\ n \in ToSet(a.kids[a.parent[n]])
        BY <3>2 DEF Sound, Upward, Typed
      <4>2. a.parent[n] # leaf /\ a.parent[n] \in Node
        BY <1>1, <4>1 DEF Node
      <4> QED BY <1>1, <1>3, <1>5, <2>2, <4>1, <4>2
    <3> QED BY <1>1, <3>1, <3>2 DEF Sound, Upward
  <2> QED BY <2>1, <2>2
<1>9. Downward(c, own2)
  <2> SUFFICES ASSUME NEW s \in Split
               PROVE  /\ own2[s] = Nil => c.kids[s] = <<>>
                      /\ own2[s] # Nil => /\ Len(c.kids[s]) >= 2 /\ IsInjective(c.kids[s])
                                          /\ \A k \in ToSet(c.kids[s]) : c.parent[k] = s
    BY DEF Downward
  <2>1. own2[s] = own[s]
    BY <1>1, <1>3 DEF Node
  <2>2. ASSUME NEW k \in ToSet(a.kids[s]), k # leaf PROVE c.parent[k] = s
    BY <1>4, <2>2, KidsOK
  <2>3. CASE s = p
    BY <1>0, <1>1, <1>2, <1>5, <2>1, <2>2, <2>3
  <2>4. CASE s # p
    <3>1. leaf \notin ToSet(a.kids[s]) /\ c.kids[s] = a.kids[s]
      BY <1>5, <2>4, KidsOK DEF p
    <3> QED BY <2>1, <2>2, <3>1 DEF Sound, Downward
  <2> QED BY <2>3, <2>4
<1>10. Trees(c, own2, up, {leaf})
  BY <1>1, <1>7, <1>8, <1>9 DEF Sound, Trees
<1>11. Moves(own, own2, leaf, Nil)
  BY <1>3 DEF Moves, Node
<1>12. Head(row) \in Node /\ own2[Head(row)] = t
  <2>1. Head(row) \in ToSet(a.kids[p]) /\ Head(row) # leaf
    BY <1>1, <1>2
  <2>2. Head(row) \in Node /\ own[Head(row)] = own[p]
    BY <1>1, <2>1, KidsOK
  <2> QED BY <1>1, <1>3, <2>1, <2>2
<1>13. ASSUME NEW u \in Tabs(a)
       PROVE c.root[u] \in Node /\ own2[c.root[u]] = u /\ c.parent[c.root[u]] = Nil
  <2>1. a.root[u] \in Node /\ own[a.root[u]] = u /\ a.parent[a.root[u]] = Nil
    BY DEF Sound, Homes
  <2>2. a.root[u] # leaf
    BY <2>1
  <2> QED BY <1>1, <1>3, <1>4, <2>1, <2>2
<1>14. \A u \in Tab \ Tabs(a) : c.root[u] = Nil
  BY <1>1 DEF Sound, Homes
<1> QED BY <1>1, <1>10, <1>11, <1>12, <1>13, <1>14 DEF Torn, p, row, c

\* One alone.
LEMMA AloneOK ==
  ASSUME NEW S, NEW s \in Seq(S), Len(s) = 1
  PROVE  ToSet(s) = {Head(s)} /\ Head(s) \in S
<1>1. Head(s) = s[1] /\ s[1] \in S /\ \A i : i \in 1..Len(s) <=> i = 1
  OBVIOUS
<1>2. \A e : e \in ToSet(s) <=> \E i \in 1..Len(s) : s[i] = e
  BY Members
<1> QED BY <1>1, <1>2

\* The last child takes its parent's place.
Lifted(a, t, leaf) ==
  LET p == a.parent[leaf]  c == Cut(a, leaf)
  IN Freed(Replaced(c, t, p, Head(c.kids[p])), {p})

\* What that makes of an app: p is gone, and kept is where it was.
Hung(a, t, leaf, p, g, kept, b) ==
  /\ ToSet(a.kids[p]) = {leaf, kept} /\ kept # leaf
  /\ g \in Split \cup {Nil} /\ g # p
  /\ IsRec(b) /\ Typed(b)
  /\ b.tabs = a.tabs /\ b.cur = a.cur /\ b.focus = a.focus /\ b.zoom = a.zoom
  /\ b.quit = a.quit /\ b.live = a.live \ {p}
  /\ \A u \in Tab : b.root[u] = IF u = t /\ g = Nil THEN kept ELSE a.root[u]
  /\ \A n \in Node : b.parent[n] = IF n \in {p, leaf} THEN Nil
                                   ELSE IF n = kept THEN g ELSE a.parent[n]
  /\ \A s \in Split : b.kids[s] = IF s = p THEN <<>>
                                  ELSE IF s = g THEN ReplaceAll(a.kids[s], p, kept)
                                  ELSE a.kids[s]

LEMMA LiftedReads ==
  ASSUME NEW a, NEW own, NEW up, Sound(a, own, up, {}), NEW leaf \in Pane, NEW t \in Tab,
         own[leaf] = t, a.parent[leaf] # Nil, Len(Without(a.kids[a.parent[leaf]], leaf)) = 1
  PROVE  Hung(a, t, leaf, a.parent[leaf], a.parent[a.parent[leaf]],
              Head(Without(a.kids[a.parent[leaf]], leaf)), Lifted(a, t, leaf))
<1> DEFINE p == a.parent[leaf]
           g == a.parent[p]
           row == Without(a.kids[p], leaf)
           kept == Head(row)
           c == Cut(a, leaf)
           h == Replaced(c, t, p, kept)
           b == Lifted(a, t, leaf)
<1>0. t # Nil
  BY LayoutAssumption DEF LayoutAssumption
<1>1. /\ p \in Split /\ p \in Node /\ p # leaf /\ leaf \in Node /\ leaf \notin Split
      /\ own[p] = t /\ up[p] \in Nat /\ up[p] < up[leaf]
      /\ row \in Seq(Node) /\ ToSet(row) = ToSet(a.kids[p]) \ {leaf}
      /\ IsRec(c) /\ Typed(c) /\ c.floats = a.floats /\ c.tabs = a.tabs /\ c.cur = a.cur
      /\ c.root = a.root /\ c.focus = a.focus /\ c.zoom = a.zoom /\ c.live = a.live
      /\ c.parent = [a.parent EXCEPT ![leaf] = Nil]
      /\ c.kids = [a.kids EXCEPT ![p] = row]
      /\ c.dir = a.dir /\ c.mini = a.mini /\ c.quit = a.quit
  BY <1>0, CutReads
<1>2. ToSet(row) = {kept} /\ kept \in Node
  BY <1>1, AloneOK
<1>3. c.kids[p] = row
  BY <1>1 DEF Sound, Typed
<1>4. b = Freed(h, {p})
  BY <1>3 DEF Lifted
<1> HIDE DEF b
<1>5. g \in Split \cup {Nil} /\ g # p
  <2>1. g # Nil => up[g] < up[p]
    BY <1>1 DEF Sound, Upward
  <2>2. g \in Split \cup {Nil}
    BY <1>1 DEF Sound, Typed
  <2>3. up[p] \in Nat /\ ~(up[p] < up[p])
    BY <1>1
  <2>4. p # Nil
    BY <1>1, LayoutAssumption DEF LayoutAssumption
  <2> HIDE DEF p, g, row
  <2> QED BY <2>1, <2>2, <2>3, <2>4
<1>6. leaf \in ToSet(a.kids[p])
  BY <1>1 DEF Sound, Upward, Node
<1>7. ToSet(a.kids[p]) = {leaf, kept} /\ kept # leaf
  BY <1>1, <1>2, <1>6
<1>8. c.parent[p] = g
  BY <1>1 DEF Sound, Typed
<1> HIDE DEF p, g, row, kept, c
<1>9. /\ IsRec(h) /\ h.floats = a.floats /\ h.tabs = a.tabs /\ h.cur = a.cur
      /\ h.root = [a.root EXCEPT ![t] = IF g = Nil THEN kept ELSE @] /\ h.focus = a.focus
      /\ h.zoom = a.zoom
      /\ h.live = a.live /\ h.parent = [c.parent EXCEPT ![kept] = g]
      /\ h.kids = [x \in Split |-> IF x = g THEN ReplaceAll(c.kids[x], p, kept) ELSE c.kids[x]]
      /\ h.dir = a.dir /\ h.mini = a.mini /\ h.quit = a.quit
  BY <1>1, <1>8 DEF IsRec, Fields, Replaced
<1> HIDE DEF h
<1>10. Typed(h)
  <2>1. h.kids \in [Split -> Seq(Node)]
    <3>1. \A x \in Split : c.kids[x] \in Seq(Node)
      BY <1>1 DEF Typed
    <3>2. \A x \in Split : ReplaceAll(c.kids[x], p, kept) \in Seq(Node)
      BY <1>2, <3>1, ReplaceOK
    <3> QED BY <1>9, <3>1, <3>2
  <2>2. h.parent \in [Node -> Split \cup {Nil}]
    <3>1. c.parent \in [Node -> Split \cup {Nil}]
      BY <1>1 DEF Typed
    <3> QED BY <1>2, <1>5, <1>9, <3>1
  <2>3. h.root \in [Tab -> Node \cup {Nil}]
    BY <1>2, <1>9 DEF Sound, Typed
  <2> QED BY <1>9, <2>1, <2>2, <2>3 DEF Sound, Typed
<1>11. /\ IsRec(b) /\ Typed(b)
       /\ b.tabs = h.tabs /\ b.cur = h.cur /\ b.root = h.root /\ b.focus = h.focus
       /\ b.zoom = h.zoom /\ b.quit = h.quit /\ b.live = h.live \ {p}
       /\ b.parent = [n \in Node |-> IF n \in {p} THEN Nil ELSE h.parent[n]]
       /\ b.kids = [s \in Split |-> IF s \in {p} THEN <<>> ELSE h.kids[s]]
  <2>1. IsRec(h)
    BY <1>9
  <2> DEFINE nodes == {p}
  <2>2. b = Freed(h, nodes)
    BY <1>4
  <2> HIDE DEF nodes
  <2>3. /\ IsRec(b) /\ Typed(b)
        /\ b.tabs = h.tabs /\ b.cur = h.cur /\ b.root = h.root /\ b.focus = h.focus
        /\ b.zoom = h.zoom /\ b.quit = h.quit /\ b.live = h.live \ nodes
        /\ b.parent = [n \in Node |-> IF n \in nodes THEN Nil ELSE h.parent[n]]
        /\ b.kids = [s \in Split |-> IF s \in nodes THEN <<>> ELSE h.kids[s]]
    BY <1>10, <2>1, <2>2, FreedReads
  <2> QED BY <2>3 DEF nodes
<1>12. \A u \in Tab : b.root[u] = IF u = t /\ g = Nil THEN kept ELSE a.root[u]
  BY <1>9, <1>11 DEF Sound, Typed
<1>13. \A n \in Node : b.parent[n] = IF n \in {p, leaf} THEN Nil
                                     ELSE IF n = kept THEN g ELSE a.parent[n]
  <2>1. \A n \in Node : c.parent[n] = IF n = leaf THEN Nil ELSE a.parent[n]
    BY <1>1 DEF Sound, Typed
  <2>2. \A n \in Node : h.parent[n] = IF n = kept THEN g ELSE c.parent[n]
    BY <1>1, <1>9 DEF Typed
  <2> QED BY <1>7, <1>11, <2>1, <2>2
<1>14. \A s \in Split : b.kids[s] = IF s = p THEN <<>>
                                    ELSE IF s = g THEN ReplaceAll(a.kids[s], p, kept)
                                    ELSE a.kids[s]
  <2>1. \A s \in Split : c.kids[s] = IF s = p THEN row ELSE a.kids[s]
    BY <1>1 DEF Sound, Typed
  <2> QED BY <1>9, <1>11, <2>1
<1>15. /\ b.tabs = a.tabs /\ b.cur = a.cur /\ b.focus = a.focus /\ b.zoom = a.zoom
       /\ b.quit = a.quit /\ b.live = a.live \ {p}
  BY <1>9, <1>11
<1>16. Hung(a, t, leaf, p, g, kept, b)
  BY <1>5, <1>7, <1>11, <1>12, <1>13, <1>14, <1>15 DEF Hung
<1> QED BY <1>16 DEF p, g, row, kept, b

\* A split that had two.
LEMMA LiftedOK ==
  ASSUME NEW a, NEW own, NEW up, Sound(a, own, up, {}), NEW leaf \in Pane, NEW t \in Tab,
         own[leaf] = t, a.parent[leaf] # Nil, Len(Without(a.kids[a.parent[leaf]], leaf)) = 1
  PROVE  Torn(a, own, up, t, leaf, Lifted(a, t, leaf), Head(Without(a.kids[a.parent[leaf]], leaf)))
<1> DEFINE p == a.parent[leaf]
           g == a.parent[p]
           kept == Head(Without(a.kids[p], leaf))
           b == Lifted(a, t, leaf)
           row == ReplaceAll(a.kids[g], p, kept)
           own2 == [n \in Node |-> IF n \in {leaf, p} THEN Nil ELSE own[n]]
<1>0. t # Nil
  BY LayoutAssumption DEF LayoutAssumption
<1>1. /\ p \in Split /\ p \in Node /\ p # leaf /\ leaf \in Node /\ leaf \notin Split
      /\ own[p] = t /\ leaf \in a.live /\ up[p] \in Nat
  <2>1. own[leaf] # Nil
    BY <1>0
  <2> HIDE DEF b, own2, row, g, kept
  <2> QED BY <1>0, <2>1, LayoutAssumption DEF LayoutAssumption, Sound, Typed, Owned, Upward, Node, Depths
<1>2. /\ ToSet(a.kids[p]) = {leaf, kept} /\ kept # leaf
      /\ g \in Split \cup {Nil} /\ g # p
      /\ IsRec(b) /\ Typed(b)
      /\ b.tabs = a.tabs /\ b.cur = a.cur /\ b.focus = a.focus /\ b.zoom = a.zoom
      /\ b.quit = a.quit /\ b.live = a.live \ {p}
      /\ \A u \in Tab : b.root[u] = IF u = t /\ g = Nil THEN kept ELSE a.root[u]
      /\ \A n \in Node : b.parent[n] = IF n \in {p, leaf} THEN Nil
                                       ELSE IF n = kept THEN g ELSE a.parent[n]
      /\ \A s \in Split : b.kids[s] = IF s = p THEN <<>>
                                      ELSE IF s = g THEN row ELSE a.kids[s]
  <2>1. Hung(a, t, leaf, p, g, kept, b)
    BY LiftedReads
  <2> HIDE DEF p, g, kept, b
  <2> QED BY <2>1 DEF Hung, row
<1>3. /\ \A s \in Split : \A k \in ToSet(a.kids[s]) :
           /\ k \in Node /\ own[k] = own[s] /\ a.parent[k] = s /\ up[k] \in Nat /\ up[s] < up[k]
  BY KidsOK
<1>4. \A n \in Node : a.parent[n] # Nil =>
        /\ a.parent[n] \in Split /\ a.parent[n] \in Node /\ a.parent[n] # leaf
        /\ own[n] # Nil /\ own[a.parent[n]] = own[n] /\ up[a.parent[n]] < up[n]
        /\ n \in ToSet(a.kids[a.parent[n]])
  BY <1>1 DEF Sound, Upward, Typed, Node
<1>5. /\ own2 \in [Node -> Tab \cup {Nil}]
      /\ \A n \in Node : own2[n] = IF n \in {leaf, p} THEN Nil ELSE own[n]
  BY DEF Sound, Owned
<1>6. Tabs(b) = Tabs(a)
  BY <1>2 DEF Tabs
<1> HIDE DEF p, kept, g, b, own2, row
<1>7. /\ kept \in Node /\ own[kept] = t /\ a.parent[kept] = p /\ up[kept] \in Nat
      /\ up[p] < up[kept] /\ kept # p
  <2>1. kept \in ToSet(a.kids[p])
    BY <1>2
  <2>2. kept \in Node /\ own[kept] = t /\ a.parent[kept] = p /\ up[kept] \in Nat /\ up[p] < up[kept]
    BY <1>1, <1>3, <2>1
  <2> QED BY <1>1, <2>2
<1>8. g # Nil => /\ g \in Split /\ g \in Node /\ g # leaf /\ own[g] = t /\ up[g] < up[p]
                 /\ up[g] \in Nat /\ p \in ToSet(a.kids[g]) /\ kept \notin ToSet(a.kids[g])
  <2> SUFFICES ASSUME g # Nil
               PROVE  /\ g \in Split /\ g \in Node /\ g # leaf /\ own[g] = t /\ up[g] < up[p]
                      /\ up[g] \in Nat /\ p \in ToSet(a.kids[g]) /\ kept \notin ToSet(a.kids[g])
    OBVIOUS
  <2>1. g \in Split /\ g \in Node /\ g # leaf /\ own[g] = t /\ up[g] < up[p] /\ p \in ToSet(a.kids[g])
    BY <1>1, <1>4 DEF g
  <2>2. kept \notin ToSet(a.kids[g])
    BY <1>2, <1>3, <1>7, <2>1
  <2> QED BY <2>1, <2>2 DEF Sound, Depths
<1>9. g # Nil => /\ row \in Seq(Node) /\ Len(row) >= 2 /\ IsInjective(row)
                 /\ ToSet(row) = (ToSet(a.kids[g]) \ {p}) \cup {kept}
  <2> SUFFICES ASSUME g # Nil
               PROVE  /\ row \in Seq(Node) /\ Len(row) >= 2 /\ IsInjective(row)
                      /\ ToSet(row) = (ToSet(a.kids[g]) \ {p}) \cup {kept}
    OBVIOUS
  <2>1. a.kids[g] \in Seq(Node) /\ Len(a.kids[g]) >= 2 /\ IsInjective(a.kids[g])
    BY <1>0, <1>8 DEF Sound, Typed, Downward
  <2> QED BY <1>7, <1>8, <2>1, ReplaceOK DEF row
<1>10. Owned(b, own2, {leaf})
  <2>1. \A n \in Node : own2[n] # Nil => own2[n] \in Tabs(b)
    BY <1>5, <1>6 DEF Sound, Owned
  <2>2. \A n \in Node : own2[n] # Nil <=> n \in b.live \ {leaf}
    BY <1>2, <1>5 DEF Sound, Owned
  <2>3. leaf \in b.live
    BY <1>1, <1>2
  <2> QED BY <1>5, <2>1, <2>2, <2>3 DEF Owned
<1>11. Upward(b, own2, up)
  <2> SUFFICES ASSUME NEW n \in Node
               PROVE  /\ b.parent[n] = Nil /\ own2[n] # Nil => b.root[own2[n]] = n
                      /\ b.parent[n] # Nil => /\ own2[n] # Nil /\ own2[b.parent[n]] = own2[n]
                                              /\ up[b.parent[n]] < up[n]
                                              /\ n \in ToSet(b.kids[b.parent[n]])
    BY DEF Upward
  <2>1. CASE n \in {p, leaf}
    <3>1. b.parent[n] = Nil /\ own2[n] = Nil
      BY <1>2, <1>5, <2>1
    <3> QED BY <3>1
  <2>2. CASE n = kept
    <3>1. b.parent[n] = g /\ own2[n] = t
      BY <1>2, <1>5, <1>7, <2>2
    <3>2. CASE g = Nil
      <4>1. b.root[t] = kept
        BY <1>2, <3>2
      <4> QED BY <2>2, <3>1, <3>2, <4>1
    <3>3. CASE g # Nil
      <4>1. own2[g] = t /\ b.kids[g] = row
        BY <1>2, <1>5, <1>8, <3>3
      <4>2. up[g] < up[n]
        <5>1. \A i, j, k \in Nat : i < j /\ j < k => i < k
          OBVIOUS
        <5> QED BY <1>1, <1>7, <1>8, <2>2, <3>3, <5>1
      <4> QED BY <1>0, <1>9, <2>2, <3>1, <3>3, <4>1, <4>2
    <3> QED BY <3>2, <3>3
  <2>3. CASE n \notin {p, leaf, kept}
    <3>1. own2[n] = own[n] /\ b.parent[n] = a.parent[n]
      BY <1>2, <1>5, <2>3
    <3>2. ASSUME a.parent[n] = Nil, own[n] # Nil PROVE b.root[own[n]] = n
      <4>1. a.root[own[n]] = n /\ own[n] \in Tab
        BY <3>2 DEF Sound, Upward, Owned
      <4>2. ~(own[n] = t /\ g = Nil)
        <5> SUFFICES ASSUME own[n] = t, g = Nil PROVE FALSE
          OBVIOUS
        <5>1. a.root[t] = p
          BY <1>0, <1>1 DEF Sound, Upward, g
        <5> QED BY <2>3, <4>1, <5>1
      <4> QED BY <1>2, <4>1, <4>2
    <3>3. ASSUME a.parent[n] # Nil
          PROVE  /\ own[n] # Nil /\ own2[a.parent[n]] = own[n] /\ up[a.parent[n]] < up[n]
                 /\ n \in ToSet(b.kids[a.parent[n]])
      <4>1. /\ a.parent[n] \in Split /\ a.parent[n] \in Node /\ a.parent[n] # leaf
            /\ own[n] # Nil /\ own[a.parent[n]] = own[n] /\ up[a.parent[n]] < up[n]
            /\ n \in ToSet(a.kids[a.parent[n]])
        BY <1>4, <3>3
      <4>2. a.parent[n] # p
        BY <1>2, <2>3, <4>1
      <4>3. own2[a.parent[n]] = own[n]
        BY <1>5, <4>1, <4>2
      <4>4. CASE a.parent[n] = g
        <5>1. b.kids[a.parent[n]] = row /\ n \in ToSet(row)
          BY <1>2, <1>9, <2>3, <3>3, <4>1, <4>2, <4>4
        <5> QED BY <4>1, <4>3, <5>1
      <4>5. CASE a.parent[n] # g
        <5>1. b.kids[a.parent[n]] = a.kids[a.parent[n]]
          BY <1>2, <4>1, <4>2, <4>5
        <5> QED BY <4>1, <4>3, <5>1
      <4> QED BY <4>4, <4>5
    <3> QED BY <3>1, <3>2, <3>3
  <2> QED BY <2>1, <2>2, <2>3
<1>12. Downward(b, own2)
  <2> SUFFICES ASSUME NEW s \in Split
               PROVE  /\ own2[s] = Nil => b.kids[s] = <<>>
                      /\ own2[s] # Nil => /\ Len(b.kids[s]) >= 2 /\ IsInjective(b.kids[s])
                                          /\ \A k \in ToSet(b.kids[s]) : b.parent[k] = s
    BY DEF Downward
  <2>0. s \in Node /\ s # leaf
    BY <1>1 DEF Node
  <2>1. CASE s = p
    BY <1>2, <1>5, <2>0, <2>1
  <2>2. CASE s # p
    <3>1. own2[s] = own[s]
      BY <1>5, <2>0, <2>2
    <3>2. ASSUME NEW k \in ToSet(a.kids[s]), k # p PROVE b.parent[k] = s
      <4>1. k \in Node /\ a.parent[k] = s
        BY <1>3
      <4>2. k \notin {leaf, kept}
        BY <1>7, <2>2, <4>1 DEF p
      <4> QED BY <1>2, <3>2, <4>1, <4>2
    <3>3. CASE s = g
      <4>1. g # Nil /\ b.kids[s] = row
        BY <1>2, <2>2, <3>3, LayoutAssumption DEF LayoutAssumption, Node
      <4>2. ASSUME NEW k \in ToSet(row) PROVE b.parent[k] = s
        <5>1. CASE k = kept
          BY <1>2, <1>7, <3>3, <5>1
        <5>2. CASE k # kept
          BY <1>9, <3>2, <3>3, <4>1, <5>2
        <5> QED BY <5>1, <5>2
      <4>3. own[s] = t
        BY <1>8, <3>3, <4>1
      <4> QED BY <1>0, <1>9, <3>1, <4>1, <4>2, <4>3
    <3>4. CASE s # g
      <4>1. b.kids[s] = a.kids[s]
        BY <1>2, <2>2, <3>4
      <4>2. p \notin ToSet(a.kids[s])
        BY <1>3, <3>4 DEF g
      <4> QED BY <3>1, <3>2, <4>1, <4>2 DEF Sound, Downward
    <3> QED BY <3>3, <3>4
  <2> QED BY <2>1, <2>2
<1>13. Trees(b, own2, up, {leaf})
  BY <1>2, <1>10, <1>11, <1>12 DEF Sound, Trees
<1>14. Moves(own, own2, leaf, Nil)
  <2>1. p \notin Pane
    BY <1>1, LayoutAssumption DEF LayoutAssumption
  <2> QED BY <1>5, <2>1 DEF Moves, Node
<1>15. own2[kept] = t
  BY <1>2, <1>5, <1>7
<1>16. ASSUME NEW u \in Tabs(a)
       PROVE b.root[u] \in Node /\ own2[b.root[u]] = u /\ b.parent[b.root[u]] = Nil
  <2>1. /\ a.root[u] \in Node /\ own[a.root[u]] = u /\ a.parent[a.root[u]] = Nil /\ u \in Tab
    BY LeavesOK DEF Sound, Homes
  <2>2. CASE u = t /\ g = Nil
    <3>1. b.root[u] = kept /\ b.parent[kept] = Nil
      BY <1>2, <1>7, <2>1, <2>2
    <3> QED BY <1>7, <1>15, <2>2, <3>1
  <2>3. CASE ~(u = t /\ g = Nil)
    <3>1. a.root[u] # p
      <4>1. a.root[u] = p => a.parent[p] = Nil /\ own[p] = u
        BY <2>1
      <4> QED BY <1>1, <2>3, <4>1 DEF g
    <3>2. p # Nil
      BY <1>1, LayoutAssumption DEF LayoutAssumption
    <3>3. a.root[u] # leaf /\ a.root[u] # kept
      BY <1>7, <2>1, <3>2 DEF p
    <3>4. b.root[u] = a.root[u]
      BY <1>2, <2>1, <2>3
    <3> QED BY <1>2, <1>5, <2>1, <3>1, <3>3, <3>4
  <2> QED BY <2>2, <2>3
<1>17. \A u \in Tab \ Tabs(a) : b.root[u] = Nil
  <2> TAKE u \in Tab \ Tabs(a)
  <2>1. t \in Tabs(a)
    BY <1>0, <1>1 DEF Sound, Owned
  <2>2. b.root[u] = a.root[u]
    BY <1>2, <2>1
  <2> QED BY <2>2 DEF Sound, Homes
<1>18. b.live \cap Pane = a.live \cap Pane
  <2>1. p \notin Pane
    BY <1>1, LayoutAssumption DEF LayoutAssumption
  <2> QED BY <1>2, <2>1
<1> QED BY <1>2, <1>7, <1>13, <1>14, <1>15, <1>16, <1>17, <1>18 DEF Torn, kept, p, b

\* The keyboard does not stay with a pane that was cut out.
LEMMA RefocusOK ==
  ASSUME NEW a, NEW own, NEW up, Sound(a, own, up, {}), NEW leaf \in Pane, NEW t \in Tab,
         own[leaf] = t, NEW one, NEW kept, Torn(a, own, up, t, leaf, one, kept)
  PROVE  LET b == [one EXCEPT !.focus[t] = IF @ = leaf THEN FirstLeaf(one, kept) ELSE @]
         IN /\ b.tabs = a.tabs /\ b.cur = a.cur /\ b.zoom = a.zoom
            /\ b.live \cap Pane = a.live \cap Pane
            /\ \A u \in Tab : u # t => b.focus[u] = a.focus[u]
            /\ \E own2 : Sound(b, own2, up, {leaf}) /\ Moves(own, own2, leaf, Nil)
<1> DEFINE first == FirstLeaf(one, kept)
           b == [one EXCEPT !.focus[t] = IF @ = leaf THEN first ELSE @]
<1>1. PICK own2 : /\ Trees(one, own2, up, {leaf}) /\ Moves(own, own2, leaf, Nil)
                  /\ own2[kept] = t
                  /\ \A u \in Tabs(a) : /\ one.root[u] \in Node /\ own2[one.root[u]] = u
                                        /\ one.parent[one.root[u]] = Nil
  BY DEF Torn
<1>2. /\ one.tabs = a.tabs /\ one.cur = a.cur /\ one.focus = a.focus /\ one.zoom = a.zoom
      /\ one.quit = a.quit /\ one.live \cap Pane = a.live \cap Pane
      /\ kept \in Node /\ \A u \in Tab \ Tabs(a) : one.root[u] = Nil
  BY DEF Torn
<1>3. t # Nil
  BY LayoutAssumption DEF LayoutAssumption
<1>4. first \in Pane /\ own2[first] = t
  BY <1>1, <1>2, <1>3, FirstOK
<1> HIDE DEF first
<1>5. /\ IsRec(b) /\ b.floats = one.floats /\ b.tabs = one.tabs /\ b.cur = one.cur /\ b.root = one.root
      /\ b.focus = [one.focus EXCEPT ![t] = IF @ = leaf THEN first ELSE @]
      /\ b.zoom = one.zoom /\ b.live = one.live /\ b.parent = one.parent
      /\ b.kids = one.kids /\ b.dir = one.dir /\ b.mini = one.mini /\ b.quit = one.quit
  <2>1. IsRec(one)
    BY <1>1 DEF Trees
  <2> QED BY <2>1 DEF IsRec, Fields
<1> HIDE DEF b
<1>6. Typed(b)
  <2>1. b.focus \in [Tab -> Pane \cup {Nil}]
    BY <1>1, <1>4, <1>5 DEF Trees, Typed
  <2> QED BY <1>1, <1>5, <2>1 DEF Trees, Typed
<1>7. Tabs(b) = Tabs(one) /\ Tabs(b) = Tabs(a)
  BY <1>2, <1>5 DEF Tabs
<1>8. Owned(b, own2, {leaf}) /\ Upward(b, own2, up) /\ Downward(b, own2) /\ Depths(up)
  BY <1>1, <1>5, <1>7 DEF Trees, Owned, Upward, Downward
<1>9. \A u \in Tab : b.focus[u] = IF u = t /\ a.focus[u] = leaf THEN first ELSE a.focus[u]
  BY <1>2, <1>5 DEF Sound, Typed
<1>10. \A q \in Pane : own2[q] = IF q = leaf THEN Nil ELSE own[q]
  BY <1>1 DEF Moves
<1>11. Homes(b, own2)
  <2>1. ASSUME NEW u \in Tabs(b)
        PROVE  /\ b.root[u] \in Node /\ own2[b.root[u]] = u /\ b.parent[b.root[u]] = Nil
               /\ b.focus[u] \in Pane /\ own2[b.focus[u]] = u
    <3>1. u \in Tab /\ a.focus[u] \in Pane /\ own[a.focus[u]] = u
      BY <1>7, LeavesOK DEF Sound, Homes
    <3>2. b.focus[u] \in Pane /\ own2[b.focus[u]] = u
      BY <1>4, <1>9, <1>10, <3>1
    <3> QED BY <1>1, <1>5, <1>7, <3>2
  <2>2. ASSUME NEW u \in Tab \ Tabs(b) PROVE b.root[u] = Nil /\ b.focus[u] = Nil /\ b.zoom[u] = Nil
    <3>1. a.focus[u] = Nil /\ a.zoom[u] = Nil
      BY <1>7 DEF Sound, Homes
    <3>2. leaf # Nil
      BY LayoutAssumption DEF LayoutAssumption, Node
    <3> QED BY <1>2, <1>5, <1>7, <1>9, <3>1, <3>2
  <2>3. ASSUME NEW u \in Tab, b.zoom[u] # Nil, own2[b.zoom[u]] # Nil PROVE own2[b.zoom[u]] = u
    <3>1. b.zoom[u] = a.zoom[u] /\ b.zoom[u] \in Pane
      BY <1>2, <1>5, <1>6, <2>3 DEF Typed
    <3> QED BY <1>10, <2>3, <3>1 DEF Sound, Homes
  <2> QED BY <1>2, <1>5, <2>1, <2>2, <2>3 DEF Sound, Homes
<1>12. View(b)
  BY <1>2, <1>5 DEF Sound, View
<1>13. Sound(b, own2, up, {leaf})
  BY <1>5, <1>6, <1>8, <1>11, <1>12 DEF Sound
<1>14. b.zoom = a.zoom /\ b.tabs = a.tabs /\ b.cur = a.cur /\ b.live \cap Pane = a.live \cap Pane
  BY <1>2, <1>5
<1> QED BY <1>1, <1>9, <1>13, <1>14 DEF b, first

\* A pane cut out of a split.
LEMMA UnhookedOK ==
  ASSUME NEW a, NEW own, NEW up, Sound(a, own, up, {}), NEW leaf \in Pane, NEW t \in Tab,
         own[leaf] = t, a.parent[leaf] # Nil
  PROVE  LET b == Unhooked(a, t, leaf)
         IN /\ b.tabs = a.tabs /\ b.cur = a.cur /\ b.zoom = a.zoom
            /\ b.live \cap Pane = a.live \cap Pane
            /\ \A u \in Tab : u # t => b.focus[u] = a.focus[u]
            /\ \E own2 : Sound(b, own2, up, {leaf}) /\ Moves(own, own2, leaf, Nil)
<1> DEFINE p == a.parent[leaf]
           row == Without(a.kids[p], leaf)
           kept == Head(row)
           one == IF Len(row) = 1 THEN Lifted(a, t, leaf) ELSE Cut(a, leaf)
           cut == [a EXCEPT !.kids[p] = Without(@, leaf), !.parent[leaf] = Nil]
<1>1. cut = Cut(a, leaf)
  BY DEF Cut
<1>2. cut.kids[p] = row
  <2>1. p \in Split /\ a.kids \in [Split -> Seq(Node)]
    BY DEF Sound, Typed, Node
  <2>2. cut.kids = [a.kids EXCEPT ![p] = Without(@, leaf)]
    BY DEF Sound, IsRec, Fields
  <2> HIDE DEF p, cut
  <2> QED BY <2>1, <2>2
<1>3. Torn(a, own, up, t, leaf, one, kept)
  BY CutOK, LiftedOK
<1>4. Lifted(a, t, leaf) = Freed(Replaced(Cut(a, leaf), t, p, Head(Cut(a, leaf).kids[p])), {p})
  BY DEF Lifted
<1>5. one = IF Len(cut.kids[p]) = 1 THEN Freed(Replaced(cut, t, p, Head(cut.kids[p])), {p}) ELSE cut
  <2> HIDE DEF cut, row, p
  <2> QED BY <1>1, <1>2, <1>4
<1> HIDE DEF one
<1>6. Unhooked(a, t, leaf)
        = [one EXCEPT !.focus[t] = IF @ = leaf THEN FirstLeaf(one, Head(cut.kids[p])) ELSE @]
  BY <1>5 DEF Unhooked
<1> HIDE DEF cut, row
<1>7. Unhooked(a, t, leaf)
        = [one EXCEPT !.focus[t] = IF @ = leaf THEN FirstLeaf(one, kept) ELSE @]
  BY <1>2, <1>6
<1> HIDE DEF kept
<1> QED BY <1>3, <1>7, RefocusOK

\* Nothing about a pane that is lifted out says where it used to be.
Forgotten(a, t, leaf) ==
  [a EXCEPT !.zoom[t] = IF @ = leaf THEN Nil ELSE @,
            !.mini = @ \ {leaf}, !.floats = Without(@, leaf)]

LEMMA ForgottenOK ==
  ASSUME NEW a, NEW own, NEW up, Sound(a, own, up, {}), NEW leaf \in Pane, NEW t \in Tab,
         own[leaf] = t
  PROVE  LET b == Forgotten(a, t, leaf)
         IN Alike(a, b) /\ Sound(b, own, up, {}) /\ Aloof(b, leaf)
<1> DEFINE b == Forgotten(a, t, leaf)
<1>1. /\ IsRec(b) /\ b.floats = Without(a.floats, leaf) /\ b.tabs = a.tabs /\ b.cur = a.cur /\ b.root = a.root
      /\ b.focus = a.focus /\ b.zoom = [a.zoom EXCEPT ![t] = IF @ = leaf THEN Nil ELSE @]
      /\ b.live = a.live /\ b.parent = a.parent
      /\ b.kids = a.kids /\ b.dir = a.dir /\ b.mini = a.mini \ {leaf} /\ b.quit = a.quit
  BY DEF Sound, IsRec, Fields, Forgotten
<1> HIDE DEF b
<1>2. Typed(b)
  <2>1. b.floats \in Seq(Pane)
    BY <1>1, WithoutOK DEF Sound, Typed
  <2>2. b.zoom \in [Tab -> Pane \cup {Nil}]
    BY <1>1 DEF Sound, Typed
  <2> QED BY <1>1, <2>1, <2>2 DEF Sound, Typed
<1>3. \A u \in Tab : b.zoom[u] = IF u = t /\ a.zoom[u] = leaf THEN Nil ELSE a.zoom[u]
  BY <1>1 DEF Sound, Typed
<1>4. Alike(a, b)
  BY <1>1, <1>2, <1>3 DEF Alike, SameTrees
<1>5. Aloof(b, leaf)
  <2> SUFFICES ASSUME NEW u \in Tab PROVE b.zoom[u] # leaf
    BY DEF Aloof
  <2>1. leaf # Nil /\ t # Nil
    BY LayoutAssumption DEF LayoutAssumption, Node
  <2>2. CASE u = t
    BY <1>3, <2>1, <2>2
  <2>3. CASE u # t
    <3>1. a.zoom[u] # leaf
      BY <2>1, <2>3 DEF Sound, Homes
    <3> QED BY <1>3, <2>3, <3>1
  <2> QED BY <2>2, <2>3
<1>6. Sound(b, own, up, {})
  BY <1>4, AlikeSound
<1> QED BY <1>4, <1>5, <1>6 DEF b

\* A pane alone in its tab takes the tab with it.
LEMMA SoleOK ==
  ASSUME NEW a, NEW own, NEW up, Sound(a, own, up, {}), NEW leaf \in Pane, NEW t \in Tab,
         own[leaf] = t, a.parent[leaf] = Nil, Aloof(a, leaf)
  PROVE  LET b == TabRemoved([a EXCEPT !.root[t] = Nil], t)
         IN /\ Sound(b, Disowned(own, t), up, {leaf}) /\ Moves(own, Disowned(own, t), leaf, Nil)
            /\ Aloof(b, leaf) /\ Tabs(b) = Tabs(a) \ {t}
            /\ b.live \cap Pane = a.live \cap Pane
<1> DEFINE h == [a EXCEPT !.root[t] = Nil]
           b == TabRemoved(h, t)
<1>1. t # Nil /\ leaf # Nil /\ leaf \in Node /\ t \in Tabs(a)
  BY LayoutAssumption DEF LayoutAssumption, Node, Sound, Owned
<1>2. a.root[t] = leaf
  BY <1>1 DEF Sound, Upward
<1>3. \A n \in Node : own[n] = t <=> n = leaf
  <2>1. NodesOf(a)[a.root[t]] = {n \in Node : own[n] = t} /\ NodesOf(a)[leaf] = {leaf}
    BY <1>1, NodesOK
  <2> QED BY <1>2, <2>1
<1>4. /\ IsRec(h) /\ h.floats = a.floats /\ h.tabs = a.tabs /\ h.cur = a.cur
      /\ h.root = [a.root EXCEPT ![t] = Nil] /\ h.focus = a.focus /\ h.zoom = a.zoom
      /\ h.live = a.live /\ h.parent = a.parent /\ h.kids = a.kids /\ h.dir = a.dir
      /\ h.mini = a.mini /\ h.quit = a.quit
  BY DEF Sound, IsRec, Fields
<1> HIDE DEF h
<1>5. Typed(h)
  <2>1. h.root \in [Tab -> Node \cup {Nil}]
    BY <1>4 DEF Sound, Typed
  <2> QED BY <1>4, <2>1 DEF Sound, Typed
<1>6. View(h) /\ IsInjective(h.tabs) /\ t \in Tabs(h)
  BY <1>1, <1>4 DEF Sound, View, Homes, Tabs
<1>7. Within(h, t) = {}
  BY <1>4 DEF Sound, Typed, Within
<1>8. /\ IsRec(b) /\ Typed(b) /\ View(b)
      /\ b.tabs = Without(h.tabs, t) /\ b.root = [h.root EXCEPT ![t] = Nil]
      /\ b.focus = [h.focus EXCEPT ![t] = Nil] /\ b.zoom = [h.zoom EXCEPT ![t] = Nil]
      /\ b.live = h.live \ Within(h, t)
      /\ b.parent = [n \in Node |-> IF n \in Within(h, t) THEN Nil ELSE h.parent[n]]
      /\ b.kids = [s \in Split |-> IF s \in Within(h, t) THEN <<>> ELSE h.kids[s]]
  <2> DEFINE nodes == Within(h, t)
  <2>1. IsRec(h)
    BY <1>4
  <2>2. /\ IsRec(b) /\ Typed(b) /\ View(b)
        /\ b.tabs = Without(h.tabs, t) /\ b.root = [h.root EXCEPT ![t] = Nil]
        /\ b.focus = [h.focus EXCEPT ![t] = Nil] /\ b.zoom = [h.zoom EXCEPT ![t] = Nil]
        /\ b.live = h.live \ nodes
        /\ b.parent = [n \in Node |-> IF n \in nodes THEN Nil ELSE h.parent[n]]
        /\ b.kids = [s \in Split |-> IF s \in nodes THEN <<>> ELSE h.kids[s]]
    BY <1>5, <1>6, <2>1, TabRemovedReads
  <2> QED BY <2>2
<1> HIDE DEF b
<1>9. Pruned(a, own, t, b, {leaf})
  <2>1. b.root = [a.root EXCEPT ![t] = Nil]
    BY <1>4, <1>8 DEF Sound, Typed
  <2>2. b.zoom[t] = Nil /\ \A u \in Tab : b.zoom[u] \in {a.zoom[u], Nil}
    BY <1>4, <1>8 DEF Sound, Typed
  <2>3. b.parent = [n \in Node |-> IF own[n] = t THEN Nil ELSE a.parent[n]]
    <3>1. \A n \in Node : b.parent[n] = IF own[n] = t THEN Nil ELSE a.parent[n]
      BY <1>3, <1>4, <1>7, <1>8
    <3> QED BY <1>8, <3>1
  <2>4. b.kids = [s \in Split |-> IF own[s] = t THEN <<>> ELSE a.kids[s]]
    <3>1. \A s \in Split : own[s] # t
      BY <1>3, LayoutAssumption DEF LayoutAssumption, Node
    <3>2. \A s \in Split : b.kids[s] = IF own[s] = t THEN <<>> ELSE a.kids[s]
      BY <1>4, <1>7, <1>8, <3>1
    <3> QED BY <1>8, <3>2
  <2>5. \A n \in Node : n \in b.live <=> n \in a.live /\ (own[n] # t \/ n \in {leaf})
    BY <1>3, <1>4, <1>7, <1>8
  <2> QED BY <1>4, <1>8, <2>1, <2>2, <2>3, <2>4, <2>5 DEF Pruned
<1>10. Sound(b, Disowned(own, t), up, {leaf}) /\ Tabs(b) = Tabs(a) \ {t}
  BY <1>1, <1>9, PrunedSound
<1>11. Moves(own, Disowned(own, t), leaf, Nil)
  BY <1>3 DEF Moves, Disowned, Node
<1>12. Aloof(b, leaf)
  BY <1>1, <1>9 DEF Aloof, Pruned
<1>13. b.live \cap Pane = a.live \cap Pane
  BY <1>4, <1>7, <1>8
<1> QED BY <1>10, <1>11, <1>12, <1>13 DEF b, h

\* A pane lifted out is in hand.
LEMMA DetachedOK ==
  ASSUME NEW a, NEW own, NEW up, Sound(a, own, up, {}), NEW leaf \in Pane, NEW t \in Tab,
         own[leaf] = t
  PROVE  LET b == Detached(a, leaf)
         IN /\ \E own2 : Sound(b, own2, up, {leaf}) /\ Moves(own, own2, leaf, Nil)
            /\ Aloof(b, leaf) /\ b.live \cap Pane = a.live \cap Pane
            /\ Tabs(b) = IF a.parent[leaf] = Nil THEN Tabs(a) \ {t} ELSE Tabs(a)
            /\ a.parent[leaf] # Nil => b.tabs = a.tabs /\ b.cur = a.cur
<1> DEFINE h == Forgotten(a, t, leaf)
           b == Detached(a, leaf)
<1>1. TabOf(a, leaf) = t
  BY TabOK, LayoutAssumption DEF LayoutAssumption, Node
<1>2. Alike(a, h) /\ Sound(h, own, up, {}) /\ Aloof(h, leaf)
  BY ForgottenOK
<1>3. b = IF a.parent[leaf] # Nil THEN Unhooked(h, t, leaf)
          ELSE TabRemoved([h EXCEPT !.root[t] = Nil], t)
  BY <1>1 DEF Detached, Forgotten
<1> HIDE DEF h, b
<1>4. /\ h.parent = a.parent /\ h.tabs = a.tabs /\ h.cur = a.cur /\ Tabs(h) = Tabs(a)
      /\ h.live = a.live
  BY <1>2 DEF Alike, SameTrees, Tabs
<1>5. CASE a.parent[leaf] # Nil
  <2>1. /\ b.tabs = h.tabs /\ b.cur = h.cur /\ b.zoom = h.zoom
        /\ b.live \cap Pane = h.live \cap Pane
        /\ \E own2 : Sound(b, own2, up, {leaf}) /\ Moves(own, own2, leaf, Nil)
    BY <1>2, <1>3, <1>4, <1>5, UnhookedOK
  <2> QED BY <1>2, <1>4, <1>5, <2>1 DEF Aloof, Tabs, b
<1>6. CASE a.parent[leaf] = Nil
  <2>1. /\ Sound(b, Disowned(own, t), up, {leaf}) /\ Moves(own, Disowned(own, t), leaf, Nil)
        /\ Aloof(b, leaf) /\ Tabs(b) = Tabs(h) \ {t}
        /\ b.live \cap Pane = h.live \cap Pane
    BY <1>2, <1>3, <1>4, <1>6, SoleOK
  <2> QED BY <1>4, <1>6, <2>1 DEF b
<1> QED BY <1>5, <1>6

-----------------------------------------------------------------------------
(* The verbs. *)

\* The trees are as they were, or the panes are not, or the view stays.
Stays(a, b) ==
  \/ b.tabs = a.tabs /\ b.root = a.root /\ b.kids = a.kids
  \/ LivePanes(b) # LivePanes(a)
  \/ Cur(a) \in Tabs(b) => Cur(b) = Cur(a)

\* A layout changes neither.
LEMMA LaidGood ==
  ASSUME NEW a, NEW b, Good(b), Stays(a, b)
  PROVE  Good(Laid(b)) /\ Stays(a, Laid(b))
<1>1. PICK own, up : Sound(b, own, up, {})
  BY DEF Good
<1> DEFINE c == Laid(b)
<1>2. Alike(b, c) /\ Sound(c, own, up, {})
  BY <1>1, LaidOK
<1> HIDE DEF c
<1>3. c.tabs = b.tabs /\ c.root = b.root /\ c.kids = b.kids /\ c.cur = b.cur /\ c.live = b.live
  BY <1>2 DEF Alike, SameTrees
<1>4. Cur(c) = Cur(b) /\ Tabs(c) = Tabs(b) /\ LivePanes(c) = LivePanes(b)
  BY <1>3 DEF Cur, Tabs, LivePanes
<1>5. Stays(a, c)
  BY <1>3, <1>4 DEF Stays
<1> QED BY <1>2, <1>5 DEF Good, c

\* The same trees with a focus of its own in every tab, and zooms at home.
LEMMA FocusSetOK ==
  ASSUME NEW a, NEW own, NEW up, NEW loose, Sound(a, own, up, loose),
         NEW t \in Tab, t \in Tabs(a), NEW p \in Pane, own[p] = t
  PROVE  LET b == [a EXCEPT !.focus[t] = p]
         IN /\ Sound(b, own, up, loose) /\ SameTrees(a, b) /\ b.cur = a.cur /\ b.zoom = a.zoom
            /\ b.dir = a.dir /\ b.mini = a.mini /\ b.floats = a.floats
            /\ b.focus = [a.focus EXCEPT ![t] = p]
<1> DEFINE b == [a EXCEPT !.focus[t] = p]
<1>1. /\ IsRec(b) /\ b.floats = a.floats /\ b.tabs = a.tabs /\ b.cur = a.cur /\ b.root = a.root
      /\ b.focus = [a.focus EXCEPT ![t] = p] /\ b.zoom = a.zoom /\ b.live = a.live
      /\ b.parent = a.parent
      /\ b.kids = a.kids /\ b.dir = a.dir /\ b.mini = a.mini /\ b.quit = a.quit
  BY DEF Sound, IsRec, Fields
<1> HIDE DEF b
<1>2. Typed(b)
  <2>1. b.focus \in [Tab -> Pane \cup {Nil}]
    BY <1>1 DEF Sound, Typed
  <2> QED BY <1>1, <2>1 DEF Sound, Typed
<1>3. SameTrees(a, b) /\ View(b)
  BY <1>1, <1>2 DEF SameTrees, Sound, View
<1>4. \A u \in Tab : b.focus[u] = IF u = t THEN p ELSE a.focus[u]
  BY <1>1 DEF Sound, Typed
<1>5. \A u \in Tabs(a) : b.focus[u] \in Pane /\ own[b.focus[u]] = u
  BY <1>4, LeavesOK DEF Sound, Homes
<1>6. \A u \in Tab \ Tabs(a) : b.focus[u] = Nil /\ b.zoom[u] = Nil
  BY <1>1, <1>4 DEF Sound, Homes
<1>7. \A u \in Tab : b.zoom[u] # Nil /\ own[b.zoom[u]] # Nil => own[b.zoom[u]] = u
  BY <1>1 DEF Sound, Homes
<1>8. Sound(b, own, up, loose)
  BY <1>3, <1>5, <1>6, <1>7, SameSound
<1> QED BY <1>1, <1>3, <1>8 DEF b

\* A tab looked at, and a pane of it.
LEMMA FocusedOK ==
  ASSUME NEW a, NEW own, NEW up, NEW loose, Sound(a, own, up, loose),
         NEW t \in Tab, t \in Tabs(a), NEW p \in Pane, own[p] = t
  PROVE  LET b == Focused(a, t, p)
         IN /\ Sound(b, own, up, loose) /\ SameTrees(a, b) /\ Cur(b) = t /\ b.zoom = a.zoom
            /\ b.dir = a.dir /\ b.mini = a.mini /\ b.floats = a.floats
            /\ b.focus[t] = p
<1> DEFINE k == IndexOf(a.tabs, t)
           c == [a EXCEPT !.cur = k]
           b == [c EXCEPT !.focus[t] = p]
<1>1. k \in DOMAIN a.tabs /\ a.tabs[k] = t
  BY PlaceOK DEF Sound
<1>2. b = Focused(a, t, p)
  BY DEF Focused
<1> HIDE DEF k
<1>3. /\ Sound(c, own, up, loose) /\ SameTrees(a, c)
      /\ c.cur = k /\ c.focus = a.focus /\ c.zoom = a.zoom
      /\ c.dir = a.dir /\ c.mini = a.mini /\ c.floats = a.floats
  BY <1>1, LookedOK
<1> HIDE DEF c
<1>4. t \in Tabs(c)
  BY <1>3 DEF SameTrees, Tabs
<1>5. /\ Sound(b, own, up, loose) /\ SameTrees(c, b) /\ b.cur = c.cur /\ b.zoom = c.zoom
      /\ b.dir = c.dir /\ b.mini = c.mini /\ b.floats = c.floats
      /\ b.focus = [c.focus EXCEPT ![t] = p]
  BY <1>3, <1>4, FocusSetOK
<1> HIDE DEF b
<1>6. b.focus[t] = p
  BY <1>3, <1>5 DEF Sound, Typed
<1>7. SameTrees(a, b)
  BY <1>3, <1>5 DEF SameTrees
<1>8. Cur(b) = t
  BY <1>1, <1>3, <1>5, <1>7 DEF SameTrees, Cur
<1> QED BY <1>2, <1>3, <1>5, <1>6, <1>7, <1>8

\* Where one was looking, if that is still there.
LEMMA SeenFromOK ==
  ASSUME NEW a, NEW b, Good(b)
  PROVE  Good(SeenFrom(a, b)) /\ Stays(a, SeenFrom(a, b))
<1>1. PICK own, up : Sound(b, own, up, {})
  BY DEF Good
<1>2. CASE Cur(a) \notin Tabs(b)
  BY <1>2 DEF SeenFrom, Stays
<1>3. CASE Cur(a) \in Tabs(b)
  <2> DEFINE k == IndexOf(b.tabs, Cur(a))
             c == [b EXCEPT !.cur = k]
  <2>1. k \in DOMAIN b.tabs /\ b.tabs[k] = Cur(a)
    BY <1>1, <1>3, PlaceOK DEF Sound
  <2>2. SeenFrom(a, b) = c
    BY <1>3 DEF SeenFrom
  <2> HIDE DEF k
  <2>3. Sound(c, own, up, {}) /\ SameTrees(b, c) /\ c.cur = k
    BY <1>1, <2>1, LookedOK
  <2> HIDE DEF c
  <2>4. Cur(c) = Cur(a)
    BY <2>1, <2>3 DEF SameTrees, Cur
  <2> QED BY <2>2, <2>3, <2>4 DEF Good, Stays
<1> QED BY <1>2, <1>3

\* A new pane beside another, which gets the keyboard.
LEMMA SplitAtOK ==
  ASSUME NEW a, NEW own, NEW up, Sound(a, own, up, {}), a.tabs # <<>>,
         NEW leaf \in Pane, own[leaf] = Cur(a),
         NEW new \in Pane, new \notin a.live, Aloof(a, new), NEW d \in Dirs, NEW before \in BOOLEAN
  PROVE  Good(SplitAt(a, leaf, new, d, before)) /\ new \in SplitAt(a, leaf, new, d, before).live
<1> DEFINE t == Cur(a)
           born == [a EXCEPT !.live = @ \cup {new}]
           pl == Placed(born, t, leaf, new, d, before)
           b == [pl EXCEPT !.focus[t] = new]
<1>1. t \in Tabs(a) /\ t \in Tab
  BY CurOK DEF Sound
<1>2. SplitAt(a, leaf, new, d, before) = Laid(b)
  BY DEF SplitAt
<1> HIDE DEF t, b
<1>3. Sound(born, own, up, {new}) /\ born.tabs = a.tabs /\ born.zoom = a.zoom /\ born.live = a.live \cup {new}
  BY BornOK
<1> HIDE DEF born
<1>4. Aloof(born, new) /\ own[leaf] = t
  BY <1>3 DEF Aloof, t
<1>5. /\ pl.tabs = born.tabs /\ pl.cur = born.cur /\ pl.focus = born.focus
      /\ pl.live \cap Pane = born.live \cap Pane
      /\ \E own2, up2 : Sound(pl, own2, up2, {}) /\ Moves(own, own2, new, t)
  BY <1>1, <1>3, <1>4, PlacedOK
<1> HIDE DEF pl
<1>6. PICK own2, up2 : Sound(pl, own2, up2, {}) /\ Moves(own, own2, new, t)
  BY <1>5
<1>7. own2[new] = t /\ t \in Tabs(pl)
  BY <1>1, <1>3, <1>5, <1>6 DEF Moves, Tabs
<1>8. Sound(b, own2, up2, {}) /\ SameTrees(pl, b)
  BY <1>1, <1>6, <1>7, FocusSetOK DEF b
<1>9. Alike(b, Laid(b)) /\ Sound(Laid(b), own2, up2, {})
  BY <1>8, LaidOK
<1>10. new \in Laid(b).live
  BY <1>3, <1>5, <1>8, <1>9 DEF Alike, SameTrees
<1> QED BY <1>2, <1>9, <1>10 DEF Good

\* A new pane afloat.
LEMMA FloatedNewOK ==
  ASSUME NEW a, NEW own, NEW up, Sound(a, own, up, {}), a.tabs # <<>>,
         NEW new \in Pane, new \notin a.live, Aloof(a, new), NEW d \in Dirs
  PROVE  Good(FloatedNew(a, new, d)) /\ new \in FloatedNew(a, new, d).live
<1> DEFINE t == Cur(a)
           born == [a EXCEPT !.live = @ \cup {new}]
           pl == Placed(born, t, a.focus[t], new, d, FALSE)
           c == [pl EXCEPT !.floats = Append(@, new)]
           b == [c EXCEPT !.focus[t] = new]
<1>1. t \in Tabs(a) /\ t \in Tab
  BY CurOK DEF Sound
<1>2. FloatedNew(a, new, d) = Laid(b)
  BY DEF FloatedNew
<1>3. a.focus[t] \in Pane /\ own[a.focus[t]] = t
  BY <1>1 DEF Sound, Homes
<1> HIDE DEF t
<1>4. Sound(born, own, up, {new}) /\ born.tabs = a.tabs /\ born.zoom = a.zoom /\ born.live = a.live \cup {new}
  BY BornOK
<1> HIDE DEF born
<1>5. Aloof(born, new)
  BY <1>4 DEF Aloof
<1>6. /\ pl.tabs = born.tabs /\ pl.live \cap Pane = born.live \cap Pane
      /\ \E own2, up2 : Sound(pl, own2, up2, {}) /\ Moves(own, own2, new, t)
  <2> DEFINE At(fst) == Placed(born, t, a.focus[t], new, d, fst)
             Is(fst) == /\ At(fst).tabs = born.tabs /\ At(fst).live \cap Pane = born.live \cap Pane
                      /\ \E own2, up2 : Sound(At(fst), own2, up2, {}) /\ Moves(own, own2, new, t)
  <2>1. ASSUME NEW before \in BOOLEAN PROVE Is(before)
    BY <1>1, <1>3, <1>4, <1>5, PlacedOK
  <2> HIDE DEF Is
  <2>2. Is(FALSE)
    BY <2>1
  <2> QED BY <2>2 DEF Is
<1> HIDE DEF pl
<1>7. PICK own2, up2 : Sound(pl, own2, up2, {}) /\ Moves(own, own2, new, t)
  BY <1>6
<1>8. own2[new] = t /\ t \in Tabs(pl)
  BY <1>1, <1>4, <1>6, <1>7 DEF Moves, Tabs
<1>9. /\ IsRec(c) /\ c.floats = Append(pl.floats, new) /\ c.tabs = pl.tabs /\ c.cur = pl.cur
      /\ c.root = pl.root /\ c.focus = pl.focus /\ c.zoom = pl.zoom /\ c.live = pl.live
      /\ c.parent = pl.parent /\ c.kids = pl.kids /\ c.dir = pl.dir /\ c.mini = pl.mini
      /\ c.quit = pl.quit
  BY <1>7 DEF Sound, IsRec, Fields
<1> HIDE DEF c
<1>10. Alike(pl, c)
  <2>1. c.floats \in Seq(Pane)
    BY <1>7, <1>9 DEF Sound, Typed
  <2>2. Typed(c)
    BY <1>7, <1>9, <2>1 DEF Sound, Typed
  <2> QED BY <1>9, <2>2 DEF Alike, SameTrees
<1>11. Sound(c, own2, up2, {}) /\ t \in Tabs(c) /\ c.live = pl.live
  BY <1>7, <1>8, <1>9, <1>10, AlikeSound DEF Tabs
<1>12. Sound(b, own2, up2, {}) /\ SameTrees(c, b)
  BY <1>1, <1>8, <1>11, FocusSetOK
<1> HIDE DEF b
<1>13. Alike(b, Laid(b)) /\ Sound(Laid(b), own2, up2, {})
  BY <1>12, LaidOK
<1>14. new \in Laid(b).live
  BY <1>4, <1>6, <1>11, <1>12, <1>13 DEF Alike, SameTrees
<1> QED BY <1>2, <1>13, <1>14 DEF Good

\* A new pane in a tab of its own.
LEMMA TabAddedOK ==
  ASSUME NEW a, NEW own, NEW up, Sound(a, own, up, {}), a.tabs # <<>>,
         NEW new \in Pane, new \notin a.live, Aloof(a, new), NEW t \in Tab, t \notin Tabs(a)
  PROVE  Good(TabAdded(a, new, t)) /\ new \in TabAdded(a, new, t).live
<1> DEFINE born == [a EXCEPT !.live = @ \cup {new}]
           open == Opened(born, new, t)
           k == Len(open.tabs)
           b == [open EXCEPT !.cur = k]
<1>1. TabAdded(a, new, t) = Laid(b)
  BY DEF TabAdded
<1>2. Sound(born, own, up, {new}) /\ born.tabs = a.tabs /\ born.zoom = a.zoom /\ born.live = a.live \cup {new}
  BY BornOK
<1> HIDE DEF born
<1>3. Aloof(born, new) /\ t \notin Tabs(born)
  BY <1>2 DEF Aloof, Tabs
<1>4. /\ open.tabs = Append(born.tabs, t) /\ open.live = born.live
      /\ \E own2 : Sound(open, own2, up, {}) /\ Moves(own, own2, new, t)
  BY <1>2, <1>3, OpenedOK
<1> HIDE DEF open
<1>5. PICK own2 : Sound(open, own2, up, {})
  BY <1>4
<1>6. k \in DOMAIN open.tabs
  BY <1>2, <1>4 DEF Sound, Typed
<1> HIDE DEF k
<1>7. Sound(b, own2, up, {}) /\ SameTrees(open, b)
  BY <1>5, <1>6, LookedOK
<1> HIDE DEF b
<1>8. Alike(b, Laid(b)) /\ Sound(Laid(b), own2, up, {})
  BY <1>7, LaidOK
<1>9. new \in Laid(b).live
  BY <1>2, <1>4, <1>7, <1>8 DEF Alike, SameTrees
<1> QED BY <1>1, <1>8, <1>9 DEF Good

\* A pane to a tab of its own.
LEMMA MovedToNewOK ==
  ASSUME NEW a, NEW own, NEW up, Sound(a, own, up, {}), NEW leaf \in Pane, own[leaf] # Nil,
         a.parent[leaf] # Nil, NEW t \in Tab, t \notin Tabs(a)
  PROVE  Good(MovedToNew(a, leaf, t)) /\ Stays(a, MovedToNew(a, leaf, t))
<1> DEFINE u == own[leaf]
           off == Detached(a, leaf)
           op == Opened(off, leaf, t)
           seen == SeenFrom(a, op)
<1>1. u \in Tab /\ u \in Tabs(a)
  BY LeavesOK DEF Sound, Owned, Node
<1>2. /\ \E own2 : Sound(off, own2, up, {leaf}) /\ Moves(own, own2, leaf, Nil)
      /\ Aloof(off, leaf) /\ off.tabs = a.tabs
  BY <1>1, DetachedOK
<1>3. MovedToNew(a, leaf, t) = Laid(seen)
  BY DEF MovedToNew
<1> HIDE DEF u, off
<1>4. off.tabs # <<>> /\ t \notin Tabs(off)
  BY <1>1, <1>2, PlaceOK DEF Sound, Tabs
<1>5. PICK own2 : Sound(off, own2, up, {leaf})
  BY <1>2
<1>6. \E own3 : Sound(op, own3, up, {}) /\ Moves(own2, own3, leaf, t)
  BY <1>2, <1>4, <1>5, OpenedOK
<1>7. Good(op)
  BY <1>6 DEF Good
<1> HIDE DEF op
<1>8. Good(seen) /\ Stays(a, seen)
  BY <1>7, SeenFromOK
<1> HIDE DEF seen
<1> QED BY <1>3, <1>8, LaidGood

\* A pane to a seat in another tab.
LEMMA MovedBesideOK ==
  ASSUME NEW a, NEW own, NEW up, Sound(a, own, up, {}), NEW leaf \in Pane, own[leaf] # Nil,
         NEW dest \in Tab, dest \in Tabs(a), dest # own[leaf],
         NEW want \in Pane \cup {Nil}, want # Nil => own[want] = dest,
         NEW d \in Dirs, NEW take \in BOOLEAN
  PROVE  Good(MovedBeside(a, leaf, dest, want, d, take))
         /\ Stays(a, MovedBeside(a, leaf, dest, want, d, take))
<1> DEFINE u == own[leaf]
           off == Detached(a, leaf)
           had == off.focus[dest]
           beside == IF want # Nil THEN want
                     ELSE IF had # Nil THEN had ELSE FirstLeaf(off, off.root[dest])
           pl == Placed(off, dest, beside, leaf, d, FALSE)
           f == IF take \/ had = Nil THEN leaf ELSE had
           on == [pl EXCEPT !.focus[dest] = f]
           seen == SeenFrom(a, LaidTab(on, dest))
<1>1. u \in Tab /\ u \in Tabs(a) /\ dest # Nil
  BY LeavesOK DEF Sound, Owned, Node
<1>2. /\ \E own2 : Sound(off, own2, up, {leaf}) /\ Moves(own, own2, leaf, Nil)
      /\ Aloof(off, leaf)
      /\ Tabs(off) = IF a.parent[leaf] = Nil THEN Tabs(a) \ {u} ELSE Tabs(a)
  BY <1>1, DetachedOK
<1>3. MovedBeside(a, leaf, dest, want, d, take) = Laid(seen)
  BY DEF MovedBeside
<1> HIDE DEF off
<1>4. dest \in Tabs(off)
  BY <1>2
<1> HIDE DEF u
<1>5. PICK own2 : Sound(off, own2, up, {leaf}) /\ Moves(own, own2, leaf, Nil)
  BY <1>2
<1>6. had \in Pane /\ own2[had] = dest
  BY <1>4, <1>5 DEF Sound, Homes
<1>7. had # Nil
  BY <1>6, LayoutAssumption DEF LayoutAssumption, Node
<1> HIDE DEF had
<1>8. beside \in Pane /\ own2[beside] = dest
  <2>1. CASE want = Nil
    BY <1>6, <1>7, <2>1
  <2>2. CASE want # Nil
    <3>1. want \in Pane /\ own[want] = dest /\ want # leaf
      BY <2>2
    <3> QED BY <1>5, <2>2, <3>1 DEF Moves
  <2> QED BY <2>1, <2>2
<1> HIDE DEF beside
<1>9. /\ pl.tabs = off.tabs
      /\ \E own3, up3 : Sound(pl, own3, up3, {}) /\ Moves(own2, own3, leaf, dest)
  <2> DEFINE At(c) == Placed(off, dest, beside, leaf, d, c)
             Is(c) == /\ At(c).tabs = off.tabs
                      /\ \E own3, up3 : Sound(At(c), own3, up3, {}) /\ Moves(own2, own3, leaf, dest)
  <2>1. ASSUME NEW before \in BOOLEAN PROVE Is(before)
    BY <1>2, <1>5, <1>8, PlacedOK
  <2> HIDE DEF Is
  <2>2. Is(FALSE)
    BY <2>1
  <2> QED BY <2>2 DEF Is
<1> HIDE DEF pl
<1>10. PICK own3, up3 : Sound(pl, own3, up3, {}) /\ Moves(own2, own3, leaf, dest)
  BY <1>9
<1>11. dest \in Tabs(pl)
  BY <1>4, <1>9 DEF Tabs
<1>12. f \in Pane /\ own3[f] = dest
  <2>1. own3[leaf] = dest /\ own3[had] = dest
    BY <1>6, <1>10 DEF Moves
  <2> QED BY <1>6, <2>1
<1> HIDE DEF f
<1>13. Sound(on, own3, up3, {}) /\ SameTrees(pl, on)
  BY <1>10, <1>11, <1>12, FocusSetOK
<1> HIDE DEF on
<1>14. dest \in Tabs(on)
  BY <1>11, <1>13 DEF SameTrees, Tabs
<1>15. Good(LaidTab(on, dest))
  BY <1>13, <1>14, LaidTabOK DEF Good
<1>16. Good(seen) /\ Stays(a, seen)
  BY <1>15, SeenFromOK
<1> HIDE DEF seen
<1> QED BY <1>3, <1>16, LaidGood

\* A pane to another seat in its tab.
LEMMA InsertedOK ==
  ASSUME NEW a, NEW own, NEW up, Sound(a, own, up, {}), NEW src \in Pane, NEW dst \in Pane,
         src # dst, own[src] # Nil, own[dst] = own[src], NEW d \in Dirs, NEW before \in BOOLEAN
  PROVE  Good(Inserted(a, src, dst, d, before)) /\ Stays(a, Inserted(a, src, dst, d, before))
<1> DEFINE t == own[src]
           off == Detached(a, src)
           pl == Placed(off, t, dst, src, d, before)
           b == [pl EXCEPT !.focus[t] = src]
<1>1. t \in Tab /\ t \in Tabs(a) /\ src \in Node /\ dst \in Node
  BY LeavesOK DEF Sound, Owned, Node
<1>2. TabOf(a, src) = t
  BY <1>1, TabOK
<1>3. Inserted(a, src, dst, d, before) = Laid(b)
  BY <1>2 DEF Inserted
<1>4. a.parent[src] # Nil
  <2> SUFFICES ASSUME a.parent[src] = Nil PROVE FALSE
    OBVIOUS
  <2>1. a.root[t] = src
    BY <1>1 DEF Sound, Upward
  <2>2. NodesOf(a)[a.root[t]] = {n \in Node : own[n] = t} /\ NodesOf(a)[src] = {src}
    BY <1>1, NodesOK
  <2> QED BY <1>1, <2>1, <2>2
<1>5. /\ \E own2 : Sound(off, own2, up, {src}) /\ Moves(own, own2, src, Nil)
      /\ Aloof(off, src) /\ off.tabs = a.tabs /\ off.cur = a.cur
  BY <1>1, <1>4, DetachedOK
<1> HIDE DEF off
<1>6. PICK own2 : Sound(off, own2, up, {src}) /\ Moves(own, own2, src, Nil)
  BY <1>5
<1>7. own2[dst] = t
  BY <1>6 DEF Moves
<1> HIDE DEF t
<1>8. /\ pl.tabs = off.tabs /\ pl.cur = off.cur
      /\ \E own3, up3 : Sound(pl, own3, up3, {}) /\ Moves(own2, own3, src, t)
  BY <1>1, <1>5, <1>6, <1>7, PlacedOK
<1> HIDE DEF pl
<1>9. PICK own3, up3 : Sound(pl, own3, up3, {}) /\ Moves(own2, own3, src, t)
  BY <1>8
<1>10. own3[src] = t /\ t \in Tabs(pl)
  BY <1>1, <1>5, <1>8, <1>9 DEF Moves, Tabs
<1>11. Sound(b, own3, up3, {}) /\ SameTrees(pl, b) /\ b.cur = pl.cur
  BY <1>1, <1>9, <1>10, FocusSetOK
<1> HIDE DEF b
<1>12. Stays(a, b)
  BY <1>5, <1>8, <1>11 DEF Stays, SameTrees, Cur
<1> QED BY <1>3, <1>11, <1>12, LaidGood DEF Good

\* A pane closed.
LEMMA CloseLeafOK ==
  ASSUME NEW a, NEW own, NEW up, Sound(a, own, up, {}), NEW leaf \in Pane, own[leaf] # Nil
  PROVE  Good(CloseLeaf(a, leaf)) /\ leaf \notin CloseLeaf(a, leaf).live
<1> DEFINE t == own[leaf]
           u == Unhooked(a, t, leaf)
           fr == Freed(u, {leaf})
<1>1. t \in Tab /\ t \in Tabs(a) /\ leaf \in Node
  BY LeavesOK DEF Sound, Owned, Node
<1>2. TabOf(a, leaf) = t
  BY <1>1, TabOK
<1>3. CASE a.parent[leaf] = Nil
  <2>1. CloseLeaf(a, leaf) = TabRemoved(a, t)
    BY <1>2, <1>3 DEF CloseLeaf
  <2>2. /\ Sound(TabRemoved(a, t), Disowned(own, t), up, {})
        /\ \A n \in Node : n \in TabRemoved(a, t).live <=> n \in a.live /\ own[n] # t
    BY <1>1, TabRemovedOK
  <2>3. leaf \notin TabRemoved(a, t).live
    BY <1>1, <2>2
  <2> QED BY <2>1, <2>2, <2>3 DEF Good
<1>4. CASE a.parent[leaf] # Nil
  <2>1. CloseLeaf(a, leaf) = Laid(fr)
    BY <1>2, <1>4 DEF CloseLeaf
  <2>2. PICK own2 : Sound(u, own2, up, {leaf})
    BY <1>1, <1>4, UnhookedOK
  <2> HIDE DEF u
  <2>3. Good(LetGo(u, leaf)) /\ LetGo(u, leaf).live = u.live \ {leaf}
    BY <2>2, GoneOK
  <2>4. fr = LetGo(u, leaf)
    BY DEF LetGo
  <2> HIDE DEF fr
  <2>5. PICK own3, up3 : Sound(fr, own3, up3, {})
    BY <2>3, <2>4 DEF Good
  <2>6. Alike(fr, Laid(fr)) /\ Sound(Laid(fr), own3, up3, {})
    BY <2>5, LaidOK
  <2> QED BY <2>1, <2>3, <2>4, <2>6 DEF Good, Alike, SameTrees
<1> QED BY <1>3, <1>4

\* A tab closed with its panes.
LEMMA CloseTabOK ==
  ASSUME NEW a, NEW own, NEW up, Sound(a, own, up, {}), NEW t \in Tab, t \in Tabs(a)
  PROVE  Good(Laid(TabRemoved(a, t))) /\ LivePanes(Laid(TabRemoved(a, t))) # LivePanes(a)
<1> DEFINE b == TabRemoved(a, t)
           p == a.focus[t]
<1>1. /\ Sound(b, Disowned(own, t), up, {})
      /\ \A n \in Node : n \in b.live <=> n \in a.live /\ own[n] # t
  BY TabRemovedOK
<1> HIDE DEF b
<1>2. p \in Pane /\ own[p] = t
  BY DEF Sound, Homes
<1>3. p \in Node /\ p \in a.live
  BY <1>2, LayoutAssumption DEF LayoutAssumption, Sound, Owned, Node
<1>4. Alike(b, Laid(b)) /\ Sound(Laid(b), Disowned(own, t), up, {})
  BY <1>1, LaidOK
<1>5. p \in LivePanes(a) /\ p \notin LivePanes(Laid(b))
  BY <1>1, <1>2, <1>3, <1>4 DEF LivePanes, Alike, SameTrees
<1> QED BY <1>4, <1>5 DEF Good, b

\* A tab looked at, with f its focus and z its zoom.
Touched(a, b, t, f, z) ==
  /\ IsRec(b) /\ b.tabs = a.tabs /\ b.cur = IndexOf(a.tabs, t) /\ b.root = a.root
  /\ b.focus = [a.focus EXCEPT ![t] = f] /\ b.zoom = [a.zoom EXCEPT ![t] = z]
  /\ b.live = a.live /\ b.parent = a.parent /\ b.kids = a.kids /\ b.dir = a.dir
  /\ b.quit = a.quit /\ b.mini \in SUBSET Pane /\ b.floats \in Seq(Pane)

LEMMA TouchedOK ==
  ASSUME NEW a, NEW own, NEW up, Sound(a, own, up, {}), NEW t \in Tab, t \in Tabs(a),
         NEW f \in Pane, own[f] = t, NEW z \in Pane \cup {Nil}, z \in {Nil, a.zoom[t]} \/ own[z] = t,
         NEW b, Touched(a, b, t, f, z)
  PROVE  Sound(b, own, up, {}) /\ SameTrees(a, b)
<1>1. IndexOf(a.tabs, t) \in DOMAIN a.tabs /\ IndexOf(a.tabs, t) \in Nat /\ a.tabs # <<>>
  BY PlaceOK DEF Sound
<1>2. /\ IsRec(b) /\ b.tabs = a.tabs /\ b.cur = IndexOf(a.tabs, t) /\ b.root = a.root
      /\ b.focus = [a.focus EXCEPT ![t] = f] /\ b.zoom = [a.zoom EXCEPT ![t] = z]
      /\ b.live = a.live /\ b.parent = a.parent /\ b.kids = a.kids /\ b.dir = a.dir
      /\ b.quit = a.quit /\ b.mini \in SUBSET Pane /\ b.floats \in Seq(Pane)
  BY DEF Touched
<1>3. /\ \A u \in Tab : b.focus[u] = IF u = t THEN f ELSE a.focus[u]
      /\ \A u \in Tab : b.zoom[u] = IF u = t THEN z ELSE a.zoom[u]
  BY <1>2 DEF Sound, Typed
<1>4. b.focus \in [Tab -> Pane \cup {Nil}] /\ b.zoom \in [Tab -> Pane \cup {Nil}]
  BY <1>2 DEF Sound, Typed
<1>5. Typed(b)
  BY <1>1, <1>2, <1>4 DEF Sound, Typed
<1>6. SameTrees(a, b)
  BY <1>2, <1>5 DEF SameTrees
<1>7. View(b)
  BY <1>1, <1>2 DEF View
<1>8. \A u \in Tabs(a) : b.focus[u] \in Pane /\ own[b.focus[u]] = u
  BY <1>3, LeavesOK DEF Sound, Homes
<1>9. \A u \in Tab \ Tabs(a) : b.focus[u] = Nil /\ b.zoom[u] = Nil
  BY <1>3 DEF Sound, Homes
<1>10. \A u \in Tab : b.zoom[u] # Nil /\ own[b.zoom[u]] # Nil => own[b.zoom[u]] = u
  BY <1>3 DEF Sound, Homes
<1> QED BY <1>6, <1>7, <1>8, <1>9, <1>10, SameSound

\* Looked at again.
LEMMA LaidSame ==
  ASSUME NEW a, NEW own, NEW up, NEW b, Sound(b, own, up, {}), SameTrees(a, b)
  PROVE  Good(Laid(b)) /\ Stays(a, Laid(b))
  BY LaidGood DEF Good, Stays, SameTrees

\* A pane put away.
LEMMA PutAwayOK ==
  ASSUME NEW a, NEW own, NEW up, Sound(a, own, up, {}), NEW p \in Pane, own[p] # Nil,
         Backdrop(a, TabOf(a, p), p) # {}
  PROVE  Good(PutAway(a, p)) /\ Stays(a, PutAway(a, p))
<1> DEFINE t == own[p]
           row == LeafSeq(a, t)
           S == {i \in DOMAIN row : row[i] \in Backdrop(a, t, p)}
           next == row[Min(S)]
           f == IF a.focus[t] = p THEN next ELSE a.focus[t]
           z == IF a.zoom[t] = p THEN Nil ELSE a.zoom[t]
           b == [a EXCEPT !.mini = @ \cup {p}, !.cur = IndexOf(a.tabs, t),
                          !.zoom[t] = IF @ = p THEN Nil ELSE @,
                          !.focus[t] = IF @ = p THEN next ELSE @]
<1>1. t \in Tab /\ t \in Tabs(a) /\ TabOf(a, p) = t
  BY LeavesOK, TabOK DEF Sound, Owned, Node
<1>2. PutAway(a, p) = Laid(b)
  BY <1>1 DEF PutAway
<1> HIDE DEF t
<1>3. row \in Seq(Pane) /\ ToSet(row) = Leaves(a, t) /\ Leaves(a, t) = {q \in Pane : own[q] = t}
  BY <1>1, LeafSeqOK, LeavesOK
<1> HIDE DEF row
<1>4. next \in Backdrop(a, t, p)
  <2>1. PICK q : q \in Backdrop(a, t, p)
    BY <1>1
  <2>2. q \in Leaves(a, t)
    BY <2>1 DEF Backdrop
  <2>3. PICK i \in 1..Len(row) : row[i] = q
    BY <1>3, <2>2, Members
  <2>4. i \in S /\ S \in SUBSET Nat
    BY <1>3, <2>1, <2>3
  <2>5. Min(S) \in S
    BY <2>4, FirstPlace
  <2> QED BY <2>5
<1> HIDE DEF next, S
<1>5. next \in Pane /\ own[next] = t
  BY <1>3, <1>4 DEF Backdrop
<1>6. f \in Pane /\ own[f] = t
  BY <1>1, <1>5 DEF Sound, Homes
<1>7. z \in Pane \cup {Nil} /\ z \in {Nil, a.zoom[t]}
  BY <1>1 DEF Sound, Typed
<1>8. Touched(a, b, t, f, z)
  <2>1. /\ IsRec(b) /\ b.tabs = a.tabs /\ b.cur = IndexOf(a.tabs, t) /\ b.root = a.root
        /\ b.focus = [a.focus EXCEPT ![t] = IF @ = p THEN next ELSE @]
        /\ b.zoom = [a.zoom EXCEPT ![t] = IF @ = p THEN Nil ELSE @]
        /\ b.live = a.live /\ b.parent = a.parent /\ b.kids = a.kids /\ b.dir = a.dir
        /\ b.quit = a.quit /\ b.mini = a.mini \cup {p} /\ b.floats = a.floats
    BY DEF Sound, IsRec, Fields
  <2> HIDE DEF b
  <2> QED BY <2>1 DEF Touched, Sound, Typed
<1> HIDE DEF b, f, z
<1>9. Sound(b, own, up, {}) /\ SameTrees(a, b)
  BY <1>1, <1>6, <1>7, <1>8, TouchedOK
<1> QED BY <1>2, <1>9, LaidSame

\* A pane given the whole tab, or back its place.
LEMMA ZoomToggledOK ==
  ASSUME NEW a, NEW own, NEW up, Sound(a, own, up, {}), NEW p \in Pane, own[p] # Nil
  PROVE  Good(ZoomToggled(a, p)) /\ Stays(a, ZoomToggled(a, p))
<1> DEFINE t == own[p]
           c == [a EXCEPT !.cur = IndexOf(a.tabs, t), !.focus[t] = p]
           z == IF a.zoom[t] = p THEN Nil ELSE p
           b == [c EXCEPT !.zoom[t] = IF @ = p THEN Nil ELSE p]
<1>1. t \in Tab /\ t \in Tabs(a) /\ TabOf(a, p) = t
  BY LeavesOK, TabOK DEF Sound, Owned, Node
<1>2. ZoomToggled(a, p) = Laid(b)
  BY <1>1 DEF ZoomToggled, Focused
<1>3. own[p] = t
  OBVIOUS
<1> HIDE DEF t
<1>4. Touched(a, b, t, p, z)
  <2>1. /\ IsRec(b) /\ b.tabs = a.tabs /\ b.cur = IndexOf(a.tabs, t) /\ b.root = a.root
        /\ b.focus = [a.focus EXCEPT ![t] = p]
        /\ b.zoom = [a.zoom EXCEPT ![t] = IF @ = p THEN Nil ELSE p]
        /\ b.live = a.live /\ b.parent = a.parent /\ b.kids = a.kids /\ b.dir = a.dir
        /\ b.quit = a.quit /\ b.mini = a.mini /\ b.floats = a.floats
    BY DEF Sound, IsRec, Fields
  <2> HIDE DEF b
  <2> QED BY <2>1 DEF Touched, Sound, Typed
<1>5. z \in Pane \cup {Nil} /\ (z \in {Nil, a.zoom[t]} \/ own[z] = t)
  BY <1>3
<1> HIDE DEF b, z
<1>6. Sound(b, own, up, {}) /\ SameTrees(a, b)
  BY <1>1, <1>3, <1>4, <1>5, TouchedOK
<1> QED BY <1>2, <1>6, LaidSame

\* A pane lifted, or landed.
LEMMA FloatToggledOK ==
  ASSUME NEW a, NEW own, NEW up, Sound(a, own, up, {}), NEW p \in Pane, own[p] # Nil
  PROVE  Good(FloatToggled(a, p)) /\ Stays(a, FloatToggled(a, p))
<1> DEFINE t == own[p]
           down == [a EXCEPT !.floats = Without(@, p)]
           high == [a EXCEPT !.mini = @ \ {p}, !.floats = Append(@, p)]
           lift == IF p \in Floating(a) THEN down ELSE high
           b == [lift EXCEPT !.cur = IndexOf(lift.tabs, t), !.focus[t] = p]
<1>1. t \in Tab /\ t \in Tabs(a) /\ TabOf(a, p) = t
  BY LeavesOK, TabOK DEF Sound, Owned, Node
<1>2. FloatToggled(a, p) = Laid(b)
  BY <1>1 DEF FloatToggled, Focused
<1>3. own[p] = t
  OBVIOUS
<1> HIDE DEF t
<1>4. /\ IsRec(down) /\ down.tabs = a.tabs /\ down.cur = a.cur /\ down.root = a.root
      /\ down.focus = a.focus /\ down.zoom = a.zoom /\ down.live = a.live /\ down.parent = a.parent
      /\ down.kids = a.kids /\ down.dir = a.dir /\ down.quit = a.quit
      /\ down.mini = a.mini /\ down.floats = Without(a.floats, p)
  BY DEF Sound, IsRec, Fields
<1>5. /\ IsRec(high) /\ high.tabs = a.tabs /\ high.cur = a.cur /\ high.root = a.root
      /\ high.focus = a.focus /\ high.zoom = a.zoom /\ high.live = a.live /\ high.parent = a.parent
      /\ high.kids = a.kids /\ high.dir = a.dir /\ high.quit = a.quit
      /\ high.mini = a.mini \ {p} /\ high.floats = Append(a.floats, p)
  BY DEF Sound, IsRec, Fields
<1> HIDE DEF down, high
<1>6. /\ IsRec(lift) /\ lift.tabs = a.tabs /\ lift.cur = a.cur /\ lift.root = a.root
      /\ lift.focus = a.focus /\ lift.zoom = a.zoom /\ lift.live = a.live /\ lift.parent = a.parent
      /\ lift.kids = a.kids /\ lift.dir = a.dir /\ lift.quit = a.quit
      /\ lift.mini \in SUBSET Pane /\ lift.floats \in Seq(Pane)
  <2>1. Without(a.floats, p) \in Seq(Pane) /\ Append(a.floats, p) \in Seq(Pane)
    BY WithoutOK DEF Sound, Typed
  <2> QED BY <1>4, <1>5, <2>1 DEF Sound, Typed
<1> HIDE DEF lift
<1>7. Touched(a, b, t, p, a.zoom[t])
  <2>1. /\ IsRec(b) /\ b.tabs = lift.tabs /\ b.cur = IndexOf(lift.tabs, t) /\ b.root = lift.root
        /\ b.focus = [lift.focus EXCEPT ![t] = p] /\ b.zoom = lift.zoom
        /\ b.live = lift.live /\ b.parent = lift.parent /\ b.kids = lift.kids /\ b.dir = lift.dir
        /\ b.quit = lift.quit /\ b.mini = lift.mini /\ b.floats = lift.floats
    BY <1>6 DEF IsRec, Fields
  <2> HIDE DEF b
  <2>2. a.zoom = [a.zoom EXCEPT ![t] = a.zoom[t]]
    BY DEF Sound, Typed
  <2> QED BY <1>6, <2>1, <2>2 DEF Touched
<1> HIDE DEF b
<1>8. a.zoom[t] \in Pane \cup {Nil}
  BY <1>1 DEF Sound, Typed
<1>9. Sound(b, own, up, {}) /\ SameTrees(a, b)
  BY <1>1, <1>3, <1>7, <1>8, TouchedOK
<1> QED BY <1>2, <1>9, LaidSame

\* A tab moved along the strip, and what is looked at with it.
Along(s, from, to) == InsertAt(RemoveAt(s, from), to, s[from])

Followed(c, from, to) ==
  IF c = from THEN to ELSE IF c > from /\ c <= to THEN c - 1
  ELSE IF c >= to /\ c < from THEN c + 1 ELSE c

LEMMA MovedAlong ==
  ASSUME NEW S, NEW s \in Seq(S), IsInjective(s), NEW from \in 1..Len(s), NEW to \in 1..Len(s),
         NEW c \in 1..Len(s)
  PROVE  /\ Along(s, from, to) \in Seq(S) /\ ToSet(Along(s, from, to)) = ToSet(s)
         /\ IsInjective(Along(s, from, to))
         /\ Followed(c, from, to) \in 1..Len(Along(s, from, to))
         /\ Along(s, from, to)[Followed(c, from, to)] = s[c]
<1> DEFINE e == s[from]
           r == RemoveAt(s, from)
           q == InsertAt(r, to, e)
           k == IF c = from THEN to ELSE IF c > from /\ c <= to THEN c - 1
                ELSE IF c >= to /\ c < from THEN c + 1 ELSE c
<1>0. Len(s) \in Nat /\ e \in S /\ e \in ToSet(s) /\ \A i, j \in 1..Len(s) : s[i] = s[j] => i = j
  BY Members
<1>1. /\ r \in Seq(S) /\ Len(r) = Len(s) - 1
      /\ \A j \in 1..Len(s) - 1 : r[j] = IF j < from THEN s[j] ELSE s[j + 1]
  BY RemoveOK
<1>2. IndexOf(s, e) = from
  BY <1>0, IndexOK
<1>3. r = Without(s, e)
  BY <1>0, <1>2, Members DEF Without
<1>4. IsInjective(r) /\ ToSet(r) = ToSet(s) \ {e}
  BY <1>0, <1>3, WithoutOK
<1> HIDE DEF r, e
<1>5. to \in 1..Len(r) + 1
  BY <1>0, <1>1
<1>6. /\ q \in Seq(S) /\ Len(q) = Len(r) + 1 /\ ToSet(q) = ToSet(r) \cup {e}
      /\ \A j \in 1..Len(r) + 1 : q[j] = IF j < to THEN r[j] ELSE IF j = to THEN e ELSE r[j - 1]
      /\ IsInjective(q)
  <2>1. e \in S /\ e \notin ToSet(r)
    BY <1>0, <1>4
  <2> HIDE DEF k
  <2>2. r \in Seq(S)
    BY <1>1
  <2>3. IsInjective(r)
    BY <1>4
  <2> HIDE <1>0, <1>1, <1>4
  <2>4. q \in Seq(S) /\ Len(q) = Len(r) + 1 /\ ToSet(q) = ToSet(r) \cup {e}
    BY <1>5, <2>1, <2>2, InsertOK
  <2>5. \A j \in 1..Len(r) + 1 : q[j] = IF j < to THEN r[j] ELSE IF j = to THEN e ELSE r[j - 1]
    BY <1>5, <2>1, <2>2, InsertOK
  <2>6. IsInjective(q)
    BY <1>5, <2>1, <2>2, <2>3, InsertOK
  <2> QED BY <2>4, <2>5, <2>6
<1> HIDE DEF q
<1>7. ToSet(q) = ToSet(s)
  BY <1>0, <1>4, <1>6
<1>8. \A j \in 1..Len(s) : q[j] = IF j < to THEN r[j] ELSE IF j = to THEN e ELSE r[j - 1]
  BY <1>0, <1>1, <1>6
<1>9. Len(q) = Len(s)
  BY <1>0, <1>1, <1>6
<1>10. k \in 1..Len(s) /\ q[k] = s[c]
  <2>1. CASE c = from
    BY <1>8, <2>1 DEF e
  <2>2. CASE c > from /\ c <= to
    <3>1. k = c - 1 /\ k \in 1..Len(s) - 1 /\ k \in 1..Len(s) /\ k < to /\ ~(k < from)
      BY <1>0, <2>2
    <3>2. q[k] = r[k] /\ r[k] = s[k + 1]
      BY <1>1, <1>8, <3>1
    <3> QED BY <3>1, <3>2
  <2>3. CASE c >= to /\ c < from
    <3>1. k = c + 1 /\ k \in 1..Len(s) /\ ~(k < to) /\ k # to /\ c \in 1..Len(s) - 1 /\ k - 1 = c
      BY <1>0, <2>3
    <3>2. q[k] = r[k - 1] /\ r[c] = s[c]
      BY <1>1, <1>8, <2>3, <3>1
    <3> QED BY <3>1, <3>2
  <2>4. CASE c < from /\ c < to
    <3>1. k = c /\ c \in 1..Len(s) - 1
      BY <1>0, <2>4
    <3>2. q[c] = r[c] /\ r[c] = s[c]
      BY <1>1, <1>8, <2>4, <3>1
    <3> QED BY <3>1, <3>2
  <2>5. CASE c > from /\ c > to
    <3>1. k = c /\ c - 1 \in 1..Len(s) - 1 /\ ~(c - 1 < from) /\ c - 1 + 1 = c
      BY <1>0, <2>5
    <3>2. q[c] = r[c - 1] /\ r[c - 1] = s[c - 1 + 1]
      BY <1>1, <1>8, <2>5, <3>1
    <3> QED BY <3>1, <3>2
  <2> QED BY <2>1, <2>2, <2>3, <2>4, <2>5
<1> HIDE DEF k
<1> QED BY <1>6, <1>7, <1>9, <1>10 DEF Along, Followed, k, q, r, e

LEMMA TabMovedOK ==
  ASSUME NEW a, NEW own, NEW up, Sound(a, own, up, {}), NEW from \in DOMAIN a.tabs,
         NEW to \in DOMAIN a.tabs
  PROVE  Good(TabMoved(a, from, to)) /\ Stays(a, TabMoved(a, from, to))
<1> DEFINE q == Along(a.tabs, from, to)
           k == Followed(a.cur, from, to)
           b == TabMoved(a, from, to)
<1>1. a.tabs \in Seq(Tab) /\ IsInjective(a.tabs) /\ from \in 1..Len(a.tabs) /\ to \in 1..Len(a.tabs)
  BY DEF Sound, Typed, Homes
<1>2. a.cur \in 1..Len(a.tabs)
  BY <1>1 DEF Sound, View
<1>3. /\ q \in Seq(Tab) /\ ToSet(q) = ToSet(a.tabs) /\ IsInjective(q)
      /\ k \in 1..Len(q) /\ q[k] = a.tabs[a.cur]
  BY <1>1, <1>2, MovedAlong
<1>4. /\ IsRec(b) /\ b.floats = a.floats /\ b.tabs = q /\ b.cur = k /\ b.root = a.root
      /\ b.focus = a.focus /\ b.zoom = a.zoom /\ b.live = a.live /\ b.parent = a.parent
      /\ b.kids = a.kids /\ b.dir = a.dir /\ b.mini = a.mini /\ b.quit = a.quit
  BY DEF Sound, IsRec, Fields, TabMoved, Along, Followed
<1> HIDE DEF b, q, k
<1>5. k \in Nat /\ k \in DOMAIN q /\ q # <<>>
  <2>1. Len(q) \in Nat /\ k \in 1..Len(q)
    BY <1>3
  <2>2. k \in Nat
    BY <2>1
  <2>3. DOMAIN q = 1..Len(q) /\ q # <<>>
    BY <1>3
  <2> QED BY <2>1, <2>2, <2>3
<1>6. Typed(b)
  BY <1>3, <1>4, <1>5 DEF Sound, Typed
<1>7. Tabs(b) = Tabs(a)
  BY <1>3, <1>4 DEF Tabs
<1>8. Owned(b, own, {}) /\ Upward(b, own, up) /\ Downward(b, own)
  BY <1>4, <1>7 DEF Sound, Owned, Upward, Downward
<1>9. Homes(b, own) /\ View(b)
  BY <1>3, <1>4, <1>5, <1>7 DEF Sound, Homes, View
<1>10. Sound(b, own, up, {})
  BY <1>4, <1>6, <1>8, <1>9 DEF Sound
<1>11. Cur(b) = Cur(a)
  BY <1>3, <1>4 DEF Cur
<1> QED BY <1>10, <1>11 DEF Good, Stays, b

\* The strip and the place looked at are as they were.
Still(a, b) == b.tabs = a.tabs /\ b.cur = a.cur

LEMMA StillOK ==
  ASSUME NEW a, NEW b, Good(b), Still(a, b)
  PROVE  Good(Laid(b)) /\ Stays(a, Laid(b)) /\ Still(a, Laid(b))
<1>1. PICK own, up : Sound(b, own, up, {})
  BY DEF Good
<1>2. Alike(b, Laid(b))
  BY <1>1, LaidOK
<1>3. Stays(a, b)
  BY DEF Still, Stays, Cur
<1> QED BY <1>2, <1>3, LaidGood DEF Still, Alike, SameTrees

\* A quarter turn.
LEMMA TurnedOK ==
  ASSUME NEW a, NEW t, Good(a)
  PROVE  Good(Turned(a, t)) /\ Still(a, Turned(a, t))
<1> DEFINE here == NodesOf(a)[a.root[t]]
           Rows(s) == s \in here /\ a.dir[s] = "rows"
           b == Turned(a, t)
<1>1. PICK own, up : Sound(a, own, up, {})
  BY DEF Good
<1>2. /\ IsRec(b) /\ b.floats = a.floats /\ b.tabs = a.tabs /\ b.cur = a.cur /\ b.root = a.root
      /\ b.focus = a.focus /\ b.zoom = a.zoom /\ b.live = a.live /\ b.parent = a.parent
      /\ b.kids = [s \in Split |-> IF Rows(s) THEN Reverse(a.kids[s]) ELSE a.kids[s]]
      /\ b.dir = [s \in Split |-> IF s \notin here THEN a.dir[s]
                                  ELSE IF Rows(s) THEN "cols" ELSE "rows"]
      /\ b.mini = a.mini /\ b.quit = a.quit
  BY <1>1 DEF Sound, IsRec, Fields, Turned
<1> HIDE DEF b, here
<1>3. \A s \in Split : /\ a.kids[s] \in Seq(Node)
                       /\ b.kids[s] \in Seq(Node) /\ Len(b.kids[s]) = Len(a.kids[s])
                       /\ ToSet(b.kids[s]) = ToSet(a.kids[s])
                       /\ IsInjective(a.kids[s]) => IsInjective(b.kids[s])
  <2> TAKE s \in Split
  <2>1. a.kids[s] \in Seq(Node)
    BY <1>1 DEF Sound, Typed
  <2>2. b.kids[s] = IF Rows(s) THEN Reverse(a.kids[s]) ELSE a.kids[s]
    BY <1>2
  <2> QED BY <2>1, <2>2, ReverseOK
<1>4. Typed(b)
  <2>1. b.kids \in [Split -> Seq(Node)]
    BY <1>2, <1>3
  <2>2. b.dir \in [Split -> Dirs]
    BY <1>1, <1>2 DEF Sound, Typed, Dirs
  <2> QED BY <1>1, <1>2, <2>1, <2>2 DEF Sound, Typed
<1>5. Tabs(b) = Tabs(a)
  BY <1>2 DEF Tabs
<1>6. Owned(b, own, {}) /\ Homes(b, own) /\ View(b)
  BY <1>1, <1>2, <1>5 DEF Sound, Owned, Homes, View
<1>7. Upward(b, own, up)
  <2>1. \A n \in Node : a.parent[n] # Nil => a.parent[n] \in Split
    BY <1>1 DEF Sound, Typed
  <2> QED BY <1>1, <1>2, <1>3, <2>1 DEF Sound, Upward
<1>8. Downward(b, own)
  <2> SUFFICES ASSUME NEW s \in Split
               PROVE  /\ own[s] = Nil => b.kids[s] = <<>>
                      /\ own[s] # Nil => /\ Len(b.kids[s]) >= 2 /\ IsInjective(b.kids[s])
                                         /\ \A k \in ToSet(b.kids[s]) : b.parent[k] = s
    BY DEF Downward
  <2>1. CASE own[s] = Nil
    <3>1. a.kids[s] = <<>>
      BY <1>1, <2>1 DEF Sound, Downward
    <3>2. Len(b.kids[s]) = 0
      BY <1>3, <3>1
    <3> QED BY <1>3, <2>1, <3>2
  <2>2. CASE own[s] # Nil
    BY <1>1, <1>2, <1>3, <2>2 DEF Sound, Downward
  <2> QED BY <2>1, <2>2
<1> QED BY <1>1, <1>2, <1>4, <1>6, <1>7, <1>8 DEF Sound, Good, Still, b

\* Three of them put a turn back.
LEMMA TurnedBackOK ==
  ASSUME NEW a, NEW t, Good(a)
  PROVE  Good(TurnedBack(a, t)) /\ Still(a, TurnedBack(a, t))
<1> DEFINE b == Turned(a, t)
           c == Turned(b, t)
           d == Turned(c, t)
<1>1. TurnedBack(a, t) = d
  BY DEF TurnedBack
<1>2. Good(b) /\ Still(a, b)
  BY TurnedOK
<1> HIDE DEF b
<1>3. Good(c) /\ Still(b, c)
  BY <1>2, TurnedOK
<1> HIDE DEF c
<1>4. Good(d) /\ Still(c, d)
  BY <1>3, TurnedOK
<1> HIDE DEF d
<1> QED BY <1>1, <1>2, <1>3, <1>4 DEF Still

\* One for the other.
Traded(x, y, n) == IF n = x THEN y ELSE IF n = y THEN x ELSE n

TradedRow(x, y, s) == [i \in DOMAIN s |-> Traded(x, y, s[i])]

LEMMA TradedOK ==
  ASSUME NEW S, NEW s \in Seq(S), NEW x \in S, NEW y \in S
  PROVE  /\ TradedRow(x, y, s) \in Seq(S) /\ Len(TradedRow(x, y, s)) = Len(s)
         /\ \A e : e \in ToSet(TradedRow(x, y, s)) <=> \E k \in ToSet(s) : Traded(x, y, k) = e
         /\ IsInjective(s) => IsInjective(TradedRow(x, y, s))
<1> DEFINE r == TradedRow(x, y, s)
<1>1. Len(s) \in Nat /\ DOMAIN s = 1..Len(s) /\ \A i \in 1..Len(s) : s[i] \in S
  OBVIOUS
<1>2. \A n \in S : Traded(x, y, n) \in S
  BY DEF Traded
<1>3. r = [i \in 1..Len(s) |-> Traded(x, y, s[i])]
  BY <1>1 DEF TradedRow
<1> HIDE DEF r
<1>4. /\ r \in Seq(S) /\ Len(r) = Len(s) /\ \A i \in 1..Len(s) : r[i] = Traded(x, y, s[i])
  BY <1>1, <1>2, <1>3
<1>5. /\ \A e : e \in ToSet(r) <=> \E i \in 1..Len(r) : r[i] = e
      /\ \A e : e \in ToSet(s) <=> \E i \in 1..Len(s) : s[i] = e
  BY <1>4, Members
<1>6. \A e : e \in ToSet(r) <=> \E k \in ToSet(s) : Traded(x, y, k) = e
  BY <1>4, <1>5
<1>7. ASSUME IsInjective(s) PROVE IsInjective(r)
  <2>1. \A i, j \in 1..Len(s) : s[i] = s[j] => i = j
    BY <1>7, Members
  <2>2. \A i, j \in 1..Len(r) : r[i] = r[j] => i = j
    BY <1>4, <2>1 DEF Traded
  <2> QED BY <1>4, <2>2, Members
<1> QED BY <1>4, <1>6, <1>7 DEF r

\* Two panes of a tab trade places.
LEMMA SwappedOK ==
  ASSUME NEW a, NEW own, NEW up, Sound(a, own, up, {}), NEW x \in Pane, NEW y \in Pane, x # y,
         own[x] # Nil, own[y] = own[x], a.parent[x] # Nil, a.parent[y] # Nil
  PROVE  Good(Swapped(a, x, y)) /\ Stays(a, Swapped(a, x, y))
<1> DEFINE t == own[x]
           px == a.parent[x]
           py == a.parent[y]
           b == [a EXCEPT !.kids = [s \in Split |-> [i \in DOMAIN @[s] |-> Traded(x, y, @[s][i])]],
                          !.parent[x] = a.parent[y], !.parent[y] = a.parent[x]]
           up2 == [n \in Node |-> up[Traded(x, y, n)]]
<1>1. /\ x \in Node /\ y \in Node /\ x \notin Split /\ y \notin Split
      /\ t # Nil /\ t \in Tab
  BY LayoutAssumption DEF LayoutAssumption, Node, Sound, Owned
<1>2. Swapped(a, x, y) = Laid(b)
  BY DEF Swapped, Traded
<1>3. /\ IsRec(b) /\ b.floats = a.floats /\ b.tabs = a.tabs /\ b.cur = a.cur /\ b.root = a.root
      /\ b.focus = a.focus /\ b.zoom = a.zoom /\ b.live = a.live
      /\ b.parent = [[a.parent EXCEPT ![x] = py] EXCEPT ![y] = px]
      /\ b.kids = [s \in Split |-> [i \in DOMAIN a.kids[s] |-> Traded(x, y, a.kids[s][i])]]
      /\ b.dir = a.dir /\ b.mini = a.mini /\ b.quit = a.quit
  BY DEF Sound, IsRec, Fields
<1> HIDE DEF b
<1>4. /\ px \in Split /\ px \in Node /\ own[px] = t /\ up[px] < up[x] /\ x \in ToSet(a.kids[px])
      /\ py \in Split /\ py \in Node /\ own[py] = t /\ up[py] < up[y] /\ y \in ToSet(a.kids[py])
  BY <1>1 DEF Sound, Upward, Typed, Node
<1>5. \A n \in Node : b.parent[n] = IF n = x THEN py ELSE IF n = y THEN px ELSE a.parent[n]
  <2>1. a.parent \in [Node -> Split \cup {Nil}]
    BY DEF Sound, Typed
  <2> HIDE DEF px, py
  <2> QED BY <1>1, <1>3, <2>1
<1>6. \A s \in Split :
        /\ a.kids[s] \in Seq(Node)
        /\ b.kids[s] \in Seq(Node) /\ Len(b.kids[s]) = Len(a.kids[s])
        /\ \A e : e \in ToSet(b.kids[s]) <=> \E k \in ToSet(a.kids[s]) : Traded(x, y, k) = e
        /\ IsInjective(a.kids[s]) => IsInjective(b.kids[s])
  <2> TAKE s \in Split
  <2> DEFINE r == TradedRow(x, y, a.kids[s])
  <2>1. a.kids[s] \in Seq(Node)
    BY DEF Sound, Typed
  <2>2. b.kids[s] = r
    BY <1>3 DEF TradedRow
  <2>3. /\ r \in Seq(Node) /\ Len(r) = Len(a.kids[s])
        /\ \A e : e \in ToSet(r) <=> \E k \in ToSet(a.kids[s]) : Traded(x, y, k) = e
        /\ IsInjective(a.kids[s]) => IsInjective(r)
    BY <1>1, <2>1, TradedOK
  <2> HIDE DEF r
  <2> QED BY <2>1, <2>2, <2>3
<1> HIDE DEF px, py
<1>7. Typed(b)
  <2>1. b.kids \in [Split -> Seq(Node)]
    <3>1. b.kids = [s \in Split |-> b.kids[s]]
      BY <1>3
    <3> QED BY <1>6, <3>1
  <2>2. b.parent \in [Node -> Split \cup {Nil}]
    BY <1>3, <1>4 DEF Sound, Typed
  <2> QED BY <1>3, <2>1, <2>2 DEF Sound, Typed
<1>8. Tabs(b) = Tabs(a)
  BY <1>3 DEF Tabs
<1>9. \A n \in Node : Traded(x, y, n) \in Node /\ up2[n] = up[Traded(x, y, n)] /\ own[Traded(x, y, n)] = own[n]
                      /\ up[n] \in Nat
  BY <1>1 DEF Traded, Sound, Depths
<1>10. Depths(up2)
  <2>1. PICK N \in Nat : \A n \in Node : up[n] <= N
    BY DEF Sound, Depths
  <2>2. up2 \in [Node -> Nat]
    BY <1>9
  <2>3. \A n \in Node : up2[n] <= N
    BY <1>9, <2>1
  <2> QED BY <2>2, <2>3 DEF Depths
<1> HIDE DEF up2
<1>11. Owned(b, own, {})
  BY <1>3, <1>8 DEF Sound, Owned
<1>12. \A s \in Split : up2[s] = up[s]
  BY <1>1, <1>9 DEF Traded, Node
<1>13. Upward(b, own, up2)
  <2> SUFFICES ASSUME NEW n \in Node
               PROVE  /\ b.parent[n] = Nil /\ own[n] # Nil => b.root[own[n]] = n
                      /\ b.parent[n] # Nil => /\ own[n] # Nil /\ own[b.parent[n]] = own[n]
                                              /\ up2[b.parent[n]] < up2[n]
                                              /\ n \in ToSet(b.kids[b.parent[n]])
    BY DEF Upward
  <2>0. px # Nil /\ py # Nil
    BY <1>4, LayoutAssumption DEF LayoutAssumption
  <2>1. CASE n = x
    <3>1. b.parent[n] = py /\ up2[n] = up[y] /\ up2[py] = up[py]
      BY <1>1, <1>4, <1>5, <1>9, <1>12, <2>1 DEF Traded
    <3>2. x \in ToSet(b.kids[py])
      BY <1>4, <1>6 DEF Traded
    <3> QED BY <1>1, <1>4, <2>0, <2>1, <3>1, <3>2
  <2>2. CASE n = y
    <3>1. b.parent[n] = px /\ up2[n] = up[x] /\ up2[px] = up[px]
      BY <1>1, <1>4, <1>5, <1>9, <1>12, <2>2 DEF Traded
    <3>2. y \in ToSet(b.kids[px])
      BY <1>4, <1>6 DEF Traded
    <3> QED BY <1>1, <1>4, <2>0, <2>2, <3>1, <3>2
  <2>3. CASE n \notin {x, y}
    <3>1. b.parent[n] = a.parent[n] /\ up2[n] = up[n] /\ Traded(x, y, n) = n
      BY <1>5, <1>9, <2>3 DEF Traded
    <3>2. ASSUME a.parent[n] # Nil
          PROVE  /\ own[n] # Nil /\ own[a.parent[n]] = own[n] /\ up2[a.parent[n]] < up2[n]
                 /\ n \in ToSet(b.kids[a.parent[n]])
      <4>1. a.parent[n] \in Split /\ own[n] # Nil /\ own[a.parent[n]] = own[n]
            /\ up[a.parent[n]] < up[n] /\ n \in ToSet(a.kids[a.parent[n]])
        BY <3>2 DEF Sound, Upward, Typed
      <4> QED BY <1>6, <1>12, <3>1, <4>1
    <3> QED BY <1>3, <3>1, <3>2 DEF Sound, Upward
  <2> QED BY <2>1, <2>2, <2>3
<1>14. Downward(b, own)
  <2> SUFFICES ASSUME NEW s \in Split
               PROVE  /\ own[s] = Nil => b.kids[s] = <<>>
                      /\ own[s] # Nil => /\ Len(b.kids[s]) >= 2 /\ IsInjective(b.kids[s])
                                         /\ \A k \in ToSet(b.kids[s]) : b.parent[k] = s
    BY DEF Downward
  <2>1. CASE own[s] = Nil
    <3>1. a.kids[s] = <<>>
      BY <2>1 DEF Sound, Downward
    <3>2. Len(b.kids[s]) = 0
      BY <1>6, <3>1
    <3> QED BY <1>6, <2>1, <3>2
  <2>2. CASE own[s] # Nil
    <3>1. Len(b.kids[s]) >= 2 /\ IsInjective(b.kids[s])
      BY <1>6, <2>2 DEF Sound, Downward
    <3>2. ASSUME NEW k \in ToSet(b.kids[s]) PROVE b.parent[k] = s
      <4>1. PICK m \in ToSet(a.kids[s]) : Traded(x, y, m) = k
        BY <1>6
      <4>2. m \in Node /\ a.parent[m] = s
        BY KidsOK
      <4>3. k = IF m = x THEN y ELSE IF m = y THEN x ELSE m
        BY <4>1 DEF Traded
      <4>4. CASE m = x
        BY <1>1, <1>5, <4>2, <4>3, <4>4 DEF px
      <4>5. CASE m = y
        BY <1>1, <1>5, <4>2, <4>3, <4>5 DEF py
      <4>6. CASE m \notin {x, y}
        BY <1>5, <4>2, <4>3, <4>6
      <4> QED BY <4>4, <4>5, <4>6
    <3> QED BY <2>2, <3>1, <3>2
  <2> QED BY <2>1, <2>2
<1>15. Homes(b, own)
  <2>1. ASSUME NEW u \in Tabs(b)
        PROVE  b.root[u] \in Node /\ own[b.root[u]] = u /\ b.parent[b.root[u]] = Nil
    <3>1. a.root[u] \in Node /\ own[a.root[u]] = u /\ a.parent[a.root[u]] = Nil
      BY <1>8 DEF Sound, Homes
    <3>2. a.root[u] \notin {x, y}
      BY <3>1
    <3> QED BY <1>3, <1>5, <3>1, <3>2
  <2> QED BY <1>3, <1>8, <2>1 DEF Sound, Homes
<1>16. View(b)
  BY <1>3 DEF Sound, View
<1>17. Sound(b, own, up2, {})
  BY <1>3, <1>7, <1>10, <1>11, <1>13, <1>14, <1>15, <1>16 DEF Sound
<1>18. Good(b) /\ Still(a, b)
  BY <1>3, <1>17 DEF Good, Still
<1> QED BY <1>2, <1>18, StillOK

-----------------------------------------------------------------------------
(* The steps. *)

\* What a drag and the strip can hold.
Hands == drag \in Drags \cup {NoDrag} /\ strip \in Tab \cup {Nil, NewTab}

\* What a step keeps, and that it does not move the view.
Done == Good(app') /\ Stays(app, app') /\ Hands'

\* A drop or a re-run finds its pane in the tab on screen.
Tame == "drag" \notin Straying /\ "rerun" \notin Straying

\* The ground every step stands on.
Ground(own, up) ==
  /\ Sound(app, own, up, {}) /\ app.tabs # <<>>
  /\ Cur(app) \in Tabs(app) /\ Cur(app) \in Tab
  /\ \A p : p \in Here <=> p \in Pane /\ own[p] = Cur(app)
  /\ \A p : p \in Live <=> p \in Pane /\ own[p] # Nil
  /\ \A p \in Pane : own[p] # Nil => TabOf(app, p) = own[p] /\ own[p] \in Tab /\ own[p] \in Tabs(app)
  /\ Focus \in Pane /\ own[Focus] = Cur(app)
  /\ \A new \in Fresh : new \in Pane /\ new \notin app.live /\ Aloof(app, new)
  /\ \A t \in FreshTab : t \in Tab /\ t \notin Tabs(app)
  /\ \A t \in Tabs(app) : t \in Tab /\ t # Nil /\ \A p \in Leaves(app, t) : p \in Pane /\ own[p] = t

LEMMA GroundOK ==
  ASSUME NEW own, NEW up, Sound(app, own, up, {}), ~app.quit
  PROVE  Ground(own, up)
<1>1. app.tabs # <<>>
  BY DEF Sound, View
<1>2. Cur(app) \in Tabs(app) /\ Cur(app) \in Tab
  BY <1>1, CurOK DEF Sound
<1>3. \A t \in Tabs(app) : t # Nil /\ t \in Tab /\ Leaves(app, t) = {p \in Pane : own[p] = t}
  BY LeavesOK
<1>4. \A p : p \in Here <=> p \in Pane /\ own[p] = Cur(app)
  BY <1>2, <1>3 DEF Here
<1>5. \A p : p \in Live <=> p \in Pane /\ own[p] # Nil
  BY DEF Live, LivePanes, Sound, Owned, Node
<1>6. \A p \in Pane : own[p] # Nil => TabOf(app, p) = own[p] /\ own[p] \in Tab /\ own[p] \in Tabs(app)
  BY TabOK DEF Sound, Owned, Node
<1>7. Focus \in Pane /\ own[Focus] = Cur(app)
  BY <1>2 DEF Sound, Homes, Focus
<1>8. \A new \in Fresh : new \in Pane /\ new \notin app.live /\ Aloof(app, new)
  BY DEF Fresh, Aloof
<1>9. \A t \in FreshTab : t \in Tab /\ t \notin Tabs(app)
  BY DEF FreshTab
<1> QED BY <1>1, <1>2, <1>3, <1>4, <1>5, <1>6, <1>7, <1>8, <1>9 DEF Ground

\* Where a pane came or went, the panes are not what they were.
LEMMA Counted ==
  ASSUME NEW a, NEW b, NEW p \in Pane, ~(p \in a.live <=> p \in b.live)
  PROVE  Stays(a, b)
  BY DEF Stays, LivePanes

\* The same trees are sound, and nothing moved.
LEMMA SameDone ==
  ASSUME NEW a, NEW own, NEW up, NEW b, Sound(b, own, up, {}), SameTrees(a, b)
  PROVE  Good(b) /\ Stays(a, b)
  BY DEF Good, Stays, SameTrees

\* A verb of a script leaves the mouse as it was.
LEMMA VerbDone ==
  ASSUME Hands, NEW b, Good(b), Stays(app, b), Verb(b)
  PROVE  Done
  BY DEF Verb, Done, Hands

\* A key ends a drag.
LEMMA KeyDone ==
  ASSUME Hands, NEW b, Good(b), Stays(app, b), Key(b)
  PROVE  Done
  BY DEF Key, Done, Hands

LEMMA SplitFocusDone ==
  ASSUME NEW own, NEW up, Ground(own, up), Hands, NEW new \in Fresh, NEW d \in Dirs,
         SplitFocus(new, d)
  PROVE  Done
<1> DEFINE b == SplitAt(app, Focus, new, d, FALSE)
<1>1. Verb(b)
  BY DEF SplitFocus
<1>2. /\ Sound(app, own, up, {}) /\ app.tabs # <<>> /\ Focus \in Pane /\ own[Focus] = Cur(app)
      /\ new \in Pane /\ new \notin app.live /\ Aloof(app, new)
  BY DEF Ground
<1>3. ASSUME NEW c \in BOOLEAN
      PROVE  Good(SplitAt(app, Focus, new, d, c)) /\ new \in SplitAt(app, Focus, new, d, c).live
  BY <1>2, SplitAtOK
<1>4. Good(b) /\ new \in b.live
  BY <1>3
<1> HIDE DEF b
<1>5. Stays(app, b)
  BY <1>2, <1>4, Counted
<1> QED BY <1>1, <1>4, <1>5, VerbDone

LEMMA SplitPaneDone ==
  ASSUME NEW own, NEW up, Ground(own, up), Hands, NEW new \in Fresh, NEW d \in Dirs,
         NEW p \in Live, SplitPane(p, new, d)
  PROVE  Done
<1> DEFINE t == TabOf(app, p)
           c == Focused(app, t, p)
           f == Laid(c)
           s == SplitAt(f, p, new, d, FALSE)
           b == IF p \in Floating(f) THEN f ELSE s
<1>1. Verb(b)
  BY DEF SplitPane
<1>2. /\ Sound(app, own, up, {}) /\ p \in Pane /\ own[p] = t /\ t \in Tab /\ t \in Tabs(app)
      /\ new \in Pane /\ new \notin app.live /\ Aloof(app, new)
  BY DEF Ground
<1> HIDE DEF t
<1>3. Sound(c, own, up, {}) /\ SameTrees(app, c) /\ Cur(c) = t /\ c.zoom = app.zoom
  BY <1>2, FocusedOK
<1> HIDE DEF c
<1>4. Alike(c, f) /\ Sound(f, own, up, {}) /\ Good(f) /\ Stays(app, f)
  BY <1>3, LaidOK, LaidSame
<1> HIDE DEF f
<1>5. Cur(f) = t /\ f.live = app.live /\ SameTrees(app, f) /\ f.tabs = app.tabs
  BY <1>3, <1>4 DEF Alike, SameTrees, Cur
<1>6. Aloof(f, new)
  <2>1. \A u \in Tab : f.zoom[u] \in {app.zoom[u], Nil}
    BY <1>3, <1>4 DEF Alike
  <2>2. new # Nil
    BY <1>2, LayoutAssumption DEF LayoutAssumption, Node
  <2> QED BY <1>2, <2>1, <2>2 DEF Aloof
<1>7. Good(s) /\ new \in s.live
  <2>1. f.tabs # <<>>
    BY <1>5 DEF Ground
  <2>2. ASSUME NEW e \in BOOLEAN
        PROVE  Good(SplitAt(f, p, new, d, e)) /\ new \in SplitAt(f, p, new, d, e).live
    BY <1>2, <1>4, <1>5, <1>6, <2>1, SplitAtOK
  <2> QED BY <2>2
<1> HIDE DEF s
<1>8. Stays(app, s)
  BY <1>2, <1>7, Counted
<1>9. Good(b) /\ Stays(app, b)
  BY <1>4, <1>7, <1>8
<1> HIDE DEF b
<1> QED BY <1>1, <1>9, VerbDone

LEMMA NewFloatDone ==
  ASSUME NEW own, NEW up, Ground(own, up), Hands, NEW new \in Fresh, NEW d \in Dirs,
         NewFloat(new, d)
  PROVE  Done
<1> DEFINE b == FloatedNew(app, new, d)
<1>1. Verb(b)
  BY DEF NewFloat
<1>2. /\ Sound(app, own, up, {}) /\ app.tabs # <<>>
      /\ new \in Pane /\ new \notin app.live /\ Aloof(app, new)
  BY DEF Ground
<1>3. Good(b) /\ new \in b.live
  BY <1>2, FloatedNewOK
<1> HIDE DEF b
<1>4. Stays(app, b)
  BY <1>2, <1>3, Counted
<1> QED BY <1>1, <1>3, <1>4, VerbDone

LEMMA AddTabDone ==
  ASSUME NEW own, NEW up, Ground(own, up), Hands, NEW new \in Fresh, NEW t \in FreshTab,
         AddTab(new, t)
  PROVE  Done
<1> DEFINE b == TabAdded(app, new, t)
<1>1. Verb(b)
  BY DEF AddTab
<1>2. /\ Sound(app, own, up, {}) /\ app.tabs # <<>> /\ t \in Tab /\ t \notin Tabs(app)
      /\ new \in Pane /\ new \notin app.live /\ Aloof(app, new)
  BY DEF Ground
<1>3. Good(b) /\ new \in b.live
  BY <1>2, TabAddedOK
<1> HIDE DEF b
<1>4. Stays(app, b)
  BY <1>2, <1>3, Counted
<1> QED BY <1>1, <1>3, <1>4, VerbDone

\* A drop is of a pane of the tab on screen, and ends the drag.
LEMMA Dropped ==
  ASSUME NEW own, NEW up, Ground(own, up), Tame, NEW b, Drop(b)
  PROVE  drag.src \in Pane /\ own[drag.src] = Cur(app) /\ app' = b /\ drag' = NoDrag
  BY DEF Drop, Ground, Tame

LEMMA ReleaseClickDone ==
  ASSUME NEW own, NEW up, Ground(own, up), Hands, Tame, NEW new \in Fresh, NEW d \in Dirs,
         NEW before \in BOOLEAN, ReleaseClick(new, d, before)
  PROVE  Done
<1> DEFINE b == SplitAt(app, drag.src, new, d, before)
<1>1. Drop(b) /\ UNCHANGED strip
  BY DEF ReleaseClick
<1>2. drag.src \in Pane /\ own[drag.src] = Cur(app) /\ app' = b /\ drag' = NoDrag
  <2> HIDE DEF b
  <2> QED BY <1>1, Dropped
<1>3. /\ Sound(app, own, up, {}) /\ app.tabs # <<>>
      /\ new \in Pane /\ new \notin app.live /\ Aloof(app, new)
  BY DEF Ground
<1>4. Good(b) /\ new \in b.live
  BY <1>2, <1>3, SplitAtOK
<1> HIDE DEF b
<1>5. Stays(app, b)
  BY <1>3, <1>4, Counted
<1> QED BY <1>1, <1>2, <1>4, <1>5 DEF Done, Hands

LEMMA MovePaneToNewTabDone ==
  ASSUME NEW own, NEW up, Ground(own, up), Hands, NEW p \in Live, NEW t \in FreshTab,
         MovePaneToNewTab(p, t)
  PROVE  Done
<1> DEFINE b == MovedToNew(app, p, t)
<1>1. Verb(b) /\ app.parent[p] # Nil
  BY DEF MovePaneToNewTab
<1>2. Sound(app, own, up, {}) /\ p \in Pane /\ own[p] # Nil /\ t \in Tab /\ t \notin Tabs(app)
  BY DEF Ground
<1>3. Good(b) /\ Stays(app, b)
  BY <1>1, <1>2, MovedToNewOK
<1> HIDE DEF b
<1> QED BY <1>1, <1>3, VerbDone

LEMMA ReleaseOnNewTabDone ==
  ASSUME NEW own, NEW up, Ground(own, up), Hands, Tame, NEW t \in FreshTab, ReleaseOnNewTab(t)
  PROVE  Done
<1> DEFINE b == MovedToNew(app, drag.src, t)
<1>1. Drop(b) /\ strip' = Nil /\ app.parent[drag.src] # Nil
  BY DEF ReleaseOnNewTab
<1>2. drag.src \in Pane /\ own[drag.src] = Cur(app) /\ app' = b /\ drag' = NoDrag
  <2> HIDE DEF b
  <2> QED BY <1>1, Dropped
<1>3. Sound(app, own, up, {}) /\ own[drag.src] # Nil /\ t \in Tab /\ t \notin Tabs(app)
  BY <1>2 DEF Ground
<1>4. Good(b) /\ Stays(app, b)
  BY <1>1, <1>2, <1>3, MovedToNewOK
<1> HIDE DEF b
<1> QED BY <1>1, <1>2, <1>4 DEF Done, Hands

LEMMA BirthsDone ==
  ASSUME NEW own, NEW up, Ground(own, up), Hands, Tame, Births
  PROVE  Done
<1>1. CASE \E new \in Fresh, d \in Dirs :
             \/ SplitFocus(new, d) \/ NewFloat(new, d)
             \/ \E p \in Live : SplitPane(p, new, d)
             \/ \E before \in BOOLEAN : ReleaseClick(new, d, before)
  BY <1>1, SplitFocusDone, NewFloatDone, SplitPaneDone, ReleaseClickDone
<1>2. CASE \E t \in FreshTab :
             \/ \E p \in Fresh : AddTab(p, t)
             \/ \E p \in Live : MovePaneToNewTab(p, t)
             \/ ReleaseOnNewTab(t)
  BY <1>2, AddTabDone, MovePaneToNewTabDone, ReleaseOnNewTabDone
<1> QED BY <1>1, <1>2 DEF Births

LEMMA FocusPaneDone ==
  ASSUME NEW own, NEW up, Ground(own, up), Hands, NEW p \in Live, FocusPane(p)
  PROVE  Done
<1> DEFINE t == TabOf(app, p)
           c == Focused(app, t, p)
<1>1. Verb(Laid(c))
  BY DEF FocusPane
<1>2. Sound(app, own, up, {}) /\ p \in Pane /\ own[p] = t /\ t \in Tab /\ t \in Tabs(app)
  BY DEF Ground
<1> HIDE DEF t
<1>3. Sound(c, own, up, {}) /\ SameTrees(app, c)
  BY <1>2, FocusedOK
<1> HIDE DEF c
<1> QED BY <1>1, <1>3, LaidSame, VerbDone

\* What has the focus of the tab on screen.
LEMMA FocusHere ==
  ASSUME NEW own, NEW up, Ground(own, up), NEW p \in Here
  PROVE  LET b == [app EXCEPT !.focus[Cur(app)] = p] IN Good(b) /\ Stays(app, b)
<1> DEFINE t == Cur(app)
           b == [app EXCEPT !.focus[t] = p]
<1>1. Sound(app, own, up, {}) /\ p \in Pane /\ own[p] = t /\ t \in Tab /\ t \in Tabs(app)
  BY DEF Ground
<1> HIDE DEF t
<1>2. Sound(b, own, up, {}) /\ SameTrees(app, b)
  BY <1>1, FocusSetOK
<1> HIDE DEF b
<1>3. Good(b) /\ Stays(app, b)
  BY <1>2, SameDone
<1> QED BY <1>3 DEF b, t

LEMMA FocusToDone ==
  ASSUME NEW own, NEW up, Ground(own, up), Hands, NEW p \in Live, FocusTo(p)
  PROVE  Done
<1> DEFINE b == [app EXCEPT !.focus[Cur(app)] = p]
<1>1. Key(b) /\ p \in Here
  BY DEF FocusTo
<1>2. Good(b) /\ Stays(app, b)
  BY <1>1, FocusHere
<1> HIDE DEF b
<1> QED BY <1>1, <1>2, KeyDone

LEMMA RerunDone ==
  ASSUME NEW own, NEW up, Ground(own, up), Hands, Tame, NEW p \in Live, Rerun(p)
  PROVE  Done
<1> DEFINE b == [app EXCEPT !.focus[Cur(app)] = p]
<1>1. Verb(b) /\ p \in Here
  BY DEF Rerun, Tame
<1>2. Good(b) /\ Stays(app, b)
  BY <1>1, FocusHere
<1> HIDE DEF b
<1> QED BY <1>1, <1>2, VerbDone

LEMMA CloseDone ==
  ASSUME NEW own, NEW up, Ground(own, up), Hands, NEW p \in Live, Close(p)
  PROVE  Done
<1> DEFINE b == CloseLeaf(app, p)
<1>1. Verb(b)
  BY DEF Close
<1>2. Sound(app, own, up, {}) /\ p \in Pane /\ own[p] # Nil
  BY DEF Ground
<1>3. Good(b) /\ p \notin b.live
  BY <1>2, CloseLeafOK
<1>4. p \in app.live
  BY DEF Live, LivePanes
<1> HIDE DEF b
<1>5. Stays(app, b)
  BY <1>2, <1>3, <1>4, Counted
<1> QED BY <1>1, <1>3, <1>5, VerbDone

LEMMA MinimizeDone ==
  ASSUME NEW own, NEW up, Ground(own, up), Hands, NEW p \in Live, Minimize(p)
  PROVE  Done
<1> DEFINE b == PutAway(app, p)
<1>1. Verb(b) /\ Backdrop(app, TabOf(app, p), p) # {}
  BY DEF Minimize
<1>2. Sound(app, own, up, {}) /\ p \in Pane /\ own[p] # Nil
  BY DEF Ground
<1>3. Good(b) /\ Stays(app, b)
  BY <1>1, <1>2, PutAwayOK
<1> HIDE DEF b
<1> QED BY <1>1, <1>3, VerbDone

LEMMA ToggleDone ==
  ASSUME NEW own, NEW up, Ground(own, up), Hands, NEW p \in Live, ToggleZoom(p) \/ ToggleFloat(p)
  PROVE  Done
<1> DEFINE b == ZoomToggled(app, p)
           c == FloatToggled(app, p)
<1>1. Verb(b) \/ Verb(c)
  BY DEF ToggleZoom, ToggleFloat
<1>2. Sound(app, own, up, {}) /\ p \in Pane /\ own[p] # Nil
  BY DEF Ground
<1>3. Good(b) /\ Stays(app, b)
  BY <1>2, ZoomToggledOK
<1>4. Good(c) /\ Stays(app, c)
  BY <1>2, FloatToggledOK
<1> HIDE DEF b, c
<1> QED BY <1>1, <1>3, <1>4, VerbDone

LEMMA PressDone ==
  ASSUME NEW own, NEW up, Ground(own, up), Hands, NEW p \in Live, PressTitle(p) \/ PressBorder(p)
  PROVE  Done
<1> DEFINE t == Cur(app)
           c == Focused(app, t, p)
<1>1. /\ p \in Here /\ strip' = strip
      /\ drag' \in Drags \cup {NoDrag} /\ (app' = Laid(c) \/ app' = app)
  <2>1. /\ Press("title", p) \/ Press("border", p)
        /\ app' = Laid(c) \/ app' = app
    BY DEF PressTitle, PressBorder
  <2>2. p \in Pane
    BY DEF Ground
  <2>3. \A kind \in {"title", "border"} : [kind |-> kind, src |-> p, moved |-> FALSE] \in Drags
    BY <2>2 DEF Drags
  <2>4. p \in Here /\ strip' = strip /\ drag' \in Drags
    BY <2>1, <2>3 DEF Press
  <2> HIDE DEF c
  <2> QED BY <2>1, <2>4
<1>2. Sound(app, own, up, {}) /\ p \in Pane /\ own[p] = t /\ t \in Tab /\ t \in Tabs(app)
  BY <1>1 DEF Ground
<1> HIDE DEF t
<1>3. Sound(c, own, up, {}) /\ SameTrees(app, c)
  BY <1>2, FocusedOK
<1> HIDE DEF c
<1>4. Good(Laid(c)) /\ Stays(app, Laid(c))
  BY <1>3, LaidSame
<1>5. Good(app) /\ Stays(app, app)
  BY <1>2 DEF Good, Stays
<1> QED BY <1>1, <1>4, <1>5 DEF Done, Hands

LEMMA ReleaseOnPaneDone ==
  ASSUME NEW own, NEW up, Ground(own, up), Hands, Tame, NEW p \in Live, ReleaseOnPane(p)
  PROVE  Done
<1> DEFINE b == Swapped(app, drag.src, p)
<1>1. /\ Drop(b) /\ UNCHANGED strip /\ p # drag.src /\ p \in Here
      /\ app.parent[drag.src] # Nil /\ app.parent[p] # Nil
  BY DEF ReleaseOnPane, Tame
<1>2. drag.src \in Pane /\ own[drag.src] = Cur(app) /\ app' = b /\ drag' = NoDrag
  <2> HIDE DEF b
  <2> QED BY <1>1, Dropped
<1>3. Sound(app, own, up, {}) /\ p \in Pane /\ own[p] = own[drag.src] /\ own[drag.src] # Nil
  BY <1>1, <1>2 DEF Ground
<1>4. Good(b) /\ Stays(app, b)
  BY <1>1, <1>2, <1>3, SwappedOK
<1> HIDE DEF b
<1> QED BY <1>1, <1>2, <1>4 DEF Done, Hands

LEMMA ReleaseOnZoneDone ==
  ASSUME NEW own, NEW up, Ground(own, up), Hands, Tame, NEW p \in Live, NEW d \in Dirs,
         NEW before \in BOOLEAN, ReleaseOnZone(p, d, before)
  PROVE  Done
<1> DEFINE b == Inserted(app, drag.src, p, d, before)
<1>1. Drop(b) /\ UNCHANGED strip /\ p # drag.src /\ p \in Here
  BY DEF ReleaseOnZone
<1>2. drag.src \in Pane /\ own[drag.src] = Cur(app) /\ app' = b /\ drag' = NoDrag
  <2> HIDE DEF b
  <2> QED BY <1>1, Dropped
<1>3. Sound(app, own, up, {}) /\ p \in Pane /\ own[p] = own[drag.src] /\ own[drag.src] # Nil
  BY <1>1, <1>2 DEF Ground
<1>4. Good(b) /\ Stays(app, b)
  BY <1>1, <1>2, <1>3, InsertedOK
<1> HIDE DEF b
<1> QED BY <1>1, <1>2, <1>4 DEF Done, Hands

LEMMA MovePaneDone ==
  ASSUME NEW own, NEW up, Ground(own, up), Hands, NEW p \in Live, NEW t \in Elsewhere(p),
         NEW want \in Leaves(app, t), NEW d \in Dirs, NEW take \in BOOLEAN,
         MovePane(p, t, want, d, take)
  PROVE  Done
<1> DEFINE b == MovedBeside(app, p, t, want, d, take)
<1>1. Verb(b)
  BY DEF MovePane
<1>2. /\ Sound(app, own, up, {}) /\ p \in Pane /\ own[p] # Nil
      /\ t \in Tabs(app) /\ t # own[p] /\ t \in Tab
  BY DEF Ground, Elsewhere
<1>3. want \in Pane \cup {Nil} /\ (want # Nil => own[want] = t)
  BY <1>2 DEF Ground
<1>4. Good(b) /\ Stays(app, b)
  BY <1>2, <1>3, MovedBesideOK
<1> HIDE DEF b
<1> QED BY <1>1, <1>4, VerbDone

LEMMA OnPaneDone ==
  ASSUME NEW own, NEW up, Ground(own, up), Hands, Tame, NEW p \in Live, OnPane(p)
  PROVE  Done
<1>1. CASE FocusPane(p) \/ FocusTo(p) \/ Rerun(p) \/ Close(p)
  BY <1>1, FocusPaneDone, FocusToDone, RerunDone, CloseDone
<1>2. CASE Minimize(p) \/ ToggleZoom(p) \/ ToggleFloat(p) \/ PressTitle(p) \/ PressBorder(p)
  BY <1>2, MinimizeDone, ToggleDone, PressDone
<1>3. CASE ReleaseOnPane(p) \/ \E d \in Dirs, before \in BOOLEAN : ReleaseOnZone(p, d, before)
  BY <1>3, ReleaseOnPaneDone, ReleaseOnZoneDone
<1>4. CASE \E t \in Elsewhere(p) :
             \E want \in Leaves(app, t), d \in Dirs, take \in BOOLEAN :
               MovePane(p, t, want, d, take)
  BY <1>4, MovePaneDone
<1> QED BY <1>1, <1>2, <1>3, <1>4 DEF OnPane

LEMMA SelectTabDone ==
  ASSUME NEW own, NEW up, Ground(own, up), Hands, NEW i \in DOMAIN app.tabs, SelectTab(i)
  PROVE  Done
<1> DEFINE b == [app EXCEPT !.cur = i]
<1>1. Verb(Laid(b))
  BY DEF SelectTab
<1>2. Sound(b, own, up, {}) /\ SameTrees(app, b)
  BY LookedOK DEF Ground
<1> HIDE DEF b
<1> QED BY <1>1, <1>2, LaidSame, VerbDone

LEMMA MoveTabDone ==
  ASSUME NEW own, NEW up, Ground(own, up), Hands, NEW i \in DOMAIN app.tabs,
         NEW j \in DOMAIN app.tabs, MoveTab(i, j)
  PROVE  Done
<1> DEFINE b == TabMoved(app, i, j)
<1>1. Verb(b)
  BY DEF MoveTab
<1>2. Good(b) /\ Stays(app, b)
  BY TabMovedOK DEF Ground
<1> HIDE DEF b
<1> QED BY <1>1, <1>2, VerbDone

LEMMA CloseTabDone ==
  ASSUME NEW own, NEW up, Ground(own, up), Hands, NEW t \in Tabs(app), CloseTab(t)
  PROVE  Done
<1> DEFINE b == Laid(TabRemoved(app, t))
<1>1. Verb(b)
  BY DEF CloseTab
<1>2. Good(b) /\ LivePanes(b) # LivePanes(app)
  BY CloseTabOK DEF Ground
<1> HIDE DEF b
<1>3. Stays(app, b)
  BY <1>2 DEF Stays
<1> QED BY <1>1, <1>2, <1>3, VerbDone

LEMMA ReleaseOnTabDone ==
  ASSUME NEW own, NEW up, Ground(own, up), Hands, Tame, NEW t \in Tabs(app), ReleaseOnTab(t)
  PROVE  Done
<1> DEFINE At(want, d, take) == MovedBeside(app, drag.src, t, want, d, take)
           b == At(Nil, "cols", TRUE)
<1>1. Drop(b) /\ strip' = Nil /\ t \in Elsewhere(drag.src)
  BY DEF ReleaseOnTab
<1>2. drag.src \in Pane /\ own[drag.src] = Cur(app) /\ app' = b /\ drag' = NoDrag
  <2> HIDE DEF b
  <2> QED BY <1>1, Dropped
<1>3. Sound(app, own, up, {}) /\ own[drag.src] # Nil /\ t # own[drag.src] /\ t \in Tab
  BY <1>1, <1>2 DEF Ground, Elsewhere
<1>4. ASSUME NEW want \in Pane \cup {Nil}, want # Nil => own[want] = t, NEW d \in Dirs,
             NEW take \in BOOLEAN
      PROVE  Good(At(want, d, take)) /\ Stays(app, At(want, d, take))
  BY <1>2, <1>3, <1>4, MovedBesideOK
<1> HIDE DEF At
<1>5. "cols" \in Dirs
  BY DEF Dirs
<1>6. Good(b) /\ Stays(app, b)
  BY <1>4, <1>5
<1> HIDE DEF b
<1> QED BY <1>1, <1>2, <1>6 DEF Done, Hands

\* What only the mouse and the keyboard have to do with.
LEMMA HandsDone ==
  ASSUME NEW own, NEW up, Ground(own, up), Hands, MotionTitle \/ MotionBorder \/ EndDrag
  PROVE  Done
<1>1. app' = app
  BY DEF MotionTitle, MotionBorder, EndDrag
<1>2. Good(app) /\ Stays(app, app)
  BY DEF Ground, Good, Stays
<1>3. Hands'
  <2>1. CASE MotionTitle
    <3>1. drag \in Drags /\ drag' = [drag EXCEPT !.moved = TRUE]
      BY <2>1 DEF MotionTitle, Hands
    <3>2. drag' \in Drags
      BY <3>1 DEF Drags
    <3> QED BY <2>1, <3>2 DEF MotionTitle, Hands
  <2>2. CASE MotionBorder
    BY <2>2 DEF MotionBorder, Hands
  <2>3. CASE EndDrag
    BY <2>3 DEF EndDrag, Hands, LeftOver, Ground
  <2> QED BY <2>1, <2>2, <2>3
<1> QED BY <1>1, <1>2, <1>3 DEF Done

LEMMA RotateDone ==
  ASSUME NEW own, NEW up, Ground(own, up), Hands, Rotate \/ RotateRefused \/ Compose
  PROVE  Done
<1> DEFINE t == Cur(app)
           b == Turned(app, t)
           c == Laid(b)
           d == TurnedBack(c, t)
           e == Laid(d)
<1>1. Key(c) \/ Key(e) \/ Verb(Laid(app))
  BY DEF Rotate, RotateRefused, Compose, Verb
<1>2. Good(app) /\ Still(app, app)
  BY DEF Ground, Good, Still
<1> HIDE DEF t
<1>3. Good(b) /\ Still(app, b)
  BY <1>2, TurnedOK
<1> HIDE DEF b
<1>4. Good(c) /\ Stays(app, c) /\ Still(app, c)
  BY <1>3, StillOK
<1> HIDE DEF c
<1>5. Good(d) /\ Still(app, d)
  BY <1>4, TurnedBackOK DEF Still
<1> HIDE DEF d
<1>6. Good(e) /\ Stays(app, e)
  BY <1>5, StillOK
<1> HIDE DEF e
<1>7. Good(Laid(app)) /\ Stays(app, Laid(app))
  BY <1>2, StillOK
<1> QED BY <1>1, <1>4, <1>6, <1>7, KeyDone, VerbDone

LEMMA NextDone ==
  ASSUME Good(app), Hands, Tame, Next
  PROVE  Done
<1>1. PICK own, up : Sound(app, own, up, {})
  BY DEF Good
<1>2. Ground(own, up)
  BY <1>1, GroundOK DEF Next
<1>3. CASE Births
  BY <1>2, <1>3, BirthsDone
<1>4. CASE \E p \in Live : OnPane(p)
  BY <1>2, <1>4, OnPaneDone
<1>5. CASE \E i \in DOMAIN app.tabs :
             SelectTab(i) \/ \E j \in DOMAIN app.tabs : MoveTab(i, j)
  BY <1>2, <1>5, SelectTabDone, MoveTabDone
<1>6. CASE \E t \in Tabs(app) : CloseTab(t) \/ ReleaseOnTab(t)
  BY <1>2, <1>6, CloseTabDone, ReleaseOnTabDone
<1>7. CASE MotionTitle \/ MotionBorder \/ EndDrag
  BY <1>2, <1>7, HandsDone
<1>8. CASE Rotate \/ RotateRefused \/ Compose
  BY <1>2, <1>8, RotateDone
<1> QED BY <1>3, <1>4, <1>5, <1>6, <1>7, <1>8 DEF Next

-----------------------------------------------------------------------------
(* The theorems. *)

LEMMA InitGood ==
  ASSUME Init
  PROVE  Good(app) /\ Hands
<1>1. PICK p \in Pane, t \in Tab :
        /\ app = [tabs |-> <<t>>, cur |-> 1, live |-> {p}, quit |-> FALSE,
                  root |-> [u \in Tab |-> IF u = t THEN p ELSE Nil],
                  focus |-> [u \in Tab |-> IF u = t THEN p ELSE Nil],
                  zoom |-> [u \in Tab |-> Nil], parent |-> [n \in Node |-> Nil],
                  kids |-> [s \in Split |-> <<>>],
                  dir |-> [s \in Split |-> "cols"], mini |-> {}, floats |-> <<>>]
        /\ drag = NoDrag /\ strip = Nil
  BY DEF Init
<1> DEFINE own == [n \in Node |-> IF n = p THEN t ELSE Nil]
           up == [n \in Node |-> 0]
<1>2. /\ IsRec(app) /\ app.tabs = <<t>> /\ app.cur = 1 /\ app.live = {p} /\ app.quit = FALSE
      /\ app.root = [u \in Tab |-> IF u = t THEN p ELSE Nil]
      /\ app.focus = [u \in Tab |-> IF u = t THEN p ELSE Nil]
      /\ app.zoom = [u \in Tab |-> Nil] /\ app.parent = [n \in Node |-> Nil]
      /\ app.kids = [s \in Split |-> <<>>]
      /\ app.dir = [s \in Split |-> "cols"] /\ app.mini = {} /\ app.floats = <<>>
  BY <1>1 DEF IsRec, Fields
<1>3. p \in Node /\ p # Nil /\ t # Nil /\ p \notin Split
  BY LayoutAssumption DEF LayoutAssumption, Node
<1>4. /\ <<t>> \in Seq(Tab) /\ Len(<<t>>) = 1 /\ ToSet(<<t>>) = {t} /\ IsInjective(<<t>>)
      /\ 1 \in DOMAIN <<t>>
  <2>1. <<t>> \in Seq(Tab) /\ Len(<<t>>) = 1 /\ Head(<<t>>) = t /\ 1 \in DOMAIN <<t>>
    OBVIOUS
  <2>2. ToSet(<<t>>) = {t}
    BY <2>1, AloneOK
  <2>3. IsInjective(<<t>>)
    BY DEF IsInjective
  <2> QED BY <2>1, <2>2, <2>3
<1>5. Typed(app)
  <2>0. app.tabs \in Seq(Tab)
    BY <1>2, <1>4
  <2>4. app.cur \in Nat
    BY <1>2
  <2>5. app.live \in SUBSET Node
    BY <1>2, <1>3
  <2>6. app.quit \in BOOLEAN
    BY <1>2
  <2>2. /\ app.root \in [Tab -> Node \cup {Nil}] /\ app.focus \in [Tab -> Pane \cup {Nil}]
        /\ app.zoom \in [Tab -> Pane \cup {Nil}] /\ app.parent \in [Node -> Split \cup {Nil}]
    BY <1>2, <1>3
  <2>3. /\ app.kids \in [Split -> Seq(Node)] /\ app.dir \in [Split -> Dirs]
        /\ app.mini \in SUBSET Pane /\ app.floats \in Seq(Pane)
    BY <1>2 DEF Dirs
  <2> QED BY <2>0, <2>2, <2>3, <2>4, <2>5, <2>6 DEF Typed
<1>6. Tabs(app) = {t}
  BY <1>2, <1>4 DEF Tabs
<1>7. own \in [Node -> Tab \cup {Nil}] /\ \A n \in Node : own[n] = IF n = p THEN t ELSE Nil
  OBVIOUS
<1>8. Depths(up)
  BY DEF Depths
<1> HIDE DEF own, up
<1>9. Owned(app, own, {})
  BY <1>2, <1>3, <1>6, <1>7 DEF Owned
<1>10. Upward(app, own, up)
  BY <1>2, <1>3, <1>7 DEF Upward
<1>11. Downward(app, own)
  BY <1>2, <1>3, <1>7 DEF Downward, Node
<1>12. Homes(app, own)
  <2>1. /\ \A u \in Tabs(app) : /\ app.root[u] \in Node /\ own[app.root[u]] = u
                                /\ app.parent[app.root[u]] = Nil
                                /\ app.focus[u] \in Pane /\ own[app.focus[u]] = u
        /\ \A u \in Tab \ Tabs(app) : app.root[u] = Nil /\ app.focus[u] = Nil /\ app.zoom[u] = Nil
        /\ \A u \in Tab : app.zoom[u] = Nil
    BY <1>2, <1>3, <1>6, <1>7
  <2>2. IsInjective(app.tabs)
    BY <1>2, <1>4
  <2> QED BY <2>1, <2>2 DEF Homes
<1>13. View(app)
  BY <1>2, <1>4 DEF View
<1>14. Sound(app, own, up, {})
  BY <1>2, <1>5, <1>8, <1>9, <1>10, <1>11, <1>12, <1>13 DEF Sound
<1> QED BY <1>1, <1>14 DEF Good, Hands

\* What is sound has all that TreeSound asks.
LEMMA GoodTrees ==
  ASSUME Good(app)
  PROVE  TreeSound
<1>1. PICK own, up : Sound(app, own, up, {})
  BY DEF Good
<1>2. \A t \in Tabs(app) : t # Nil /\ t \in Tab /\ Leaves(app, t) = {p \in Pane : own[p] = t}
  BY <1>1, LeavesOK
<1>3. IsInjective(app.tabs) /\ IF app.tabs = <<>> THEN app.quit ELSE app.cur \in DOMAIN app.tabs
  BY <1>1 DEF Sound, Homes, View
<1>4. \A t \in Tab : t \in Tabs(app) <=> app.root[t] # Nil
  BY <1>1, LayoutAssumption DEF LayoutAssumption, Sound, Homes
<1>5. \A t \in Tabs(app) : app.parent[app.root[t]] = Nil
  BY <1>1 DEF Sound, Homes
<1>6. \A s \in Split \cap app.live :
        /\ Len(app.kids[s]) >= 2 /\ IsInjective(app.kids[s])
        /\ \A k \in ToSet(app.kids[s]) : app.parent[k] = s
  BY <1>1 DEF Sound, Owned, Downward, Node
<1>7. app.live = UNION {NodesOf(app)[app.root[t]] : t \in Tabs(app)}
  <2>1. \A t \in Tabs(app) : NodesOf(app)[app.root[t]] = {n \in Node : own[n] = t}
    BY <1>1, NodesOK
  <2>2. \A n : n \in app.live <=> n \in Node /\ own[n] # Nil
    BY <1>1 DEF Sound, Owned, Typed
  <2>3. \A n \in Node : own[n] # Nil => own[n] \in Tabs(app)
    BY <1>1 DEF Sound, Owned
  <2>4. \A n : n \in app.live <=> \E t \in Tabs(app) : n \in NodesOf(app)[app.root[t]]
    BY <1>2, <2>1, <2>2, <2>3
  <2> QED BY <2>4
<1>8. \A t, u \in Tabs(app) : t # u => Leaves(app, t) \cap Leaves(app, u) = {}
  BY <1>2
<1>9. FocusHome
  BY <1>1, <1>2 DEF FocusHome, Sound, Homes
<1>10. ZoomHome
  <2> SUFFICES ASSUME NEW t \in Tabs(app), app.zoom[t] \in LivePanes(app)
               PROVE  app.zoom[t] \in Leaves(app, t)
    BY DEF ZoomHome
  <2>1. app.zoom[t] \in Pane /\ app.zoom[t] # Nil /\ own[app.zoom[t]] # Nil
    BY <1>1, LayoutAssumption DEF LayoutAssumption, LivePanes, Sound, Owned, Node
  <2> QED BY <1>1, <1>2, <2>1 DEF Sound, Homes
<1>11. FrameShows
  <2> SUFFICES ASSUME ~app.quit
               PROVE  LET f == Laid(app)  t == Cur(f)
                      IN /\ f.focus[t] \in Leaves(f, t) \ f.mini
                         /\ f.zoom[t] \in Leaves(f, t) \cup {Nil}
    BY DEF FrameShows
  <2>1. app.tabs # <<>>
    BY <1>1 DEF Sound, View
  <2> QED BY <1>1, <2>1, LaidOK
<1> QED BY <1>3, <1>4, <1>5, <1>6, <1>7, <1>8, <1>9, <1>10, <1>11 DEF TreeSound

\* A step that moves the view to another tab has not rearranged anything.
LEMMA StaysView ==
  ASSUME Stays(app, app')
  PROVE  Cur(app) \in Tabs(app') /\ Cur(app') # Cur(app) => ~Rearranges
  BY DEF Stays, Rearranges, Reshapes

(***************************************************************************)
(* The trees are always sound, and somebody can say of each node whose it  *)
(* is and how deep: app_layout.c never leaves a pointer behind.  A drop or *)
(* a re-run in a tab that is not on screen is left out.                    *)
(***************************************************************************)
THEOREM AlwaysGood ==
  ASSUME Tame
  PROVE  Spec => [](Good(app) /\ Hands)
<1>1. Init => Good(app) /\ Hands
  BY InitGood
<1>2. (Good(app) /\ Hands) /\ [Next]_vars => (Good(app) /\ Hands)'
  <2> SUFFICES ASSUME Good(app), Hands, [Next]_vars
               PROVE  (Good(app) /\ Hands)'
    OBVIOUS
  <2>1. CASE Next
    BY <2>1, NextDone DEF Done
  <2>2. CASE UNCHANGED vars
    BY <2>2 DEF vars, Hands, Good
  <2> QED BY <2>1, <2>2
<1> QED BY <1>1, <1>2, PTL DEF Spec

(***************************************************************************)
(* The types of the app, the drag and what it left on the strip.           *)
(***************************************************************************)
THEOREM TypesHold ==
  ASSUME Tame
  PROVE  Spec => []TypeOK
<1>1. Good(app) /\ Hands => TypeOK
  BY AppsAre DEF Good, Sound, Hands, TypeOK
<1> QED BY <1>1, AlwaysGood, PTL

(***************************************************************************)
(* Whatever is split, closed, moved, swapped, turned or dropped: parents   *)
(* and children name each other, every node is in exactly one tab, a split *)
(* has two children or more, focus and zoom are at home, and a frame shows *)
(* a pane that is there (close_leaf, detach_leaf, place_beside, layout).   *)
(***************************************************************************)
THEOREM TreesSound ==
  ASSUME Tame
  PROVE  Spec => []TreeSound
<1>1. Good(app) /\ Hands => TreeSound
  BY GoodTrees
<1> QED BY <1>1, AlwaysGood, PTL

(***************************************************************************)
(* Panes between tabs and tabs along the strip take the view nowhere       *)
(* (move_tab, app_move_pane_beside, app_move_pane_to_new_tab).             *)
(***************************************************************************)
THEOREM ViewHolds ==
  ASSUME Tame
  PROVE  Spec => ViewStays
<1>1. (Good(app) /\ Hands) /\ [Next]_vars
        => [Cur(app) \in Tabs(app') /\ Cur(app') # Cur(app) => ~Rearranges]_vars
  <2> SUFFICES ASSUME Good(app), Hands, Next
               PROVE  Cur(app) \in Tabs(app') /\ Cur(app') # Cur(app) => ~Rearranges
    OBVIOUS
  <2> QED BY NextDone, StaysView DEF Done
<1> QED BY <1>1, AlwaysGood, PTL DEF Spec, ViewStays
=============================================================================
