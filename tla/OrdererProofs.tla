---------------------------- MODULE OrdererProofs ----------------------------
(***************************************************************************)
(* What the orderer guarantees for every transaction and every graph of    *)
(* requirements: the search finds the components of whatever it is asked   *)
(* about, breaking up a component never fails, and every package is given  *)
(* once, in an order that keeps what can be kept.                          *)
(*                                                                         *)
(* IInv is about the search and the graph; ShapeInv says where cycles can  *)
(* be, OrderInv what the order so far keeps, GivenInv what the operations  *)
(* so far and the lists that wait give in the end.                         *)
(***************************************************************************)
EXTENDS Orderer, FiniteSetTheorems, SequenceTheorems, WellFoundedInduction, TLAPS

-----------------------------------------------------------------------------
(* The search.                                                             *)

\* Some nodes with everything they require among them.
Closed(S) == S \subseteq DOMAIN graph /\ \A n \in S : Pre(graph, n) \subseteq S

From(n) == Reach(Arcs, Current)[n]

Together(n) == {m \in From(n) : n \in From(m)}

Finished == {n \in DOMAIN states : states[n] = 0}

Live == ToSet(pkg_stack)

Roots == ToSet(root_stack)

Callers == {calls[i].node : i \in DOMAIN calls}

Ascending(s) == \A i, j \in DOMAIN s : i < j => states[s[i]] < states[s[j]]

\* Nodes are numbered as they are visited, and have 0 once they are finished.
Numbered ==
    /\ DOMAIN states \subseteq Current
    /\ states \in [DOMAIN states -> 0 .. Cardinality(DOMAIN states)]
    /\ pkg_stack \in Seq(Current) /\ root_stack \in Seq(Current)
    /\ Live = DOMAIN states \ Finished
    /\ Ascending(pkg_stack) /\ Ascending(root_stack)

\* The calls are the way from where the search began to where it is, each root is
\* on it, and the oldest node is a root.
OnTheWay ==
    /\ calls \in Seq([node : Current, left : SUBSET Current])
    /\ \A i \in DOMAIN calls : calls[i].left \subseteq Pre(graph, calls[i].node)
    /\ \A i, j \in DOMAIN calls : i < j => states[calls[j].node] < states[calls[i].node]
    /\ Roots \subseteq Callers /\ Callers \subseteq Live
    /\ Live # {} => pkg_stack[1] \in Roots

\* m is not in an older component than n, as far as is known.
NotOlder(m, n) == \A r \in Roots : states[r] <= states[n] => states[r] <= states[m]

\* What has been followed from a node leads to what is finished, or to a component
\* that is not older.
Followed ==
    \A n \in DOMAIN states : \A m \in Pre(graph, n) :
        \/ \E i \in DOMAIN calls : calls[i].node = n /\ m \in calls[i].left
        \/ m \in Finished
        \/ m \in Live /\ n \in Live /\ NotOlder(m, n)

\* From a call leads a way to everything visited after it, and from everything one
\* to its root.
Ways ==
    /\ \A c \in Callers : \A n \in Live \ {c} : states[c] <= states[n] => n \in From(c)
    /\ \A n \in Live : \E r \in Roots :
          states[r] <= states[n] /\ NotOlder(r, n) /\ (r # n => r \in From(n))

\* The components so far are those of the finished nodes.
FoundSoFar ==
    /\ sccs \in Seq(SUBSET Current) /\ IsInjective(sccs)
    /\ \A n \in Finished : Together(n) \subseteq Finished
    /\ ToSet(sccs) = {Together(n) : n \in {x \in Finished : Together(x) \ {x} # {}}}

SearchInv ==
    stage = "scan" =>
        /\ Closed(Current) /\ IsFiniteSet(Current)
        /\ Numbered /\ OnTheWay /\ Followed /\ Ways /\ FoundSoFar

-----------------------------------------------------------------------------
(* Ways in the graph.                                                      *)

LEMMA SameGraph ==
    ASSUME UNCHANGED <<graph, components, pkgs>>
    PROVE  /\ Current' = Current /\ Arcs' = Arcs
           /\ \A n : From(n)' = From(n) /\ Together(n)' = Together(n)
           /\ Closed(Current)' = Closed(Current)
BY DEF Current, Arcs, From, Together, Closed, Pre, Reach

LEMMA ArcLeads ==
    ASSUME NEW n \in Current, NEW m \in Current \intersect Pre(graph, n)
    PROVE  m \in From(n)
<1>1. <<n, m>> \in Arcs
  BY DEF Arcs
<1> QED
  BY <1>1 DEF From, Reach

LEMMA WaysJoin ==
    ASSUME NEW n \in Current, NEW m \in From(n), NEW k \in From(m)
    PROVE  k \in From(n) /\ m \in Current
BY DEF From, Reach

LEMMA WaysStay ==
    ASSUME NEW A \in SUBSET Current, \A n \in A : Pre(graph, n) \subseteq A, NEW n \in A
    PROVE  From(n) \subseteq A
<1>1. \A r \in Arcs : r[1] \in A \union {n} => r[2] \in A
  BY DEF Arcs
<1> QED
  BY <1>1 DEF From, Reach

-----------------------------------------------------------------------------
(* Numbers.                                                                *)

LessThan == {ss \in Nat \X Nat : ss[1] < ss[2]}

LEMMA Least == ASSUME NEW H \in SUBSET Nat, H # {} PROVE \E x \in H : \A y \in H : x <= y
<1>1. IsWellFoundedOn(LessThan, Nat)
  BY ONLY NatLessThanWellFounded DEF OpToRel, LessThan
<1>2. PICK x \in H : \A y \in H : <<y, x>> \notin LessThan
  BY <1>1, WFMin
<1>3. ASSUME NEW y \in H PROVE x <= y
  <2>1. y < x => <<y, x>> \in LessThan
    BY DEF LessThan
  <2> QED
    BY <1>2, <2>1
<1> QED
  BY <1>3

LEMMA Greatest ==
    ASSUME NEW n \in Nat, NEW H \in SUBSET (0 .. n), H # {}
    PROVE  Max(H) \in H /\ \A i \in H : i <= Max(H)
<1> DEFINE K == {n - i : i \in H}
<1>1. K \in SUBSET Nat /\ K # {}
  <2>1. PICK i \in H : TRUE
    OBVIOUS
  <2>2. n - i \in K
    BY <2>1
  <2>3. \A x \in H : x \in Nat /\ n - x \in Nat
    OBVIOUS
  <2> QED
    BY <2>2, <2>3
<1>2. PICK h \in K : \A y \in K : h <= y
  BY <1>1, Least
<1>3. PICK m \in H : h = n - m
  BY <1>2
<1>4. \A i \in H : m >= i
  BY <1>2, <1>3
<1>5. Max(H) \in H /\ \A i \in H : Max(H) >= i
  BY <1>4, Zenon DEF Max
<1> QED
  BY <1>5

-----------------------------------------------------------------------------
(* Sequences.                                                              *)

LEMMA AppendIs ==
    ASSUME NEW S, NEW s \in Seq(S), NEW x, NEW t, t = Append(s, x)
    PROVE  /\ Len(t) = Len(s) + 1 /\ DOMAIN t = 1 .. Len(s) + 1
           /\ \A i \in 1 .. Len(s) : t[i] = s[i]
           /\ t[Len(s) + 1] = x
           /\ ToSet(t) = ToSet(s) \union {x}
<1> DEFINE T == S \union {x}
<1>1. s \in Seq(T) /\ x \in T
  OBVIOUS
<1>2. /\ Len(t) = Len(s) + 1 /\ DOMAIN t = 1 .. Len(s) + 1 /\ DOMAIN s = 1 .. Len(s)
      /\ \A i \in 1 .. Len(s) : t[i] = s[i]
      /\ t[Len(s) + 1] = x
      /\ Len(s) \in Nat
  BY <1>1
<1> QED
  BY <1>2 DEF ToSet

LEMMA PrefixIs ==
    ASSUME NEW S, NEW s \in Seq(S), NEW k \in 0 .. Len(s), NEW t, t = SubSeq(s, 1, k)
    PROVE  /\ t \in Seq(S) /\ Len(t) = k /\ DOMAIN t = 1 .. k
           /\ \A i \in 1 .. k : t[i] = s[i]
OBVIOUS

\* What the calls are after one more, after one turn in the innermost, and after
\* its end.
LEMMA PushIs ==
    ASSUME NEW S, NEW s \in Seq(S), NEW x \in S, NEW t, t = <<x>> \o s
    PROVE  /\ t \in Seq(S) /\ Len(t) = Len(s) + 1 /\ t[1] = x
           /\ \A i \in DOMAIN s : t[i + 1] = s[i]
           /\ \A i \in DOMAIN t \ {1} : i - 1 \in DOMAIN s /\ t[i] = s[i - 1]
OBVIOUS

LEMMA PopIs ==
    ASSUME NEW S, NEW s \in Seq(S), s # <<>>, NEW t, t = Tail(s)
    PROVE  /\ t \in Seq(S) /\ Len(t) = Len(s) - 1
           /\ \A i \in DOMAIN s \ {1} : i - 1 \in DOMAIN t /\ t[i - 1] = s[i]
           /\ \A i \in DOMAIN t : i + 1 \in DOMAIN s \ {1} /\ t[i] = s[i + 1]
OBVIOUS

LEMMA TopIs ==
    ASSUME NEW S, NEW s \in Seq(S), s # <<>>, NEW x \in S, NEW t, t = <<x>> \o Tail(s)
    PROVE  /\ t \in Seq(S) /\ DOMAIN t = DOMAIN s /\ t[1] = x
           /\ \A i \in DOMAIN s \ {1} : t[i] = s[i]
           /\ 1 \in DOMAIN s /\ Head(s) = s[1]
OBVIOUS

-----------------------------------------------------------------------------
(* The steps of the search.                                                *)

SearchParts == Numbered /\ OnTheWay /\ Followed /\ Ways /\ FoundSoFar

LEMMA NumbersAre ==
    ASSUME IsFiniteSet(Current), Numbered
    PROVE  /\ IsFiniteSet(DOMAIN states) /\ Cardinality(DOMAIN states) \in Nat
           /\ \A n \in DOMAIN states : states[n] \in Nat /\ states[n] <= Cardinality(DOMAIN states)
           /\ Live \subseteq DOMAIN states /\ Live \intersect Finished = {}
           /\ \A n \in Live : states[n] > 0
           /\ \A n \in DOMAIN states : states[n] > 0 => n \in Live
<1>1. IsFiniteSet(DOMAIN states)
  BY FS_Subset DEF Numbered
<1>2. Cardinality(DOMAIN states) \in Nat
  BY <1>1, FS_CardinalityType
<1>3. \A n \in DOMAIN states : states[n] \in 0 .. Cardinality(DOMAIN states)
  BY DEF Numbered
<1> QED
  BY <1>1, <1>2, <1>3 DEF Numbered, Finished

\* A node gets a number above all others.
LEMMA VisitNumbers ==
    ASSUME IsFiniteSet(Current), Numbered, NEW n \in Current \ DOMAIN states, Visit(n),
           Roots \subseteq DOMAIN states, UNCHANGED <<graph, components, pkgs>>
    PROVE  /\ Numbered' /\ Finished' = Finished
           /\ Live' = Live \union {n} /\ Roots' = Roots \union {n}
           /\ DOMAIN states' = DOMAIN states \union {n} /\ n \notin Live
           /\ \A m \in DOMAIN states :
                 /\ states'[m] = states[m] /\ states[m] \in Nat
                 /\ states'[m] < states'[n]
           /\ states'[n] \in Nat
           /\ pkg_stack' # <<>> /\ (pkg_stack # <<>> => pkg_stack'[1] = pkg_stack[1])
           /\ (pkg_stack = <<>> => pkg_stack'[1] = n)
<1> DEFINE N == Cardinality(DOMAIN states)
<1>1. /\ IsFiniteSet(DOMAIN states) /\ N \in Nat
      /\ \A m \in DOMAIN states : states[m] \in Nat /\ states[m] <= N
      /\ Live \subseteq DOMAIN states
  BY NumbersAre
<1>2. /\ DOMAIN states' = DOMAIN states \union {n} /\ states'[n] = N + 1
      /\ \A m \in DOMAIN states : states'[m] = states[m]
  BY DEF Visit
<1>3. Cardinality(DOMAIN states') = N + 1
  BY <1>1, <1>2, FS_AddElement
<1>4. Finished' = Finished
  BY <1>1, <1>2 DEF Finished
<1>5. /\ pkg_stack \in Seq(Current) /\ root_stack \in Seq(Current)
      /\ pkg_stack' = Append(pkg_stack, n) /\ root_stack' = Append(root_stack, n)
  BY DEF Numbered, Visit
<1>6. /\ pkg_stack' \in Seq(Current) /\ root_stack' \in Seq(Current)
      /\ pkg_stack' # <<>> /\ (pkg_stack # <<>> => pkg_stack'[1] = pkg_stack[1])
      /\ (pkg_stack = <<>> => pkg_stack'[1] = n)
  BY <1>5
<1>7. Live' = Live \union {n} /\ Roots' = Roots \union {n}
  BY <1>5, AppendIs DEF Live, Roots
<1>8. Ascending(root_stack)'
  <2>1. /\ DOMAIN root_stack = 1 .. Len(root_stack) /\ Len(root_stack) \in Nat
        /\ DOMAIN root_stack' = 1 .. Len(root_stack) + 1
        /\ \A i \in 1 .. Len(root_stack) : root_stack'[i] = root_stack[i] /\ root_stack[i] \in DOMAIN states
        /\ root_stack'[Len(root_stack) + 1] = n
    BY <1>5, AppendIs DEF Roots, ToSet
  <2>2. ASSUME NEW i \in DOMAIN root_stack', NEW j \in DOMAIN root_stack', i < j
        PROVE  states'[root_stack'[i]] < states'[root_stack'[j]]
    <3>1. CASE j = Len(root_stack) + 1
      BY <1>1, <1>2, <2>1, <2>2, <3>1
    <3>2. CASE j # Len(root_stack) + 1
      <4>1. i \in DOMAIN root_stack /\ j \in DOMAIN root_stack
        BY <2>1, <2>2, <3>2
      <4>2. states[root_stack[i]] < states[root_stack[j]]
        BY <2>2, <4>1 DEF Numbered, Ascending
      <4> QED
        BY <1>1, <1>2, <2>1, <4>1, <4>2
    <3> QED
      BY <3>1, <3>2
  <2> QED
    BY <2>2 DEF Ascending
<1>9. Ascending(pkg_stack)'
  <2>1. /\ DOMAIN pkg_stack = 1 .. Len(pkg_stack) /\ Len(pkg_stack) \in Nat
        /\ DOMAIN pkg_stack' = 1 .. Len(pkg_stack) + 1
        /\ \A i \in 1 .. Len(pkg_stack) : pkg_stack'[i] = pkg_stack[i] /\ pkg_stack[i] \in DOMAIN states
        /\ pkg_stack'[Len(pkg_stack) + 1] = n
    BY <1>1, <1>5, AppendIs DEF Live, ToSet
  <2>2. ASSUME NEW i \in DOMAIN pkg_stack', NEW j \in DOMAIN pkg_stack', i < j
        PROVE  states'[pkg_stack'[i]] < states'[pkg_stack'[j]]
    <3>1. CASE j = Len(pkg_stack) + 1
      BY <1>1, <1>2, <2>1, <2>2, <3>1
    <3>2. CASE j # Len(pkg_stack) + 1
      <4>1. i \in DOMAIN pkg_stack /\ j \in DOMAIN pkg_stack
        BY <2>1, <2>2, <3>2
      <4>2. states[pkg_stack[i]] < states[pkg_stack[j]]
        BY <2>2, <4>1 DEF Numbered, Ascending
      <4> QED
        BY <1>1, <1>2, <2>1, <4>1, <4>2
    <3> QED
      BY <3>1, <3>2
  <2> QED
    BY <2>2 DEF Ascending
<1>10. Numbered'
  <2>1. states' \in [DOMAIN states' -> 0 .. Cardinality(DOMAIN states')]
    <3>1. \A m \in DOMAIN states' : states'[m] \in 0 .. N + 1
      BY <1>1, <1>2
    <3>2. states' = [m \in DOMAIN states' |-> states'[m]]
      BY DEF Visit
    <3> QED
      BY <1>3, <3>1, <3>2
  <2>2. DOMAIN states' \subseteq Current' /\ Current' = Current
    BY <1>2, SameGraph DEF Numbered
  <2>3. Live' = DOMAIN states' \ Finished'
    BY <1>1, <1>2, <1>4, <1>7 DEF Numbered, Finished
  <2> QED
    BY <1>6, <1>8, <1>9, <2>1, <2>2, <2>3 DEF Numbered
<1>11. \A m \in DOMAIN states :
         /\ states'[m] = states[m] /\ states[m] \in Nat
         /\ states'[m] < states'[n]
  BY <1>1, <1>2
<1>12. n \notin Live /\ states'[n] \in Nat
  BY <1>1, <1>2
<1> QED
  BY <1>2, <1>4, <1>6, <1>7, <1>10, <1>11, <1>12

Frames == [node : Current, left : SUBSET Current]

\* A visit that is called from the innermost call, if there is one; what is left to
\* do there is rest.
LEMMA VisitKeeps ==
    ASSUME Closed(Current), IsFiniteSet(Current), SearchParts,
           NEW n \in Current \ DOMAIN states, Visit(n), UNCHANGED <<graph, components, pkgs, sccs>>,
           NEW rest \in Seq(Frames), DOMAIN rest = DOMAIN calls,
           \A i \in DOMAIN calls :
              /\ rest[i].node = calls[i].node /\ rest[i].left \subseteq calls[i].left
              /\ calls[i].left \subseteq rest[i].left \union {n},
           calls # <<>> => n \in Pre(graph, calls[1].node),
           calls' = <<[node |-> n, left |-> Pre(graph, n)]>> \o rest
    PROVE  SearchParts'
<1>1. Roots \subseteq Callers /\ Callers \subseteq Live /\ Live \subseteq DOMAIN states
  BY NumbersAre DEF SearchParts, OnTheWay
<1>2. /\ Numbered' /\ Finished' = Finished
      /\ Live' = Live \union {n} /\ Roots' = Roots \union {n}
      /\ DOMAIN states' = DOMAIN states \union {n} /\ n \notin Live
      /\ \A m \in DOMAIN states :
            /\ states'[m] = states[m] /\ states[m] \in Nat
            /\ states'[m] < states'[n]
      /\ states'[n] \in Nat
      /\ pkg_stack' # <<>> /\ (pkg_stack # <<>> => pkg_stack'[1] = pkg_stack[1])
      /\ (pkg_stack = <<>> => pkg_stack'[1] = n)
  BY <1>1, VisitNumbers DEF SearchParts
<1>3. /\ Current' = Current /\ \A x : From(x)' = From(x) /\ Together(x)' = Together(x)
      /\ \A x : Pre(graph, x)' = Pre(graph, x)
  BY SameGraph
<1> DEFINE new == [node |-> n, left |-> Pre(graph, n)]
<1>4. new \in Frames
  BY DEF Closed, Frames
<1>5. /\ calls' \in Seq(Frames) /\ Len(calls') = Len(rest) + 1 /\ calls'[1] = new
      /\ \A i \in DOMAIN rest : calls'[i + 1] = rest[i]
      /\ \A i \in DOMAIN calls' \ {1} : i - 1 \in DOMAIN rest /\ calls'[i] = rest[i - 1]
  BY <1>4, PushIs
<1>6. /\ \A i \in DOMAIN calls : i + 1 \in DOMAIN calls' /\ calls'[i + 1].node = calls[i].node
      /\ \A i \in DOMAIN calls' \ {1} : i - 1 \in DOMAIN calls /\ calls'[i].node = calls[i - 1].node
      /\ 1 \in DOMAIN calls' /\ calls'[1].node = n
  BY <1>5
<1>7. Callers' = Callers \union {n}
  <2>1. ASSUME NEW c \in Callers PROVE c \in Callers'
    <3>1. PICK i \in DOMAIN calls : calls[i].node = c
      BY <2>1 DEF Callers
    <3>2. i + 1 \in DOMAIN calls' /\ calls'[i + 1].node = c
      BY <1>6, <3>1
    <3> QED
      BY <3>2 DEF Callers
  <2>2. n \in Callers'
    BY <1>6 DEF Callers
  <2>3. ASSUME NEW c \in Callers', c # n PROVE c \in Callers
    <3>1. PICK i \in DOMAIN calls' : calls'[i].node = c
      BY <2>3 DEF Callers
    <3>2. i - 1 \in DOMAIN calls /\ calls[i - 1].node = c
      BY <1>6, <2>3, <3>1
    <3> QED
      BY <3>2 DEF Callers
  <2> QED
    BY <2>1, <2>2, <2>3
<1>8. NotOlder(n, n)' /\ \A v \in Live, m \in Live : NotOlder(m, v) => NotOlder(m, v)'
  BY <1>1, <1>2 DEF NotOlder
<1>9. OnTheWay'
  <2>1. calls' \in Seq([node : Current, left : SUBSET Current])'
    BY <1>3, <1>5 DEF Frames
  <2>2. ASSUME NEW i \in DOMAIN calls' PROVE calls'[i].left \subseteq Pre(graph', calls'[i].node)
    <3>1. CASE i = 1
      BY <1>5, <3>1
    <3>2. CASE i # 1
      BY <1>5, <1>6, <3>2 DEF SearchParts, OnTheWay
    <3> QED
      BY <3>1, <3>2
  <2>3. ASSUME NEW i \in DOMAIN calls', NEW j \in DOMAIN calls', i < j
        PROVE  states'[calls'[j].node] < states'[calls'[i].node]
    <3>1. i \in Nat \ {0} /\ j \in Nat \ {0} /\ j # 1
      BY <1>5, <2>3
    <3>2. j - 1 \in DOMAIN calls /\ calls'[j].node = calls[j - 1].node /\ calls[j - 1].node \in DOMAIN states
      BY <1>1, <1>6, <3>1 DEF Callers
    <3>3. CASE i = 1
      BY <1>2, <1>6, <3>2, <3>3
    <3>4. CASE i # 1
      <4>1. i - 1 \in DOMAIN calls /\ calls'[i].node = calls[i - 1].node /\ calls[i - 1].node \in DOMAIN states
        BY <1>1, <1>6, <3>4 DEF Callers
      <4>2. states[calls[j - 1].node] < states[calls[i - 1].node]
        BY <2>3, <3>1, <3>2, <4>1 DEF SearchParts, OnTheWay
      <4> QED
        BY <1>2, <3>2, <4>1, <4>2
    <3> QED
      BY <3>3, <3>4
  <2>4. Roots' \subseteq Callers' /\ Callers' \subseteq Live'
    BY <1>1, <1>2, <1>7
  <2>5. pkg_stack'[1] \in Roots'
    <3>1. pkg_stack # <<>> => Live # {}
      <4>1. pkg_stack \in Seq(Current)
        BY DEF SearchParts, Numbered
      <4>2. pkg_stack # <<>> => pkg_stack[1] \in Live
        BY <4>1 DEF Live, ToSet
      <4> QED
        BY <4>2
    <3> QED
      BY <1>2, <3>1 DEF SearchParts, OnTheWay
  <2> QED
    BY <2>1, <2>2, <2>3, <2>4, <2>5 DEF OnTheWay
<1>10. Followed'
  <2> SUFFICES ASSUME NEW v \in DOMAIN states', NEW m \in Pre(graph, v)
               PROVE  \/ \E i \in DOMAIN calls' : calls'[i].node = v /\ m \in calls'[i].left
                      \/ m \in Finished'
                      \/ m \in Live' /\ v \in Live' /\ NotOlder(m, v)'
    BY <1>3 DEF Followed
  <2>1. CASE v = n
    <3>1. 1 \in DOMAIN calls' /\ calls'[1].node = n /\ calls'[1].left = Pre(graph, n)
      BY <1>5, <1>6
    <3> QED
      BY <2>1, <3>1
  <2>2. CASE v # n
    <3>1. v \in DOMAIN states
      BY <1>2, <2>2
    <3>2. CASE \E i \in DOMAIN calls : calls[i].node = v /\ m \in calls[i].left
      <4>1. PICK i \in DOMAIN calls : calls[i].node = v /\ m \in calls[i].left
        BY <3>2
      <4>2. CASE m = n
        <5>1. v \in Live
          BY <1>1, <4>1 DEF Callers
        <5>2. NotOlder(n, v)'
          BY <1>1, <1>2, <5>1 DEF NotOlder
        <5> QED
          BY <1>2, <4>2, <5>1, <5>2
      <4>3. CASE m # n
        <5>1. m \in rest[i].left
          BY <4>1, <4>3
        <5>2. i + 1 \in DOMAIN calls' /\ calls'[i + 1] = rest[i] /\ calls'[i + 1].node = v
          BY <1>5, <1>6, <4>1
        <5> QED
          BY <5>1, <5>2
      <4> QED
        BY <4>2, <4>3
    <3>3. CASE m \in Finished
      BY <1>2, <3>3
    <3>4. CASE m \in Live /\ v \in Live /\ NotOlder(m, v)
      BY <1>2, <1>8, <3>4
    <3> QED
      BY <3>1, <3>2, <3>3, <3>4 DEF SearchParts, Followed
  <2> QED
    BY <2>1, <2>2
<1>11. Ways'
  <2>1. ASSUME NEW c \in Callers', NEW v \in Live' \ {c}, states'[c] <= states'[v]
        PROVE  v \in From(c)
    <3>1. CASE c = n
      <4>1. v \in DOMAIN states
        BY <1>1, <1>2, <2>1, <3>1
      <4> QED
        BY <1>2, <2>1, <3>1, <4>1
    <3>2. CASE c # n /\ v # n
      <4>1. c \in Callers /\ v \in Live \ {c} /\ states[c] <= states[v]
        BY <1>1, <1>2, <1>7, <2>1, <3>2
      <4> QED
        BY <4>1 DEF SearchParts, Ways
    <3>3. CASE c # n /\ v = n
      <4>1. PICK i \in DOMAIN calls : calls[i].node = c
        BY <1>7, <2>1, <3>3 DEF Callers
      <4>2. /\ calls # <<>> /\ 1 \in DOMAIN calls /\ calls[1].node \in Callers
            /\ Callers \subseteq Current /\ i \in Nat \ {0}
        BY <4>1, <1>1 DEF Callers, SearchParts, OnTheWay, Numbered
      <4>3. n \in From(calls[1].node)
        BY <4>2, ArcLeads
      <4>4. CASE i = 1
        BY <3>3, <4>1, <4>3, <4>4
      <4>5. CASE i # 1
        <5>1. states[c] < states[calls[1].node]
          BY <4>1, <4>2, <4>5 DEF SearchParts, OnTheWay
        <5>2. c \in Callers /\ calls[1].node \in Live \ {c} /\ states[c] <= states[calls[1].node]
          BY <1>1, <1>2, <4>1, <4>2, <5>1 DEF Callers
        <5>3. calls[1].node \in From(c)
          BY <5>2 DEF SearchParts, Ways
        <5> QED
          BY <3>3, <4>2, <4>3, <5>2, <5>3, WaysJoin
      <4> QED
        BY <4>4, <4>5
    <3> QED
      BY <3>1, <3>2, <3>3
  <2>2. ASSUME NEW v \in Live'
        PROVE  \E r \in Roots' : states'[r] <= states'[v] /\ NotOlder(r, v)' /\ (r # v => r \in From(v))
    <3>1. CASE v = n
      BY <1>2, <1>8, <3>1
    <3>2. CASE v # n
      <4>1. v \in Live
        BY <1>2, <3>2
      <4>2. PICK r \in Roots : states[r] <= states[v] /\ NotOlder(r, v) /\ (r # v => r \in From(v))
        BY <4>1 DEF SearchParts, Ways
      <4>3. r \in Live /\ r \in DOMAIN states /\ v \in DOMAIN states
        BY <1>1, <4>1
      <4> QED
        BY <1>2, <1>8, <4>1, <4>2, <4>3
    <3> QED
      BY <3>1, <3>2
  <2> QED
    BY <1>3, <2>1, <2>2 DEF Ways
<1>12. FoundSoFar'
  BY <1>2, <1>3 DEF SearchParts, FoundSoFar
<1> QED
  BY <1>2, <1>9, <1>10, <1>11, <1>12 DEF SearchParts

LEMMA RootKeeps ==
    ASSUME SearchInv, Root
    PROVE  SearchInv'
<1>1. /\ stage = "scan" /\ stage' = stage /\ calls = <<>>
      /\ UNCHANGED <<graph, components, pkgs, sccs>>
  BY DEF Root
<1>2. Closed(Current) /\ IsFiniteSet(Current) /\ SearchParts
  BY <1>1 DEF SearchInv, SearchParts
<1>3. PICK n \in Current \ DOMAIN states :
         Visit(n) /\ calls' = << [node |-> n, left |-> Pre(graph, n)] >>
  BY DEF Root
<1>4. calls' = <<[node |-> n, left |-> Pre(graph, n)]>> \o <<>>
  BY <1>3
<1>5. <<>> \in Seq(Frames) /\ DOMAIN <<>> = DOMAIN calls /\ DOMAIN calls = {}
  BY <1>1
<1>6. SearchParts'
  BY <1>1, <1>2, <1>3, <1>4, <1>5, VisitKeeps
<1> QED
  BY <1>1, <1>2, <1>6, SameGraph DEF SearchInv, SearchParts

\* A root that is younger than a visited node that has been reached is none.
LEMMA CutIs ==
    ASSUME Numbered, OnTheWay, NEW next \in Live, IsFiniteSet(Current), Roots \subseteq DOMAIN states,
           NEW t, t = CutRoots(next)
    PROVE  /\ t \in Seq(Current) /\ ToSet(t) = {r \in Roots : states[r] <= states[next]}
           /\ Ascending(t)
           /\ pkg_stack[1] \in ToSet(t)
<1> DEFINE Older == {i \in DOMAIN root_stack : states[root_stack[i]] <= states[next]}
           k == Max(Older)
<1>1. /\ root_stack \in Seq(Current) /\ DOMAIN root_stack = 1 .. Len(root_stack) /\ Len(root_stack) \in Nat
      /\ pkg_stack \in Seq(Current) /\ Ascending(root_stack) /\ Ascending(pkg_stack)
  BY DEF Numbered
<1>2. /\ \A n \in DOMAIN states : states[n] \in Nat
      /\ Live \subseteq DOMAIN states
  BY NumbersAre
<1>3. pkg_stack[1] \in Roots /\ states[pkg_stack[1]] <= states[next]
  <2>1. PICK j \in DOMAIN pkg_stack : pkg_stack[j] = next
    BY DEF Live, ToSet
  <2>2. 1 \in DOMAIN pkg_stack /\ j \in Nat \ {0}
    BY <1>1, <2>1
  <2>3. pkg_stack[1] \in DOMAIN states /\ next \in DOMAIN states
    BY <1>2, <2>2 DEF Live, ToSet
  <2>4. states[pkg_stack[1]] <= states[next]
    BY <1>1, <1>2, <2>1, <2>2, <2>3 DEF Ascending
  <2> QED
    BY <2>4 DEF OnTheWay
<1>4. Older # {} /\ Older \subseteq 1 .. Len(root_stack)
  BY <1>1, <1>3 DEF Roots, ToSet
<1>5. k \in Older /\ \A i \in Older : i <= k
  <2>1. Older \in SUBSET (0 .. Len(root_stack))
    BY <1>1, <1>4
  <2> HIDE DEF Older
  <2> QED
    BY <1>1, <1>4, <2>1, Greatest
<1>6. \A i \in DOMAIN root_stack : states[root_stack[i]] <= states[next] <=> i <= k
  <2>1. ASSUME NEW i \in DOMAIN root_stack, i <= k PROVE states[root_stack[i]] <= states[next]
    <3>1. /\ k \in DOMAIN root_stack /\ states[root_stack[k]] <= states[next]
          /\ root_stack[i] \in DOMAIN states /\ root_stack[k] \in DOMAIN states
          /\ next \in DOMAIN states
      BY <1>2, <1>5, <2>1 DEF Roots, ToSet
    <3>2. i = k \/ states[root_stack[i]] < states[root_stack[k]]
      BY <1>1, <2>1, <3>1 DEF Ascending
    <3> QED
      BY <1>2, <3>1, <3>2
  <2> QED
    BY <1>1, <1>5, <2>1
<1>7. k \in 0 .. Len(root_stack)
  BY <1>1, <1>4, <1>5
<1> HIDE DEF k
<1>8. t = SubSeq(root_stack, 1, k)
  BY <1>4 DEF CutRoots, k
<1> HIDE DEF Older
<1>9. /\ t \in Seq(Current) /\ DOMAIN t = 1 .. k /\ \A i \in 1 .. k : t[i] = root_stack[i]
  <2> DEFINE s == root_stack
  <2>1. s \in Seq(Current) /\ k \in 0 .. Len(s) /\ t = SubSeq(s, 1, k)
    BY <1>8, <1>1, <1>7
  <2> HIDE DEF s
  <2>2. /\ t \in Seq(Current) /\ DOMAIN t = 1 .. k
        /\ \A i \in 1 .. k : t[i] = s[i]
    BY <2>1, PrefixIs
  <2> QED
    BY <2>2 DEF s
<1>10. ToSet(t) = {r \in Roots : states[r] <= states[next]}
  BY <1>1, <1>6, <1>7, <1>9 DEF Roots, ToSet
<1>11. Ascending(t)
  BY <1>1, <1>7, <1>9 DEF Ascending
<1> QED
  BY <1>3, <1>9, <1>10, <1>11

Leads(n, m) == m = n \/ m \in From(n)

LEMMA LeadsOn ==
    ASSUME NEW n \in Current, NEW m, NEW k, Leads(n, m), Leads(m, k)
    PROVE  Leads(n, k) /\ m \in Current
<1>1. CASE m = n
  BY <1>1
<1>2. CASE m # n
  <2>1. m \in From(n)
    BY <1>2 DEF Leads
  <2>2. m \in Current
    BY <2>1 DEF From, Reach
  <2> QED
    BY <2>1, <2>2, WaysJoin DEF Leads
<1> QED
  BY <1>1, <1>2

\* One turn that visits nothing.
LEMMA TurnKeeps ==
    ASSUME Closed(Current), IsFiniteSet(Current), SearchParts, calls # <<>>,
           UNCHANGED <<graph, components, pkgs, states, pkg_stack, sccs>>,
           NEW next \in calls[1].left \intersect DOMAIN states,
           calls' \in Seq(Frames), DOMAIN calls' = DOMAIN calls,
           calls'[1] = [calls[1] EXCEPT !.left = @ \ {next}],
           \A i \in DOMAIN calls \ {1} : calls'[i] = calls[i],
           root_stack' = IF states[next] > 0 THEN CutRoots(next) ELSE root_stack
    PROVE  SearchParts'
<1> DEFINE n == calls[1].node
<1>1. Roots \subseteq Callers /\ Callers \subseteq Live /\ Live \subseteq DOMAIN states
  BY NumbersAre DEF SearchParts, OnTheWay
<1>2. /\ \A m \in DOMAIN states : states[m] \in Nat
      /\ \A m \in DOMAIN states : states[m] > 0 => m \in Live
      /\ Live \subseteq Current
  BY NumbersAre DEF SearchParts, Numbered
<1>3. calls \in Seq(Frames) /\ 1 \in DOMAIN calls /\ calls[1] \in Frames /\ next \in Pre(graph, n)
  <2>1. calls \in Seq(Frames)
    BY DEF SearchParts, OnTheWay, Frames
  <2>2. 1 \in DOMAIN calls /\ calls[1] \in Frames
    BY <2>1
  <2>3. calls[1].left \subseteq Pre(graph, n)
    BY <2>2 DEF SearchParts, OnTheWay
  <2> QED
    BY <2>1, <2>2, <2>3
<1>4. n \in Callers /\ n \in Live /\ n \in Current /\ next \in Current
  BY <1>1, <1>2, <1>3 DEF Callers, Closed
<1>5. /\ Current' = Current /\ \A x : From(x)' = From(x) /\ Together(x)' = Together(x)
      /\ Live' = Live /\ Finished' = Finished
  BY SameGraph DEF Live, Finished
<1>6. \A i \in DOMAIN calls :
         /\ calls'[i].node = calls[i].node /\ calls'[i].left \subseteq calls[i].left
         /\ \A m \in calls[i].left : m \in calls'[i].left \/ (i = 1 /\ m = next)
  <2>1. /\ calls'[1].node = calls[1].node /\ calls'[1].left = calls[1].left \ {next}
    BY <1>3 DEF Frames
  <2> SUFFICES ASSUME NEW i \in DOMAIN calls
               PROVE  /\ calls'[i].node = calls[i].node /\ calls'[i].left \subseteq calls[i].left
                      /\ \A m \in calls[i].left : m \in calls'[i].left \/ (i = 1 /\ m = next)
    OBVIOUS
  <2>2. CASE i = 1
    BY <2>1, <2>2
  <2>3. CASE i # 1
    <3>1. calls'[i] = calls[i]
      BY <2>3
    <3> QED
      BY <3>1
  <2> QED
    BY <2>2, <2>3
<1>7. Callers' = Callers
  BY <1>6 DEF Callers
<1>8. /\ root_stack' \in Seq(Current) /\ Ascending(root_stack)'
      /\ Roots' \subseteq Roots /\ (Live # {} => pkg_stack[1] \in Roots')
      /\ next \in Finished \/ (next \in Live /\ NotOlder(next, n)')
      /\ \A v \in Live : \E r \in Roots' :
            states[r] <= states[v] /\ NotOlder(r, v)' /\ Leads(v, r)
  <2>1. CASE ~(states[next] > 0)
    <3>1. next \in Finished
      BY <1>2, <2>1 DEF Finished
    <3>2. Roots' = Roots /\ \A r, v : NotOlder(r, v)' = NotOlder(r, v)
      BY <2>1 DEF Roots, NotOlder
    <3>3. root_stack' \in Seq(Current) /\ Ascending(root_stack)' /\ (Live # {} => pkg_stack[1] \in Roots')
      BY <2>1, <3>2 DEF SearchParts, Numbered, Ascending, OnTheWay
    <3>4. \A v \in Live : \E r \in Roots' : states[r] <= states[v] /\ NotOlder(r, v)' /\ Leads(v, r)
      BY <3>2 DEF SearchParts, Ways, Leads
    <3>5. Roots' \subseteq Roots
      BY <3>2
    <3> QED
      BY <3>1, <3>3, <3>4, <3>5
  <2>2. CASE states[next] > 0
    <3>1. next \in Live
      BY <1>2, <2>2
    <3>2. /\ root_stack' \in Seq(Current) /\ Roots' = {r \in Roots : states[r] <= states[next]}
          /\ Ascending(root_stack') /\ pkg_stack[1] \in Roots'
      BY <1>1, <2>2, <3>1, CutIs DEF SearchParts, Roots
    <3>3. Ascending(root_stack)'
      BY <3>2 DEF Ascending
    <3>4. NotOlder(next, n)'
      BY <3>2 DEF NotOlder
    <3>5. ASSUME NEW v \in Live
          PROVE  \E r \in Roots' : states[r] <= states[v] /\ NotOlder(r, v)' /\ Leads(v, r)
      <4>1. PICK r \in Roots : states[r] <= states[v] /\ NotOlder(r, v) /\ Leads(v, r)
        BY DEF SearchParts, Ways, Leads
      <4>2. PICK q \in Roots : states[q] <= states[next] /\ NotOlder(q, next) /\ Leads(next, q)
        BY <3>1 DEF SearchParts, Ways, Leads
      <4>3. /\ r \in DOMAIN states /\ q \in DOMAIN states /\ v \in DOMAIN states /\ next \in DOMAIN states
            /\ states[r] \in Nat /\ states[q] \in Nat /\ states[v] \in Nat /\ states[next] \in Nat
        BY <1>1, <1>2, <4>1, <4>2
      <4>4. CASE r \in Roots'
        <5>1. NotOlder(r, v)'
          BY <3>2, <4>1 DEF NotOlder
        <5> QED
          BY <4>1, <4>4, <5>1
      <4>5. CASE r \notin Roots'
        <5>1. states[next] < states[r]
          BY <3>2, <4>3, <4>5
        <5>2. q \in Roots' /\ states[q] <= states[v]
          BY <3>2, <4>1, <4>2, <4>3, <5>1
        <5>3. NotOlder(q, v)'
          BY <3>2, <4>2 DEF NotOlder
        <5>4. Leads(r, n)
          <6>1. r \in Callers
            BY <1>1, <4>1
          <6>2. PICK i \in DOMAIN calls : calls[i].node = r
            BY <6>1 DEF Callers
          <6>3. i = 1 \/ 1 < i
            BY <1>3
          <6>4. r = n \/ states[r] < states[n]
            BY <1>3, <6>2, <6>3 DEF SearchParts, OnTheWay
          <6>5. CASE states[r] < states[n] /\ r # n
            <7>1. states[n] \in Nat /\ states[r] <= states[n]
              BY <1>1, <1>2, <1>4, <4>3, <6>5
            <7> QED
              BY <1>4, <6>1, <6>5, <7>1 DEF SearchParts, Ways, Leads
          <6> QED
            BY <6>4, <6>5 DEF Leads
        <5>5. Leads(n, next)
          BY <1>3, <1>4, ArcLeads DEF Leads
        <5>6. v \in Current /\ r \in Current
          BY <1>1, <1>2, <4>1
        <5>7. Leads(n, q)
          BY <1>4, <4>2, <5>5, LeadsOn
        <5>8. Leads(r, q)
          BY <5>4, <5>6, <5>7, LeadsOn
        <5>9. Leads(v, q)
          BY <4>1, <5>6, <5>8, LeadsOn
        <5> QED
          BY <5>2, <5>3, <5>9
      <4> QED
        BY <4>4, <4>5
    <3> QED
      BY <3>1, <3>2, <3>3, <3>4, <3>5
  <2> QED
    BY <2>1, <2>2
<1>9. Numbered'
  BY <1>5, <1>8 DEF SearchParts, Numbered, Ascending
<1>10. OnTheWay'
  <2>1. calls' \in Seq([node : Current, left : SUBSET Current])'
    BY <1>5 DEF Frames
  <2>2. \A i \in DOMAIN calls' : calls'[i].left \subseteq Pre(graph', calls'[i].node)
    BY <1>6 DEF SearchParts, OnTheWay
  <2>3. \A i, j \in DOMAIN calls' : i < j => states'[calls'[j].node] < states'[calls'[i].node]
    BY <1>6 DEF SearchParts, OnTheWay
  <2> QED
    BY <1>1, <1>5, <1>7, <1>8, <2>1, <2>2, <2>3 DEF OnTheWay
<1>11. Followed'
  <2> SUFFICES ASSUME NEW v \in DOMAIN states, NEW m \in Pre(graph, v)
               PROVE  \/ \E i \in DOMAIN calls' : calls'[i].node = v /\ m \in calls'[i].left
                      \/ m \in Finished
                      \/ m \in Live /\ v \in Live /\ NotOlder(m, v)'
    BY <1>5 DEF Followed
  <2>1. CASE \E i \in DOMAIN calls : calls[i].node = v /\ m \in calls[i].left
    <3>1. PICK i \in DOMAIN calls : calls[i].node = v /\ m \in calls[i].left
      BY <2>1
    <3>2. CASE i = 1 /\ m = next
      BY <1>4, <1>8, <3>1, <3>2
    <3>3. CASE m \in calls'[i].left
      BY <1>6, <3>1, <3>3
    <3> QED
      BY <1>6, <3>1, <3>2, <3>3
  <2>2. CASE m \in Live /\ v \in Live /\ NotOlder(m, v)
    BY <1>8, <2>2 DEF NotOlder
  <2> QED
    BY <2>1, <2>2 DEF SearchParts, Followed
<1>12. Ways'
  BY <1>5, <1>7, <1>8 DEF SearchParts, Ways, Leads
<1>13. FoundSoFar'
  BY <1>5 DEF SearchParts, FoundSoFar
<1> QED
  BY <1>9, <1>10, <1>11, <1>12, <1>13 DEF SearchParts

LEMMA ArcKeeps ==
    ASSUME SearchInv, Arc
    PROVE  SearchInv'
<1>1. /\ stage = "scan" /\ stage' = stage /\ calls # <<>>
      /\ UNCHANGED <<graph, components, pkgs, sccs>>
  BY DEF Arc
<1>2. Closed(Current) /\ IsFiniteSet(Current) /\ SearchParts
  BY <1>1 DEF SearchInv, SearchParts
<1>3. calls \in Seq(Frames) /\ 1 \in DOMAIN calls /\ Head(calls) = calls[1] /\ calls[1] \in Frames
  <2>1. calls \in Seq(Frames)
    BY <1>2 DEF SearchParts, OnTheWay, Frames
  <2> QED
    BY <1>1, <2>1
<1> DEFINE rest(next) == << [calls[1] EXCEPT !.left = @ \ {next}] >> \o Tail(calls)
<1>4. PICK next \in calls[1].left :
         IF next \in DOMAIN states
         THEN /\ root_stack' = IF states[next] > 0 THEN CutRoots(next) ELSE root_stack
              /\ calls' = rest(next)
              /\ UNCHANGED <<states, pkg_stack>>
         ELSE /\ Visit(next)
              /\ calls' = << [node |-> next, left |-> Pre(graph, next)] >> \o rest(next)
  BY <1>3 DEF Arc
<1> DEFINE t == rest(next)
           x == [calls[1] EXCEPT !.left = @ \ {next}]
<1>5. x \in Frames /\ x.node = calls[1].node /\ x.left = calls[1].left \ {next}
  BY <1>3 DEF Frames
<1>6. /\ t \in Seq(Frames) /\ DOMAIN t = DOMAIN calls /\ t[1] = x
      /\ \A i \in DOMAIN calls \ {1} : t[i] = calls[i]
  <2> HIDE DEF x
  <2>1. t = <<x>> \o Tail(calls)
    BY DEF x
  <2> HIDE DEF t
  <2> QED
    BY <1>1, <1>3, <1>5, <2>1, TopIs
<1>7. CASE next \in DOMAIN states
  <2>1. calls' = t
    BY <1>4, <1>7
  <2> HIDE DEF t
  <2>2. SearchParts'
    BY <1>1, <1>2, <1>4, <1>6, <1>7, <2>1, TurnKeeps
  <2> QED
    BY <1>1, <1>2, <2>2, SameGraph DEF SearchInv, SearchParts
<1>8. CASE next \notin DOMAIN states
  <2>1. next \in Pre(graph, calls[1].node) /\ next \in Current
    BY <1>2, <1>3 DEF SearchParts, OnTheWay, Frames
  <2>2. Visit(next) /\ calls' = << [node |-> next, left |-> Pre(graph, next)] >> \o t
    BY <1>4, <1>8
  <2>3. \A i \in DOMAIN calls :
           /\ t[i].node = calls[i].node /\ t[i].left \subseteq calls[i].left
           /\ calls[i].left \subseteq t[i].left \union {next}
    BY <1>5, <1>6
  <2> HIDE DEF t
  <2>4. SearchParts'
    BY <1>1, <1>2, <1>6, <1>8, <2>1, <2>2, <2>3, VisitKeeps
  <2> QED
    BY <1>1, <1>2, <2>4, SameGraph DEF SearchInv, SearchParts
<1> QED
  BY <1>7, <1>8

\* The top of the stacks: the youngest root, and what is as young as the innermost
\* call or younger.
LEMMA LastRoot ==
    ASSUME SearchParts, IsFiniteSet(Current), calls # <<>>
    PROVE  /\ root_stack # <<>> /\ Last(root_stack) \in Roots
           /\ \A r \in Roots : r = Last(root_stack) \/ states[r] < states[Last(root_stack)]
           /\ \A c \in Callers : c = calls[1].node \/ states[c] < states[calls[1].node]
           /\ calls[1].node \in Roots => calls[1].node = Last(root_stack)
<1> DEFINE n == calls[1].node
<1>1. /\ root_stack \in Seq(Current) /\ DOMAIN root_stack = 1 .. Len(root_stack) /\ Len(root_stack) \in Nat
      /\ pkg_stack \in Seq(Current)
  BY DEF SearchParts, Numbered
<1>2. calls \in Seq(Frames) /\ DOMAIN calls = 1 .. Len(calls) /\ Len(calls) \in Nat /\ 1 \in DOMAIN calls
  BY DEF SearchParts, OnTheWay, Frames
<1>3. n \in Callers
  BY <1>2 DEF Callers
<1>4. /\ Roots \subseteq Callers /\ Callers \subseteq Live /\ Live \subseteq DOMAIN states
      /\ \A m \in DOMAIN states : states[m] \in Nat
  BY NumbersAre DEF SearchParts, OnTheWay
<1>5. root_stack # <<>>
  <2>1. pkg_stack[1] \in Roots
    BY <1>3, <1>4 DEF SearchParts, OnTheWay
  <2> QED
    BY <1>1, <2>1 DEF Roots, ToSet
<1>6. Len(root_stack) \in DOMAIN root_stack /\ Last(root_stack) = root_stack[Len(root_stack)]
  BY <1>1, <1>5 DEF Last
<1>7. Last(root_stack) \in Roots
  BY <1>6 DEF Roots, ToSet
<1>8. ASSUME NEW r \in Roots, r # Last(root_stack) PROVE states[r] < states[Last(root_stack)]
  <2>1. PICK i \in DOMAIN root_stack : root_stack[i] = r
    BY DEF Roots, ToSet
  <2>2. i < Len(root_stack)
    BY <1>1, <1>6, <1>8, <2>1
  <2> QED
    BY <1>6, <2>1, <2>2 DEF SearchParts, Numbered, Ascending
<1>9. ASSUME NEW c \in Callers, c # n PROVE states[c] < states[n]
  <2>1. PICK i \in DOMAIN calls : calls[i].node = c
    BY DEF Callers
  <2>2. 1 < i
    BY <1>2, <1>9, <2>1
  <2> QED
    BY <1>2, <2>1, <2>2 DEF SearchParts, OnTheWay
<1>10. ASSUME n \in Roots, n # Last(root_stack) PROVE FALSE
  <2>1. states[n] < states[Last(root_stack)]
    BY <1>8, <1>10
  <2>2. states[Last(root_stack)] < states[n]
    BY <1>4, <1>7, <1>9, <1>10
  <2>3. states[n] \in Nat /\ states[Last(root_stack)] \in Nat
    BY <1>3, <1>4, <1>7
  <2> QED
    BY <2>1, <2>2, <2>3
<1> QED
  BY <1>5, <1>7, <1>8, <1>9, <1>10

LEMMA TopOfStack ==
    ASSUME Numbered, IsFiniteSet(Current), NEW n \in Live, NEW from,
           from = CHOOSE i \in DOMAIN pkg_stack : pkg_stack[i] = n
    PROVE  /\ from \in DOMAIN pkg_stack
           /\ {pkg_stack[i] : i \in from .. Len(pkg_stack)} = {v \in Live : states[n] <= states[v]}
           /\ {pkg_stack[i] : i \in 1 .. from - 1} = {v \in Live : states[v] < states[n]}
<1>1. /\ pkg_stack \in Seq(Current) /\ DOMAIN pkg_stack = 1 .. Len(pkg_stack) /\ Len(pkg_stack) \in Nat
  BY DEF Numbered
<1>2. from \in DOMAIN pkg_stack /\ pkg_stack[from] = n
  <2>1. \E i \in DOMAIN pkg_stack : pkg_stack[i] = n
    BY DEF Live, ToSet
  <2> QED
    BY <2>1
<1>3. \A i \in DOMAIN pkg_stack : pkg_stack[i] \in Live /\ states[pkg_stack[i]] \in Nat
  BY NumbersAre DEF Live, ToSet
<1>4. \A i \in DOMAIN pkg_stack :
         /\ i < from => states[pkg_stack[i]] < states[n]
         /\ from < i => states[n] < states[pkg_stack[i]]
  BY <1>2 DEF Numbered, Ascending
<1>5. ASSUME NEW i \in DOMAIN pkg_stack
      PROVE  /\ from <= i <=> states[n] <= states[pkg_stack[i]]
             /\ i \in 1 .. from - 1 <=> states[pkg_stack[i]] < states[n]
  <2>1. i \in Nat \ {0} /\ from \in Nat \ {0} /\ states[n] \in Nat /\ states[pkg_stack[i]] \in Nat
    BY <1>1, <1>2, <1>3
  <2>2. i < from => states[pkg_stack[i]] < states[n]
    BY <1>4
  <2>3. from < i => states[n] < states[pkg_stack[i]]
    BY <1>4
  <2>4. i = from => states[pkg_stack[i]] = states[n]
    BY <1>2
  <2>5. from <= i <=> states[n] <= states[pkg_stack[i]]
    BY <2>1, <2>2, <2>3, <2>4
  <2>6. i \in 1 .. from - 1 <=> i < from
    BY <2>1
  <2>7. i < from <=> states[pkg_stack[i]] < states[n]
    BY <2>1, <2>2, <2>3, <2>4
  <2> QED
    BY <2>5, <2>6, <2>7
<1>6. \A i \in DOMAIN pkg_stack : i \in 1 .. from - 1 <=> states[pkg_stack[i]] < states[n]
  BY <1>5
<1>7. \A v \in Live : \E i \in DOMAIN pkg_stack : pkg_stack[i] = v
  BY DEF Live, ToSet
<1>8. from .. Len(pkg_stack) \subseteq DOMAIN pkg_stack /\ 1 .. from - 1 \subseteq DOMAIN pkg_stack
  BY <1>1, <1>2
<1>9. ASSUME NEW i \in DOMAIN pkg_stack
      PROVE  i \in from .. Len(pkg_stack) <=> states[n] <= states[pkg_stack[i]]
  <2>1. i \in from .. Len(pkg_stack) <=> from <= i
    BY <1>1, <1>2
  <2> QED
    BY <1>5, <2>1
<1>10. {pkg_stack[i] : i \in from .. Len(pkg_stack)} = {v \in Live : states[n] <= states[v]}
  BY <1>3, <1>7, <1>8, <1>9
<1>11. {pkg_stack[i] : i \in 1 .. from - 1} = {v \in Live : states[v] < states[n]}
  BY <1>3, <1>6, <1>7, <1>8
<1> QED
  BY <1>2, <1>10, <1>11

\* The nodes of the innermost call's component, once nothing is left to follow there.
LEMMA ComponentIs ==
    ASSUME Closed(Current), IsFiniteSet(Current), SearchParts, calls # <<>>, calls[1].left = {},
           calls[1].node = Last(root_stack),
           NEW found, found = {v \in Live : states[calls[1].node] <= states[v]}
    PROVE  /\ calls[1].node \in found /\ found \subseteq Live
           /\ \A v \in found : Pre(graph, v) \subseteq Finished \union found
           /\ \A v \in found : Together(v) \subseteq found
           /\ found # {calls[1].node} => \A v \in found : Together(v) = found /\ Together(v) \ {v} # {}
<1> DEFINE n == calls[1].node
<1>1. /\ Roots \subseteq Callers /\ Callers \subseteq Live /\ Live \subseteq DOMAIN states
      /\ \A m \in DOMAIN states : states[m] \in Nat
      /\ Live \intersect Finished = {} /\ DOMAIN states \subseteq Current
      /\ \A m \in DOMAIN states : states[m] > 0 => m \in Live
  BY NumbersAre DEF SearchParts, OnTheWay, Numbered
<1>2. n \in Roots /\ n \in Callers /\ n \in found /\ n \in Live
  BY <1>1, LastRoot
<1>3. ASSUME NEW v \in found, NEW m \in Pre(graph, v) PROVE m \in Finished \union found
  <2>1. v \in Live /\ v \in DOMAIN states /\ states[n] <= states[v] /\ states[n] \in Nat /\ states[v] \in Nat
    BY <1>1, <1>2
  <2>2. CASE \E i \in DOMAIN calls : calls[i].node = v /\ m \in calls[i].left
    <3>1. PICK i \in DOMAIN calls : calls[i].node = v /\ m \in calls[i].left
      BY <2>2
    <3>2. v = n
      BY <2>1, <3>1, LastRoot DEF Callers
    <3>3. i = 1
      <4>1. 1 \in DOMAIN calls /\ i \in Nat \ {0}
        BY <3>1 DEF SearchParts, OnTheWay
      <4>2. 1 < i => states[v] < states[n]
        BY <3>1, <4>1 DEF SearchParts, OnTheWay
      <4> QED
        BY <2>1, <4>1, <4>2
    <3> QED
      BY <3>1, <3>3
  <2>3. CASE m \in Live /\ v \in Live /\ NotOlder(m, v)
    BY <1>2, <2>1, <2>3 DEF NotOlder
  <2> QED
    BY <2>1, <2>2, <2>3 DEF SearchParts, Followed
<1>4. ASSUME NEW v \in Finished, NEW m \in Pre(graph, v) PROVE m \in Finished
  <2>1. v \in DOMAIN states /\ v \notin Live
    BY <1>1 DEF Finished
  <2>2. \A i \in DOMAIN calls : calls[i].node # v
    BY <1>1, <2>1 DEF Callers
  <2> QED
    BY <2>1, <2>2 DEF SearchParts, Followed
<1>5. ASSUME NEW v \in found, NEW m \in Together(v) PROVE m \in found
  <2> DEFINE A == Finished \union found
  <2>1. A \in SUBSET Current /\ v \in A
    BY <1>1 DEF Finished
  <2>2. \A x \in A : Pre(graph, x) \subseteq A
    BY <1>3, <1>4
  <2>3. m \in A
    <3> HIDE DEF A
    <3> QED
      BY <2>1, <2>2, WaysStay DEF Together
  <2>4. CASE m \in Finished
    <3>1. v \in From(m) /\ m \in From(v)
      BY DEF Together
    <3>2. v \in Together(m)
      BY <3>1 DEF Together
    <3>3. v \in Finished
      BY <2>4, <3>2 DEF SearchParts, FoundSoFar
    <3> QED
      BY <1>1, <3>3
  <2> QED
    BY <2>3, <2>4
<1>6. ASSUME NEW v \in found PROVE Leads(n, v) /\ Leads(v, n)
  <2>1. v \in Live /\ states[n] <= states[v]
    OBVIOUS
  <2>2. Leads(n, v)
    BY <1>2, <2>1 DEF SearchParts, Ways, Leads
  <2>3. PICK r \in Roots : NotOlder(r, v) /\ Leads(v, r)
    BY <2>1 DEF SearchParts, Ways, Leads
  <2>4. states[n] <= states[r] /\ states[n] \in Nat /\ states[r] \in Nat
    BY <1>1, <1>2, <2>1, <2>3 DEF NotOlder
  <2>5. r = n
    BY <2>4, LastRoot
  <2> QED
    BY <2>2, <2>3, <2>5
<1>7. ASSUME found # {n}, NEW v \in found PROVE Together(v) = found /\ Together(v) \ {v} # {}
  <2>1. found \subseteq Current
    BY <1>1
  <2>2. \A x, y \in found : Leads(x, y)
    BY <1>6, <2>1, LeadsOn
  <2>3. PICK w \in found : w # v
    BY <1>2, <1>7
  <2>4. w \in From(v) /\ v \in From(w)
    BY <2>2, <2>3 DEF Leads
  <2>5. v \in From(v)
    BY <2>1, <2>4, WaysJoin
  <2>6. \A x \in found : x \in From(v) /\ v \in From(x)
    BY <2>2, <2>5 DEF Leads
  <2>7. \A x \in found : x \in Together(v)
    BY <2>6 DEF Together
  <2> QED
    BY <1>5, <2>3, <2>7
<1> QED
  BY <1>2, <1>3, <1>5, <1>7

\* The innermost call ends.
LEMMA CallEnds ==
    ASSUME SearchParts, calls # <<>>, calls[1].left = {}, calls' = Tail(calls), IsFiniteSet(Current)
    PROVE  /\ calls' \in Seq(Frames) /\ Callers' = Callers \ {calls[1].node}
           /\ \A i \in DOMAIN calls' : calls'[i].left \subseteq Pre(graph, calls'[i].node)
           /\ \A i, j \in DOMAIN calls' : i < j => states[calls'[j].node] < states[calls'[i].node]
           /\ \A v, m : (\E i \in DOMAIN calls : calls[i].node = v /\ m \in calls[i].left)
                      => (\E i \in DOMAIN calls' : calls'[i].node = v /\ m \in calls'[i].left)
           /\ calls[1].node \in Callers
<1>1. calls \in Seq(Frames) /\ 1 \in DOMAIN calls /\ \A i \in DOMAIN calls : i = 1 \/ 1 < i
  BY DEF SearchParts, OnTheWay, Frames
<1>2. /\ calls' \in Seq(Frames)
      /\ \A i \in DOMAIN calls \ {1} : i - 1 \in DOMAIN calls' /\ calls'[i - 1] = calls[i]
      /\ \A i \in DOMAIN calls' : i + 1 \in DOMAIN calls \ {1} /\ calls'[i] = calls[i + 1]
  BY <1>1, PopIs
<1>3. \A i \in DOMAIN calls' : i \in Nat
  BY <1>2
<1>4. \A i \in DOMAIN calls' : calls'[i].left \subseteq Pre(graph, calls'[i].node)
  BY <1>2 DEF SearchParts, OnTheWay
<1>5. ASSUME NEW i \in DOMAIN calls', NEW j \in DOMAIN calls', i < j
      PROVE  states[calls'[j].node] < states[calls'[i].node]
  <2>1. i + 1 < j + 1
    BY <1>3, <1>5
  <2> QED
    BY <1>2, <2>1 DEF SearchParts, OnTheWay
<1>6. \A v, m : (\E i \in DOMAIN calls : calls[i].node = v /\ m \in calls[i].left)
           => (\E i \in DOMAIN calls' : calls'[i].node = v /\ m \in calls'[i].left)
  <2> SUFFICES ASSUME NEW v, NEW m, NEW i \in DOMAIN calls, calls[i].node = v, m \in calls[i].left
               PROVE  \E j \in DOMAIN calls' : calls'[j].node = v /\ m \in calls'[j].left
    OBVIOUS
  <2>1. i - 1 \in DOMAIN calls' /\ calls'[i - 1] = calls[i]
    BY <1>2
  <2> QED
    BY <2>1
<1>7. Callers' = Callers \ {calls[1].node}
  <2>1. ASSUME NEW c \in Callers' PROVE c \in Callers /\ c # calls[1].node
    <3>1. PICK i \in DOMAIN calls' : calls'[i].node = c
      BY DEF Callers
    <3>2. i + 1 \in DOMAIN calls \ {1} /\ calls[i + 1].node = c
      BY <1>2, <3>1
    <3>3. states[c] < states[calls[1].node]
      BY <1>1, <3>2 DEF SearchParts, OnTheWay
    <3>4. c \in Callers
      BY <3>2 DEF Callers
    <3>5. states[c] \in Nat
      BY <3>4, NumbersAre DEF SearchParts, OnTheWay
    <3> QED
      BY <3>3, <3>4, <3>5
  <2>2. ASSUME NEW c \in Callers, c # calls[1].node PROVE c \in Callers'
    <3>1. PICK i \in DOMAIN calls : calls[i].node = c
      BY DEF Callers
    <3>2. i - 1 \in DOMAIN calls' /\ calls'[i - 1].node = c
      BY <1>2, <2>2, <3>1
    <3> QED
      BY <3>2 DEF Callers
  <2> QED
    BY <2>1, <2>2
<1>8. calls[1].node \in Callers
  BY <1>1 DEF Callers
<1> QED
  BY <1>2, <1>4, <1>5, <1>6, <1>7, <1>8

\* The innermost call ends, and its node is in an older component.
LEMMA InOlder ==
    ASSUME Closed(Current), IsFiniteSet(Current), SearchParts, calls # <<>>, calls[1].left = {},
           calls' = Tail(calls), Last(root_stack) # calls[1].node,
           UNCHANGED <<graph, components, pkgs, states, pkg_stack, root_stack, sccs>>
    PROVE  SearchParts'
<1>1. /\ calls' \in Seq(Frames) /\ Callers' = Callers \ {calls[1].node}
      /\ \A i \in DOMAIN calls' : calls'[i].left \subseteq Pre(graph, calls'[i].node)
      /\ \A i, j \in DOMAIN calls' : i < j => states[calls'[j].node] < states[calls'[i].node]
      /\ \A v, m : (\E i \in DOMAIN calls : calls[i].node = v /\ m \in calls[i].left)
                 => (\E i \in DOMAIN calls' : calls'[i].node = v /\ m \in calls'[i].left)
  BY CallEnds
<1>2. /\ Current' = Current /\ \A x : From(x)' = From(x) /\ Together(x)' = Together(x)
      /\ Live' = Live /\ Finished' = Finished /\ Roots' = Roots
      /\ \A m, v : NotOlder(m, v)' = NotOlder(m, v)
  BY SameGraph DEF Live, Finished, Roots, NotOlder
<1>3. Roots \subseteq Callers /\ calls[1].node \notin Roots
  BY LastRoot DEF SearchParts, OnTheWay
<1>4. Numbered'
  BY <1>2 DEF SearchParts, Numbered, Ascending
<1>5. OnTheWay'
  <2>1. calls' \in Seq([node : Current, left : SUBSET Current])'
    BY <1>1, <1>2 DEF Frames
  <2>2. Roots' \subseteq Callers' /\ Callers' \subseteq Live' /\ (Live' # {} => pkg_stack'[1] \in Roots')
    BY <1>1, <1>2, <1>3 DEF SearchParts, OnTheWay
  <2> QED
    BY <1>1, <2>1, <2>2 DEF OnTheWay
<1>6. Followed'
  <2> SUFFICES ASSUME NEW v \in DOMAIN states, NEW m \in Pre(graph, v)
               PROVE  \/ \E i \in DOMAIN calls' : calls'[i].node = v /\ m \in calls'[i].left
                      \/ m \in Finished
                      \/ m \in Live /\ v \in Live /\ NotOlder(m, v)
    BY <1>2 DEF Followed
  <2> QED
    BY <1>1 DEF SearchParts, Followed
<1>7. Ways'
  BY <1>1, <1>2 DEF SearchParts, Ways
<1>8. FoundSoFar'
  BY <1>2 DEF SearchParts, FoundSoFar
<1> QED
  BY <1>4, <1>5, <1>6, <1>7, <1>8 DEF SearchParts

Position(n) == CHOOSE i \in DOMAIN pkg_stack : pkg_stack[i] = n

Above(n) == {pkg_stack[i] : i \in Position(n) .. Len(pkg_stack)}

\* The innermost call ends, and its component is found.
LEMMA IsFound ==
    ASSUME Closed(Current), IsFiniteSet(Current), SearchParts, calls # <<>>, calls[1].left = {},
           NEW n, n = calls[1].node, calls' = Tail(calls), Last(root_stack) = n,
           UNCHANGED <<graph, components, pkgs>>,
           NEW from, from = Position(n), NEW found, found = Above(n),
           root_stack' = Front(root_stack), pkg_stack' = SubSeq(pkg_stack, 1, from - 1),
           states' = [m \in DOMAIN states |-> IF m \in found THEN 0 ELSE states[m]],
           sccs' = IF found = {n} THEN sccs ELSE Append(sccs, found)
    PROVE  SearchParts'
<1>1. /\ calls' \in Seq(Frames) /\ Callers' = Callers \ {n} /\ n \in Callers
      /\ \A i \in DOMAIN calls' : calls'[i].left \subseteq Pre(graph, calls'[i].node)
      /\ \A i, j \in DOMAIN calls' : i < j => states[calls'[j].node] < states[calls'[i].node]
      /\ \A v, m : (\E i \in DOMAIN calls : calls[i].node = v /\ m \in calls[i].left)
                 => (\E i \in DOMAIN calls' : calls'[i].node = v /\ m \in calls'[i].left)
  BY CallEnds
<1>2. /\ Roots \subseteq Callers /\ Callers \subseteq Live /\ Live \subseteq DOMAIN states
      /\ \A m \in DOMAIN states : states[m] \in Nat
      /\ Live \intersect Finished = {} /\ DOMAIN states \subseteq Current
      /\ \A m \in DOMAIN states : states[m] > 0 => m \in Live
      /\ \A m \in Live : states[m] > 0
  BY NumbersAre DEF SearchParts, OnTheWay, Numbered
<1>3. /\ from \in DOMAIN pkg_stack
      /\ found = {v \in Live : states[n] <= states[v]}
      /\ {pkg_stack[i] : i \in 1 .. from - 1} = {v \in Live : states[v] < states[n]}
  <2>1. Numbered /\ n \in Live
    BY <1>1, <1>2 DEF SearchParts
  <2> QED
    BY <2>1, TopOfStack DEF Position, Above
<1>4. /\ n \in found /\ found \subseteq Live
      /\ \A v \in found : Pre(graph, v) \subseteq Finished \union found
      /\ \A v \in found : Together(v) \subseteq found
      /\ found # {n} => \A v \in found : Together(v) = found /\ Together(v) \ {v} # {}
  <2>1. n = Last(root_stack)
    OBVIOUS
  <2> QED
    BY <1>3, <2>1, ComponentIs
<1>5. /\ n \in Roots /\ \A r \in Roots \ {n} : states[r] < states[n]
      /\ \A c \in Callers \ {n} : states[c] < states[n]
  BY LastRoot
<1>6. /\ root_stack' \in Seq(Current) /\ Roots' = Roots \ {n} /\ Ascending(root_stack')
  <2> DEFINE s == root_stack
             t == root_stack'
             k == Len(root_stack) - 1
  <2>1. s \in Seq(Current) /\ s # <<>> /\ DOMAIN s = 1 .. Len(s) /\ Len(s) \in Nat \ {0}
    BY LastRoot DEF SearchParts, Numbered
  <2>2. k \in 0 .. Len(s) /\ t = SubSeq(s, 1, k) /\ s[k + 1] = n
    BY <2>1 DEF Front, Last
  <2> HIDE DEF s, t, k
  <2>3. /\ t \in Seq(Current) /\ Len(t) = k /\ DOMAIN t = 1 .. k
        /\ \A i \in 1 .. k : t[i] = s[i]
    BY <2>1, <2>2, PrefixIs
  <2>4. DOMAIN s = 1 .. k + 1 /\ k \in Nat
    BY <2>1 DEF k, s
  <2>5. Ascending(s)
    BY DEF s, SearchParts, Numbered
  <2>6. Ascending(t)
    BY <2>3, <2>4, <2>5 DEF Ascending
  <2>7. \A i \in 1 .. k : s[i] # n
    <3> SUFFICES ASSUME NEW i \in 1 .. k PROVE s[i] # n
      OBVIOUS
    <3>1. states[s[i]] < states[s[k + 1]]
      <4>1. i \in DOMAIN s /\ k + 1 \in DOMAIN s /\ i < k + 1
        BY <2>4
      <4> QED
        BY <2>5, <4>1 DEF Ascending
    <3>2. states[n] \in Nat
      BY <1>1, <1>2
    <3> QED
      BY <2>2, <3>1, <3>2
  <2>8. ToSet(t) = ToSet(s) \ {n}
    <3>1. 1 .. k + 1 = 1 .. k \union {k + 1}
      BY <2>4
    <3>2. ToSet(t) = {s[i] : i \in 1 .. k}
      BY <2>3 DEF ToSet
    <3>3. ToSet(s) = {s[i] : i \in 1 .. k} \union {s[k + 1]}
      BY <2>4, <3>1 DEF ToSet
    <3> QED
      BY <2>2, <2>7, <3>2, <3>3
  <2> QED
    BY <2>3, <2>6, <2>8 DEF s, t, Roots
<1>7. /\ pkg_stack' \in Seq(Current) /\ Live' = Live \ found /\ Ascending(pkg_stack')
      /\ Live' = {v \in Live : states[v] < states[n]}
      /\ (Live' # {} => pkg_stack'[1] = pkg_stack[1] /\ 1 \in DOMAIN pkg_stack')
  <2> DEFINE s == pkg_stack
             t == pkg_stack'
             k == from - 1
  <2>1. s \in Seq(Current) /\ DOMAIN s = 1 .. Len(s) /\ Len(s) \in Nat
    BY DEF SearchParts, Numbered
  <2>2. k \in 0 .. Len(s) /\ t = SubSeq(s, 1, k)
    BY <1>3, <2>1
  <2>3. {s[i] : i \in 1 .. k} = {v \in Live : states[v] < states[n]}
    BY <1>3
  <2>4. Ascending(s)
    BY DEF SearchParts, Numbered
  <2> HIDE DEF s, t, k
  <2>5. /\ t \in Seq(Current) /\ DOMAIN t = 1 .. k
        /\ \A i \in 1 .. k : t[i] = s[i]
    BY <2>1, <2>2, PrefixIs
  <2>6. Ascending(t)
    BY <2>1, <2>2, <2>4, <2>5 DEF Ascending
  <2>7. ToSet(t) # {} => t[1] = s[1] /\ 1 \in DOMAIN t
    BY <2>2, <2>5 DEF ToSet
  <2>8. {v \in Live : states[v] < states[n]} = Live \ found
    <3>1. \A v \in Live : states[v] \in Nat /\ states[n] \in Nat
      BY <1>1, <1>2
    <3>2. \A v \in Live : states[v] < states[n] <=> ~(states[n] <= states[v])
      BY <3>1
    <3> QED
      BY <1>3, <3>2
  <2>9. ToSet(t) = {s[i] : i \in 1 .. k}
    BY <2>5 DEF ToSet
  <2> QED
    BY <2>3, <2>5, <2>6, <2>7, <2>8, <2>9 DEF s, t, Live
<1>8. /\ Current' = Current /\ \A x : From(x)' = From(x) /\ Together(x)' = Together(x)
  BY SameGraph
<1>9. /\ DOMAIN states' = DOMAIN states /\ Finished' = Finished \union found
      /\ \A v \in Live' : states'[v] = states[v] /\ states[v] < states[n]
      /\ Live' \subseteq Live /\ Roots' \subseteq Callers' /\ Callers' \subseteq Live'
  <2>1. Finished' = Finished \union found
    BY <1>2, <1>4 DEF Finished
  <2>2. Callers' \subseteq Live'
    BY <1>1, <1>2, <1>5, <1>7
  <2> QED
    BY <1>1, <1>2, <1>6, <1>7, <2>1, <2>2
<1>10. Numbered'
  <2>1. DOMAIN states' \subseteq Current'
    BY <1>2, <1>8, <1>9
  <2>2. states' \in [DOMAIN states' -> 0 .. Cardinality(DOMAIN states')]
    <3>1. \A m \in DOMAIN states : states[m] \in 0 .. Cardinality(DOMAIN states)
      BY DEF SearchParts, Numbered
    <3>2. 0 \in 0 .. Cardinality(DOMAIN states)
      BY NumbersAre DEF SearchParts
    <3>3. \A m \in DOMAIN states : states'[m] \in 0 .. Cardinality(DOMAIN states)
      BY <3>1, <3>2
    <3>4. states' = [m \in DOMAIN states |-> states'[m]]
      OBVIOUS
    <3> QED
      BY <1>9, <3>3, <3>4
  <2>3. Live' = DOMAIN states' \ Finished'
    BY <1>4, <1>7, <1>9 DEF SearchParts, Numbered
  <2>4. Ascending(pkg_stack)'
    <3>1. \A i \in DOMAIN pkg_stack' : states'[pkg_stack'[i]] = states[pkg_stack'[i]]
      <4>1. \A i \in DOMAIN pkg_stack' : pkg_stack'[i] \in Live'
        BY DEF Live, ToSet
      <4> QED
        BY <1>9, <4>1
    <3>2. ASSUME NEW i \in DOMAIN pkg_stack', NEW j \in DOMAIN pkg_stack', i < j
          PROVE  states'[pkg_stack'[i]] < states'[pkg_stack'[j]]
      <4>1. states[pkg_stack'[i]] < states[pkg_stack'[j]]
        BY <1>7, <3>2 DEF Ascending
      <4> QED
        BY <3>1, <4>1
    <3> QED
      BY <3>2 DEF Ascending
  <2>5. Ascending(root_stack)'
    <3>1. \A i \in DOMAIN root_stack' : states'[root_stack'[i]] = states[root_stack'[i]]
      <4>1. \A i \in DOMAIN root_stack' : root_stack'[i] \in Live'
        BY <1>9 DEF Roots, ToSet
      <4> QED
        BY <1>9, <4>1
    <3>2. ASSUME NEW i \in DOMAIN root_stack', NEW j \in DOMAIN root_stack', i < j
          PROVE  states'[root_stack'[i]] < states'[root_stack'[j]]
      <4>1. states[root_stack'[i]] < states[root_stack'[j]]
        BY <1>6, <3>2 DEF Ascending
      <4> QED
        BY <3>1, <4>1
    <3> QED
      BY <3>2 DEF Ascending
  <2> QED
    BY <1>6, <1>7, <1>8, <2>1, <2>2, <2>3, <2>4, <2>5 DEF Numbered
<1>11. OnTheWay'
  <2>1. calls' \in Seq([node : Current, left : SUBSET Current])'
    BY <1>1, <1>8 DEF Frames
  <2>2. ASSUME NEW i \in DOMAIN calls', NEW j \in DOMAIN calls', i < j
        PROVE  states'[calls'[j].node] < states'[calls'[i].node]
    <3>1. calls'[i].node \in Live' /\ calls'[j].node \in Live'
      BY <1>9 DEF Callers
    <3> QED
      BY <1>1, <1>9, <2>2, <3>1
  <2>3. ASSUME Live' # {} PROVE pkg_stack'[1] \in Roots'
    <3>1. pkg_stack[1] \in Roots
      BY <1>9, <2>3 DEF SearchParts, OnTheWay
    <3>2. pkg_stack'[1] \in Live'
      <4>1. 1 \in DOMAIN pkg_stack'
        BY <1>7, <2>3
      <4> QED
        BY <4>1 DEF Live, ToSet
    <3>3. pkg_stack'[1] = pkg_stack[1]
      BY <1>7, <2>3
    <3>4. n \notin Live'
      BY <1>4, <1>7
    <3>5. pkg_stack'[1] \in Roots \ {n}
      BY <3>1, <3>2, <3>3, <3>4
    <3> QED
      BY <1>6, <3>5
  <2> QED
    BY <1>1, <1>9, <2>1, <2>2, <2>3 DEF OnTheWay
<1>12. \A m \in Live', v \in Live' : NotOlder(m, v) => NotOlder(m, v)'
  BY <1>6, <1>9 DEF NotOlder
<1>13. Followed'
  <2> SUFFICES ASSUME NEW v \in DOMAIN states, NEW m \in Pre(graph, v)
               PROVE  \/ \E i \in DOMAIN calls' : calls'[i].node = v /\ m \in calls'[i].left
                      \/ m \in Finished'
                      \/ m \in Live' /\ v \in Live' /\ NotOlder(m, v)'
    BY <1>9 DEF Followed
  <2>1. CASE \E i \in DOMAIN calls : calls[i].node = v /\ m \in calls[i].left
    BY <1>1, <2>1
  <2>2. CASE m \in Finished
    BY <1>9, <2>2
  <2>3. CASE m \in Live /\ v \in Live /\ NotOlder(m, v)
    <3>1. CASE m \in found \/ v \in found
      BY <1>4, <1>9, <3>1
    <3>2. CASE m \notin found /\ v \notin found
      BY <1>7, <1>12, <2>3, <3>2
    <3> QED
      BY <3>1, <3>2
  <2> QED
    BY <2>1, <2>2, <2>3 DEF SearchParts, Followed
<1>14. Ways'
  <2>1. ASSUME NEW c \in Callers', NEW v \in Live' \ {c}, states'[c] <= states'[v]
        PROVE  v \in From(c)
    BY <1>1, <1>9, <2>1 DEF SearchParts, Ways
  <2>2. ASSUME NEW v \in Live'
        PROVE  \E r \in Roots' : states'[r] <= states'[v] /\ NotOlder(r, v)' /\ (r # v => r \in From(v))
    <3>1. PICK r \in Roots : states[r] <= states[v] /\ NotOlder(r, v) /\ (r # v => r \in From(v))
      BY <1>9 DEF SearchParts, Ways
    <3>2. r # n
      <4>1. states[v] \in Nat /\ states[n] \in Nat /\ states[v] < states[n]
        BY <1>1, <1>2, <1>9
      <4> QED
        BY <3>1, <4>1
    <3>3. r \in Roots' /\ r \in Live'
      BY <1>6, <1>9, <3>1, <3>2
    <3> QED
      BY <1>9, <1>12, <3>1, <3>3
  <2> QED
    BY <1>8, <2>1, <2>2 DEF Ways
<1>15. FoundSoFar'
  <2>1. \A v \in Finished' : Together(v) \subseteq Finished'
    BY <1>4, <1>9 DEF SearchParts, FoundSoFar
  <2>2. CASE found = {n}
    <3>1. Together(n) \ {n} = {}
      BY <1>4, <2>2
    <3>2. {x \in Finished' : Together(x) \ {x} # {}} = {x \in Finished : Together(x) \ {x} # {}}
      BY <1>9, <2>2, <3>1
    <3> QED
      BY <1>8, <2>1, <2>2, <3>2 DEF SearchParts, FoundSoFar
  <2>3. CASE found # {n}
    <3>1. sccs' = Append(sccs, found)
      BY <2>3
    <3>2. sccs \in Seq(SUBSET Current) /\ found \in SUBSET Current
      BY <1>2, <1>4 DEF SearchParts, FoundSoFar
    <3>3. sccs' \in Seq(SUBSET Current)
      BY <3>1, <3>2
    <3>4. /\ Len(sccs) \in Nat /\ DOMAIN sccs = 1 .. Len(sccs) /\ DOMAIN sccs' = 1 .. Len(sccs) + 1
          /\ \A i \in 1 .. Len(sccs) : sccs'[i] = sccs[i]
          /\ sccs'[Len(sccs) + 1] = found
          /\ ToSet(sccs') = ToSet(sccs) \union {found}
      <4> DEFINE S == SUBSET Current
                 s == sccs
                 t == sccs'
      <4>1. s \in Seq(S) /\ t = Append(s, found)
        BY <3>1, <3>2
      <4> HIDE DEF S, s, t
      <4>2. /\ DOMAIN t = 1 .. Len(s) + 1
            /\ \A i \in 1 .. Len(s) : t[i] = s[i]
            /\ t[Len(s) + 1] = found
            /\ ToSet(t) = ToSet(s) \union {found}
        <5>1. /\ Len(t) = Len(s) + 1 /\ DOMAIN t = 1 .. Len(s) + 1
              /\ \A i \in 1 .. Len(s) : t[i] = s[i]
              /\ t[Len(s) + 1] = found
          BY <4>1, AppendIs
        <5>2. ToSet(t) = ToSet(s) \union {found}
          BY <4>1, AppendIs
        <5> QED
          BY <5>1, <5>2
      <4>3. DOMAIN s = 1 .. Len(s) /\ Len(s) \in Nat
        BY <4>1
      <4> QED
        BY <4>2, <4>3 DEF s, t
    <3>5. found \notin ToSet(sccs)
      <4>1. n \notin Finished
        BY <1>2, <1>4
      <4>2. \A C \in ToSet(sccs) : C \subseteq Finished
        BY DEF SearchParts, FoundSoFar
      <4> QED
        BY <1>4, <4>1, <4>2
    <3>6. IsInjective(sccs')
      <4>1. \A i, j \in DOMAIN sccs : sccs[i] = sccs[j] => i = j
        BY DEF SearchParts, FoundSoFar, IsInjective
      <4>2. \A i \in DOMAIN sccs : sccs[i] # found
        BY <3>5 DEF ToSet
      <4>3. ASSUME NEW i \in DOMAIN sccs', NEW j \in DOMAIN sccs', sccs'[i] = sccs'[j] PROVE i = j
        <5>1. i \in DOMAIN sccs \/ i = Len(sccs) + 1
          BY <3>4
        <5>2. j \in DOMAIN sccs \/ j = Len(sccs) + 1
          BY <3>4
        <5>3. \A k \in DOMAIN sccs : sccs'[k] = sccs[k]
          BY <3>4
        <5>4. sccs'[Len(sccs) + 1] = found
          BY <3>4
        <5> QED
          BY <4>1, <4>2, <4>3, <5>1, <5>2, <5>3, <5>4
      <4> QED
        BY <4>3 DEF IsInjective
    <3>7. ToSet(sccs') = {Together(v) : v \in {x \in Finished' : Together(x) \ {x} # {}}}
      <4>1. {x \in Finished' : Together(x) \ {x} # {}}
              = {x \in Finished : Together(x) \ {x} # {}} \union found
        BY <1>4, <1>9, <2>3
      <4>2. \A x \in found : Together(x) = found
        BY <1>4, <2>3
      <4>3. {Together(v) : v \in {x \in Finished : Together(x) \ {x} # {}} \union found}
              = {Together(v) : v \in {x \in Finished : Together(x) \ {x} # {}}} \union {found}
        <5> DEFINE F == {x \in Finished : Together(x) \ {x} # {}}
        <5>1. {Together(v) : v \in F \union found} = {Together(v) : v \in F} \union {Together(v) : v \in found}
          OBVIOUS
        <5>2. {Together(v) : v \in found} = {found}
          <6>1. \A x \in {Together(v) : v \in found} : x = found
            BY <4>2
          <6>2. Together(n) \in {Together(v) : v \in found} /\ Together(n) = found
            BY <1>4, <4>2
          <6> QED
            BY <6>1, <6>2
        <5> QED
          BY <5>1, <5>2
      <4> QED
        BY <3>4, <4>1, <4>3 DEF SearchParts, FoundSoFar
    <3> QED
      BY <1>8, <2>1, <3>6, <3>7, <3>3 DEF FoundSoFar
  <2> QED
    BY <2>2, <2>3
<1> QED
  BY <1>10, <1>11, <1>13, <1>14, <1>15 DEF SearchParts

LEMMA UpKeeps ==
    ASSUME SearchInv, Up
    PROVE  SearchInv'
<1>1. /\ stage = "scan" /\ stage' = stage /\ calls # <<>>
      /\ UNCHANGED <<graph, components, pkgs>>
  BY DEF Up
<1>2. Closed(Current) /\ IsFiniteSet(Current) /\ SearchParts
  BY <1>1 DEF SearchInv, SearchParts
<1>3. Head(calls) = calls[1]
  BY <1>1, <1>2 DEF SearchParts, OnTheWay
<1>4. calls[1].left = {} /\ calls' = Tail(calls)
  BY <1>3 DEF Up
<1> DEFINE n == Head(calls).node
           from == CHOOSE i \in DOMAIN pkg_stack : pkg_stack[i] = n
           found == {pkg_stack[i] : i \in from .. Len(pkg_stack)}
<1>5. IF Last(root_stack) = n
      THEN /\ root_stack' = Front(root_stack)
           /\ pkg_stack' = SubSeq(pkg_stack, 1, from - 1)
           /\ states' = [m \in DOMAIN states |-> IF m \in found THEN 0 ELSE states[m]]
           /\ sccs' = IF found = {n} THEN sccs ELSE Append(sccs, found)
      ELSE UNCHANGED <<root_stack, pkg_stack, states, sccs>>
  BY DEF Up
<1>6. SearchParts'
  <2> HIDE DEF n
  <2>1. n = calls[1].node
    BY <1>3 DEF n
  <2>2. CASE Last(root_stack) = n
    <3> HIDE DEF from, found
    <3>1. from = Position(n)
      BY DEF from, Position
    <3>2. found = Above(n)
      BY DEF found, from, Above, Position
    <3> QED
      BY <1>1, <1>2, <1>4, <1>5, <2>2, <2>1, <3>1, <3>2, IsFound
  <2>3. CASE Last(root_stack) # n
    BY <1>1, <1>2, <1>4, <1>5, <2>3, <2>1, InOlder
  <2> QED
    BY <2>2, <2>3
<1> QED
  BY <1>1, <1>2, <1>6, SameGraph DEF SearchInv, SearchParts

\* A search begins with nothing visited.
LEMMA DetectStarts ==
    ASSUME Detect, Closed(Current), IsFiniteSet(Current)
    PROVE  SearchInv'
<1>1. /\ Current' = Current /\ Closed(Current)'
  BY SameGraph DEF Detect
<1>2. DOMAIN states' = {} /\ DOMAIN calls' = {} /\ DOMAIN pkg_stack' = {} /\ DOMAIN root_stack' = {}
  BY DEF Detect
<1>3. Finished' = {} /\ Live' = {} /\ Roots' = {} /\ Callers' = {}
  BY <1>2 DEF Finished, Live, Roots, Callers, ToSet
<1>4. Numbered'
  <2>1. states' \in [DOMAIN states' -> 0 .. Cardinality(DOMAIN states')]
    BY <1>2 DEF Detect
  <2> QED
    BY <1>2, <1>3, <2>1 DEF Detect, Numbered, Ascending
<1>5. OnTheWay'
  BY <1>2, <1>3 DEF Detect, OnTheWay
<1>6. Followed' /\ Ways'
  BY <1>2, <1>3 DEF Followed, Ways
<1>7. FoundSoFar'
  BY <1>3 DEF Detect, FoundSoFar, IsInjective, ToSet
<1> QED
  BY <1>1, <1>4, <1>5, <1>6, <1>7 DEF SearchInv

\* When no call is left everything visited is finished.
LEMMA SearchEnds ==
    ASSUME SearchInv, stage = "scan", calls = <<>>, Current \subseteq DOMAIN states
    PROVE  /\ Finished = Current /\ sccs \in Seq(SUBSET Current) /\ IsInjective(sccs)
           /\ ToSet(sccs) = {Together(n) : n \in {x \in Current : Together(x) \ {x} # {}}}
<1>1. Callers = {}
  BY DEF Callers
<1>2. Live = {}
  BY <1>1 DEF SearchInv, OnTheWay
<1>3. Finished = Current
  BY <1>2 DEF SearchInv, Numbered, Finished
<1> QED
  BY <1>3 DEF SearchInv, FoundSoFar

LEMMA FoundIsRight == SearchInv => ComponentsFound
<1> SUFFICES ASSUME SearchInv, stage = "scan", calls = <<>>, Current \subseteq DOMAIN states
             PROVE  LET reach == Reach(Arcs, Current)
                        T(n) == {m \in reach[n] : n \in reach[m]}
                    IN  /\ IsInjective(sccs)
                        /\ ToSet(sccs) = {T(n) : n \in {x \in Current : T(x) \ {x} # {}}}
  BY DEF ComponentsFound
<1> QED
  BY SearchEnds DEF Together, From

-----------------------------------------------------------------------------
(* The nodes and what is inside the components.                            *)

Ordering == stage \in {"detect", "scan", "merge", "collect", "break"}

Alive == {n \in DOMAIN graph : IsComponent(n)}

\* The components that have not been broken up.
Whole == Alive \ ToSet(components)

\* Nothing requires what is not in the graph, and the next component is a new one.
Nodes ==
    /\ IsFiniteSet(DOMAIN graph) /\ IsFiniteSet(DOMAIN pkgs)
    /\ \A n \in DOMAIN graph : n.nr \in Nat /\ Pre(graph, n) \subseteq DOMAIN graph
    /\ Alive \subseteq DOMAIN pkgs
    /\ \A c \in DOMAIN pkgs : c.nr \in Nat /\ c.nr <= Cardinality(DOMAIN pkgs)

\* What is inside a component requires nothing outside, and nothing is inside two.
\* While it is whole there are packages in it, none of them a leaf.
Insides ==
    /\ \A c \in Alive : Closed(pkgs[c])
    /\ \A c1, c2 \in Alive : c1 # c2 => pkgs[c1] \intersect pkgs[c2] = {}
    /\ \A c \in Whole : \A n \in pkgs[c] : ~IsComponent(n) /\ Pre(graph, n) # {}

\* The components that are broken up are inside each other.
Nested ==
    /\ components \in Seq(Alive) /\ IsInjective(components)
    /\ \A i, j \in DOMAIN components : j = i + 1 => components[i] \in pkgs[components[j]]
    /\ components # <<>> => \A c \in Alive : Last(components) \notin pkgs[c]

\* Packages are searched, and the components that are made are apart, each of
\* nodes that require some of it.
Ahead ==
    /\ stage \in {"break", "detect", "scan"} => \A n \in Current : ~IsComponent(n)
    /\ stage = "break" => components # <<>>
    /\ stage = "merge" =>
          /\ sccs \in Seq(SUBSET Current)
          /\ \A i, j \in DOMAIN sccs : i # j => sccs[i] \intersect sccs[j] = {}
          /\ \A i \in DOMAIN sccs : \A n \in sccs[i] :
                ~IsComponent(n) /\ Pre(graph, n) \intersect sccs[i] # {}
          /\ \A i \in DOMAIN sccs : \A c \in Whole : pkgs[c] \intersect sccs[i] = {}

GraphInv ==
    /\ Ordering => Nodes /\ Insides /\ Nested /\ Ahead
    /\ stage \in {"idle", "ordered"} => components = <<>>

\* The lists of packages that wait to be ordered, and the one that is.
Items ==
    {x \in [do : {"order", "install", "update", "erase"}, op : {"install", "update", "erase"},
            of : SUBSET Pkg] :
        x.do = "order" =>
            /\ x.op \in {"install", "erase"}
            /\ x.op = "install" => x.of \subseteq request.installs}

QueueInv ==
    /\ request \in Requests /\ queue \in Seq(Items)
    /\ Ordering \/ stage = "ordered" =>
          queue # <<>> /\ queue[1].do = "order" /\ order \in Seq(queue[1].of)
    /\ Ordering => \A n \in DOMAIN graph : ~IsComponent(n) => \E p \in queue[1].of : n = Single(p)

IInv == QueueInv /\ GraphInv /\ SearchInv

-----------------------------------------------------------------------------
(* What the operations on the graph leave of what a node requires.         *)

LEMMA NodesLeft ==
    ASSUME NEW g, NEW n, NEW h, h = RemoveNode(g, n)
    PROVE  DOMAIN h = DOMAIN g \ {n}
BY DEF RemoveNode

LEMMA RemoveNodeIs ==
    ASSUME NEW g, NEW n, NEW h, h = RemoveNode(g, n), NEW m \in DOMAIN g \ {n}
    PROVE  Pre(h, m) = Pre(g, m) \ {n}
BY DEF RemoveNode, Pre

LEMMA RemoveRelationIs ==
    ASSUME NEW g, NEW n \in DOMAIN g, NEW m, NEW h, h = RemoveRelation(g, n, m)
    PROVE  DOMAIN h = DOMAIN g /\ Pre(h, n) = Pre(g, n) \ {m}
BY DEF RemoveRelation, Pre

LEMMA OthersKeep ==
    ASSUME NEW g, NEW n \in DOMAIN g, NEW m, NEW h, h = RemoveRelation(g, n, m),
           NEW x \in DOMAIN g, x # n
    PROVE  Pre(h, x) = Pre(g, x)
BY DEF RemoveRelation, Pre

\* What is required of others by the nodes of a component.
Outside(g, ns) == (UNION {DOMAIN g[n] : n \in ns}) \ ns

MergedNode(g, c, ns, m) ==
    IF m = c THEN [x \in Outside(g, ns) |-> \E n \in ns : x \in DOMAIN g[n] /\ g[n][x]]
    ELSE IF m \in ns THEN [x \in DOMAIN g[m] \intersect ns |-> g[m][x]]
    ELSE IF DOMAIN g[m] \intersect ns = {} THEN g[m]
    ELSE [x \in (DOMAIN g[m] \ ns) \union {c} |-> IF x = c THEN TRUE ELSE g[m][x]]

LEMMA OutsideIs ==
    ASSUME NEW g, NEW ns, NEW x
    PROVE  x \in Outside(g, ns) <=> (x \notin ns /\ \E n \in ns : x \in Pre(g, n))
<1> DEFINE Required == UNION {DOMAIN g[n] : n \in ns}
<1>1. x \in Required <=> \E n \in ns : x \in DOMAIN g[n]
  OBVIOUS
<1>2. Outside(g, ns) = Required \ ns
  BY DEF Outside
<1> HIDE DEF Required
<1> QED
  BY <1>1, <1>2 DEF Pre

LEMMA MergeNodes ==
    ASSUME NEW g, NEW c, NEW ns, NEW h, h = Merge(g, c, ns)
    PROVE  DOMAIN h = DOMAIN g \union {c}
BY DEF Merge

LEMMA MergeIs ==
    ASSUME NEW g, NEW c, NEW ns, NEW h, h = Merge(g, c, ns), NEW n \in DOMAIN g \union {c}
    PROVE  h[n] = MergedNode(g, c, ns, n)
<1>1. h = [m \in DOMAIN g \union {c} |-> MergedNode(g, c, ns, m)]
  BY DEF Merge, MergedNode, Outside
<1> QED
  BY <1>1

LEMMA MergeNew ==
    ASSUME NEW g, NEW c, NEW ns, NEW h, h = Merge(g, c, ns)
    PROVE  Pre(h, c) = Outside(g, ns)
<1>1. h[c] = MergedNode(g, c, ns, c)
  BY MergeIs
<1>2. DOMAIN MergedNode(g, c, ns, c) = Outside(g, ns)
  BY DEF MergedNode
<1> QED
  BY <1>1, <1>2 DEF Pre

LEMMA MergeInside ==
    ASSUME NEW g, NEW c, NEW ns, NEW h, h = Merge(g, c, ns),
           NEW n \in DOMAIN g \intersect ns, n # c
    PROVE  Pre(h, n) = Pre(g, n) \intersect ns
<1>1. h[n] = MergedNode(g, c, ns, n)
  BY MergeIs
<1>2. DOMAIN MergedNode(g, c, ns, n) = DOMAIN g[n] \intersect ns
  BY DEF MergedNode
<1> QED
  BY <1>1, <1>2 DEF Pre

LEMMA MergeFar ==
    ASSUME NEW g, NEW c, NEW ns, NEW h, h = Merge(g, c, ns),
           NEW n \in DOMAIN g \ ns, n # c, Pre(g, n) \intersect ns = {}
    PROVE  Pre(h, n) = Pre(g, n)
<1>1. h[n] = MergedNode(g, c, ns, n)
  BY MergeIs
<1>2. MergedNode(g, c, ns, n) = g[n]
  BY DEF MergedNode, Pre
<1> QED
  BY <1>1, <1>2 DEF Pre

LEMMA MergeNear ==
    ASSUME NEW g, NEW c, NEW ns, NEW h, h = Merge(g, c, ns),
           NEW n \in DOMAIN g \ ns, n # c, Pre(g, n) \intersect ns # {}
    PROVE  Pre(h, n) = (Pre(g, n) \ ns) \union {c}
<1>1. h[n] = MergedNode(g, c, ns, n)
  BY MergeIs
<1>2. DOMAIN MergedNode(g, c, ns, n) = (DOMAIN g[n] \ ns) \union {c}
  BY DEF MergedNode, Pre
<1> QED
  BY <1>1, <1>2 DEF Pre

-----------------------------------------------------------------------------
(* The steps on the graph.                                                 *)

GraphParts == Nodes /\ Insides /\ Nested

LEMMA CurrentIs ==
    ASSUME GraphParts
    PROVE  /\ Closed(Current) /\ IsFiniteSet(Current)
           /\ components = <<>> => Current = DOMAIN graph
           /\ components # <<>> =>
                 /\ Head(components) \in Alive /\ Current = pkgs[Head(components)]
                 /\ 1 \in DOMAIN components /\ Head(components) = components[1]
                 /\ Head(components) \notin Whole
<1>1. CASE components = <<>>
  <2>1. Current = DOMAIN graph
    BY <1>1 DEF Current
  <2> QED
    BY <1>1, <2>1 DEF GraphParts, Nodes, Closed
<1>2. CASE components # <<>>
  <2>1. components \in Seq(Alive)
    BY DEF GraphParts, Nested
  <2>2. 1 \in DOMAIN components /\ Head(components) = components[1] /\ components[1] \in Alive
    BY <1>2, <2>1
  <2>3. Current = pkgs[Head(components)]
    BY <1>2 DEF Current
  <2>4. Closed(Current) /\ Current \subseteq DOMAIN graph
    BY <2>2, <2>3 DEF GraphParts, Insides, Closed
  <2>5. IsFiniteSet(Current)
    BY <2>4, FS_Subset DEF GraphParts, Nodes
  <2>6. components[1] \in ToSet(components)
    BY <2>2 DEF ToSet
  <2> QED
    BY <1>2, <2>2, <2>3, <2>4, <2>5, <2>6 DEF Whole
<1> QED
  BY <1>1, <1>2

LEMMA SameParts ==
    ASSUME UNCHANGED <<graph, components, pkgs>>
    PROVE  /\ GraphParts' = GraphParts /\ Current' = Current /\ Alive' = Alive /\ Whole' = Whole
           /\ \A n : Pre(graph, n)' = Pre(graph, n)
BY DEF GraphParts, Nodes, Insides, Nested, Current, Alive, Whole, Closed, Pre

\* A node that is together with others requires one of them.
LEMMA NextInside ==
    ASSUME Closed(Current), NEW n \in Current, Together(n) \ {n} # {}
    PROVE  Pre(graph, n) \intersect Together(n) # {}
<1> SUFFICES ASSUME Pre(graph, n) \intersect Together(n) = {}
             PROVE  FALSE
  OBVIOUS
<1> DEFINE A == {y \in From(n) : n \notin From(y)}
<1>1. From(n) \subseteq Current
  BY DEF From, Reach
<1>2. ASSUME NEW r \in Arcs, r[1] \in A \union {n} PROVE r[2] \in A
  <2>1. r[1] \in Current /\ r[2] \in Current /\ r[2] \in Pre(graph, r[1])
    BY DEF Arcs
  <2>2. r[2] \in From(r[1])
    BY <2>1, ArcLeads
  <2>3. CASE r[1] = n
    <3>1. r[2] \in From(n) /\ r[2] \notin Together(n)
      BY <2>1, <2>2, <2>3
    <3> QED
      BY <3>1 DEF Together
  <2>4. CASE r[1] \in A
    <3>1. r[1] \in From(n) /\ n \notin From(r[1])
      BY <2>4
    <3>2. r[2] \in From(n)
      BY <2>2, <3>1, WaysJoin
    <3>3. n \notin From(r[2])
      BY <2>1, <2>2, <3>1, WaysJoin
    <3> QED
      BY <3>2, <3>3
  <2> QED
    BY <1>2, <2>3, <2>4
<1>3. From(n) \subseteq A
  <2>1. A \in SUBSET Current
    BY <1>1
  <2> HIDE DEF A
  <2> QED
    BY <1>2, <2>1 DEF From, Reach
<1> QED
  BY <1>3 DEF Together

LEMMA TogetherApart ==
    ASSUME NEW n \in Current, NEW m \in Current, NEW x \in Together(n) \intersect Together(m)
    PROVE  Together(n) = Together(m)
<1>1. x \in Current /\ x \in From(n) /\ n \in From(x) /\ x \in From(m) /\ m \in From(x)
  BY DEF Together, From, Reach
<1>2. \A y, z, w \in Current : z \in From(y) /\ w \in From(z) => w \in From(y)
  BY WaysJoin
<1>3. \A y \in Current : From(y) \subseteq Current
  BY DEF From, Reach
<1>4. m \in From(n) /\ n \in From(m)
  BY <1>1, <1>2
<1>5. ASSUME NEW y \in Current PROVE y \in Together(n) <=> y \in Together(m)
  BY <1>2, <1>4 DEF Together
<1> QED
  BY <1>3, <1>5 DEF Together

\* Each component that was found is the nodes that are together with any of its own.
LEMMA FoundAre ==
    ASSUME SearchInv, stage = "scan", calls = <<>>, Current \subseteq DOMAIN states, NEW i \in DOMAIN sccs
    PROVE  /\ sccs[i] \subseteq Current
           /\ \E n \in sccs[i] : TRUE
           /\ \A n \in sccs[i] : Together(n) = sccs[i] /\ Together(n) \ {n} # {}
<1>1. /\ sccs \in Seq(SUBSET Current)
      /\ ToSet(sccs) = {Together(n) : n \in {x \in Current : Together(x) \ {x} # {}}}
  BY SearchEnds
<1>2. PICK n \in {x \in Current : Together(x) \ {x} # {}} : sccs[i] = Together(n)
  BY <1>1 DEF ToSet
<1>3. sccs[i] \subseteq Current
  BY <1>1
<1>4. n \in Together(n)
  <2>1. PICK x \in Together(n) : x # n
    BY <1>2
  <2>2. x \in From(n) /\ n \in From(x)
    BY <2>1 DEF Together
  <2>3. n \in From(n)
    BY <1>2, <2>2, WaysJoin
  <2> QED
    BY <2>3 DEF Together
<1>5. ASSUME NEW m \in sccs[i] PROVE Together(m) = sccs[i] /\ Together(m) \ {m} # {}
  <2>1. m \in From(n) /\ n \in From(m) /\ m \in Current
    BY <1>2, <1>3 DEF Together
  <2>2. m \in From(m)
    BY <2>1, WaysJoin
  <2>3. m \in Together(m) /\ m \in Together(n)
    BY <1>2, <2>2 DEF Together
  <2>4. Together(m) = Together(n)
    BY <1>2, <2>1, <2>3, TogetherApart
  <2>5. PICK x \in Together(n) : x # n
    BY <1>2
  <2> QED
    BY <1>2, <1>4, <2>4, <2>5
<1> QED
  BY <1>2, <1>3, <1>4, <1>5

LEMMA FoundAhead ==
    ASSUME IInv, Found
    PROVE  GraphInv'
<1>1. /\ stage = "scan" /\ stage' = "merge" /\ calls = <<>> /\ Current \subseteq DOMAIN states
      /\ UNCHANGED <<graph, components, pkgs, sccs>>
  BY DEF Found, detector
<1>2. GraphParts /\ Ahead /\ SearchInv /\ Closed(Current)
  BY <1>1, CurrentIs DEF IInv, GraphInv, GraphParts, Ordering
<1>3. /\ sccs \in Seq(SUBSET Current) /\ IsInjective(sccs)
      /\ ToSet(sccs) = {Together(n) : n \in {x \in Current : Together(x) \ {x} # {}}}
  BY <1>1, <1>2, SearchEnds
<1>4. GraphParts' /\ Current' = Current /\ Whole' = Whole
  BY <1>1, <1>2, SameParts
<1>5. \A n \in Current : ~IsComponent(n)
  BY <1>1, <1>2 DEF Ahead
<1>6. ASSUME NEW i \in DOMAIN sccs
      PROVE  /\ sccs[i] \subseteq Current /\ (\E n \in sccs[i] : TRUE)
             /\ \A n \in sccs[i] : Together(n) = sccs[i] /\ Together(n) \ {n} # {}
  BY <1>1, <1>2, FoundAre
<1>7. ASSUME NEW i \in DOMAIN sccs, NEW j \in DOMAIN sccs, i # j
      PROVE  sccs[i] \intersect sccs[j] = {}
  <2>1. ASSUME NEW x \in sccs[i] \intersect sccs[j] PROVE FALSE
    <3>1. sccs[i] = sccs[j]
      BY <1>6, <2>1
    <3> QED
      BY <1>3, <1>7, <3>1 DEF IsInjective
  <2> QED
    BY <2>1
<1>8. ASSUME NEW i \in DOMAIN sccs, NEW n \in sccs[i]
      PROVE  ~IsComponent(n) /\ Pre(graph, n) \intersect sccs[i] # {}
  BY <1>2, <1>5, <1>6, NextInside
<1>9. ASSUME NEW i \in DOMAIN sccs, NEW c \in Whole
      PROVE  pkgs[c] \intersect sccs[i] = {}
  <2>1. CASE components = <<>>
    <3>1. Current = DOMAIN graph
      BY <1>2, <2>1, CurrentIs
    <3> QED
      BY <1>5, <3>1 DEF Whole, Alive
  <2>2. CASE components # <<>>
    <3>1. Current = pkgs[Head(components)] /\ Head(components) \in Alive /\ Head(components) # c /\ c \in Alive
      BY <1>2, <2>2, CurrentIs DEF Whole
    <3>2. pkgs[c] \intersect pkgs[Head(components)] = {}
      BY <1>2, <3>1 DEF GraphParts, Insides
    <3> QED
      BY <1>6, <3>1, <3>2
  <2> QED
    BY <2>1, <2>2
<1>10. \A n : Pre(graph, n)' = Pre(graph, n)
  BY <1>1, SameParts
<1>11. Ahead'
  BY <1>1, <1>3, <1>4, <1>7, <1>8, <1>9, <1>10 DEF Ahead
<1> QED
  BY <1>1, <1>4, <1>11 DEF GraphInv, GraphParts

LEMMA NewNode ==
    ASSUME Nodes, NEW ns, NEW c, c = Component(ns)
    PROVE  /\ c \notin DOMAIN pkgs /\ c \notin DOMAIN graph /\ IsComponent(c)
           /\ c.nr = Cardinality(DOMAIN pkgs) + 1
<1>1. Cardinality(DOMAIN pkgs) \in Nat
  BY FS_CardinalityType DEF Nodes
<1>2. c.nr = Cardinality(DOMAIN pkgs) + 1
  BY DEF Component
<1>3. c \notin DOMAIN pkgs
  <2>1. \A x \in DOMAIN pkgs : x.nr \in Nat /\ x.nr <= Cardinality(DOMAIN pkgs)
    BY DEF Nodes
  <2> QED
    BY <1>1, <1>2, <2>1
<1>4. IsComponent(c)
  BY <1>1, <1>2 DEF IsComponent
<1>5. c \notin DOMAIN graph
  BY <1>3, <1>4 DEF Nodes, Alive
<1> QED
  BY <1>2, <1>3, <1>4, <1>5

\* What the step that merges one component is made of.
LEMMA MergeStep ==
    ASSUME GraphInv, MergeNext, NEW ns, ns = Head(sccs), NEW c, c = Component(ns)
    PROVE  /\ stage = "merge" /\ stage' = "merge" /\ components' = components
           /\ sccs # <<>> /\ sccs' = Tail(sccs)
           /\ GraphParts /\ Nodes /\ Insides /\ Nested /\ Ahead /\ Closed(Current)
           /\ 1 \in DOMAIN sccs /\ ns = sccs[1] /\ ns \subseteq Current /\ Current \subseteq DOMAIN graph
           /\ c \notin DOMAIN pkgs /\ c \notin DOMAIN graph /\ IsComponent(c)
           /\ graph' = Merge(graph, c, ns) /\ DOMAIN graph' = DOMAIN graph \union {c}
           /\ DOMAIN pkgs' = DOMAIN pkgs \union {c} /\ pkgs'[c] = ns
           /\ components # <<>> => pkgs'[Head(components)] = (Current \ ns) \union {c}
           /\ Alive' = Alive \union {c} /\ Whole' = Whole \union {c} /\ Alive \subseteq DOMAIN pkgs
<1>1. /\ stage = "merge" /\ stage' = "merge" /\ sccs # <<>> /\ sccs' = Tail(sccs)
      /\ components' = components
  BY DEF MergeNext
<1>2. GraphParts /\ Nodes /\ Insides /\ Nested /\ Ahead
  BY <1>1 DEF GraphInv, GraphParts, Ordering
<1>3. /\ graph' = Merge(graph, c, ns)
      /\ pkgs' = [x \in DOMAIN pkgs \union {c} |->
                    IF x = c THEN ns
                    ELSE IF components # <<>> /\ x = Head(components) THEN (pkgs[x] \ ns) \union {c}
                    ELSE pkgs[x]]
  BY DEF MergeNext
<1>4. sccs \in Seq(SUBSET Current)
  BY <1>1, <1>2 DEF Ahead
<1>5. 1 \in DOMAIN sccs /\ ns = sccs[1] /\ ns \subseteq Current
  BY <1>1, <1>4
<1>6. /\ Closed(Current) /\ Current \subseteq DOMAIN graph
      /\ components # <<>> => Head(components) \in Alive /\ Current = pkgs[Head(components)]
  BY <1>2, CurrentIs DEF Closed
<1>7. c \notin DOMAIN pkgs /\ c \notin DOMAIN graph /\ IsComponent(c)
  BY <1>2, NewNode
<1>8. DOMAIN graph' = DOMAIN graph \union {c}
  BY <1>3, MergeNodes
<1>9. /\ DOMAIN pkgs' = DOMAIN pkgs \union {c} /\ pkgs'[c] = ns
      /\ components # <<>> => pkgs'[Head(components)] = (Current \ ns) \union {c}
  <2>1. components # <<>> => Head(components) \in DOMAIN pkgs /\ Head(components) # c
    BY <1>2, <1>6, <1>7 DEF Nodes
  <2> QED
    BY <1>3, <1>6, <1>7, <2>1
<1>10. Alive' = Alive \union {c} /\ Whole' = Whole \union {c} /\ Alive \subseteq DOMAIN pkgs
  <2>1. Alive' = Alive \union {c} /\ Alive \subseteq DOMAIN pkgs
    BY <1>2, <1>7, <1>8 DEF Alive, Nodes
  <2>2. c \notin ToSet(components)
    <3>1. ToSet(components) \subseteq Alive
      BY <1>2 DEF Nested, ToSet
    <3> QED
      BY <1>7, <3>1 DEF Alive
  <2> QED
    BY <1>1, <2>1, <2>2 DEF Whole
<1> QED
  BY <1>1, <1>2, <1>3, <1>5, <1>6, <1>7, <1>8, <1>9, <1>10

\* What each node requires once a component is merged.
LEMMA MergePre ==
    ASSUME GraphInv, MergeNext, NEW ns, ns = Head(sccs), NEW c, c = Component(ns), NEW n \in DOMAIN graph
    PROVE  /\ Pre(graph', c) = Outside(graph, ns)
           /\ n \in ns => Pre(graph', n) = Pre(graph, n) \intersect ns
           /\ n \notin ns /\ Pre(graph, n) \intersect ns = {} => Pre(graph', n) = Pre(graph, n)
           /\ n \notin ns /\ Pre(graph, n) \intersect ns # {} =>
                 Pre(graph', n) = (Pre(graph, n) \ ns) \union {c}
           /\ Pre(graph, n) \subseteq DOMAIN graph
<1>1. /\ ns \subseteq DOMAIN graph /\ c \notin DOMAIN graph /\ graph' = Merge(graph, c, ns)
      /\ Nodes
  BY MergeStep
<1>2. Pre(graph', c) = Outside(graph, ns)
  BY <1>1, MergeNew
<1>3. CASE n \in ns
  BY <1>1, <1>2, <1>3, MergeInside DEF Nodes
<1>4. CASE n \notin ns
  BY <1>1, <1>2, <1>4, MergeFar, MergeNear DEF Nodes
<1> QED
  BY <1>3, <1>4

\* Everything else is inside what has nothing to do with the new node.
LEMMA MergeOthers ==
    ASSUME GraphInv, MergeNext, NEW ns, ns = Head(sccs), NEW c, c = Component(ns),
           NEW x \in Alive, components = <<>> \/ x # Head(components)
    PROVE  /\ pkgs'[x] = pkgs[x] /\ pkgs[x] \intersect ns = {} /\ c \notin pkgs[x]
           /\ pkgs[x] \subseteq DOMAIN graph
           /\ \A n \in pkgs[x] : Pre(graph', n) = Pre(graph, n) /\ Pre(graph, n) \subseteq pkgs[x]
<1>1. /\ GraphParts /\ Nodes /\ Insides /\ Ahead /\ stage = "merge"
      /\ 1 \in DOMAIN sccs /\ ns = sccs[1] /\ ns \subseteq Current
      /\ c \notin DOMAIN pkgs /\ c \notin DOMAIN graph
  BY MergeStep
<1>2. x \in DOMAIN pkgs /\ pkgs'[x] = pkgs[x]
  <2>1. x \in DOMAIN pkgs /\ x # c
    BY <1>1 DEF Nodes
  <2>2. pkgs' = [y \in DOMAIN pkgs \union {c} |->
                    IF y = c THEN ns
                    ELSE IF components # <<>> /\ y = Head(components) THEN (pkgs[y] \ ns) \union {c}
                    ELSE pkgs[y]]
    BY DEF MergeNext
  <2> QED
    BY <2>1, <2>2
<1>3. pkgs[x] \intersect ns = {}
  <2>1. CASE components = <<>>
    <3>1. x \in Whole
      BY <2>1 DEF Whole, ToSet
    <3> QED
      BY <1>1, <3>1 DEF Ahead
  <2>2. CASE components # <<>>
    <3>1. Head(components) \in Alive /\ Current = pkgs[Head(components)]
      BY <1>1, <2>2, CurrentIs
    <3>2. pkgs[x] \intersect pkgs[Head(components)] = {}
      BY <1>1, <2>2, <3>1 DEF Insides
    <3> QED
      BY <1>1, <3>1, <3>2
  <2> QED
    BY <2>1, <2>2
<1>4. pkgs[x] \subseteq DOMAIN graph /\ \A n \in pkgs[x] : Pre(graph, n) \subseteq pkgs[x]
  BY <1>1 DEF Insides, Closed
<1>5. ASSUME NEW n \in pkgs[x] PROVE Pre(graph', n) = Pre(graph, n)
  <2>1. n \notin ns /\ Pre(graph, n) \intersect ns = {} /\ n \in DOMAIN graph
    BY <1>3, <1>4
  <2> QED
    BY <2>1, MergePre
<1> QED
  BY <1>1, <1>2, <1>3, <1>4, <1>5

\* One component becomes a node.
LEMMA MergeKeeps ==
    ASSUME GraphInv, MergeNext
    PROVE  GraphInv'
<1> DEFINE ns == Head(sccs)
           c == Component(ns)
<1>1. ns = Head(sccs) /\ c = Component(ns)
  OBVIOUS
<1> HIDE DEF ns, c
<1>2. /\ stage = "merge" /\ stage' = "merge" /\ components' = components
      /\ sccs # <<>> /\ sccs' = Tail(sccs)
      /\ GraphParts /\ Nodes /\ Insides /\ Nested /\ Ahead
      /\ 1 \in DOMAIN sccs /\ ns = sccs[1] /\ ns \subseteq Current
  BY <1>1, MergeStep
<1>3. /\ c \notin DOMAIN pkgs /\ c \notin DOMAIN graph /\ IsComponent(c)
      /\ c.nr = Cardinality(DOMAIN pkgs) + 1
  BY <1>1, <1>2, NewNode
<1>4. /\ sccs \in Seq(SUBSET Current)
      /\ \A i, j \in DOMAIN sccs : i # j => sccs[i] \intersect sccs[j] = {}
      /\ \A i \in DOMAIN sccs : \A n \in sccs[i] :
            ~IsComponent(n) /\ Pre(graph, n) \intersect sccs[i] # {}
      /\ \A i \in DOMAIN sccs : \A x \in Whole : pkgs[x] \intersect sccs[i] = {}
  BY <1>2 DEF Ahead
<1>5. /\ sccs' \in Seq(SUBSET Current)
      /\ \A i \in DOMAIN sccs' : i \in Nat \ {0} /\ i + 1 \in DOMAIN sccs /\ sccs'[i] = sccs[i + 1]
  BY <1>2, <1>4
<1>6. /\ Closed(Current) /\ Current \subseteq DOMAIN graph
      /\ components = <<>> => Current = DOMAIN graph
      /\ components # <<>> =>
            /\ Head(components) \in Alive /\ Current = pkgs[Head(components)]
            /\ 1 \in DOMAIN components /\ Head(components) = components[1]
            /\ Head(components) \notin Whole
  BY <1>2, CurrentIs DEF Closed
<1>7. ns \subseteq DOMAIN graph /\ \A n \in ns : Pre(graph, n) \subseteq DOMAIN graph
  BY <1>2, <1>6 DEF Nodes
<1>8. /\ DOMAIN graph' = DOMAIN graph \union {c}
      /\ \A x : x \in Pre(graph', c) <=> (x \notin ns /\ \E n \in ns : x \in Pre(graph, n))
      /\ \A n \in ns : Pre(graph', n) = Pre(graph, n) \intersect ns
      /\ \A n \in DOMAIN graph \ ns :
            Pre(graph', n) = IF Pre(graph, n) \intersect ns = {} THEN Pre(graph, n)
                             ELSE (Pre(graph, n) \ ns) \union {c}
  <2>1. DOMAIN graph' = DOMAIN graph \union {c}
    BY <1>1, MergeStep
  <2>2. ASSUME NEW x PROVE x \in Pre(graph', c) <=> (x \notin ns /\ \E n \in ns : x \in Pre(graph, n))
    <3>1. ns \subseteq DOMAIN graph /\ c \notin DOMAIN graph /\ graph' = Merge(graph, c, ns)
      BY <1>1, <1>3, <1>7, MergeStep
    <3>2. Pre(graph', c) = Outside(graph, ns)
      BY <3>1, MergeNew
    <3> QED
      BY <3>2, OutsideIs
  <2>3. \A n \in DOMAIN graph :
           /\ n \in ns => Pre(graph', n) = Pre(graph, n) \intersect ns
           /\ n \notin ns /\ Pre(graph, n) \intersect ns = {} => Pre(graph', n) = Pre(graph, n)
           /\ n \notin ns /\ Pre(graph, n) \intersect ns # {} =>
                 Pre(graph', n) = (Pre(graph, n) \ ns) \union {c}
    BY <1>1, MergePre
  <2> QED
    BY <1>7, <2>1, <2>2, <2>3
<1>9. /\ DOMAIN pkgs' = DOMAIN pkgs \union {c} /\ pkgs'[c] = ns
      /\ components # <<>> => pkgs'[Head(components)] = (Current \ ns) \union {c}
      /\ Alive' = Alive \union {c} /\ Whole' = Whole \union {c} /\ Alive \subseteq DOMAIN pkgs
  BY <1>1, MergeStep
<1>10. Nodes'
  <2>1. IsFiniteSet(DOMAIN graph') /\ IsFiniteSet(DOMAIN pkgs')
    BY <1>2, <1>8, <1>9, FS_AddElement DEF Nodes
  <2>2. Cardinality(DOMAIN pkgs') = Cardinality(DOMAIN pkgs) + 1 /\ Cardinality(DOMAIN pkgs) \in Nat
    BY <1>2, <1>3, <1>9, FS_AddElement, FS_CardinalityType DEF Nodes
  <2>3. ASSUME NEW n \in DOMAIN graph' PROVE n.nr \in Nat /\ Pre(graph', n) \subseteq DOMAIN graph'
    <3>1. CASE n = c
      BY <1>3, <1>7, <1>8, <2>2, <3>1
    <3>2. CASE n \in ns
      BY <1>2, <1>7, <1>8, <3>2 DEF Nodes
    <3>3. CASE n \in DOMAIN graph \ ns
      BY <1>2, <1>8, <3>3 DEF Nodes
    <3> QED
      BY <1>8, <3>1, <3>2, <3>3
  <2>4. Alive' \subseteq DOMAIN pkgs'
    BY <1>9
  <2>5. ASSUME NEW x \in DOMAIN pkgs' PROVE x.nr \in Nat /\ x.nr <= Cardinality(DOMAIN pkgs')
    <3>1. CASE x = c
      BY <1>3, <2>2, <3>1
    <3>2. CASE x \in DOMAIN pkgs
      <4>1. x.nr \in Nat /\ x.nr <= Cardinality(DOMAIN pkgs)
        BY <1>2, <3>2 DEF Nodes
      <4> QED
        BY <2>2, <4>1
    <3> QED
      BY <1>9, <3>1, <3>2
  <2> QED
    BY <2>1, <2>3, <2>4, <2>5 DEF Nodes
<1>11. ASSUME NEW x \in Alive, components = <<>> \/ x # Head(components)
       PROVE  /\ pkgs'[x] = pkgs[x] /\ pkgs[x] \intersect ns = {} /\ c \notin pkgs[x]
              /\ pkgs[x] \subseteq DOMAIN graph
              /\ \A n \in pkgs[x] : Pre(graph', n) = Pre(graph, n) /\ Pre(graph, n) \subseteq pkgs[x]
  BY <1>1, <1>11, MergeOthers
<1>12. ASSUME NEW x \in Alive' PROVE Closed(pkgs[x])'
  <2>1. CASE x = c
    BY <1>7, <1>8, <1>9, <2>1 DEF Closed
  <2>2. CASE x \in Alive /\ (components = <<>> \/ x # Head(components))
    BY <1>8, <1>11, <2>2 DEF Closed
  <2>3. CASE components # <<>> /\ x = Head(components)
    <3>1. pkgs'[x] = (Current \ ns) \union {c}
      BY <1>9, <2>3
    <3>2. pkgs'[x] \subseteq DOMAIN graph'
      BY <1>6, <1>8, <3>1
    <3>3. \A n \in Current : Pre(graph, n) \subseteq Current
      BY <1>6 DEF Closed
    <3>4. Pre(graph', c) \subseteq pkgs'[x]
      BY <1>2, <1>5, <1>8, <3>1, <3>3
    <3>5. \A n \in Current \ ns : Pre(graph', n) \subseteq pkgs'[x]
      BY <1>6, <1>8, <3>1, <3>3
    <3> QED
      BY <3>1, <3>2, <3>4, <3>5 DEF Closed
  <2> QED
    BY <1>9, <2>1, <2>2, <2>3
<1>13. ASSUME NEW x \in Alive', NEW y \in Alive', x # y PROVE pkgs'[x] \intersect pkgs'[y] = {}
  <2>1. ASSUME NEW u \in Alive', NEW v \in Alive', u # v, v # c, components = <<>> \/ v # Head(components)
        PROVE  pkgs'[u] \intersect pkgs'[v] = {}
    <3>1. v \in Alive /\ pkgs'[v] = pkgs[v] /\ pkgs[v] \intersect ns = {} /\ c \notin pkgs[v]
      BY <1>9, <1>11, <2>1
    <3>2. CASE u = c
      BY <1>9, <3>1, <3>2
    <3>3. CASE u \in Alive /\ (components = <<>> \/ u # Head(components))
      <4>1. pkgs'[u] = pkgs[u]
        BY <1>11, <3>3
      <4> QED
        BY <1>2, <2>1, <3>1, <3>3, <4>1 DEF Insides
    <3>4. CASE components # <<>> /\ u = Head(components)
      <4>1. pkgs'[u] = (pkgs[u] \ ns) \union {c} /\ u \in Alive
        BY <1>6, <1>9, <3>4
      <4>2. pkgs[u] \intersect pkgs[v] = {}
        BY <1>2, <2>1, <3>1, <4>1 DEF Insides
      <4> QED
        BY <3>1, <4>1, <4>2
    <3> QED
      BY <1>9, <2>1, <3>2, <3>3, <3>4
  <2>2. CASE x # c /\ (components = <<>> \/ x # Head(components))
    BY <1>13, <2>1, <2>2
  <2>3. CASE y # c /\ (components = <<>> \/ y # Head(components))
    BY <1>13, <2>1, <2>3
  <2>4. CASE components # <<>> /\ x = Head(components) /\ y = c
    BY <1>3, <1>6, <1>7, <1>9, <2>4
  <2>5. CASE components # <<>> /\ y = Head(components) /\ x = c
    BY <1>3, <1>6, <1>7, <1>9, <2>5
  <2> QED
    BY <1>13, <2>2, <2>3, <2>4, <2>5
<1>14. ASSUME NEW x \in Whole', NEW n \in pkgs'[x] PROVE ~IsComponent(n) /\ Pre(graph', n) # {}
  <2>1. CASE x = c
    <3>1. n \in ns
      BY <1>9, <2>1
    <3>2. ~IsComponent(n) /\ Pre(graph, n) \intersect ns # {}
      BY <1>2, <1>4, <1>5, <3>1
    <3> QED
      BY <1>8, <3>1, <3>2
  <2>2. CASE x \in Whole
    <3>1. x \in Alive /\ (components = <<>> \/ x # Head(components))
      BY <1>6, <2>2 DEF Whole
    <3>2. pkgs'[x] = pkgs[x] /\ n \in pkgs[x] /\ Pre(graph', n) = Pre(graph, n)
      BY <1>11, <3>1
    <3> QED
      BY <1>2, <2>2, <3>2 DEF Insides
  <2> QED
    BY <1>9, <2>1, <2>2
<1>15. Insides'
  BY <1>12, <1>13, <1>14 DEF Insides
<1>16. Nested'
  <2>1. components' \in Seq(Alive')
    BY <1>2, <1>9 DEF Nested
  <2>2. IsInjective(components')
    BY <1>2 DEF Nested
  <2>3. ASSUME NEW i \in DOMAIN components, NEW j \in DOMAIN components, j = i + 1
        PROVE  components[i] \in pkgs'[components[j]]
    <3>1. components[i] \in pkgs[components[j]] /\ components \in Seq(Alive)
      BY <1>2, <2>3 DEF Nested
    <3>2. components[j] \in Alive /\ components # <<>> /\ j # 1
      BY <2>3, <3>1
    <3>3. components[j] # Head(components)
      BY <1>2, <1>6, <2>3, <3>2 DEF Nested, IsInjective
    <3> QED
      BY <1>11, <3>1, <3>2, <3>3
  <2>4. ASSUME components # <<>>, NEW x \in Alive' PROVE Last(components) \notin pkgs'[x]
    <3>1. components \in Seq(Alive) /\ Len(components) \in DOMAIN components
      BY <1>2, <2>4 DEF Nested
    <3>2. Last(components) \in Alive
      BY <3>1 DEF Last
    <3>3. \A y \in Alive : Last(components) \notin pkgs[y]
      BY <1>2, <2>4 DEF Nested
    <3>4. CASE x = c
      BY <1>2, <1>4, <1>5, <1>9, <3>2, <3>4 DEF Alive
    <3>5. CASE x = Head(components)
      BY <1>3, <1>6, <1>9, <2>4, <3>2, <3>3, <3>5 DEF Alive
    <3>6. CASE x \in Alive /\ x # Head(components)
      BY <1>11, <3>3, <3>6
    <3> QED
      BY <1>9, <3>4, <3>5, <3>6
  <2> QED
    BY <1>2, <2>1, <2>2, <2>3, <2>4 DEF Nested
<1>17. Ahead'
  <2>1. Current' = IF components = <<>> THEN DOMAIN graph \union {c} ELSE (Current \ ns) \union {c}
    BY <1>2, <1>8, <1>9 DEF Current
  <2>2. ASSUME NEW i \in DOMAIN sccs'
        PROVE  /\ i + 1 \in DOMAIN sccs /\ sccs'[i] = sccs[i + 1] /\ sccs'[i] \intersect ns = {}
               /\ sccs'[i] \subseteq Current'
    <3>1. i + 1 \in DOMAIN sccs /\ sccs'[i] = sccs[i + 1] /\ i + 1 # 1
      BY <1>2, <1>5
    <3>2. sccs'[i] \intersect ns = {}
      BY <1>2, <1>4, <1>5, <3>1
    <3>3. sccs[i + 1] \subseteq Current
      BY <1>4, <3>1
    <3> QED
      BY <1>6, <2>1, <3>1, <3>2, <3>3
  <2>3. sccs' \in Seq(SUBSET Current')
    <3>1. Len(sccs') \in Nat /\ sccs' = [i \in 1 .. Len(sccs') |-> sccs'[i]] /\ DOMAIN sccs' = 1 .. Len(sccs')
      BY <1>5
    <3>2. \A i \in 1 .. Len(sccs') : sccs'[i] \in SUBSET Current'
      BY <2>2, <3>1
    <3> QED
      BY <3>1, <3>2
  <2>4. ASSUME NEW i \in DOMAIN sccs', NEW j \in DOMAIN sccs', i # j
        PROVE  sccs'[i] \intersect sccs'[j] = {}
    <3>1. i + 1 # j + 1
      BY <1>2, <1>5, <2>4
    <3> QED
      BY <1>4, <2>2, <3>1
  <2>5. ASSUME NEW i \in DOMAIN sccs', NEW n \in sccs'[i]
        PROVE  ~IsComponent(n) /\ Pre(graph', n) \intersect sccs'[i] # {}
    <3>1. ~IsComponent(n) /\ Pre(graph, n) \intersect sccs'[i] # {}
      BY <1>4, <2>2
    <3>2. n \in DOMAIN graph \ ns
      BY <1>4, <1>6, <2>2
    <3> QED
      BY <1>8, <2>2, <3>1, <3>2
  <2>6. ASSUME NEW i \in DOMAIN sccs', NEW x \in Whole'
        PROVE  pkgs'[x] \intersect sccs'[i] = {}
    <3>1. CASE x = c
      BY <1>9, <2>2, <3>1
    <3>2. CASE x \in Whole
      <4>1. x \in Alive /\ (components = <<>> \/ x # Head(components))
        BY <1>6, <3>2 DEF Whole
      <4> QED
        BY <1>4, <1>11, <2>2, <3>2, <4>1
    <3> QED
      BY <1>9, <3>1, <3>2
  <2> QED
    BY <1>2, <2>3, <2>4, <2>5, <2>6 DEF Ahead
<1> QED
  BY <1>2, <1>10, <1>15, <1>16, <1>17 DEF GraphInv

\* The search leaves the graph alone.
LEMMA SearchingKeeps ==
    ASSUME GraphInv, Detect \/ Root \/ Arc \/ Up \/ AllMerged \/ AllCollected
    PROVE  GraphInv'
<1>1. UNCHANGED <<graph, components, pkgs>>
  BY DEF Detect, Root, Arc, Up, AllMerged, AllCollected
<1>2. GraphParts /\ Ahead
  BY DEF GraphInv, GraphParts, Ordering, Detect, Root, Arc, Up, AllMerged, AllCollected
<1>3. GraphParts' /\ Current' = Current
  BY <1>1, <1>2, SameParts
<1>4. CASE Detect \/ Root \/ Arc \/ Up
  <2>1. stage' = "scan" /\ stage \in {"detect", "scan"}
    BY <1>4 DEF Detect, Root, Arc, Up
  <2>2. Ahead'
    BY <1>2, <1>3, <2>1 DEF Ahead
  <2> QED
    BY <1>3, <2>1, <2>2 DEF GraphInv, GraphParts
<1>5. CASE AllMerged
  <2>1. stage' = "collect"
    BY <1>5 DEF AllMerged
  <2> QED
    BY <1>3, <2>1 DEF GraphInv, GraphParts, Ahead
<1>6. CASE AllCollected
  <2>1. stage' = "ordered" /\ components' = <<>>
    BY <1>6 DEF AllCollected
  <2> QED
    BY <2>1 DEF GraphInv, Ordering
<1> QED
  BY <1>4, <1>5, <1>6

\* A node goes, and with it its place in the component it is in.
LEMMA NodeGoes ==
    ASSUME Nodes, Insides, NEW n \in DOMAIN graph, graph' = RemoveNode(graph, n),
           DOMAIN pkgs' = DOMAIN pkgs,
           \A c \in Alive \ {n} : pkgs'[c] = pkgs[c] \ {n},
           \A c \in Whole : n \notin pkgs[c],
           Alive' = Alive \ {n} => Whole' \subseteq Whole
    PROVE  Nodes' /\ Insides' /\ Alive' = Alive \ {n}
<1>1. /\ DOMAIN graph' = DOMAIN graph \ {n}
      /\ \A m \in DOMAIN graph' : Pre(graph', m) = Pre(graph, m) \ {n}
  <2>1. DOMAIN graph' = DOMAIN graph \ {n}
    BY NodesLeft
  <2> QED
    BY <2>1, RemoveNodeIs
<1>2. Alive' = Alive \ {n}
  BY <1>1 DEF Alive
<1>3. Nodes'
  <2>1. IsFiniteSet(DOMAIN graph')
    BY <1>1, FS_Subset DEF Nodes
  <2>2. \A m \in DOMAIN graph' : m.nr \in Nat /\ Pre(graph', m) \subseteq DOMAIN graph'
    BY <1>1 DEF Nodes
  <2> QED
    BY <1>2, <2>1, <2>2 DEF Nodes
<1>4. ASSUME NEW c \in Alive' PROVE Closed(pkgs[c])'
  <2>1. /\ pkgs'[c] = pkgs[c] \ {n}
        /\ pkgs[c] \subseteq DOMAIN graph
        /\ \A m \in pkgs[c] : Pre(graph, m) \subseteq pkgs[c]
    BY <1>2 DEF Insides, Closed
  <2> QED
    BY <1>1, <2>1 DEF Closed
<1>5. \A c1, c2 \in Alive' : c1 # c2 => pkgs'[c1] \intersect pkgs'[c2] = {}
  BY <1>2 DEF Insides
<1>6. ASSUME NEW c \in Whole', NEW m \in pkgs'[c] PROVE ~IsComponent(m) /\ Pre(graph', m) # {}
  <2>1. c \in Whole /\ c \in Alive \ {n}
    BY <1>2 DEF Whole
  <2>2. m \in pkgs[c] /\ m # n /\ n \notin pkgs[c]
    BY <2>1
  <2>3. pkgs[c] \subseteq DOMAIN graph /\ Pre(graph, m) \subseteq pkgs[c] /\ Pre(graph, m) # {} /\ ~IsComponent(m)
    BY <2>1, <2>2 DEF Insides, Closed
  <2> QED
    BY <1>1, <2>2, <2>3
<1> QED
  BY <1>2, <1>3, <1>4, <1>5, <1>6 DEF Insides

\* A package goes that required nothing any more.
LEMMA PackageGoes ==
    ASSUME GraphParts, NEW n \in Current, ~IsComponent(n), Pre(graph, n) = {}, Collected(n),
           components' = components
    PROVE  /\ DOMAIN pkgs' = DOMAIN pkgs /\ (\A c \in Alive : pkgs'[c] = pkgs[c] \ {n})
           /\ \A c \in Whole : n \notin pkgs[c]
           /\ Nodes' /\ Insides' /\ Alive' = Alive /\ Whole' = Whole /\ n \notin Alive /\ n \in DOMAIN graph
<1>1. n \in DOMAIN graph
  BY CurrentIs DEF Closed
<1>2. /\ graph' = RemoveNode(graph, n)
      /\ pkgs' = IF components = <<>> THEN pkgs
                 ELSE [pkgs EXCEPT ![Head(components)] = @ \ {n}]
  BY DEF Collected
<1>3. DOMAIN pkgs' = DOMAIN pkgs
  BY <1>2
<1>4. \A c \in Whole : n \notin pkgs[c]
  BY DEF GraphParts, Insides
<1>5. ASSUME NEW c \in Alive PROVE pkgs'[c] = pkgs[c] \ {n}
  <2>1. c \in DOMAIN pkgs
    BY DEF GraphParts, Nodes
  <2>2. CASE components = <<>>
    <3>1. c \in Whole
      BY <2>2 DEF Whole, ToSet
    <3> QED
      BY <1>2, <1>4, <2>2, <3>1
  <2>3. CASE components # <<>> /\ c = Head(components)
    BY <1>2, <2>1, <2>3
  <2>4. CASE components # <<>> /\ c # Head(components)
    <3>1. pkgs'[c] = pkgs[c]
      BY <1>2, <2>1, <2>4
    <3>2. pkgs[c] \intersect pkgs[Head(components)] = {} /\ n \in pkgs[Head(components)]
      BY <2>4, CurrentIs DEF GraphParts, Insides
    <3> QED
      BY <3>1, <3>2
  <2> QED
    BY <2>2, <2>3, <2>4
<1>6. n \notin Alive
  BY DEF Alive
<1>7. Alive' = Alive \ {n} => Whole' \subseteq Whole
  BY DEF Whole
<1>8. Nodes' /\ Insides' /\ Alive' = Alive
  <2>1. graph' = RemoveNode(graph, n) /\ Nodes /\ Insides
    BY <1>2 DEF GraphParts
  <2>2. \A c \in Alive \ {n} : pkgs'[c] = pkgs[c] \ {n}
    BY <1>5
  <2>3. Nodes' /\ Insides' /\ Alive' = Alive \ {n}
    BY <1>1, <1>3, <1>4, <1>7, <2>1, <2>2, NodeGoes
  <2> QED
    BY <1>6, <2>3
<1> QED
  BY <1>1, <1>3, <1>4, <1>5, <1>6, <1>8 DEF Whole

\* A component that is in the one that is broken up is not broken up yet.
LEMMA InnerIsWhole ==
    ASSUME GraphParts, NEW n \in Current, IsComponent(n)
    PROVE  n \in Whole
<1>1. n \in Alive
  BY CurrentIs DEF Alive, Closed
<1>2. CASE components = <<>>
  BY <1>1, <1>2 DEF Whole, ToSet
<1>3. CASE components # <<>>
  <2>1. /\ components \in Seq(Alive) /\ n \in pkgs[components[1]] /\ components[1] \in Alive
        /\ 1 \in DOMAIN components
    BY <1>3, CurrentIs DEF GraphParts, Nested
  <2>2. ASSUME NEW i \in DOMAIN components, components[i] = n PROVE FALSE
    <3>1. CASE i = Len(components)
      <4>1. Last(components) = n
        BY <2>2, <3>1 DEF Last
      <4> QED
        BY <1>3, <2>1, <4>1 DEF GraphParts, Nested
    <3>2. CASE i # Len(components)
      <4>1. i + 1 \in DOMAIN components /\ i + 1 # 1 /\ components[i + 1] \in Alive
        BY <2>1, <3>2
      <4>2. n \in pkgs[components[i + 1]]
        BY <2>2, <4>1 DEF GraphParts, Nested
      <4>3. components[i + 1] # components[1]
        BY <2>1, <4>1 DEF GraphParts, Nested, IsInjective
      <4> QED
        BY <2>1, <4>1, <4>2, <4>3 DEF GraphParts, Insides
    <3> QED
      BY <3>1, <3>2
  <2>3. n \notin ToSet(components)
    BY <2>2 DEF ToSet
  <2> QED
    BY <1>1, <2>3 DEF Whole
<1> QED
  BY <1>2, <1>3

\* A leaf is a package that goes, or a component that is broken up next.
LEMMA CollectKeeps ==
    ASSUME GraphInv, Collect
    PROVE  GraphInv'
<1>1. stage = "collect" /\ GraphParts
  BY DEF Collect, GraphInv, GraphParts, Ordering
<1>2. PICK n \in NextLeaves :
          IF IsComponent(n)
          THEN /\ components' = <<n>> \o components
               /\ stage' = "break"
               /\ UNCHANGED <<graph, order, pkgs>>
          ELSE /\ order' = order \o SetToSeq(n.of)
               /\ Collected(n)
               /\ UNCHANGED <<components, stage>>
  BY DEF Collect
<1>3. n \in Current /\ Pre(graph, n) = {} /\ n \in DOMAIN graph
  BY <1>1, <1>2, CurrentIs DEF NextLeaves, Leaves, Closed
<1>4. CASE IsComponent(n)
  <2>1. components' = <<n>> \o components /\ stage' = "break" /\ UNCHANGED <<graph, pkgs>>
    BY <1>2, <1>4
  <2>2. n \in Whole /\ n \in Alive /\ n \notin ToSet(components)
    BY <1>1, <1>3, <1>4, InnerIsWhole DEF Whole
  <2>3. /\ components \in Seq(Alive) /\ IsInjective(components)
        /\ \A i, j \in DOMAIN components : j = i + 1 => components[i] \in pkgs[components[j]]
        /\ components # <<>> => \A c \in Alive : Last(components) \notin pkgs[c]
    BY <1>1 DEF GraphParts, Nested
  <2>4. /\ components' \in Seq(Alive) /\ Len(components') = Len(components) + 1 /\ components'[1] = n
        /\ \A i \in DOMAIN components : components'[i + 1] = components[i]
        /\ \A i \in DOMAIN components' \ {1} : i - 1 \in DOMAIN components /\ components'[i] = components[i - 1]
    BY <2>1, <2>2, <2>3, PushIs
  <2>5. Alive' = Alive /\ Whole' \subseteq Whole
    <3>1. ASSUME NEW i \in DOMAIN components PROVE components[i] \in ToSet(components')
      <4>1. i + 1 \in DOMAIN components' /\ components'[i + 1] = components[i]
        BY <2>3, <2>4
      <4> QED
        BY <4>1 DEF ToSet
    <3>2. ToSet(components) \subseteq ToSet(components')
      BY <3>1 DEF ToSet
    <3> QED
      BY <2>1, <3>2 DEF Alive, Whole
  <2>6. Nodes' /\ Insides'
    BY <1>1, <2>1, <2>5 DEF GraphParts, Nodes, Insides, Closed, Pre
  <2>7. IsInjective(components')
    <3>1. ASSUME NEW i \in DOMAIN components', NEW j \in DOMAIN components',
                 components'[i] = components'[j]
          PROVE  i = j
      <4>1. \A k \in DOMAIN components' \ {1} : components'[k] # n
        BY <2>2, <2>4 DEF ToSet
      <4>2. CASE i = 1 \/ j = 1
        BY <2>4, <3>1, <4>1, <4>2
      <4>3. CASE i # 1 /\ j # 1
        <5>1. i - 1 = j - 1
          BY <2>3, <2>4, <3>1, <4>3 DEF IsInjective
        <5> QED
          BY <2>4, <5>1
      <4> QED
        BY <4>2, <4>3
    <3> QED
      BY <3>1 DEF IsInjective
  <2>8. ASSUME NEW i \in DOMAIN components', NEW j \in DOMAIN components', j = i + 1
        PROVE  components'[i] \in pkgs[components'[j]]
    <3>1. CASE i = 1
      <4>1. components'[j] = components[1] /\ components # <<>>
        BY <2>4, <2>8, <3>1
      <4>2. Current = pkgs[components[1]]
        BY <1>1, <4>1, CurrentIs
      <4> QED
        BY <1>3, <2>4, <3>1, <4>1, <4>2
    <3>2. CASE i # 1
      <4>1. /\ i - 1 \in DOMAIN components /\ j - 1 \in DOMAIN components /\ j - 1 = (i - 1) + 1
            /\ components'[i] = components[i - 1] /\ components'[j] = components[j - 1]
        BY <2>4, <2>8, <3>2
      <4> QED
        BY <2>3, <4>1
    <3> QED
      BY <3>1, <3>2
  <2>9. ASSUME NEW c \in Alive PROVE Last(components') \notin pkgs[c]
    <3>1. CASE components = <<>>
      <4>1. Last(components') = n
        BY <2>4, <3>1 DEF Last
      <4>2. c \in Whole
        BY <3>1 DEF Whole, ToSet
      <4> QED
        BY <1>1, <1>4, <4>1, <4>2 DEF GraphParts, Insides
    <3>2. CASE components # <<>>
      <4>1. Len(components) \in DOMAIN components
        BY <2>3, <3>2
      <4>2. Last(components') = Last(components)
        BY <2>4, <4>1 DEF Last
      <4> QED
        BY <2>3, <3>2, <4>2
    <3> QED
      BY <3>1, <3>2
  <2>10. Nested'
    BY <2>1, <2>4, <2>5, <2>7, <2>8, <2>9 DEF Nested
  <2>11. Ahead'
    <3>1. components' # <<>> /\ Head(components') = n
      BY <2>4
    <3>2. Current' = pkgs[n]
      BY <2>1, <3>1 DEF Current
    <3>3. \A m \in pkgs[n] : ~IsComponent(m)
      BY <1>1, <2>2 DEF GraphParts, Insides
    <3> QED
      BY <2>1, <3>1, <3>2, <3>3 DEF Ahead
  <2> QED
    BY <2>1, <2>6, <2>10, <2>11 DEF GraphInv
<1>5. CASE ~IsComponent(n)
  <2>1. /\ graph' = RemoveNode(graph, n) /\ components' = components /\ stage' = "collect"
        /\ pkgs' = IF components = <<>> THEN pkgs
                   ELSE [pkgs EXCEPT ![Head(components)] = @ \ {n}]
    BY <1>1, <1>2, <1>5 DEF Collected
  <2>2. /\ \A c \in Alive : pkgs'[c] = pkgs[c] \ {n}
        /\ Nodes' /\ Insides' /\ Alive' = Alive /\ n \notin Alive
    BY <1>1, <1>2, <1>3, <1>5, PackageGoes
  <2>3. Nested'
    <3>1. components \in Seq(Alive)
      BY <1>1 DEF GraphParts, Nested
    <3>2. ASSUME NEW i \in DOMAIN components, NEW j \in DOMAIN components, j = i + 1
          PROVE  components[i] \in pkgs'[components[j]]
      <4>1. components[i] \in pkgs[components[j]] /\ components[i] \in Alive /\ components[j] \in Alive
        BY <1>1, <3>1, <3>2 DEF GraphParts, Nested
      <4> QED
        BY <2>2, <4>1
    <3>3. components # <<>> => \A c \in Alive : Last(components) \notin pkgs'[c]
      BY <1>1, <2>2 DEF GraphParts, Nested
    <3> QED
      BY <1>1, <2>1, <2>2, <3>2, <3>3 DEF GraphParts, Nested
  <2>4. Ahead'
    BY <2>1 DEF Ahead
  <2> QED
    BY <2>1, <2>2, <2>3, <2>4 DEF GraphInv
<1> QED
  BY <1>4, <1>5

\* A component that is broken up goes, from the one it was in too.
LEMMA ComponentGoes ==
    ASSUME GraphInv, BrokenUp, NEW n, n = Head(components)
    PROVE  /\ stage = "collect" /\ stage' = "collect" /\ GraphParts /\ components # <<>>
           /\ graph' = RemoveNode(graph, n)
           /\ 1 \in DOMAIN components /\ n = components[1] /\ n \in Alive /\ n \in DOMAIN graph
           /\ \A i \in DOMAIN components' :
                 i + 1 \in DOMAIN components \ {1} /\ components'[i] = components[i + 1]
           /\ components' \in Seq(Alive \ {n})
           /\ \A c \in Alive \ {n} : pkgs'[c] = pkgs[c] \ {n}
           /\ \A c \in Whole : n \notin pkgs[c]
           /\ Nodes' /\ Insides' /\ Alive' = Alive \ {n} /\ Whole' \subseteq Whole
<1> DEFINE outer == Tail(components)
<1>1. /\ stage = "collect" /\ stage' = "collect" /\ GraphParts /\ components # <<>>
      /\ components' = outer /\ graph' = RemoveNode(graph, n)
      /\ pkgs' = IF outer = <<>> THEN pkgs ELSE [pkgs EXCEPT ![components[2]] = @ \ {n}]
  BY DEF BrokenUp, GraphInv, GraphParts, Ordering
<1> HIDE DEF outer
<1>2. /\ components \in Seq(Alive) /\ IsInjective(components)
      /\ \A i, j \in DOMAIN components : j = i + 1 => components[i] \in pkgs[components[j]]
      /\ \A c \in Alive : Last(components) \notin pkgs[c]
  BY <1>1 DEF GraphParts, Nested
<1>3. /\ 1 \in DOMAIN components /\ n = components[1] /\ n \in Alive /\ n \in DOMAIN graph
      /\ outer \in Seq(Alive) /\ Len(outer) = Len(components) - 1
      /\ \A i \in DOMAIN components \ {1} : i - 1 \in DOMAIN outer /\ outer[i - 1] = components[i]
      /\ \A i \in DOMAIN outer : i + 1 \in DOMAIN components \ {1} /\ outer[i] = components[i + 1]
  <2>1. 1 \in DOMAIN components /\ n = components[1] /\ components[1] \in Alive
    BY <1>1, <1>2
  <2> QED
    BY <1>1, <1>2, <2>1, PopIs DEF Alive, outer
<1>4. \A i \in DOMAIN outer : outer[i] # n
  BY <1>2, <1>3 DEF IsInjective
<1>5. outer \in Seq(Alive \ {n})
  <2>1. outer = [i \in 1 .. Len(outer) |-> outer[i]] /\ DOMAIN outer = 1 .. Len(outer) /\ Len(outer) \in Nat
    BY <1>3
  <2>2. \A i \in 1 .. Len(outer) : outer[i] \in Alive \ {n}
    BY <1>3, <1>4, <2>1
  <2> QED
    BY <2>1, <2>2
<1>6. DOMAIN pkgs' = DOMAIN pkgs
  BY <1>1
<1>7. \A c \in Whole : n \notin pkgs[c]
  BY <1>1, <1>3 DEF GraphParts, Insides, Alive
<1>8. ASSUME NEW c \in Alive \ {n} PROVE pkgs'[c] = pkgs[c] \ {n}
  <2>1. c \in DOMAIN pkgs
    BY <1>1 DEF GraphParts, Nodes
  <2>2. CASE outer = <<>>
    <3>1. Len(components) = 1
      <4>1. Len(outer) = 0
        BY <2>2
      <4> QED
        BY <1>2, <1>3, <4>1
    <3>2. Last(components) = n
      BY <1>3, <3>1 DEF Last
    <3> QED
      BY <1>1, <1>2, <2>2, <3>2
  <2>3. CASE outer # <<>>
    <3>1. 2 \in DOMAIN components /\ components[2] \in Alive /\ n \in pkgs[components[2]]
      <4>1. 1 \in DOMAIN outer
        BY <1>3, <2>3
      <4>2. 2 \in DOMAIN components /\ components[2] \in Alive
        BY <1>2, <1>3, <4>1
      <4>3. components[1] \in pkgs[components[2]]
        <5>1. ASSUME NEW j \in DOMAIN components, j = 1 + 1 PROVE components[1] \in pkgs[components[j]]
          BY <1>2, <1>3, <5>1
        <5> QED
          BY <4>2, <5>1
      <4> QED
        BY <1>3, <4>2, <4>3
    <3>2. CASE c = components[2]
      BY <1>1, <2>1, <2>3, <3>2
    <3>3. CASE c # components[2]
      <4>1. pkgs[c] \intersect pkgs[components[2]] = {}
        BY <1>1, <3>1, <3>3 DEF GraphParts, Insides
      <4> QED
        BY <1>1, <2>1, <2>3, <3>1, <3>3, <4>1
    <3> QED
      BY <3>2, <3>3
  <2> QED
    BY <2>2, <2>3
<1>9. Alive' = Alive \ {n} => Whole' \subseteq Whole
  <2>1. ASSUME NEW c \in ToSet(components), c # n PROVE c \in ToSet(outer)
    <3>1. PICK i \in DOMAIN components : c = components[i]
      BY <2>1 DEF ToSet
    <3>2. i - 1 \in DOMAIN outer /\ outer[i - 1] = c
      BY <1>3, <2>1, <3>1
    <3> QED
      BY <3>2 DEF ToSet
  <2> QED
    BY <1>1, <2>1 DEF Whole
<1>10. Nodes' /\ Insides' /\ Alive' = Alive \ {n}
  BY <1>1, <1>3, <1>6, <1>7, <1>8, <1>9, NodeGoes DEF GraphParts
<1> QED
  BY <1>1, <1>3, <1>5, <1>7, <1>8, <1>9, <1>10

\* A component that is broken up goes, from the one it was in too.
LEMMA BrokenUpKeeps ==
    ASSUME GraphInv, BrokenUp
    PROVE  GraphInv'
<1> DEFINE n == Head(components)
           outer == Tail(components)
<1>1. /\ stage' = "collect" /\ GraphParts /\ components # <<>> /\ components' = outer
      /\ components \in Seq(Alive) /\ IsInjective(components)
      /\ \A i, j \in DOMAIN components : j = i + 1 => components[i] \in pkgs[components[j]]
      /\ \A c \in Alive : Last(components) \notin pkgs[c]
  BY DEF BrokenUp, GraphInv, GraphParts, Ordering, Nested
<1>2. Len(outer) = Len(components) - 1
  BY <1>1
<1>3. n = Head(components) /\ outer = components'
  BY <1>1
<1> HIDE DEF n, outer
<1>4. /\ 1 \in DOMAIN components /\ n = components[1]
      /\ \A i \in DOMAIN outer : i + 1 \in DOMAIN components \ {1} /\ outer[i] = components[i + 1]
      /\ outer \in Seq(Alive \ {n})
      /\ \A c \in Alive \ {n} : pkgs'[c] = pkgs[c] \ {n}
      /\ Nodes' /\ Insides' /\ Alive' = Alive \ {n}
  BY <1>3, ComponentGoes
<1>5. \A i \in DOMAIN outer : outer[i] # n
  BY <1>4
<1>6. Nested'
  <2>1. IsInjective(outer)
    <3>1. ASSUME NEW i \in DOMAIN outer, NEW j \in DOMAIN outer, outer[i] = outer[j] PROVE i = j
      <4>1. i + 1 = j + 1
        BY <1>1, <1>2, <1>4, <3>1 DEF IsInjective
      <4> QED
        BY <1>2, <1>4, <4>1
    <3> QED
      BY <3>1 DEF IsInjective
  <2>2. ASSUME NEW i \in DOMAIN outer, NEW j \in DOMAIN outer, j = i + 1
        PROVE  outer[i] \in pkgs'[outer[j]]
    <3>1. components[i + 1] \in pkgs[components[j + 1]]
      BY <1>1, <1>2, <1>4, <2>2
    <3>2. outer[i] \in pkgs[outer[j]] /\ outer[i] # n /\ outer[j] \in Alive \ {n}
      BY <1>2, <1>4, <1>5, <3>1
    <3> QED
      BY <1>4, <3>2
  <2>3. ASSUME outer # <<>>, NEW c \in Alive \ {n} PROVE Last(outer) \notin pkgs'[c]
    <3>1. Last(outer) = Last(components)
      BY <1>1, <1>2, <1>4, <2>3 DEF Last
    <3> QED
      BY <1>1, <1>4, <3>1
  <2> QED
    BY <1>1, <1>4, <2>1, <2>2, <2>3 DEF Nested
<1>7. Ahead'
  BY <1>1 DEF Ahead
<1> QED
  BY <1>1, <1>4, <1>6, <1>7 DEF GraphInv

\* One round of the search for the nodes near a hard requirement.
Nearer(f, k) == IF k = 0 THEN HardTargets ELSE f[k-1] \union SoftTargets(f[k-1])

\* The distances are well defined.
LEMMA NearExists ==
    ASSUME NEW K \in Nat
    PROVE  \E f : f = [k \in 0 .. K |-> Nearer(f, k)]
<1> DEFINE Is(f, n) == f = [k \in 0 .. n |-> Nearer(f, k)]
           Not == {n \in Nat : ~\E f : Is(f, n)}
<1>1. ASSUME NEW n \in Not, \A m \in Not : n <= m PROVE FALSE
  <2>1. CASE n = 0
    <3> DEFINE f == [k \in 0 .. 0 |-> HardTargets]
    <3>1. \A k \in 0 .. 0 : Nearer(f, k) = HardTargets
      BY DEF Nearer
    <3>2. Is(f, 0)
      BY <3>1
    <3> QED
      BY <2>1, <3>2
  <2>2. CASE n # 0
    <3>1. n - 1 \in Nat /\ n - 1 \notin Not
      BY <1>1, <2>2
    <3>2. PICK g : Is(g, n - 1)
      BY <3>1
    <3> DEFINE f == [k \in 0 .. n |-> IF k = n THEN Nearer(g, n) ELSE g[k]]
    <3>3. \A k \in 0 .. n - 1 : g[k] = Nearer(g, k)
      BY <3>2
    <3>4. ASSUME NEW k \in 0 .. n PROVE Nearer(f, k) = Nearer(g, k)
      <4>1. k # 0 => f[k - 1] = g[k - 1]
         BY <3>1
      <4> HIDE DEF f
      <4> QED
        BY <4>1 DEF Nearer
    <3>5. \A k \in 0 .. n : f[k] = Nearer(g, k)
      BY <3>1, <3>3
    <3>6. Is(f, n)
      BY <3>4, <3>5
    <3> QED
      BY <3>6
  <2> QED
    BY <2>1, <2>2
<1>2. Not = {}
  BY <1>1, Least
<1> QED
  BY <1>2

LEMMA NearIs ==
    ASSUME IsFiniteSet(Current)
    PROVE  \A k \in 0 .. Cardinality(Current) : Near[k] = Nearer(Near, k)
<1> DEFINE N == Cardinality(Current)
<1>1. N \in Nat
  BY FS_CardinalityType
<1>2. \E f : f = [k \in 0 .. N |-> Nearer(f, k)]
  BY <1>1, NearExists
<1>3. Near = CHOOSE f : f = [k \in 0 .. N |-> Nearer(f, k)]
  BY DEF Near, Nearer
<1>4. Near = [k \in 0 .. N |-> Nearer(Near, k)]
  BY <1>2, <1>3, Zenon
<1> QED
  BY <1>4

\* In as many rounds as there are nodes the search for those near a hard requirement
\* has come to its end: each round before finds another one.
LEMMA NearEnds ==
    ASSUME Closed(Current), IsFiniteSet(Current), NEW N, N = Cardinality(Current)
    PROVE  /\ N \in Nat /\ HardTargets \subseteq Near[N] /\ Near[N] \subseteq Current
           /\ SoftTargets(Near[N]) \subseteq Near[N]
<1> DEFINE Good(k) ==
              /\ HardTargets \subseteq Near[k] /\ Near[k] \subseteq Current
              /\ SoftTargets(Near[k]) \subseteq Near[k] \/ Cardinality(Near[k]) >= k + 1
           Not == {k \in 0 .. N : ~Good(k)}
<1>1. N \in Nat
  BY FS_CardinalityType
<1>2. \A k \in 0 .. N : Near[k] = Nearer(Near, k)
  BY NearIs
<1>3. \A S \in SUBSET Current : SoftTargets(S) \subseteq Current /\ IsFiniteSet(S) /\ Cardinality(S) \in Nat
  <2>1. ASSUME NEW S \in SUBSET Current PROVE SoftTargets(S) \subseteq Current
    BY DEF SoftTargets, Closed
  <2>2. ASSUME NEW S \in SUBSET Current PROVE IsFiniteSet(S) /\ Cardinality(S) \in Nat
    BY FS_Subset, FS_CardinalityType
  <2> QED
    BY <2>1, <2>2
<1>4. ASSUME NEW k \in Not, \A m \in Not : k <= m PROVE FALSE
  <2>1. CASE k = 0
    <3>1. Near[k] = HardTargets
      BY <1>1, <1>2, <2>1 DEF Nearer
    <3>2. HardTargets \subseteq Current
      BY DEF HardTargets, Closed
    <3>3. CASE HardTargets = {}
      <4>1. SoftTargets(HardTargets) = {}
        BY <3>3 DEF SoftTargets
      <4> QED
        BY <1>4, <3>1, <3>2, <4>1
    <3>4. CASE HardTargets # {}
      <4>1. Cardinality(HardTargets) # 0 /\ Cardinality(HardTargets) \in Nat
        BY <1>3, <3>2, <3>4, FS_EmptySet
      <4> QED
        BY <1>4, <2>1, <3>1, <3>2, <4>1
    <3> QED
      BY <3>3, <3>4
  <2>2. CASE k # 0
    <3>1. k - 1 \in 0 .. N /\ k - 1 \notin Not
      BY <1>1, <1>4, <2>2
    <3>2. Good(k - 1)
      BY <3>1
    <3>3. Near[k] = Near[k - 1] \union SoftTargets(Near[k - 1])
      BY <1>2, <1>4, <2>2 DEF Nearer
    <3>4. HardTargets \subseteq Near[k] /\ Near[k] \subseteq Current
      BY <1>3, <3>2, <3>3
    <3>5. CASE SoftTargets(Near[k - 1]) \subseteq Near[k - 1]
      <4>1. Near[k] = Near[k - 1]
        BY <3>3, <3>5
      <4> QED
        BY <1>4, <3>4, <3>5, <4>1
    <3>6. CASE ~(SoftTargets(Near[k - 1]) \subseteq Near[k - 1])
      <4>1. Cardinality(Near[k - 1]) >= (k - 1) + 1
        BY <3>2, <3>6
      <4>2. Near[k - 1] \subseteq Near[k] /\ Near[k - 1] # Near[k]
        BY <3>3, <3>6
      <4>3. /\ IsFiniteSet(Near[k]) /\ Cardinality(Near[k]) \in Nat
            /\ IsFiniteSet(Near[k - 1]) /\ Cardinality(Near[k - 1]) \in Nat
        BY <1>3, <3>2, <3>4
      <4>4. Cardinality(Near[k - 1]) < Cardinality(Near[k])
        BY <4>2, <4>3, FS_Subset
      <4>5. Cardinality(Near[k]) >= k + 1
        BY <1>1, <4>1, <4>3, <4>4
      <4> QED
        BY <1>4, <3>4, <4>5
    <3> QED
      BY <3>5, <3>6
  <2> QED
    BY <2>1, <2>2
<1>5. Not = {}
  <2>1. Not \in SUBSET Nat
    BY <1>1
  <2> QED
    BY <1>4, <2>1, Least
<1>6. Good(N)
  BY <1>1, <1>5
<1>7. ~(Cardinality(Near[N]) >= N + 1)
  <2>1. Cardinality(Near[N]) <= Cardinality(Current)
    BY <1>6, FS_Subset
  <2>2. Cardinality(Near[N]) \in Nat
    BY <1>3, <1>6
  <2> QED
    BY <1>1, <2>1, <2>2
<1> QED
  BY <1>1, <1>6, <1>7

\* Only nodes that are ordered now are near.
LEMMA NearInside ==
    ASSUME Closed(Current), IsFiniteSet(Current)
    PROVE  DOMAIN Weights \subseteq Current
<1>1. Near[Cardinality(Current)] \subseteq Current
  BY NearEnds
<1> QED
  BY <1>1 DEF Weights

LEMMA RelationGoes ==
    ASSUME GraphInv, stage = "break", stage' = "detect", NEW n \in Current, NEW m,
           graph' = RemoveRelation(graph, n, m), UNCHANGED <<components, pkgs>>
    PROVE  GraphInv'
<1>1. GraphParts /\ Ahead
  BY DEF GraphInv, GraphParts, Ordering
<1>2. Closed(Current) /\ n \in DOMAIN graph
  BY <1>1, CurrentIs DEF Closed
<1>3. DOMAIN graph' = DOMAIN graph /\ Pre(graph', n) = Pre(graph, n) \ {m}
  BY <1>2, RemoveRelationIs
<1>4. \A x \in DOMAIN graph \ {n} : Pre(graph', x) = Pre(graph, x)
  BY <1>2, OthersKeep
<1>5. \A x \in DOMAIN graph : Pre(graph', x) \subseteq Pre(graph, x)
  BY <1>3, <1>4
<1>6. Alive' = Alive /\ Whole' = Whole /\ Current' = Current
  BY <1>3 DEF Alive, Whole, Current
<1>7. Nodes'
  BY <1>1, <1>3, <1>5, <1>6 DEF GraphParts, Nodes
<1>8. Insides'
  <2>1. ASSUME NEW c \in Alive PROVE Closed(pkgs[c])'
    BY <1>1, <1>3, <1>5 DEF GraphParts, Insides, Closed
  <2>2. ASSUME NEW c \in Whole, NEW x \in pkgs[c] PROVE ~IsComponent(x) /\ Pre(graph', x) # {}
    <3>1. x \in DOMAIN graph /\ ~IsComponent(x) /\ Pre(graph, x) # {} /\ c \in Alive
      BY <1>1, <2>2 DEF GraphParts, Insides, Closed, Whole
    <3>2. x # n
      <4>1. components # <<>> /\ Current = pkgs[Head(components)] /\ Head(components) \in Alive
            /\ Head(components) # c
        BY <1>1, <2>2, CurrentIs DEF Ahead
      <4>2. pkgs[Head(components)] \intersect pkgs[c] = {}
        BY <1>1, <3>1, <4>1 DEF GraphParts, Insides
      <4> QED
        BY <2>2, <4>1, <4>2
    <3> QED
      BY <1>4, <3>1, <3>2
  <2>3. \A c1, c2 \in Alive : c1 # c2 => pkgs[c1] \intersect pkgs[c2] = {}
    BY <1>1 DEF GraphParts, Insides
  <2> QED
    BY <1>6, <2>1, <2>2, <2>3 DEF Insides
<1>9. Nested'
  BY <1>1, <1>6 DEF GraphParts, Nested
<1>10. Ahead'
  BY <1>1, <1>6 DEF Ahead
<1> QED
  BY <1>7, <1>8, <1>9, <1>10 DEF GraphInv

\* A relation goes, from one of the nodes that are broken up to what it required.
LEMMA BreakIs ==
    ASSUME GraphInv, Break
    PROVE  /\ stage = "break" /\ components' = components /\ pkgs' = pkgs /\ GraphParts
           /\ stage' = "raised" \/
                 /\ stage' = "detect"
                 /\ \E n \in Current : \E m \in Pre(graph, n) : graph' = RemoveRelation(graph, n, m)
<1>1. stage = "break" /\ UNCHANGED <<components, pkgs>> /\ GraphParts
  BY DEF Break, GraphInv, GraphParts, Ordering
<1>2. Closed(Current) /\ IsFiniteSet(Current)
  BY <1>1, CurrentIs
<1>3. CASE BreakFar
  <2>1. CASE stage' = "raised"
    BY <1>1, <2>1
  <2>2. CASE stage' # "raised"
    <3>1. PICK pkg2 \in Farthest(Weights, DOMAIN Weights) :
              /\ Post(graph, pkg2) \subseteq DOMAIN Weights
              /\ \E pkg1 \in Farthest(Weights, Post(graph, pkg2)) :
                    graph' = RemoveRelation(graph, pkg1, pkg2)
              /\ stage' = "detect"
      BY <1>3, <2>2 DEF BreakFar
    <3>2. PICK pkg1 \in Farthest(Weights, Post(graph, pkg2)) : graph' = RemoveRelation(graph, pkg1, pkg2)
      BY <3>1
    <3>3. pkg1 \in Post(graph, pkg2)
      BY DEF Farthest
    <3>4. pkg1 \in Current /\ pkg2 \in Pre(graph, pkg1)
      BY <1>2, <3>1, <3>3, NearInside DEF Post, Pre
    <3> QED
      BY <1>1, <3>1, <3>2, <3>4
  <2> QED
    BY <2>1, <2>2
<1>4. CASE BreakFreeing
  <2>1. PICK r \in UNION {{<<n, m>> : m \in Pre(graph, n)} : n \in Current} :
            graph' = RemoveRelation(graph, r[1], r[2])
    BY <1>4 DEF BreakFreeing
  <2>2. r[1] \in Current /\ r[2] \in Pre(graph, r[1])
    OBVIOUS
  <2>3. stage' = "detect"
    BY <1>4 DEF BreakFreeing
  <2> QED
    BY <1>1, <2>1, <2>2, <2>3
<1> QED
  BY <1>3, <1>4 DEF Break

\* A relation is dropped of a node of the component that is broken up.
LEMMA BreakKeeps ==
    ASSUME GraphInv, Break
    PROVE  GraphInv'
<1>1. CASE stage' = "raised"
  BY <1>1 DEF GraphInv, Ordering
<1>2. CASE stage' # "raised"
  <2>1. /\ stage = "break" /\ stage' = "detect" /\ UNCHANGED <<components, pkgs>>
        /\ \E n \in Current : \E m \in Pre(graph, n) : graph' = RemoveRelation(graph, n, m)
    BY <1>2, BreakIs
  <2> QED
    BY <2>1, RelationGoes
<1> QED
  BY <1>1, <1>2

-----------------------------------------------------------------------------
(* The lists of packages that wait.                                        *)

LEMMA SetToSeqIs ==
    ASSUME NEW S, IsFiniteSet(S)
    PROVE  SetToSeq(S) \in Seq(S)
<1> DEFINE F == [1 .. Cardinality(S) -> S]
<1>1. Cardinality(S) \in Nat /\ ExistsBijection(1 .. Cardinality(S), S)
  BY FS_CardinalityType
<1>2. \E f \in F : IsInjective(f)
  BY <1>1 DEF ExistsBijection, Bijection, Injection, IsInjective
<1>3. SetToSeq(S) \in F
  <2> HIDE DEF F
  <2>1. SetToSeq(S) = CHOOSE f \in F : IsInjective(f)
    BY DEF SetToSeq, F
  <2> QED
    BY <1>2, <2>1
<1> QED
  BY <1>1, <1>3

\* One more sequence at the end of those before it.
Joined(f, ss, i) == IF i = 1 THEN ss[i] ELSE f[i-1] \o ss[i]

\* The sequences joined one by one are well defined.
LEMMA FlatExists ==
    ASSUME NEW ss, NEW K \in Nat
    PROVE  \E f : f = [i \in 1 .. K |-> Joined(f, ss, i)]
<1> DEFINE Is(f, n) == f = [i \in 1 .. n |-> Joined(f, ss, i)]
           Not == {n \in Nat : ~\E f : Is(f, n)}
<1>1. ASSUME NEW n \in Not, \A m \in Not : n <= m PROVE FALSE
  <2>1. CASE n = 0
    <3>1. Is(<<>>, 0)
      OBVIOUS
    <3> QED
      BY <2>1, <3>1
  <2>2. CASE n # 0
    <3>1. n - 1 \in Nat /\ n - 1 \notin Not
      BY <1>1, <2>2
    <3>2. PICK g : Is(g, n - 1)
      BY <3>1
    <3> DEFINE f == [i \in 1 .. n |-> IF i = n THEN Joined(g, ss, n) ELSE g[i]]
    <3>3. \A i \in 1 .. n - 1 : g[i] = Joined(g, ss, i)
      BY <3>2
    <3>4. ASSUME NEW i \in 1 .. n PROVE Joined(f, ss, i) = Joined(g, ss, i)
      <4>1. i # 1 => f[i - 1] = g[i - 1]
        BY <3>1
      <4> HIDE DEF f
      <4> QED
        BY <4>1 DEF Joined
    <3>5. \A i \in 1 .. n : f[i] = Joined(g, ss, i)
      BY <3>1, <3>3
    <3>6. Is(f, n)
      BY <3>4, <3>5
    <3> QED
      BY <3>6
  <2> QED
    BY <2>1, <2>2
<1>2. Not = {}
  BY <1>1, Least
<1> QED
  BY <1>2

LEMMA FlattenSeqIs ==
    ASSUME NEW S, NEW ss \in Seq(Seq(S))
    PROVE  FlattenSeq(ss) \in Seq(S)
<1> DEFINE N == Len(ss)
           F == CHOOSE f : f = [i \in 1 .. N |-> Joined(f, ss, i)]
<1>1. N \in Nat
  OBVIOUS
<1>2. F = [i \in 1 .. N |-> Joined(F, ss, i)]
  BY <1>1, FlatExists, Zenon
<1>3. N # 0 => FlattenSeq(ss) = F[N]
  BY DEF FlattenSeq, Joined
<1> HIDE DEF F
<1> DEFINE Not == {i \in 1 .. N : F[i] \notin Seq(S)}
<1>4. ASSUME NEW i \in Not, \A j \in Not : i <= j PROVE FALSE
  <2>1. F[i] = Joined(F, ss, i) /\ ss[i] \in Seq(S) /\ F[i] \notin Seq(S)
    <3>1. \A j \in 1 .. N : F[j] = Joined(F, ss, j)
      BY <1>2
    <3>2. \A j \in 1 .. N : ss[j] \in Seq(S)
      OBVIOUS
    <3> QED
      BY <1>4, <3>1, <3>2
  <2>2. CASE i = 1
    BY <2>1, <2>2 DEF Joined
  <2>3. CASE i # 1
    <3>1. i - 1 \in 1 .. N /\ i - 1 \notin Not
      BY <1>1, <1>4, <2>3
    <3>2. F[i - 1] \in Seq(S)
      BY <3>1
    <3>3. F[i] = F[i - 1] \o ss[i]
      BY <2>1, <2>3 DEF Joined
    <3> QED
      BY <2>1, <3>2, <3>3
  <2> QED
    BY <2>2, <2>3
<1>5. Not = {}
  <2>1. Not \in SUBSET Nat
    BY <1>1
  <2> QED
    BY <1>4, <2>1, Least
<1> QED
  BY <1>1, <1>3, <1>5 DEF FlattenSeq

LEMMA RequestIs ==
    ASSUME request \in Requests
    PROVE  /\ request.installs \in SUBSET Pkg /\ request.erases \in SUBSET Pkg
           /\ \A p \in request.installs :
                 request.updates[p] \in SUBSET Pkg /\ request.obsoletes[p] \in SUBSET Pkg
<1>1. /\ request.installs \subseteq Pkg /\ request.erases \subseteq Pkg
      /\ {request.updates, request.obsoletes} \subseteq
            [request.installs -> SUBSET (Pkg \ request.installs)]
  BY OrdererAssumption
<1> QED
  BY <1>1

\* What follows from an order is in the queue as it should be.
LEMMA OperationsAreItems ==
    ASSUME request \in Requests, NEW op \in {"install", "update", "erase"}, NEW A \in SUBSET Pkg,
           op # "erase" => A \subseteq request.installs, NEW ps \in Seq(A)
    PROVE  GenOperations(op, ps) \in Seq(Items)
<1>1. Len(ps) \in Nat /\ DOMAIN ps = 1 .. Len(ps) /\ \A i \in 1 .. Len(ps) : ps[i] \in A
  OBVIOUS
<1>2. CASE op = "erase"
  <2>1. \A i \in 1 .. Len(ps) : ToDo("erase", ps[i]) \in Items
    BY <1>1 DEF ToDo, Items
  <2>2. GenOperations(op, ps) = [i \in 1 .. Len(ps) |-> ToDo("erase", ps[i])]
    BY <1>1, <1>2 DEF GenOperations
  <2> QED
    BY <1>1, <2>1, <2>2
<1>3. CASE op # "erase"
  <2> DEFINE Do(p) == ToDo(IF request.updates[p] # {} THEN "update" ELSE "install", p)
             Then(p) == << Do(p), ToOrder("erase", request.obsoletes[p]), ToOrder("erase", request.updates[p]) >>
             all == [i \in 1 .. Len(ps) |-> Then(ps[i])]
  <2>1. ASSUME NEW p \in A PROVE Then(p) \in Seq(Items)
    <3>1. request.updates[p] \in SUBSET Pkg /\ request.obsoletes[p] \in SUBSET Pkg
      BY <1>3, RequestIs
    <3>2. Do(p) \in Items
      BY DEF ToDo, Items
    <3>3. ToOrder("erase", request.obsoletes[p]) \in Items /\ ToOrder("erase", request.updates[p]) \in Items
      BY <3>1 DEF ToOrder, Items
    <3> HIDE DEF Do
    <3> QED
      BY <3>2, <3>3
  <2>2. GenOperations(op, ps) = FlattenSeq(all)
    BY <1>1, <1>3 DEF GenOperations
  <2>3. all \in Seq(Seq(Items))
    <3> HIDE DEF Then
    <3> QED
      BY <1>1, <2>1
  <2> HIDE DEF all
  <2> QED
    BY <2>2, <2>3, FlattenSeqIs
<1> QED
  BY <1>2, <1>3

LEMMA QueueStarts == Init => QueueInv
<1> SUFFICES ASSUME Init PROVE QueueInv
  OBVIOUS
<1>1. /\ request \in Requests /\ stage = "idle"
      /\ queue = << ToOrder("install", request.installs),
                    ToOrder("erase", request.erases \ Replaced(request)) >>
  BY DEF Init
<1>2. /\ ToOrder("install", request.installs) \in Items
      /\ ToOrder("erase", request.erases \ Replaced(request)) \in Items
  BY <1>1, RequestIs DEF ToOrder, Items
<1> QED
  BY <1>1, <1>2 DEF QueueInv, Ordering

\* The list that is ordered, as it was put in the queue.
LEMMA HeadIs ==
    ASSUME QueueInv, queue # <<>>, Head(queue).do = "order"
    PROVE  /\ Head(queue) = queue[1] /\ Tail(queue) \in Seq(Items)
           /\ Head(queue).op \in {"install", "erase"} /\ Head(queue).of \in SUBSET Pkg
           /\ Head(queue).op # "erase" => Head(queue).of \subseteq request.installs
           /\ IsFiniteSet(Head(queue).of)
<1>1. queue \in Seq(Items)
  BY DEF QueueInv
<1>2. Head(queue) = queue[1] /\ Head(queue) \in Items /\ Tail(queue) \in Seq(Items)
  BY <1>1
<1>3. /\ Head(queue).op \in {"install", "erase"} /\ Head(queue).of \in SUBSET Pkg
      /\ Head(queue).op # "erase" => Head(queue).of \subseteq request.installs
  BY <1>2 DEF Items
<1> QED
  BY <1>2, <1>3, OrdererAssumption, FS_Subset

\* The graph that an order begins with: packages, each with what it requires.
LEMMA RelationsAre ==
    ASSUME NEW ps, IsFiniteSet(ps), NEW op, NEW g, g = GenRelations(ps, op)
    PROVE  /\ IsFiniteSet(DOMAIN g)
           /\ DOMAIN g = {Single(p) : p \in ps}
           /\ \A n \in DOMAIN g : Pre(g, n) \subseteq DOMAIN g
<1>1. DOMAIN g = {Single(p) : p \in ps}
  BY DEF GenRelations
<1>2. IsFiniteSet({Single(p) : p \in ps})
  <2> DEFINE f == [p \in ps |-> Single(p)]
             T == {Single(p) : p \in ps}
  <2>1. f \in Surjection(ps, T)
    BY DEF Surjection
  <2> QED
    BY <2>1, FS_Surjection
<1>3. ASSUME NEW n \in DOMAIN g PROVE Pre(g, n) \subseteq DOMAIN g
  <2> DEFINE Kinds(p, q) == {k \in {"soft", "legacy", "install", "erase"} : <<p, q, k>> \in requires}
             Required(p) == {q \in ps \ {p} : Kinds(p, q) # {}}
             p0 == CHOOSE x \in n.of : TRUE
  <2>1. Pre(g, n) = {Single(q) : q \in Required(p0)}
    BY <1>1 DEF GenRelations, Pre
  <2> QED
    BY <1>1, <2>1
<1> QED
  BY <1>1, <1>2, <1>3

LEMMA StartKeeps ==
    ASSUME QueueInv, GraphInv, Start
    PROVE  QueueInv' /\ GraphInv'
<1> DEFINE job == Head(queue)
<1>1. /\ stage = "idle" /\ queue # <<>> /\ job.do = "order"
      /\ order' = <<>> /\ pkgs' = <<>> /\ components' = <<>> /\ request' = request
  BY DEF Start, GraphInv
<1>2. /\ job = queue[1] /\ Tail(queue) \in Seq(Items) /\ IsFiniteSet(job.of)
      /\ job.op \in {"install", "update", "erase"} /\ job.of \in SUBSET Pkg
      /\ job.op # "erase" => job.of \subseteq request.installs
  BY <1>1, HeadIs
<1>3. request \in Requests /\ queue \in Seq(Items) /\ Items' = Items
  BY <1>1 DEF QueueInv, Items
<1>4. CASE Cardinality(job.of) <= 1
  <2>1. stage' = "idle" /\ queue' = GenOperations(job.op, SetToSeq(job.of)) \o Tail(queue)
    BY <1>1, <1>4 DEF Start
  <2>2. GenOperations(job.op, SetToSeq(job.of)) \in Seq(Items)
    BY <1>2, <1>3, SetToSeqIs, OperationsAreItems
  <2>3. queue' \in Seq(Items)
    BY <1>2, <2>1, <2>2
  <2> QED
    BY <1>1, <1>3, <2>1, <2>3 DEF QueueInv, GraphInv, Ordering
<1>5. CASE ~(Cardinality(job.of) <= 1)
  <2>1. stage' = "detect" /\ queue' = queue /\ graph' = GenRelations(job.of, job.op)
    BY <1>5 DEF Start
  <2>2. /\ IsFiniteSet(DOMAIN graph')
        /\ DOMAIN graph' = {Single(p) : p \in job.of}
        /\ \A n \in DOMAIN graph' : Pre(graph', n) \subseteq DOMAIN graph'
    <3> HIDE DEF job
    <3> QED
      BY <1>2, <2>1, RelationsAre
  <2>3. \A n \in DOMAIN graph' : n.nr = 0 /\ ~IsComponent(n) /\ \E p \in job.of : n = Single(p)
    BY <2>2 DEF Single, IsComponent
  <2>4. Alive' = {} /\ Whole' = {} /\ DOMAIN pkgs' = {}
    BY <1>1, <2>3 DEF Alive, Whole
  <2>5. Nodes'
    <3>1. IsFiniteSet(DOMAIN pkgs')
      BY <2>4, FS_EmptySet
    <3> QED
      BY <2>2, <2>3, <2>4, <3>1 DEF Nodes
  <2>6. Insides'
    BY <2>4 DEF Insides
  <2>7. Nested'
    BY <1>1 DEF Nested, IsInjective
  <2>8. Ahead'
    <3>1. Current' = DOMAIN graph'
      BY <1>1 DEF Current
    <3> QED
      BY <2>1, <2>3, <3>1 DEF Ahead
  <2>9. GraphInv'
    BY <2>1, <2>5, <2>6, <2>7, <2>8 DEF GraphInv
  <2>10. QueueInv'
    BY <1>1, <1>2, <1>3, <2>1, <2>3 DEF QueueInv
  <2> QED
    BY <2>9, <2>10
<1> QED
  BY <1>4, <1>5

LEMMA ReverseIs ==
    ASSUME NEW S, NEW s \in Seq(S)
    PROVE  Reverse(s) \in Seq(S)
<1>1. Len(s) \in Nat /\ \A i \in 1 .. Len(s) : s[i] \in S
  OBVIOUS
<1>2. \A i \in 1 .. Len(s) : s[Len(s) - i + 1] \in S
  BY <1>1
<1> QED
  BY <1>1, <1>2 DEF Reverse

\* The orders of one list of packages after the other.
LEMMA OrderedKeeps ==
    ASSUME QueueInv, GraphInv, Ordered
    PROVE  QueueInv' /\ GraphInv'
<1> DEFINE job == Head(queue)
           ps == IF job.op = "erase" THEN Reverse(order) ELSE order
<1>1. /\ stage = "ordered" /\ stage' = "idle" /\ components' = <<>> /\ request' = request
      /\ queue' = GenOperations(job.op, ps) \o Tail(queue)
  BY DEF Ordered, GraphInv
<1>2. queue # <<>> /\ queue[1].do = "order" /\ order \in Seq(queue[1].of) /\ job = queue[1]
  BY <1>1 DEF QueueInv
<1>3. /\ Tail(queue) \in Seq(Items)
      /\ job.op \in {"install", "update", "erase"} /\ job.of \in SUBSET Pkg
      /\ job.op # "erase" => job.of \subseteq request.installs
  BY <1>2, HeadIs
<1>4. ps \in Seq(job.of)
  <2>1. order \in Seq(job.of)
    BY <1>2
  <2> HIDE DEF job
  <2>2. Reverse(order) \in Seq(job.of)
    BY <2>1, ReverseIs
  <2> QED
    BY <2>1, <2>2
<1>5. request \in Requests
  BY DEF QueueInv
<1>6. GenOperations(job.op, ps) \in Seq(Items)
  <2> HIDE DEF job, ps
  <2> QED
    BY <1>3, <1>4, <1>5, OperationsAreItems
<1>7. queue' \in Seq(Items) /\ Items' = Items
  BY <1>1, <1>3, <1>6 DEF Items
<1> QED
  BY <1>1, <1>5, <1>7 DEF QueueInv, GraphInv, Ordering

LEMMA EmitKeeps ==
    ASSUME QueueInv, GraphInv, Emit
    PROVE  QueueInv' /\ GraphInv'
<1>1. /\ stage = "idle" /\ stage' = "idle" /\ components' = components /\ request' = request
      /\ queue # <<>> /\ queue' = Tail(queue) /\ queue \in Seq(Items) /\ request \in Requests
  BY DEF Emit, QueueInv
<1>2. queue' \in Seq(Items) /\ Items' = Items
  BY <1>1 DEF Items
<1> QED
  BY <1>1, <1>2 DEF QueueInv, GraphInv, Ordering

\* While a list is ordered it stays at the head of the queue, and no package is new
\* in the graph.
LEMMA OrderingKeeps ==
    ASSUME QueueInv, UNCHANGED <<request, queue>>, Ordering,
           order' = order \/ order' \in Seq(queue[1].of),
           \A n \in DOMAIN graph' : n \in DOMAIN graph \/ IsComponent(n)
    PROVE  QueueInv'
<1>1. Items' = Items /\ request \in Requests /\ queue \in Seq(Items)
  BY DEF Items, QueueInv
<1>2. queue # <<>> /\ queue[1].do = "order" /\ order \in Seq(queue[1].of)
  BY DEF QueueInv
<1>3. \A n \in DOMAIN graph' : ~IsComponent(n) => \E p \in queue[1].of : n = Single(p)
  BY DEF QueueInv
<1> QED
  BY <1>1, <1>2, <1>3 DEF QueueInv

LEMMA QueueKeeps ==
    ASSUME QueueInv, GraphInv, Next
    PROVE  QueueInv'
<1>1. CASE Start
  BY <1>1, StartKeeps
<1>2. CASE Ordered
  BY <1>2, OrderedKeeps
<1>3. CASE Emit
  BY <1>3, EmitKeeps
<1>4. CASE Detect \/ Root \/ Arc \/ Up \/ Found \/ AllMerged \/ AllCollected
  <2>1. UNCHANGED <<request, queue, order, graph>> /\ Ordering
    BY <1>4 DEF Detect, Root, Arc, Up, Found, AllMerged, AllCollected, Ordering
  <2> QED
    BY <2>1, OrderingKeeps
<1>5. CASE MergeNext
  <2>1. /\ stage = "merge" /\ UNCHANGED <<request, queue, order>>
        /\ graph' = Merge(graph, Component(Head(sccs)), Head(sccs))
    BY <1>5 DEF MergeNext
  <2>2. DOMAIN graph' = DOMAIN graph \union {Component(Head(sccs))}
    BY <2>1, MergeNodes
  <2>3. IsComponent(Component(Head(sccs)))
    BY <2>1, NewNode DEF GraphInv, Ordering
  <2> QED
    BY <2>1, <2>2, <2>3, OrderingKeeps DEF Ordering
<1>6. CASE Collect
  <2>1. stage = "collect" /\ UNCHANGED <<request, queue>> /\ GraphParts
    BY <1>6 DEF Collect, GraphInv, GraphParts, Ordering
  <2>2. PICK n \in NextLeaves :
            IF IsComponent(n)
            THEN /\ components' = <<n>> \o components
                 /\ stage' = "break"
                 /\ UNCHANGED <<graph, order, pkgs>>
            ELSE /\ order' = order \o SetToSeq(n.of)
                 /\ Collected(n)
                 /\ UNCHANGED <<components, stage>>
    BY <1>6 DEF Collect
  <2>3. CASE IsComponent(n)
    BY <2>1, <2>2, <2>3, OrderingKeeps DEF Ordering
  <2>4. CASE ~IsComponent(n)
    <3>1. order' = order \o SetToSeq(n.of) /\ graph' = RemoveNode(graph, n)
      BY <2>2, <2>4 DEF Collected
    <3>2. n \in DOMAIN graph
      BY <2>1, <2>2, CurrentIs DEF NextLeaves, Leaves, Closed
    <3>3. PICK p \in queue[1].of : n = Single(p)
      BY <2>1, <2>4, <3>2 DEF QueueInv, Ordering
    <3>4. n.of = {p} /\ IsFiniteSet({p})
      BY <3>3, FS_Singleton DEF Single
    <3>5. SetToSeq(n.of) \in Seq(queue[1].of)
      <4>1. SetToSeq(n.of) \in Seq({p})
        BY <3>4, SetToSeqIs
      <4> QED
        BY <3>3, <4>1
    <3>6. order \in Seq(queue[1].of)
      BY <2>1 DEF QueueInv, Ordering
    <3>7. order' \in Seq(queue[1].of)
      <4> DEFINE S == queue[1].of
                 s == SetToSeq(n.of)
      <4>1. order \in Seq(S) /\ s \in Seq(S) /\ order' = order \o s
        BY <3>1, <3>5, <3>6
      <4> HIDE DEF S, s
      <4>2. order' \in Seq(S)
        BY <4>1
      <4> QED
        BY <4>2 DEF S
    <3>8. DOMAIN graph' \subseteq DOMAIN graph
      BY <3>1, NodesLeft
    <3> QED
      BY <2>1, <3>7, <3>8, OrderingKeeps DEF Ordering
  <2> QED
    BY <2>3, <2>4
<1>7. CASE BrokenUp
  <2>1. /\ stage = "collect" /\ UNCHANGED <<request, queue, order>>
        /\ graph' = RemoveNode(graph, Head(components))
    BY <1>7 DEF BrokenUp
  <2>2. DOMAIN graph' \subseteq DOMAIN graph
    BY <2>1, NodesLeft
  <2> QED
    BY <2>1, <2>2, OrderingKeeps DEF Ordering
<1>8. CASE Break
  <2>1. stage = "break" /\ UNCHANGED <<request, queue, order>>
    BY <1>8 DEF Break
  <2>2. DOMAIN graph' \subseteq DOMAIN graph
    <3>1. graph' = graph \/ \E n, m : graph' = RemoveRelation(graph, n, m)
      <4>1. CASE BreakFar
        BY <4>1 DEF BreakFar
      <4>2. CASE BreakFreeing
        BY <4>2 DEF BreakFreeing
      <4> QED
        BY <1>8, <4>1, <4>2 DEF Break
    <3>2. ASSUME NEW n, NEW m, graph' = RemoveRelation(graph, n, m) PROVE DOMAIN graph' = DOMAIN graph
      BY <3>2 DEF RemoveRelation
    <3> QED
      BY <3>1, <3>2
  <2> QED
    BY <2>1, <2>2, OrderingKeeps DEF Ordering
<1> QED
  BY <1>1, <1>2, <1>3, <1>4, <1>5, <1>6, <1>7, <1>8 DEF Next

LEMMA GraphKeeps ==
    ASSUME IInv, Next
    PROVE  GraphInv'
<1>1. CASE Start \/ Ordered \/ Emit
  BY <1>1, StartKeeps, OrderedKeeps, EmitKeeps DEF IInv
<1>2. CASE Detect \/ Root \/ Arc \/ Up \/ AllMerged \/ AllCollected
  BY <1>2, SearchingKeeps DEF IInv
<1>3. CASE Found \/ MergeNext
  BY <1>3, FoundAhead, MergeKeeps DEF IInv
<1>4. CASE Collect \/ BrokenUp \/ Break
  BY <1>4, CollectKeeps, BrokenUpKeeps, BreakKeeps DEF IInv
<1> QED
  BY <1>1, <1>2, <1>3, <1>4 DEF Next

LEMMA SearchKeeps ==
    ASSUME IInv, Next
    PROVE  SearchInv'
<1>1. CASE Detect
  <2>1. GraphParts
    BY <1>1 DEF IInv, GraphInv, GraphParts, Ordering, Detect
  <2> QED
    BY <1>1, <2>1, CurrentIs, DetectStarts
<1>2. CASE Root
  BY <1>2, RootKeeps DEF IInv
<1>3. CASE Arc
  BY <1>3, ArcKeeps DEF IInv
<1>4. CASE Up
  BY <1>4, UpKeeps DEF IInv
<1>5. CASE ~(Detect \/ Root \/ Arc \/ Up)
  <2>1. stage' # "scan"
    BY <1>5 DEF Next, Start, Ordered, Emit, Found, MergeNext, AllMerged, Collect, BrokenUp,
                AllCollected, Break, BreakFar, BreakFreeing
  <2> QED
    BY <2>1 DEF SearchInv
<1> QED
  BY <1>1, <1>2, <1>3, <1>4, <1>5

LEMMA IInvStarts == Init => IInv
<1>1. Init => stage = "idle" /\ components = <<>>
  BY DEF Init
<1> QED
  BY <1>1, QueueStarts DEF IInv, GraphInv, SearchInv, Ordering

\* Whatever the packages and what they require, the lists that wait are lists of
\* packages, every node is in one component at most, and the search keeps its numbers,
\* stacks and calls in step: what genOrder(), detect() and breakUp() rely on.
THEOREM IInvHolds == Spec => []IInv
<1>1. Init => IInv
  BY IInvStarts
<1>2. IInv /\ [Next]_vars => IInv'
  <2> SUFFICES ASSUME IInv, [Next]_vars PROVE IInv'
    OBVIOUS
  <2>1. CASE Next
    BY <2>1, QueueKeeps, GraphKeeps, SearchKeeps DEF IInv
  <2>2. CASE UNCHANGED vars
    <3>1. UNCHANGED <<request, requires, queue, graph, order, components, pkgs, stage, sccs,
                      states, root_stack, pkg_stack, calls>>
      BY <2>2 DEF vars, detector
    <3>2. QueueInv'
      BY <3>1 DEF IInv, QueueInv, Items, Ordering
    <3>3. GraphInv'
      BY <3>1 DEF IInv, GraphInv, Ordering, Nodes, Insides, Nested, Ahead, Alive, Whole, Closed,
                  Current, Pre
    <3>4. SearchInv'
      <4>1. /\ Current' = Current /\ Closed(Current)' = Closed(Current)
            /\ \A n : From(n)' = From(n) /\ Together(n)' = Together(n)
        BY <3>1, SameGraph
      <4>2. Finished' = Finished /\ Live' = Live /\ Roots' = Roots /\ Callers' = Callers
        BY <3>1 DEF Finished, Live, Roots, Callers
      <4>3. Numbered' = Numbered /\ OnTheWay' = OnTheWay
        BY <3>1, <4>1, <4>2 DEF Numbered, OnTheWay, Ascending, Pre
      <4>4. Followed' = Followed
        BY <3>1, <4>2 DEF Followed, NotOlder, Pre
      <4>5. Ways' = Ways
        BY <3>1, <4>1, <4>2 DEF Ways, NotOlder
      <4>6. FoundSoFar' = FoundSoFar
        BY <3>1, <4>1, <4>2 DEF FoundSoFar
      <4> QED
        BY <3>1, <4>1, <4>3, <4>4, <4>5, <4>6 DEF IInv, SearchInv
    <3> QED
      BY <3>2, <3>3, <3>4 DEF IInv
  <2> QED
    BY <2>1, <2>2
<1> QED
  BY <1>1, <1>2, PTL DEF Spec

\* Whatever the packages and what they require, a search that is over has found the
\* strongly connected components, each once and no other: detect() and _process() of
\* ConnectedComponentsDetector, in the whole graph and in each component that is
\* broken up, after every relation that was dropped.
THEOREM ComponentsFoundHolds == Spec => []ComponentsFound
<1>1. IInv => ComponentsFound
  BY FoundIsRight DEF IInv
<1> QED
  BY <1>1, IInvHolds, PTL

-----------------------------------------------------------------------------
(* Cycles.                                                                 *)

\* A node, with what is going to be one node with it.
Block(ss, n) == {n} \union UNION {ss[i] : i \in {j \in DOMAIN ss : n \in ss[j]}}

\* Of any of the nodes L, some require no other: there is no cycle among them, apart
\* from those in components that are going to be merged.
Layered(g, ss, L) ==
    \A S \in SUBSET L :
        S # {} /\ (\A n \in S : Block(ss, n) \subseteq S) =>
            \E n \in S : \A m \in Block(ss, n) : Pre(g, m) \intersect S \subseteq Block(ss, n)

\* From every one of the nodes T ways lead to all others.
Knot(g, T) ==
    /\ T # {}
    /\ \A A \in SUBSET T :
          A # {} /\ (\A n \in A : Pre(g, n) \intersect T \subseteq A) => A = T

LEMMA BlockIs ==
    ASSUME NEW ss, NEW n, NEW x
    PROVE  x \in Block(ss, n) <=> (x = n \/ \E i \in DOMAIN ss : n \in ss[i] /\ x \in ss[i])
<1> DEFINE Of == {j \in DOMAIN ss : n \in ss[j]}
           T == UNION {ss[i] : i \in Of}
<1>1. x \in T <=> \E i \in Of : x \in ss[i]
  OBVIOUS
<1>2. Block(ss, n) = {n} \union T
  BY DEF Block
<1> HIDE DEF T
<1> QED
  BY <1>1, <1>2

LEMMA BlockOfNone ==
    ASSUME NEW n
    PROVE  Block(<<>>, n) = {n}
<1>1. \A x : x \in Block(<<>>, n) <=> x = n
  BY BlockIs
<1> QED
  BY <1>1

\* Dropping nodes and relations makes no cycle.
LEMMA LayersShrink ==
    ASSUME NEW g, NEW h, NEW L, NEW K \in SUBSET L, Layered(g, <<>>, L),
           \A n \in K : Pre(h, n) \subseteq Pre(g, n)
    PROVE  Layered(h, <<>>, K)
<1> SUFFICES ASSUME NEW S \in SUBSET K, S # {}
             PROVE  \E n \in S : \A m \in Block(<<>>, n) : Pre(h, m) \intersect S \subseteq Block(<<>>, n)
  BY DEF Layered
<1>1. PICK n \in S : \A m \in Block(<<>>, n) : Pre(g, m) \intersect S \subseteq Block(<<>>, n)
  BY BlockOfNone DEF Layered
<1> QED
  BY <1>1, BlockOfNone

\* Without cycles something requires nothing of the rest.
LEMMA SourceOf ==
    ASSUME NEW g, NEW L, Layered(g, <<>>, L), L # {}, \A n \in L : n \notin Pre(g, n)
    PROVE  \E n \in L : Pre(g, n) \intersect L = {}
<1>1. PICK n \in L : \A m \in Block(<<>>, n) : Pre(g, m) \intersect L \subseteq Block(<<>>, n)
  BY BlockOfNone DEF Layered
<1>2. Pre(g, n) \intersect L \subseteq {n}
  BY <1>1, BlockOfNone
<1> QED
  BY <1>2

\* One component becomes a node, and the others are still to come.
LEMMA MergeLayered ==
    ASSUME NEW g, NEW ss \in Seq(SUBSET DOMAIN g), ss # <<>>,
           \A i, j \in DOMAIN ss : i # j => ss[i] \intersect ss[j] = {},
           \A n \in DOMAIN g : Pre(g, n) \subseteq DOMAIN g,
           NEW c, c \notin DOMAIN g, NEW L \in SUBSET DOMAIN g,
           Head(ss) # {}, Head(ss) \subseteq L, Layered(g, ss, L)
    PROVE  Layered(Merge(g, c, Head(ss)), Tail(ss), (L \ Head(ss)) \union {c})
<1> DEFINE ns == Head(ss)
           rest == Tail(ss)
           h == Merge(g, c, ns)
<1>1. /\ ns = ss[1] /\ 1 \in DOMAIN ss /\ ns \subseteq DOMAIN g
      /\ \A i \in DOMAIN rest : i + 1 \in DOMAIN ss /\ i + 1 # 1 /\ rest[i] = ss[i + 1]
      /\ \A i \in DOMAIN ss \ {1} : i - 1 \in DOMAIN rest /\ rest[i - 1] = ss[i]
  OBVIOUS
<1>2. /\ Pre(h, c) = Outside(g, ns)
      /\ \A n \in ns : Pre(h, n) = Pre(g, n) \intersect ns
      /\ \A n \in DOMAIN g \ ns :
            Pre(h, n) = IF Pre(g, n) \intersect ns = {} THEN Pre(g, n)
                        ELSE (Pre(g, n) \ ns) \union {c}
  <2>1. ns \subseteq DOMAIN g /\ c \notin ns
    BY <1>1
  <2> HIDE DEF ns
  <2>2. Pre(h, c) = Outside(g, ns)
    BY MergeNew
  <2>3. ASSUME NEW n \in ns PROVE Pre(h, n) = Pre(g, n) \intersect ns
    BY <2>1, MergeInside
  <2>4. ASSUME NEW n \in DOMAIN g \ ns
        PROVE  Pre(h, n) = IF Pre(g, n) \intersect ns = {} THEN Pre(g, n)
                           ELSE (Pre(g, n) \ ns) \union {c}
    BY <2>1, MergeFar, MergeNear
  <2> QED
    BY <2>2, <2>3, <2>4
<1> HIDE DEF ns, rest, h
<1>3. ASSUME NEW n \in DOMAIN g \ ns PROVE Block(rest, n) = Block(ss, n)
  <2>1. ASSUME NEW x PROVE x \in Block(rest, n) <=> x \in Block(ss, n)
    <3>1. ASSUME NEW i \in DOMAIN rest, n \in rest[i], x \in rest[i]
          PROVE  \E j \in DOMAIN ss : n \in ss[j] /\ x \in ss[j]
      BY <1>1, <3>1
    <3>2. ASSUME NEW j \in DOMAIN ss, n \in ss[j], x \in ss[j]
          PROVE  \E i \in DOMAIN rest : n \in rest[i] /\ x \in rest[i]
      <4>1. j # 1
        BY <1>1, <3>2
      <4> QED
        BY <1>1, <3>2, <4>1
    <3> QED
      BY <3>1, <3>2, BlockIs
  <2> QED
    BY <2>1
<1>4. Block(rest, c) = {c}
  <2>1. \A i \in DOMAIN rest : c \notin rest[i]
    BY <1>1
  <2>2. \A x : x \in Block(rest, c) <=> x = c
    BY <2>1, BlockIs
  <2> QED
    BY <2>2
<1>5. ASSUME NEW n \in ns PROVE Block(ss, n) = ns
  <2>1. ASSUME NEW x PROVE x \in Block(ss, n) <=> x \in ns
    <3>1. \A j \in DOMAIN ss : n \in ss[j] => j = 1
      BY <1>1
    <3> QED
      BY <1>1, <3>1, BlockIs
  <2> QED
    BY <2>1
<1>6. ASSUME NEW n \in DOMAIN g \ ns PROVE Block(ss, n) \intersect ns = {} /\ Block(ss, n) \subseteq DOMAIN g
  <2>1. ASSUME NEW x \in Block(ss, n) PROVE x \notin ns /\ x \in DOMAIN g
    <3>1. CASE x = n
      BY <3>1
    <3>2. CASE x # n
      <4>1. PICK j \in DOMAIN ss : n \in ss[j] /\ x \in ss[j]
        BY <2>1, <3>2, BlockIs
      <4>2. j # 1 /\ ss[j] \subseteq DOMAIN g
        BY <1>1, <4>1
      <4> QED
        BY <1>1, <4>1, <4>2
    <3> QED
      BY <3>1, <3>2
  <2> QED
    BY <2>1
<1>7. ASSUME NEW T \in SUBSET ((L \ ns) \union {c}), T # {}, \A n \in T : Block(rest, n) \subseteq T
      PROVE  \E n \in T : \A m \in Block(rest, n) : Pre(h, m) \intersect T \subseteq Block(rest, n)
  <2> DEFINE S == IF c \in T THEN (T \ {c}) \union ns ELSE T
  <2>1. S \subseteq L /\ S # {} /\ T \ {c} \subseteq S /\ S \ ns = T \ {c}
    BY <1>1, <1>7 DEF ns
  <2>2. ASSUME NEW n \in S PROVE Block(ss, n) \subseteq S
    <3>1. CASE n \in ns
      <4>1. c \in T
        BY <1>1, <1>7, <3>1
      <4> QED
        BY <1>5, <3>1, <4>1
    <3>2. CASE n \notin ns
      <4>1. n \in T /\ n \in DOMAIN g
        BY <2>1, <3>2
      <4>2. Block(ss, n) \subseteq T /\ c \notin Block(ss, n)
        BY <1>3, <1>6, <1>7, <3>2, <4>1
      <4> QED
        BY <2>1, <4>2
    <3> QED
      BY <3>1, <3>2
  <2>3. PICK n \in S : \A m \in Block(ss, n) : Pre(g, m) \intersect S \subseteq Block(ss, n)
    <3> HIDE DEF S
    <3> QED
      BY <2>1, <2>2 DEF Layered
  <2>4. CASE n \in ns
    <3>1. c \in T
      BY <1>1, <1>7, <2>4
    <3>2. ASSUME NEW x \in Pre(h, c) \intersect T PROVE FALSE
      <4>1. PICK m \in ns : x \in Pre(g, m)
        BY <1>2, <3>2, OutsideIs
      <4>2. x \notin ns /\ x # c
        BY <1>1, <1>2, <3>2, <4>1, OutsideIs
      <4>3. x \in S
        BY <2>1, <3>2, <4>2
      <4> QED
        BY <1>5, <2>3, <2>4, <4>1, <4>2, <4>3
    <3> QED
      BY <1>4, <3>1, <3>2
  <2>5. CASE n \notin ns
    <3>1. n \in T /\ n \in DOMAIN g
      BY <2>1, <2>5
    <3>2. ASSUME NEW m \in Block(rest, n), NEW x \in Pre(h, m) \intersect T
          PROVE  x \in Block(rest, n)
      <4>1. m \in Block(ss, n) /\ m \in DOMAIN g \ ns
        BY <1>3, <1>6, <2>5, <3>1
      <4>2. CASE x = c
        <5>1. PICK y \in Pre(g, m) : y \in ns
          BY <1>2, <3>2, <4>1, <4>2
        <5>2. y \in S
          BY <3>2, <4>2, <5>1
        <5> QED
          BY <1>6, <2>3, <2>5, <3>1, <4>1, <5>1, <5>2
      <4>3. CASE x # c
        <5>1. x \in Pre(g, m) /\ x \in S
          BY <1>2, <2>1, <3>2, <4>1, <4>3
        <5> QED
          BY <1>3, <2>3, <2>5, <3>1, <4>1, <5>1
      <4> QED
        BY <4>2, <4>3
    <3> QED
      BY <3>1, <3>2
  <2> QED
    BY <2>4, <2>5
<1> QED
  BY <1>7 DEF Layered, ns, rest, h

\* Nodes hang together as long as what they require of each other stays.
LEMMA KnotStays ==
    ASSUME NEW g, NEW h, NEW T, Knot(g, T), \A n \in T : Pre(h, n) \intersect T = Pre(g, n) \intersect T
    PROVE  Knot(h, T)
<1> SUFFICES ASSUME NEW A \in SUBSET T, A # {}, \A n \in A : Pre(h, n) \intersect T \subseteq A
             PROVE  A = T
  BY DEF Knot
<1>1. \A n \in A : Pre(g, n) \intersect T \subseteq A
  OBVIOUS
<1> QED
  BY <1>1 DEF Knot

\* Nodes that are in no component.
Bare(g, inside, cs) == DOMAIN g \ UNION {inside[c] : c \in cs}

\* The nodes of the graph that are in no component.
Outer == Bare(graph, pkgs, Alive)

LEMMA BareIs ==
    ASSUME NEW g, NEW inside, NEW cs, NEW n
    PROVE  n \in Bare(g, inside, cs) <=> (n \in DOMAIN g /\ \A c \in cs : n \notin inside[c])
<1> DEFINE Inside == UNION {inside[c] : c \in cs}
<1>1. n \in Inside <=> \E c \in cs : n \in inside[c]
  OBVIOUS
<1>2. Bare(g, inside, cs) = DOMAIN g \ Inside
  BY DEF Bare
<1> HIDE DEF Inside
<1> QED
  BY <1>1, <1>2

LEMMA OuterIs ==
    ASSUME NEW n
    PROVE  /\ n \in Outer <=> (n \in DOMAIN graph /\ \A c \in Alive : n \notin pkgs[c])
           /\ n \in Outer' <=> (n \in DOMAIN graph' /\ \A c \in Alive' : n \notin pkgs'[c])
BY BareIs DEF Outer

\* The components among the nodes that are ordered now are one node each, or will be.
Merged == stage \in {"merge", "collect"}

\* The components that were found and are no node yet.
Pending == IF stage = "merge" THEN sccs ELSE <<>>

\* The nodes among which cycles are looked for.
Level == IF components = <<>> THEN Outer ELSE Current

\* A component is required from outside as a whole and what is inside it hangs
\* together; one that is broken up requires nothing any more.
Knots ==
    /\ \A n \in DOMAIN graph : n \notin Pre(graph, n)
    /\ \A c \in Alive : \A n \in DOMAIN graph : Pre(graph, n) \intersect pkgs[c] # {} => n \in pkgs[c]
    /\ \A i \in DOMAIN components : Pre(graph, components[i]) = {}
    /\ \A c \in Whole : Knot(graph, pkgs[c])
    /\ stage = "break" => Knot(graph, Current)
    /\ stage = "merge" => \A i \in DOMAIN sccs : Knot(graph, sccs[i])

\* Outside what is searched and broken up there is no cycle.
Layers ==
    /\ Merged => Layered(graph, Pending, Level)
    /\ components # <<>> => Layered(graph, <<>>, Outer)
    /\ \A i \in DOMAIN components \ {1} : Layered(graph, <<>>, pkgs[components[i]])

\* Part of the inductive invariant: where cycles can be while packages are ordered.
ShapeInv == Ordering => Knots /\ Layers

LEMMA RequiresIs ==
    ASSUME NEW op, NEW ps, NEW p, NEW q
    PROVE  <<p, q>> \in Requires(<<op, ps>>) <=>
              /\ p \in ps /\ q \in ps /\ p # q
              /\ \E k \in {"soft", "legacy", "install", "erase"} : <<p, q, k>> \in requires
BY DEF Requires

\* A requirement between two packages is a relation of the graph an order begins
\* with, by its kind a hard one or not.
LEMMA RelationIs ==
    ASSUME NEW ps, NEW op \in {"install", "erase"}, NEW g, g = GenRelations(ps, op),
           NEW p \in ps, NEW q
    PROVE  /\ Single(q) \in Pre(g, Single(p)) <=> <<p, q>> \in Requires(<<op, ps>>)
           /\ Single(q) \in Pre(g, Single(p)) =>
                 (g[Single(p)][Single(q)] <=> <<p, q>> \in HardRequires(<<op, ps>>))
<1> DEFINE Kinds(x, y) == {k \in {"soft", "legacy", "install", "erase"} : <<x, y, k>> \in requires}
           Required(x) == {y \in ps \ {x} : Kinds(x, y) # {}}
           Flag(x, m) == \E y \in m.of : \E k \in Kinds(x, y) : OperationFlag(k, op)
           Relations(n) == LET x == CHOOSE x \in n.of : TRUE
                           IN  [m \in {Single(y) : y \in Required(x)} |-> Flag(x, m)]
<1>1. g = [n \in {Single(x) : x \in ps} |-> Relations(n)]
  BY DEF GenRelations
<1>2. (CHOOSE x \in Single(p).of : TRUE) = p
  BY DEF Single
<1>3. g[Single(p)] = [m \in {Single(y) : y \in Required(p)} |-> Flag(p, m)]
  <2>1. Single(p) \in {Single(x) : x \in ps}
    OBVIOUS
  <2>2. g[Single(p)] = Relations(Single(p))
    <3> HIDE DEF Relations
    <3> QED
      BY <1>1, <2>1
  <2>3. ASSUME NEW x, x = CHOOSE y \in Single(p).of : TRUE
        PROVE  Relations(Single(p)) = [m \in {Single(y) : y \in Required(x)} |-> Flag(x, m)]
    BY <2>3
  <2> HIDE DEF Relations, Required, Flag
  <2> QED
    BY <1>2, <2>2, <2>3
<1>4. Pre(g, Single(p)) = {Single(y) : y \in Required(p)}
  BY <1>3 DEF Pre
<1>5. Single(q) \in Pre(g, Single(p)) <=> q \in Required(p)
  <2>1. \A y : Single(y) = Single(q) => y = q
    BY DEF Single
  <2> HIDE DEF Required
  <2> QED
    BY <1>4, <2>1
<1>6. <<p, q>> \in Requires(<<op, ps>>) <=> q \in Required(p)
  <2>1. Kinds(p, q) # {} <=> \E k \in {"soft", "legacy", "install", "erase"} : <<p, q, k>> \in requires
    OBVIOUS
  <2>2. q \in Required(p) <=> q \in ps /\ q # p /\ Kinds(p, q) # {}
    OBVIOUS
  <2> HIDE DEF Kinds, Required
  <2> QED
    BY <2>1, <2>2, RequiresIs
<1>7. ASSUME q \in Required(p)
      PROVE  g[Single(p)][Single(q)] <=> <<p, q>> \in HardRequires(<<op, ps>>)
  <2>1. g[Single(p)][Single(q)] = Flag(p, Single(q))
    BY <1>3, <1>7
  <2>2. Flag(p, Single(q)) <=> \E k \in Kinds(p, q) : OperationFlag(k, op)
    BY DEF Single
  <2>3. (\E k \in Kinds(p, q) : OperationFlag(k, op)) <=> \E k \in {"legacy", op} : <<p, q, k>> \in requires
    BY DEF OperationFlag
  <2>4. <<p, q>> \in HardRequires(<<op, ps>>) <=> \E k \in {"legacy", op} : <<p, q, k>> \in requires
    BY <1>6, <1>7 DEF HardRequires
  <2> QED
    BY <2>1, <2>2, <2>3, <2>4
<1> QED
  BY <1>5, <1>6, <1>7

\* Relations between packages: no component yet, and none is required by itself.
LEMMA StartShape ==
    ASSUME QueueInv, GraphInv, Start
    PROVE  ShapeInv'
<1> DEFINE job == Head(queue)
<1>1. CASE Cardinality(job.of) <= 1
  <2>1. stage' = "idle"
    BY <1>1 DEF Start
  <2> QED
    BY <2>1 DEF ShapeInv, Ordering
<1>2. CASE ~(Cardinality(job.of) <= 1)
  <2>1. /\ stage' = "detect" /\ graph' = GenRelations(job.of, job.op) /\ components' = <<>>
        /\ queue # <<>> /\ job.do = "order"
    BY <1>2 DEF Start, GraphInv
  <2>2. job.op \in {"install", "erase"} /\ IsFiniteSet(job.of)
    <3>1. job = queue[1] /\ 1 \in DOMAIN queue
      BY <2>1 DEF QueueInv
    <3> QED
      BY <2>1, <3>1, HeadIs
  <2> HIDE DEF job
  <2>3. DOMAIN graph' = {Single(p) : p \in job.of}
    BY <2>1, <2>2, RelationsAre
  <2>4. ASSUME NEW n \in DOMAIN graph', n \in Pre(graph', n) PROVE FALSE
    <3>1. PICK p \in job.of : n = Single(p)
      BY <2>3
    <3>2. <<p, p>> \in Requires(<<job.op, job.of>>)
      BY <2>1, <2>2, <2>4, <3>1, RelationIs
    <3> QED
      BY <3>2 DEF Requires
  <2>5. Alive' = {} /\ Whole' = {}
    BY <2>3 DEF Alive, Whole, Single, IsComponent
  <2> QED
    BY <2>1, <2>4, <2>5 DEF ShapeInv, Knots, Layers, Merged
<1> QED
  BY <1>1, <1>2

LEMMA SameShape ==
    ASSUME UNCHANGED <<graph, components, pkgs>>
    PROVE  /\ Outer' = Outer /\ Level' = Level /\ Current' = Current /\ Alive' = Alive /\ Whole' = Whole
           /\ \A n : Pre(graph', n) = Pre(graph, n)
BY DEF Outer, Level, Current, Alive, Whole, Pre

\* The search and what follows it leave the graph alone.
LEMMA SearchingShape ==
    ASSUME GraphInv, ShapeInv, Detect \/ Root \/ Arc \/ Up \/ AllMerged \/ AllCollected
    PROVE  ShapeInv'
<1>1. UNCHANGED <<graph, components, pkgs>>
  BY DEF Detect, Root, Arc, Up, AllMerged, AllCollected
<1>2. Knots /\ Layers
  BY DEF ShapeInv, Ordering, Detect, Root, Arc, Up, AllMerged, AllCollected
<1>3. CASE Detect \/ Root \/ Arc \/ Up
  <2>1. stage' = "scan"
    BY <1>3 DEF Detect, Root, Arc, Up
  <2>2. Knots' /\ Layers'
    BY <1>1, <1>2, <2>1, SameShape DEF Knots, Layers, Merged
  <2> QED
    BY <2>2 DEF ShapeInv
<1>4. CASE AllMerged
  <2>1. stage = "merge" /\ stage' = "collect" /\ Pending' = Pending /\ sccs = <<>>
    BY <1>4 DEF AllMerged, Pending
  <2>2. Knots'
    BY <1>1, <1>2, <2>1, SameShape DEF Knots
  <2>3. Layers'
    BY <1>1, <1>2, <2>1, SameShape DEF Layers, Merged
  <2> QED
    BY <2>2, <2>3 DEF ShapeInv
<1>5. CASE AllCollected
  <2>1. stage' = "ordered"
    BY <1>5 DEF AllCollected
  <2> QED
    BY <2>1 DEF ShapeInv, Ordering
<1> QED
  BY <1>3, <1>4, <1>5

\* Searched to its end, the graph has no cycles but those in its components: there is
\* a node from which the fewest can be reached.
LEMMA FoundLayered ==
    ASSUME Closed(Current), IsFiniteSet(Current), NEW ss, NEW L \in SUBSET Current,
           \A i \in DOMAIN ss : \A n \in ss[i] : ss[i] = Together(n),
           \A n \in Current : Together(n) \ {n} # {} => \E i \in DOMAIN ss : ss[i] = Together(n)
    PROVE  Layered(graph, ss, L)
<1> SUFFICES ASSUME NEW S \in SUBSET L, S # {}
             PROVE  \E n \in S : \A m \in Block(ss, n) : Pre(graph, m) \intersect S \subseteq Block(ss, n)
  BY DEF Layered
<1> DEFINE All(n) == From(n) \union {n}
           Counts == {Cardinality(All(n)) : n \in S}
<1>1. \A n \in Current : All(n) \subseteq Current /\ IsFiniteSet(All(n)) /\ Cardinality(All(n)) \in Nat
  <2>1. ASSUME NEW n \in Current PROVE All(n) \subseteq Current
    BY WaysJoin DEF From, Reach
  <2> HIDE DEF All
  <2> QED
    BY <2>1, FS_Subset, FS_CardinalityType
<1> HIDE DEF All
<1>2. PICK n \in S : \A m \in S : Cardinality(All(n)) <= Cardinality(All(m))
  <2>1. Counts \in SUBSET Nat /\ Counts # {}
    BY <1>1
  <2>2. PICK k \in Counts : \A j \in Counts : k <= j
    BY <2>1, Least
  <2> QED
    BY <2>2
<1>3. ASSUME NEW m \in Block(ss, n), NEW k \in Pre(graph, m) \intersect S PROVE k \in Block(ss, n)
  <2>1. m \in Current /\ (m = n \/ m \in From(n))
    <3>1. CASE m = n
      BY <3>1
    <3>2. CASE m # n
      <4>1. PICK i \in DOMAIN ss : n \in ss[i] /\ m \in ss[i]
        BY <1>3, <3>2, BlockIs
      <4>2. m \in Together(n)
        BY <4>1
      <4> QED
        BY <4>2, WaysJoin DEF Together, From, Reach
    <3> QED
      BY <3>1, <3>2
  <2>2. k \in Current /\ k \in From(m)
    BY <1>3, <2>1, ArcLeads
  <2>3. k \in From(n)
    BY <2>1, <2>2, WaysJoin
  <2>4. All(k) \subseteq All(n)
    <3>1. \A x \in From(k) : x \in From(n)
      BY <2>3, WaysJoin
    <3> QED
      BY <2>3, <3>1 DEF All
  <2>5. All(k) = All(n)
    <3>1. Cardinality(All(n)) <= Cardinality(All(k))
      BY <1>2, <1>3
    <3>2. IsFiniteSet(All(n)) /\ Cardinality(All(n)) \in Nat /\ Cardinality(All(k)) \in Nat
      BY <1>1, <2>2
    <3>3. Cardinality(All(k)) <= Cardinality(All(n))
      BY <2>4, <3>2, FS_Subset
    <3>4. Cardinality(All(n)) = Cardinality(All(k))
      BY <3>1, <3>2, <3>3
    <3> QED
      BY <2>4, <3>2, <3>4, FS_Subset
  <2>6. CASE k = n
    BY <2>6, BlockIs
  <2>7. CASE k # n
    <3>1. n \in From(k)
      BY <2>5, <2>7 DEF All
    <3>2. k \in Together(n) \ {n} /\ n \in Together(n)
      BY <2>3, <2>7, <3>1, WaysJoin DEF Together
    <3>3. PICK i \in DOMAIN ss : ss[i] = Together(n)
      BY <3>2
    <3> QED
      BY <3>2, <3>3, BlockIs
  <2> QED
    BY <2>6, <2>7
<1> QED
  BY <1>3

\* A component that was found hangs together.
LEMMA TogetherIsKnot ==
    ASSUME Closed(Current), NEW a \in Current, a \in Together(a)
    PROVE  Knot(graph, Together(a))
<1> DEFINE T == Together(a)
<1>1. T \subseteq Current
  BY DEF Together, From, Reach
<1> SUFFICES ASSUME NEW A \in SUBSET T, A # {}, \A n \in A : Pre(graph, n) \intersect T \subseteq A
             PROVE  T \subseteq A
  BY DEF Knot
<1>2. PICK b \in A : TRUE
  OBVIOUS
<1>3. b \in Current /\ b \in From(a) /\ a \in From(b)
  BY <1>1, <1>2 DEF Together
<1>4. \A x \in T : x \in From(a) /\ a \in From(x) /\ x \in Current
  BY <1>1 DEF Together
<1>5. \A x \in Current : x \in From(a) /\ a \in From(x) => x \in T
  BY DEF Together
<1> HIDE DEF T
<1> DEFINE X == A \union (From(a) \ T)
<1>6. X \subseteq Current
  BY <1>1 DEF From, Reach
<1>7. ASSUME NEW x \in X, NEW y \in Pre(graph, x) PROVE y \in X
  <2>1. x \in Current /\ x \in From(a)
    BY <1>4, <1>6
  <2>2. y \in Current /\ y \in From(x)
    BY <2>1, <1>7, ArcLeads DEF Closed
  <2>3. y \in From(a)
    BY <2>1, <2>2, WaysJoin
  <2>4. CASE x \in A
    BY <1>7, <2>3, <2>4
  <2>5. CASE x \notin A
    <3>1. y \notin T
      <4>1. ASSUME y \in T PROVE FALSE
        <5>1. a \in From(y)
          BY <1>4, <4>1
        <5>2. a \in From(x)
          BY <2>1, <2>2, <5>1, WaysJoin
        <5> QED
          BY <1>5, <1>7, <2>1, <2>5, <5>2
      <4> QED
        BY <4>1
    <3> QED
      BY <2>3, <3>1
  <2> QED
    BY <2>4, <2>5
<1>8. From(b) \subseteq X
  <2>1. X \in SUBSET Current /\ b \in X /\ \A n \in X : Pre(graph, n) \subseteq X
    BY <1>2, <1>6, <1>7
  <2> HIDE DEF X
  <2> QED
    BY <2>1, WaysStay
<1>9. ASSUME NEW t \in T PROVE t \in A
  <2>1. t \in From(b)
    BY <1>3, <1>4, WaysJoin
  <2> QED
    BY <1>8, <2>1
<1> QED
  BY <1>9

\* Every component that was found hangs together, and between them is no cycle.
LEMMA FoundShape ==
    ASSUME IInv, ShapeInv, Found
    PROVE  ShapeInv'
<1>1. /\ stage = "scan" /\ stage' = "merge" /\ calls = <<>> /\ Current \subseteq DOMAIN states
      /\ UNCHANGED <<graph, components, pkgs, sccs>>
  BY DEF Found, detector
<1>2. GraphParts /\ SearchInv /\ Knots /\ Layers
  BY <1>1 DEF IInv, GraphInv, GraphParts, Ordering, ShapeInv
<1>3. Closed(Current) /\ IsFiniteSet(Current) /\ (components = <<>> => Current = DOMAIN graph)
  BY <1>2, CurrentIs
<1>4. ToSet(sccs) = {Together(n) : n \in {x \in Current : Together(x) \ {x} # {}}}
  BY <1>1, <1>2, SearchEnds
<1>5. ASSUME NEW i \in DOMAIN sccs PROVE Knot(graph, sccs[i])
  <2>1. PICK n \in sccs[i] : TRUE
    BY <1>1, <1>2, FoundAre
  <2>2. sccs[i] \subseteq Current /\ Together(n) = sccs[i]
    BY <1>1, <1>2, <2>1, FoundAre
  <2> QED
    BY <1>3, <2>1, <2>2, TogetherIsKnot
<1>6. Layered(graph, sccs, Level)
  <2>1. Level \in SUBSET Current
    <3>1. Outer \subseteq DOMAIN graph
      BY OuterIs
    <3> QED
      BY <1>3, <3>1 DEF Level
  <2>2. \A i \in DOMAIN sccs : \A n \in sccs[i] : sccs[i] = Together(n)
    BY <1>1, <1>2, FoundAre
  <2>3. ASSUME NEW n \in Current, Together(n) \ {n} # {} PROVE \E i \in DOMAIN sccs : sccs[i] = Together(n)
    <3>1. Together(n) \in ToSet(sccs)
      BY <1>4, <2>3
    <3> QED
      BY <3>1 DEF ToSet
  <2> QED
    BY <1>3, <2>1, <2>2, <2>3, FoundLayered
<1>7. Outer' = Outer /\ Level' = Level /\ Alive' = Alive /\ Whole' = Whole
  BY <1>1, SameShape
<1>8. \A n : Pre(graph', n) = Pre(graph, n)
  BY <1>1, SameShape
<1>9. Knots'
  <2>1. \A i \in DOMAIN sccs' : Knot(graph', sccs'[i])
    BY <1>1, <1>5
  <2> QED
    BY <1>1, <1>2, <1>7, <1>8, <2>1 DEF Knots
<1>10. Layers'
  <2>1. Layered(graph', Pending', Level')
    BY <1>1, <1>6, <1>7 DEF Pending
  <2> QED
    BY <1>1, <1>2, <1>7, <2>1 DEF Layers
<1> QED
  BY <1>9, <1>10 DEF ShapeInv

\* The nodes outside all components change places with the new one, when they are
\* what is searched.
LEMMA MergeLevel ==
    ASSUME GraphInv, Knots, MergeNext, NEW ns, ns = Head(sccs), NEW c, c = Component(ns)
    PROVE  /\ ns \subseteq Level /\ Level \subseteq DOMAIN graph
           /\ Level' = (Level \ ns) \union {c}
           /\ components # <<>> =>
                 /\ Outer' \subseteq Outer
                 /\ \A n \in Outer' : Pre(graph', n) \subseteq Pre(graph, n)
<1>1. /\ components' = components /\ GraphParts /\ Insides /\ Nodes
      /\ ns \subseteq Current /\ Current \subseteq DOMAIN graph
      /\ c \notin DOMAIN graph /\ c \notin DOMAIN pkgs /\ IsComponent(c) /\ DOMAIN graph' = DOMAIN graph \union {c}
      /\ pkgs'[c] = ns
      /\ components # <<>> => pkgs'[Head(components)] = (Current \ ns) \union {c}
      /\ Alive' = Alive \union {c} /\ Alive \subseteq DOMAIN pkgs
  BY MergeStep
<1>2. components # <<>> => Head(components) \in Alive /\ Current = pkgs[Head(components)]
  BY <1>1, CurrentIs
<1>3. components = <<>> => Current = DOMAIN graph
  BY <1>1, CurrentIs
<1>4. Outer \subseteq DOMAIN graph
  BY OuterIs
<1>5. CASE components = <<>>
  <2>1. \A x \in Alive : pkgs'[x] = pkgs[x] /\ pkgs[x] \intersect ns = {} /\ c \notin pkgs[x]
    BY <1>5, MergeOthers
  <2>2. ASSUME NEW n \in ns PROVE n \in Outer
    <3>1. n \in DOMAIN graph /\ \A x \in Alive : n \notin pkgs[x]
      BY <1>1, <2>1
    <3> QED
      BY <3>1, OuterIs
  <2>3. ASSUME NEW n PROVE n \in Outer' <=> n \in (Outer \ ns) \union {c}
    <3>1. n \in Outer' <=> (n \in DOMAIN graph' /\ \A x \in Alive' : n \notin pkgs'[x])
      BY OuterIs
    <3>2. n \in Outer <=> (n \in DOMAIN graph /\ \A x \in Alive : n \notin pkgs[x])
      BY OuterIs
    <3>3. c \notin ns
      BY <1>1
    <3> QED
      BY <1>1, <2>1, <3>1, <3>2, <3>3
  <2>4. Outer' = (Outer \ ns) \union {c}
    BY <2>3
  <2> QED
    BY <1>1, <1>4, <1>5, <2>2, <2>4 DEF Level
<1>6. CASE components # <<>>
  <2>1. Level = Current /\ Level' = Current'
    BY <1>1, <1>6 DEF Level
  <2>2. Current' = (Current \ ns) \union {c}
    BY <1>1, <1>6 DEF Current
  <2>3. ASSUME NEW n \in Outer'
        PROVE  n \in Outer /\ Pre(graph', n) \subseteq Pre(graph, n)
    <3>1. n \in DOMAIN graph' /\ \A x \in Alive' : n \notin pkgs'[x]
      BY OuterIs
    <3>2. n # c /\ n \notin ns /\ n \notin Current /\ n \in DOMAIN graph
      BY <1>1, <1>2, <1>6, <3>1
    <3>3. ASSUME NEW x \in Alive PROVE n \notin pkgs[x]
      <4>1. CASE x = Head(components)
        BY <1>2, <1>6, <3>2, <4>1
      <4>2. CASE x # Head(components)
        <5>1. pkgs'[x] = pkgs[x] /\ x \in Alive'
          BY <1>1, <4>2, MergeOthers
        <5> QED
          BY <3>1, <5>1
      <4> QED
        BY <4>1, <4>2
    <3>4. n \in Outer
      BY <3>2, <3>3, OuterIs
    <3>5. Pre(graph, n) \intersect ns = {}
      BY <1>1, <1>2, <1>6, <3>2 DEF Knots
    <3> QED
      BY <3>2, <3>4, <3>5, MergePre
  <2> QED
    BY <1>1, <1>6, <2>1, <2>2, <2>3
<1> QED
  BY <1>5, <1>6

\* A component that becomes a node is required as a whole, and its place is free of cycles.
LEMMA MergeShape ==
    ASSUME GraphInv, ShapeInv, MergeNext
    PROVE  ShapeInv'
<1> DEFINE ns == Head(sccs)
           c == Component(ns)
<1>1. ns = Head(sccs) /\ c = Component(ns)
  OBVIOUS
<1> HIDE DEF ns, c
<1>2. /\ stage = "merge" /\ stage' = "merge" /\ components' = components
      /\ sccs # <<>> /\ sccs' = Tail(sccs)
      /\ GraphParts /\ Nodes /\ Insides /\ Nested /\ Ahead /\ Closed(Current)
      /\ 1 \in DOMAIN sccs /\ ns = sccs[1] /\ ns \subseteq Current /\ Current \subseteq DOMAIN graph
      /\ c \notin DOMAIN pkgs /\ c \notin DOMAIN graph /\ IsComponent(c)
      /\ graph' = Merge(graph, c, ns) /\ DOMAIN graph' = DOMAIN graph \union {c}
      /\ pkgs'[c] = ns
      /\ components # <<>> => pkgs'[Head(components)] = (Current \ ns) \union {c}
      /\ Alive' = Alive \union {c} /\ Whole' = Whole \union {c} /\ Alive \subseteq DOMAIN pkgs
  BY <1>1, MergeStep
<1>3. Knots /\ Layers
  BY <1>2 DEF ShapeInv, Ordering
<1>4. components # <<>> =>
         /\ Head(components) \in Alive /\ Current = pkgs[Head(components)]
         /\ 1 \in DOMAIN components /\ Head(components) = components[1] /\ Head(components) \notin Whole
  BY <1>2, CurrentIs
<1>5. /\ sccs \in Seq(SUBSET Current)
      /\ \A i, j \in DOMAIN sccs : i # j => sccs[i] \intersect sccs[j] = {}
      /\ \A i \in DOMAIN sccs : \A n \in sccs[i] : ~IsComponent(n)
  BY <1>2 DEF Ahead
<1>6. ASSUME NEW n \in DOMAIN graph
      PROVE  /\ n \in ns => Pre(graph', n) = Pre(graph, n) \intersect ns
             /\ n \notin ns /\ Pre(graph, n) \intersect ns = {} => Pre(graph', n) = Pre(graph, n)
             /\ n \notin ns /\ Pre(graph, n) \intersect ns # {} =>
                   Pre(graph', n) = (Pre(graph, n) \ ns) \union {c}
             /\ Pre(graph, n) \subseteq DOMAIN graph
  BY <1>1, MergePre
<1>7. ASSUME NEW x \in Pre(graph', c) PROVE x \notin ns /\ x \in DOMAIN graph /\ \E n \in ns : x \in Pre(graph, n)
  <2>1. PICK n \in ns : TRUE
    BY <1>2, <1>3 DEF Knots, Knot
  <2>2. Pre(graph', c) = Outside(graph, ns)
    BY <1>1, <1>2, <2>1, MergePre
  <2>3. x \notin ns /\ \E m \in ns : x \in Pre(graph, m)
    BY <1>7, <2>2, OutsideIs
  <2> QED
    BY <1>2, <1>6, <2>3
<1>8. ASSUME NEW n \in DOMAIN graph' PROVE n \notin Pre(graph', n)
  <2>1. CASE n = c
    BY <1>2, <1>7, <2>1
  <2>2. CASE n # c
    <3>1. n \in DOMAIN graph /\ n \notin Pre(graph, n)
      BY <1>2, <1>3, <2>2 DEF Knots
    <3> QED
      BY <1>6, <2>2, <3>1
  <2> QED
    BY <2>1, <2>2
<1>9. ASSUME NEW x \in Alive', NEW n \in DOMAIN graph', Pre(graph', n) \intersect pkgs'[x] # {}
      PROVE  n \in pkgs'[x]
  <2>1. PICK y \in Pre(graph', n) : y \in pkgs'[x]
    BY <1>9
  <2>2. CASE x = c
    <3>1. y \in ns /\ y # c
      BY <1>2, <2>1, <2>2
    <3>2. n # c
      BY <1>7, <2>1, <3>1
    <3>3. n \in ns
      BY <1>2, <1>6, <2>1, <3>1, <3>2
    <3> QED
      BY <1>2, <2>2, <3>3
  <2>3. CASE components # <<>> /\ x = Head(components)
    <3>1. pkgs'[x] = (Current \ ns) \union {c} /\ Current = pkgs[Head(components)] /\ Head(components) \in Alive
      BY <1>2, <1>4, <2>3
    <3>2. CASE n = c
      BY <3>1, <3>2
    <3>3. CASE n # c
      <4>1. n \in DOMAIN graph /\ (y = c \/ y \in Current \ ns) /\ c \notin Pre(graph, n)
        BY <1>2, <1>6, <2>1, <3>1, <3>3
      <4>2. n \notin ns
        BY <1>2, <1>6, <2>1, <4>1
      <4>3. Pre(graph, n) \intersect Current # {}
        BY <1>2, <1>6, <2>1, <4>1, <4>2
      <4>4. n \in Current
        BY <1>3, <3>1, <4>1, <4>3 DEF Knots
      <4> QED
        BY <3>1, <4>2, <4>4
    <3> QED
      BY <3>2, <3>3
  <2>4. CASE x \in Alive /\ (components = <<>> \/ x # Head(components))
    <3>1. pkgs'[x] = pkgs[x] /\ pkgs[x] \intersect ns = {} /\ c \notin pkgs[x]
      BY <1>1, <1>2, <2>4, MergeOthers
    <3>2. \A m \in DOMAIN graph : Pre(graph, m) \intersect pkgs[x] # {} => m \in pkgs[x]
      BY <1>3, <2>4 DEF Knots
    <3>3. n # c
      <4>1. ASSUME n = c PROVE FALSE
        <5>1. PICK m \in ns : y \in Pre(graph, m)
          BY <1>7, <2>1, <4>1
        <5> QED
          BY <1>2, <2>1, <3>1, <3>2, <5>1
      <4> QED
        BY <4>1
    <3>4. n \in DOMAIN graph /\ y # c /\ y \notin ns
      BY <1>2, <2>1, <3>1, <3>3
    <3>5. y \in Pre(graph, n)
      BY <1>6, <2>1, <3>4
    <3> QED
      BY <2>1, <3>1, <3>2, <3>4, <3>5
  <2> QED
    BY <1>2, <2>2, <2>3, <2>4
<1>10. ASSUME NEW i \in DOMAIN components PROVE Pre(graph', components[i]) = {}
  <2>1. components[i] \in Alive /\ Pre(graph, components[i]) = {}
    BY <1>2, <1>3 DEF Nested, Knots
  <2>2. components[i] \in DOMAIN graph /\ components[i] \notin ns
    BY <1>2, <1>5, <2>1 DEF Alive
  <2> QED
    BY <1>6, <2>1, <2>2
<1>11. ASSUME NEW x \in Whole' PROVE Knot(graph', pkgs'[x])
  <2>1. CASE x = c
    <3>1. Knot(graph, ns)
      BY <1>2, <1>3 DEF Knots
    <3>2. ASSUME NEW n \in ns PROVE Pre(graph', n) \intersect ns = Pre(graph, n) \intersect ns
      <4>1. n \in DOMAIN graph
        BY <1>2
      <4> QED
        BY <1>6, <4>1
    <3> QED
      BY <1>2, <2>1, <3>1, <3>2, KnotStays
  <2>2. CASE x \in Whole
    <3>1. x \in Alive /\ (components = <<>> \/ x # Head(components))
      BY <1>4, <2>2 DEF Whole
    <3>2. /\ pkgs'[x] = pkgs[x] /\ Knot(graph, pkgs[x])
          /\ \A n \in pkgs[x] : Pre(graph', n) = Pre(graph, n)
      BY <1>1, <1>2, <1>3, <2>2, <3>1, MergeOthers DEF Knots
    <3>3. \A n \in pkgs[x] : Pre(graph', n) \intersect pkgs[x] = Pre(graph, n) \intersect pkgs[x]
      BY <3>2
    <3> QED
      BY <3>2, <3>3, KnotStays
  <2> QED
    BY <1>2, <2>1, <2>2
<1>12. ASSUME NEW i \in DOMAIN sccs' PROVE Knot(graph', sccs'[i])
  <2>1. i + 1 \in DOMAIN sccs /\ i + 1 # 1 /\ sccs'[i] = sccs[i + 1]
    BY <1>2, <1>5
  <2>2. sccs'[i] \intersect ns = {} /\ sccs'[i] \subseteq DOMAIN graph /\ Knot(graph, sccs'[i])
    BY <1>2, <1>3, <1>5, <2>1 DEF Knots
  <2>3. ASSUME NEW n \in sccs'[i]
        PROVE  Pre(graph', n) \intersect sccs'[i] = Pre(graph, n) \intersect sccs'[i]
    <3>1. n \in DOMAIN graph /\ n \notin ns /\ c \notin sccs'[i]
      BY <1>2, <2>2
    <3> QED
      BY <1>6, <2>2, <3>1
  <2> QED
    BY <2>2, <2>3, KnotStays
<1>13. Knots'
  BY <1>2, <1>8, <1>9, <1>10, <1>11, <1>12 DEF Knots
<1>14. /\ ns \subseteq Level /\ Level \subseteq DOMAIN graph /\ Level' = (Level \ ns) \union {c}
       /\ components # <<>> => Outer' \subseteq Outer /\ \A n \in Outer' : Pre(graph', n) \subseteq Pre(graph, n)
  BY <1>1, <1>3, MergeLevel
<1>15. Layered(graph', sccs', Level')
  <2>1. Layered(graph, sccs, Level)
    BY <1>2, <1>3 DEF Layers, Merged, Pending
  <2>2. ns # {}
    BY <1>2, <1>3 DEF Knots, Knot
  <2>3. sccs \in Seq(SUBSET DOMAIN graph)
    BY <1>2, <1>5
  <2>4. \A n \in DOMAIN graph : Pre(graph, n) \subseteq DOMAIN graph
    BY <1>2 DEF Nodes
  <2>5. Layered(Merge(graph, c, Head(sccs)), Tail(sccs), (Level \ Head(sccs)) \union {c})
    BY <1>1, <1>2, <1>5, <1>14, <2>1, <2>2, <2>3, <2>4, MergeLayered
  <2> QED
    BY <1>1, <1>2, <1>14, <2>5
<1>16. components # <<>> => Layered(graph', <<>>, Outer')
  BY <1>3, <1>14, LayersShrink DEF Layers
<1>17. ASSUME NEW i \in DOMAIN components \ {1} PROVE Layered(graph', <<>>, pkgs'[components[i]])
  <2>1. components[i] \in Alive /\ components # <<>> /\ components[i] # Head(components)
    BY <1>2, <1>4 DEF Nested, IsInjective
  <2>2. /\ pkgs'[components[i]] = pkgs[components[i]]
        /\ \A n \in pkgs[components[i]] : Pre(graph', n) = Pre(graph, n)
    BY <1>1, <2>1, MergeOthers
  <2>3. Layered(graph, <<>>, pkgs[components[i]])
    BY <1>3 DEF Layers
  <2> QED
    BY <2>2, <2>3, LayersShrink
<1>18. Layers'
  <2>1. Pending' = sccs'
    BY <1>2 DEF Pending
  <2> QED
    BY <1>2, <1>15, <1>16, <1>17, <2>1 DEF Layers
<1> QED
  BY <1>13, <1>18 DEF ShapeInv

\* Where nothing requires anything of the rest any more, nothing is left.
LEMMA NothingLeft ==
    ASSUME GraphParts, Knots, Layers, stage = "collect", Leaves = {}
    PROVE  Level = {}
<1> SUFFICES ASSUME Level # {} PROVE FALSE
  OBVIOUS
<1>1. Layered(graph, <<>>, Level)
  BY DEF Layers, Merged, Pending
<1>2. Closed(Current) /\ (components = <<>> => Current = DOMAIN graph)
  BY CurrentIs
<1>3. Level \subseteq Current
  <2>1. Outer \subseteq DOMAIN graph
    BY OuterIs
  <2> QED
    BY <1>2, <2>1 DEF Level
<1>4. \A n \in Level : n \notin Pre(graph, n)
  BY <1>2, <1>3 DEF Knots, Closed
<1>5. PICK n \in Level : Pre(graph, n) \intersect Level = {}
  BY <1>1, <1>4, SourceOf
<1>6. PICK m \in Pre(graph, n) : TRUE
  BY <1>3, <1>5 DEF Leaves
<1>7. m \in Current /\ m \notin Level
  BY <1>2, <1>3, <1>5, <1>6 DEF Closed
<1>8. components = <<>>
  BY <1>7 DEF Level
<1>9. n \in Outer /\ m \in DOMAIN graph /\ m \notin Outer
  BY <1>2, <1>5, <1>7, <1>8 DEF Level
<1>10. PICK c \in Alive : m \in pkgs[c]
  BY <1>9, OuterIs
<1>11. n \in DOMAIN graph /\ n \notin pkgs[c]
  BY <1>9, OuterIs
<1> QED
  BY <1>6, <1>10, <1>11 DEF Knots

\* A node goes that is in no whole component: the rest keeps its shape.
LEMMA ShapeWithout ==
    ASSUME Knots, Nodes, Insides, stage' = "collect", NEW n \in DOMAIN graph,
           graph' = RemoveNode(graph, n), \A c \in Alive \ {n} : pkgs'[c] = pkgs[c] \ {n},
           \A c \in Whole : n \notin pkgs[c], Alive' = Alive \ {n}, Whole' \subseteq Whole,
           \A i \in DOMAIN components' : \E j \in DOMAIN components : components'[i] = components[j],
           \A i \in DOMAIN components' : components'[i] \in Alive',
           n \in Alive => pkgs[n] = {}
    PROVE  /\ Knots' /\ Outer' \subseteq Outer
           /\ \A m \in DOMAIN graph' : m \in DOMAIN graph /\ Pre(graph', m) \subseteq Pre(graph, m)
<1>1. DOMAIN graph' = DOMAIN graph \ {n}
  BY NodesLeft
<1>2. \A m \in DOMAIN graph' : m \in DOMAIN graph /\ Pre(graph', m) = Pre(graph, m) \ {n}
  BY <1>1, RemoveNodeIs
<1>3. \A m \in DOMAIN graph' : m \notin Pre(graph', m)
  BY <1>2 DEF Knots
<1>4. ASSUME NEW c \in Alive', NEW m \in DOMAIN graph', Pre(graph', m) \intersect pkgs'[c] # {}
      PROVE  m \in pkgs'[c]
  <2>1. pkgs'[c] = pkgs[c] \ {n} /\ c \in Alive /\ m # n
    BY <1>1
  <2>2. m \in pkgs[c]
    BY <1>2, <1>4, <2>1 DEF Knots
  <2> QED
    BY <2>1, <2>2
<1>5. ASSUME NEW i \in DOMAIN components' PROVE Pre(graph', components'[i]) = {}
  <2>1. components'[i] \in DOMAIN graph'
    BY DEF Alive
  <2>2. Pre(graph, components'[i]) = {}
    BY DEF Knots
  <2> QED
    BY <1>2, <2>1, <2>2
<1>6. ASSUME NEW c \in Whole' PROVE Knot(graph', pkgs'[c])
  <2>1. c \in Whole /\ c \in Alive'
    BY DEF Whole
  <2>2. pkgs'[c] = pkgs[c] /\ Knot(graph, pkgs[c]) /\ n \notin pkgs[c]
    <3>1. c \in Alive \ {n} /\ pkgs'[c] = pkgs[c] \ {n} /\ n \notin pkgs[c]
      BY <2>1
    <3>2. Knot(graph, pkgs[c])
      BY <2>1 DEF Knots
    <3> QED
      BY <3>1, <3>2
  <2>3. ASSUME NEW m \in pkgs[c] PROVE Pre(graph', m) \intersect pkgs[c] = Pre(graph, m) \intersect pkgs[c]
    <3>1. m \in DOMAIN graph'
      BY <1>1, <2>1, <2>2 DEF Insides, Closed, Whole
    <3> QED
      BY <1>2, <2>2, <3>1
  <2> QED
    BY <2>2, <2>3, KnotStays
<1>7. Knots'
  BY <1>3, <1>4, <1>5, <1>6 DEF Knots
<1>8. ASSUME NEW m \in Outer' PROVE m \in Outer
  <2>1. m \in DOMAIN graph' /\ \A c \in Alive' : m \notin pkgs'[c]
    BY OuterIs
  <2>2. m # n /\ m \in DOMAIN graph
    BY <1>1, <2>1
  <2>3. \A c \in Alive : m \notin pkgs[c]
    BY <2>1, <2>2
  <2> QED
    BY <2>2, <2>3, OuterIs
<1> QED
  BY <1>2, <1>7, <1>8

\* A package that goes, or a component that is broken up next, was in no cycle.
LEMMA CollectShape ==
    ASSUME GraphInv, ShapeInv, Collect
    PROVE  ShapeInv'
<1>1. stage = "collect" /\ GraphParts /\ Knots /\ Layers
  BY DEF Collect, GraphInv, GraphParts, Ordering, ShapeInv
<1>2. PICK n \in NextLeaves :
          IF IsComponent(n)
          THEN /\ components' = <<n>> \o components
               /\ stage' = "break"
               /\ UNCHANGED <<graph, order, pkgs>>
          ELSE /\ order' = order \o SetToSeq(n.of)
               /\ Collected(n)
               /\ UNCHANGED <<components, stage>>
  BY DEF Collect
<1>3. n \in Current /\ Pre(graph, n) = {} /\ n \in DOMAIN graph
  BY <1>1, <1>2, CurrentIs DEF NextLeaves, Leaves, Closed
<1>4. components \in Seq(Alive)
  BY <1>1 DEF GraphParts, Nested
<1>5. CASE IsComponent(n)
  <2>1. components' = <<n>> \o components /\ stage' = "break" /\ UNCHANGED <<graph, pkgs>>
    BY <1>2, <1>5
  <2>2. n \in Whole /\ n \in Alive
    BY <1>1, <1>3, <1>5, InnerIsWhole DEF Whole
  <2>3. /\ components' \in Seq(Alive) /\ Len(components') = Len(components) + 1 /\ components'[1] = n
        /\ \A i \in DOMAIN components : components'[i + 1] = components[i]
        /\ \A i \in DOMAIN components' \ {1} : i - 1 \in DOMAIN components /\ components'[i] = components[i - 1]
    BY <1>4, <2>1, <2>2, PushIs
  <2>4. components' # <<>> /\ Current' = pkgs[n]
    <3>1. components' # <<>> /\ Head(components') = n
      BY <2>3
    <3> QED
      BY <2>1, <3>1 DEF Current
  <2>5. Alive' = Alive /\ Whole' \subseteq Whole /\ Outer' = Outer
    <3>1. ASSUME NEW i \in DOMAIN components PROVE components[i] \in ToSet(components')
      <4>1. i + 1 \in DOMAIN components' /\ components'[i + 1] = components[i]
        BY <1>4, <2>3
      <4> QED
        BY <4>1 DEF ToSet
    <3>2. ToSet(components) \subseteq ToSet(components')
      BY <3>1 DEF ToSet
    <3> QED
      BY <2>1, <3>2 DEF Alive, Whole, Outer
  <2>6. \A m : Pre(graph', m) = Pre(graph, m)
    BY <2>1 DEF Pre
  <2>7. \A i \in DOMAIN components' : Pre(graph', components'[i]) = {}
    BY <1>1, <1>3, <2>3, <2>6 DEF Knots
  <2>8. Knot(graph', Current')
    BY <1>1, <2>1, <2>2, <2>4 DEF Knots
  <2>9. Knots'
    <3>1. \A c \in Whole' : Knot(graph', pkgs'[c])
      BY <1>1, <2>1, <2>5 DEF Knots
    <3>2. \A m \in DOMAIN graph' : m \notin Pre(graph', m)
      BY <1>1, <2>1, <2>6 DEF Knots
    <3>3. \A c \in Alive' : \A m \in DOMAIN graph' : Pre(graph', m) \intersect pkgs'[c] # {} => m \in pkgs'[c]
      BY <1>1, <2>1, <2>5, <2>6 DEF Knots
    <3> QED
      BY <2>1, <2>7, <2>8, <3>1, <3>2, <3>3 DEF Knots
  <2>10. Layered(graph, <<>>, Level) /\ Level = IF components = <<>> THEN Outer ELSE Current
    BY <1>1 DEF Layers, Merged, Pending, Level
  <2>11. Layered(graph', <<>>, Outer')
    BY <1>1, <2>1, <2>5, <2>10 DEF Layers
  <2>12. ASSUME NEW i \in DOMAIN components' \ {1} PROVE Layered(graph', <<>>, pkgs'[components'[i]])
    <3>1. i - 1 \in DOMAIN components /\ components'[i] = components[i - 1] /\ components # <<>>
      BY <2>3
    <3>2. CASE i - 1 = 1
      <4>1. Current = pkgs[components[1]]
        BY <1>1, <3>1, CurrentIs
      <4> QED
        BY <2>1, <2>10, <3>1, <3>2, <4>1
    <3>3. CASE i - 1 # 1
      BY <1>1, <2>1, <3>1, <3>3 DEF Layers
    <3> QED
      BY <3>2, <3>3
  <2>13. Layers'
    BY <2>1, <2>11, <2>12 DEF Layers, Merged
  <2> QED
    BY <2>9, <2>13 DEF ShapeInv
<1>6. CASE ~IsComponent(n)
  <2>1. graph' = RemoveNode(graph, n) /\ components' = components /\ stage' = "collect" /\ Collected(n)
    BY <1>1, <1>2, <1>6 DEF Collected
  <2>2. /\ \A c \in Alive : pkgs'[c] = pkgs[c] \ {n}
        /\ \A c \in Whole : n \notin pkgs[c]
        /\ Alive' = Alive /\ Whole' = Whole /\ n \notin Alive
    BY <1>1, <1>3, <1>6, <2>1, PackageGoes
  <2>3. \A i \in DOMAIN components' : components'[i] = components[i] /\ components'[i] \in Alive'
    BY <1>4, <2>1, <2>2
  <2>4. /\ Knots' /\ Outer' \subseteq Outer
        /\ \A m \in DOMAIN graph' : m \in DOMAIN graph /\ Pre(graph', m) \subseteq Pre(graph, m)
    BY <1>1, <1>3, <2>1, <2>2, <2>3, ShapeWithout DEF GraphParts
  <2>5. ASSUME NEW c \in Alive, Layered(graph, <<>>, pkgs[c]) PROVE Layered(graph', <<>>, pkgs'[c])
    <3>1. pkgs'[c] \subseteq pkgs[c] /\ pkgs'[c] \subseteq DOMAIN graph'
      <4>1. Insides'
        BY <1>1, <1>3, <1>6, <2>1, PackageGoes
      <4> QED
        BY <2>2, <4>1 DEF Insides, Closed
    <3> QED
      BY <2>4, <2>5, <3>1, LayersShrink
  <2>6. Layered(graph, <<>>, Outer) => Layered(graph', <<>>, Outer')
    <3>1. Outer' \subseteq DOMAIN graph'
      BY OuterIs
    <3> QED
      BY <2>4, <3>1, LayersShrink
  <2>7. Layered(graph', <<>>, Level')
    <3>1. Layered(graph, <<>>, Level)
      BY <1>1 DEF Layers, Merged, Pending
    <3>2. CASE components = <<>>
      BY <2>1, <2>6, <3>1, <3>2 DEF Level
    <3>3. CASE components # <<>>
      <4>1. Level = pkgs[Head(components)] /\ Level' = pkgs'[Head(components)] /\ Head(components) \in Alive
        BY <1>1, <2>1, <3>3, CurrentIs DEF Level, Current
      <4> QED
        BY <2>5, <3>1, <4>1
    <3> QED
      BY <3>2, <3>3
  <2>8. Layers'
    BY <1>1, <1>4, <2>1, <2>5, <2>6, <2>7 DEF Layers, Pending
  <2> QED
    BY <2>4, <2>8 DEF ShapeInv
<1> QED
  BY <1>5, <1>6

\* A component that is broken up leaves a graph without cycles around it.
LEMMA BrokenUpShape ==
    ASSUME GraphInv, ShapeInv, BrokenUp
    PROVE  ShapeInv'
<1> DEFINE n == Head(components)
<1>1. n = Head(components)
  OBVIOUS
<1> HIDE DEF n
<1>2. /\ stage = "collect" /\ stage' = "collect" /\ GraphParts /\ components # <<>>
      /\ graph' = RemoveNode(graph, n)
      /\ 1 \in DOMAIN components /\ n = components[1] /\ n \in Alive /\ n \in DOMAIN graph
      /\ \A i \in DOMAIN components' : i + 1 \in DOMAIN components \ {1} /\ components'[i] = components[i + 1]
      /\ components' \in Seq(Alive \ {n})
      /\ \A c \in Alive \ {n} : pkgs'[c] = pkgs[c] \ {n}
      /\ \A c \in Whole : n \notin pkgs[c]
      /\ Insides' /\ Alive' = Alive \ {n} /\ Whole' \subseteq Whole
  BY <1>1, ComponentGoes
<1>3. Knots /\ Layers /\ Leaves = {}
  BY <1>2 DEF ShapeInv, Ordering, BrokenUp
<1>4. pkgs[n] = {}
  <2>1. Level = {}
    BY <1>2, <1>3, NothingLeft
  <2> QED
    BY <1>1, <1>2, <2>1 DEF Level, Current
<1>5. \A i \in DOMAIN components' : components'[i] \in Alive' /\ \E j \in DOMAIN components : components'[i] = components[j]
  BY <1>2
<1>6. /\ Knots' /\ Outer' \subseteq Outer
      /\ \A m \in DOMAIN graph' : m \in DOMAIN graph /\ Pre(graph', m) \subseteq Pre(graph, m)
  BY <1>2, <1>3, <1>4, <1>5, ShapeWithout DEF GraphParts
<1>7. Layered(graph', <<>>, Outer')
  <2>1. Outer' \subseteq DOMAIN graph'
    BY OuterIs
  <2>2. Layered(graph, <<>>, Outer)
    BY <1>2, <1>3 DEF Layers
  <2> QED
    BY <1>6, <2>1, <2>2, LayersShrink
<1>8. ASSUME NEW i \in DOMAIN components' PROVE Layered(graph', <<>>, pkgs'[components'[i]])
  <2>1. /\ i + 1 \in DOMAIN components \ {1} /\ components'[i] = components[i + 1] /\ components'[i] \in Alive \ {n}
    BY <1>2
  <2>2. pkgs'[components'[i]] \subseteq pkgs[components'[i]] /\ pkgs'[components'[i]] \subseteq DOMAIN graph'
    BY <1>2, <2>1 DEF Insides, Closed
  <2>3. Layered(graph, <<>>, pkgs[components'[i]])
    BY <1>3, <2>1 DEF Layers
  <2> QED
    BY <1>6, <2>2, <2>3, LayersShrink
<1>9. Layered(graph', <<>>, Level')
  <2>1. CASE components' = <<>>
    BY <1>2, <1>7, <2>1 DEF Level
  <2>2. CASE components' # <<>>
    <3>1. 1 \in DOMAIN components' /\ Head(components') = components'[1]
      BY <1>2, <2>2
    <3>2. Level' = pkgs'[components'[1]]
      BY <1>2, <2>2, <3>1 DEF Level, Current
    <3> QED
      BY <1>8, <3>1, <3>2
  <2> QED
    BY <2>1, <2>2
<1>10. Layers'
  BY <1>2, <1>7, <1>8, <1>9 DEF Layers, Pending
<1> QED
  BY <1>6, <1>10 DEF ShapeInv

\* A relation that goes leaves what is outside the component as it was.
LEMMA BreakShape ==
    ASSUME GraphInv, ShapeInv, Break
    PROVE  ShapeInv'
<1>1. /\ stage = "break" /\ components' = components /\ pkgs' = pkgs /\ GraphParts
      /\ stage' = "raised" \/
            /\ stage' = "detect"
            /\ \E n \in Current : \E m \in Pre(graph, n) : graph' = RemoveRelation(graph, n, m)
  BY BreakIs
<1>2. CASE stage' = "raised"
  BY <1>2 DEF ShapeInv, Ordering
<1>3. CASE stage' # "raised"
  <2>1. PICK n \in Current : \E m \in Pre(graph, n) : graph' = RemoveRelation(graph, n, m)
    BY <1>1, <1>3
  <2>2. PICK m \in Pre(graph, n) : graph' = RemoveRelation(graph, n, m)
    BY <2>1
  <2>3. /\ Knots /\ Layers /\ stage' = "detect" /\ components # <<>> /\ Closed(Current) /\ n \in DOMAIN graph
        /\ Head(components) \in Alive /\ Current = pkgs[Head(components)] /\ Head(components) \notin Whole
    <3>1. Knots /\ Layers /\ stage' = "detect" /\ Ahead
      BY <1>1, <1>3 DEF ShapeInv, Ordering, GraphInv
    <3>2. components # <<>>
      BY <1>1, <3>1 DEF Ahead
    <3> QED
      BY <1>1, <3>1, <3>2, CurrentIs DEF Closed
  <2>4. DOMAIN graph' = DOMAIN graph /\ Pre(graph', n) = Pre(graph, n) \ {m}
    BY <2>2, <2>3, RemoveRelationIs
  <2>5. \A x \in DOMAIN graph \ {n} : Pre(graph', x) = Pre(graph, x)
    BY <2>2, <2>3, OthersKeep
  <2>6. \A x \in DOMAIN graph : Pre(graph', x) \subseteq Pre(graph, x)
    BY <2>4, <2>5
  <2>7. Alive' = Alive /\ Whole' = Whole /\ Outer' = Outer /\ Current' = Current
    BY <1>1, <2>3, <2>4 DEF Alive, Whole, Outer, Bare, Current
  <2>8. ASSUME NEW c \in Whole PROVE Knot(graph', pkgs'[c])
    <3>1. pkgs'[c] = pkgs[c] /\ Knot(graph, pkgs[c]) /\ c \in Alive
      BY <1>1, <2>3 DEF Knots, Whole
    <3>2. pkgs[Head(components)] \intersect pkgs[c] = {} /\ pkgs[c] \subseteq DOMAIN graph
      BY <1>1, <2>3, <3>1 DEF GraphParts, Insides, Closed
    <3>3. ASSUME NEW x \in pkgs[c] PROVE Pre(graph', x) \intersect pkgs[c] = Pre(graph, x) \intersect pkgs[c]
      <4>1. x \in DOMAIN graph \ {n}
        BY <2>3, <3>2
      <4> QED
        BY <2>5, <4>1
    <3> QED
      BY <3>1, <3>3, KnotStays
  <2>9. \A i \in DOMAIN components : components[i] \in DOMAIN graph
    BY <1>1 DEF GraphParts, Nested, Alive
  <2>10. Knots'
    <3>1. \A x \in DOMAIN graph' : x \notin Pre(graph', x)
      BY <2>3, <2>4, <2>6 DEF Knots
    <3>2. \A c \in Alive' : \A x \in DOMAIN graph' : Pre(graph', x) \intersect pkgs'[c] # {} => x \in pkgs'[c]
      BY <1>1, <2>3, <2>4, <2>6, <2>7 DEF Knots
    <3>3. \A i \in DOMAIN components' : Pre(graph', components'[i]) = {}
      BY <1>1, <2>3, <2>6, <2>9 DEF Knots
    <3> QED
      BY <2>3, <2>7, <2>8, <3>1, <3>2, <3>3 DEF Knots
  <2>11. Layers'
    <3>1. ASSUME NEW L \in SUBSET DOMAIN graph, Layered(graph, <<>>, L) PROVE Layered(graph', <<>>, L)
      BY <2>6, <3>1, LayersShrink
    <3>2. Layered(graph', <<>>, Outer')
      <4>1. Outer \subseteq DOMAIN graph /\ Layered(graph, <<>>, Outer)
        BY <2>3, OuterIs DEF Layers
      <4> QED
        BY <2>7, <3>1, <4>1
    <3>3. ASSUME NEW i \in DOMAIN components' \ {1} PROVE Layered(graph', <<>>, pkgs'[components'[i]])
      <4>1. components[i] \in Alive /\ Layered(graph, <<>>, pkgs[components[i]])
        BY <1>1, <2>3 DEF GraphParts, Nested, Layers
      <4>2. pkgs[components[i]] \subseteq DOMAIN graph
        BY <1>1, <4>1 DEF GraphParts, Insides, Closed
      <4> QED
        BY <1>1, <3>1, <4>1, <4>2
    <3> QED
      BY <2>3, <3>2, <3>3 DEF Layers, Merged
  <2> QED
    BY <2>10, <2>11 DEF ShapeInv
<1> QED
  BY <1>2, <1>3

\* All nodes of a component that is broken up are near a hard requirement, or none is.
LEMMA AllAreNear ==
    ASSUME Closed(Current), IsFiniteSet(Current), Knot(graph, Current), DOMAIN Weights # {}
    PROVE  DOMAIN Weights = Current
<1> DEFINE N == Cardinality(Current)
<1>1. DOMAIN Weights = Near[N]
  BY DEF Weights
<1>2. HardTargets \subseteq Near[N] /\ Near[N] \subseteq Current /\ SoftTargets(Near[N]) \subseteq Near[N]
  BY NearEnds
<1>3. ASSUME NEW n \in Near[N], NEW m \in Pre(graph, n) PROVE m \in Near[N]
  <2>1. n \in Current /\ m \in DOMAIN graph
    BY <1>2 DEF Closed
  <2>2. CASE graph[n][m]
    <3>1. m \in HardTargets
      BY <2>1, <2>2 DEF HardTargets
    <3> QED
      BY <1>2, <3>1
  <2>3. CASE ~graph[n][m]
    <3>1. m \in SoftTargets(Near[N])
      BY <1>3, <2>3 DEF SoftTargets
    <3> QED
      BY <1>2, <3>1
  <2> QED
    BY <2>2, <2>3
<1> HIDE DEF N
<1>4. \A n \in Near[N] : Pre(graph, n) \intersect Current \subseteq Near[N]
  BY <1>3
<1>5. Near[N] # {}
  BY <1>1
<1> QED
  BY <1>1, <1>2, <1>4, <1>5 DEF Knot

\* Every node that requires one of the component that is broken up has a weight.
LEMMA NeverRaised ==
    ASSUME GraphInv, ShapeInv, Break
    PROVE  stage' = "detect"
<1>1. stage = "break" /\ GraphParts /\ Ahead /\ Knots /\ components # <<>>
  BY DEF Break, GraphInv, GraphParts, Ordering, ShapeInv, Ahead
<1>2. /\ Closed(Current) /\ IsFiniteSet(Current) /\ Knot(graph, Current)
      /\ Head(components) \in Alive /\ Current = pkgs[Head(components)]
  BY <1>1, CurrentIs DEF Knots
<1>3. CASE DOMAIN Weights = {}
  BY <1>3 DEF Break, BreakFreeing
<1>4. CASE DOMAIN Weights # {}
  <2>1. DOMAIN Weights = Current
    BY <1>2, <1>4, AllAreNear
  <2>2. ASSUME NEW m \in DOMAIN Weights PROVE Post(graph, m) \subseteq DOMAIN Weights
    BY <1>1, <1>2, <2>1 DEF Knots, Post, Pre
  <2>3. \A m \in Farthest(Weights, DOMAIN Weights) : Post(graph, m) \subseteq DOMAIN Weights
    BY <2>2 DEF Farthest
  <2> QED
    BY <1>4, <2>3 DEF Break, BreakFar
<1> QED
  BY <1>3, <1>4

\* breakUp() finds a weight for every node it asks about: no KeyError.
NotRaised == stage # "raised"

LEMMA ShapeStarts == Init => ShapeInv /\ NotRaised
BY DEF Init, ShapeInv, Ordering, NotRaised

LEMMA ShapeKeeps ==
    ASSUME IInv, ShapeInv, Next
    PROVE  ShapeInv'
<1>1. CASE Start
  BY <1>1, StartShape DEF IInv
<1>2. CASE Ordered \/ Emit
  <2>1. stage' = "idle"
    BY <1>2 DEF Ordered, Emit
  <2> QED
    BY <2>1 DEF ShapeInv, Ordering
<1>3. CASE Detect \/ Root \/ Arc \/ Up \/ AllMerged \/ AllCollected
  BY <1>3, SearchingShape DEF IInv
<1>4. CASE Found \/ MergeNext
  BY <1>4, FoundShape, MergeShape DEF IInv
<1>5. CASE Collect \/ BrokenUp \/ Break
  BY <1>5, CollectShape, BrokenUpShape, BreakShape DEF IInv
<1> QED
  BY <1>1, <1>2, <1>3, <1>4, <1>5 DEF Next

-----------------------------------------------------------------------------
(* The order of one list of packages.                                      *)

\* The list of packages that is ordered, with its operation.
Job == <<queue[1].op, queue[1].of>>

\* What is in a component is inside it until it is in the order.
Contents ==
    /\ \A c \in Whole : \A p \in c.of : Single(p) \in pkgs[c]
    /\ \A c \in Alive : \A p \in c.of \ ToSet(order) : \E n \in pkgs[c] : p \in n.of
    /\ \A p \in queue[1].of : p \in ToSet(order) <=> Single(p) \notin DOMAIN graph

\* The relations between packages are requirements.
ArcsAreRequirements ==
    \A p, q \in queue[1].of :
        Single(p) \in DOMAIN graph /\ Single(q) \in Pre(graph, Single(p)) =>
            /\ <<p, q>> \in Requires(Job)
            /\ (graph[Single(p)][Single(q)] <=> <<p, q>> \in HardRequires(Job))

\* A requirement that need not be kept: each requires the other in the end.
Excused(job, r) ==
    LET reach == Reach(Requires(job), job[2])
        hard == Reach(HardRequires(job), job[2])
    IN  /\ r[1] \in reach[r[2]]
        /\ r \in HardRequires(job) => \E p \in reach[r[1]] : r[1] \in reach[p] /\ p \in hard[p]

\* p is in the sequence, before q wherever q is.
First(s, p, q) == p \in ToSet(s) /\ \A i, j \in DOMAIN s : s[i] = p /\ s[j] = q => i < j

\* p is behind q in the graph.
Linked(p, q) ==
    /\ p \notin ToSet(order) /\ q \notin ToSet(order)
    /\ \E n \in DOMAIN graph : \E m \in Pre(graph, n) :
          p \in n.of /\ q \in m.of /\ p \notin m.of /\ q \notin n.of

\* Each requirement is kept by the order so far, need not be kept, or is in the graph.
Paired == \A r \in Requires(Job) : First(order, r[2], r[1]) \/ Excused(Job, r) \/ Linked(r[1], r[2])

\* Part of the inductive invariant: what the order so far and the graph together keep.
OrderInv ==
    /\ Ordering => Contents /\ ArcsAreRequirements
    /\ Ordering \/ stage = "ordered" => IsInjective(order) /\ Paired
    /\ stage = "ordered" => queue[1].of \subseteq ToSet(order)

-----------------------------------------------------------------------------
(* What can be reached.                                                    *)

LEMMA ReachInside ==
    ASSUME NEW R, NEW S, NEW x \in S, NEW y \in Reach(R, S)[x]
    PROVE  y \in S
BY DEF Reach

LEMMA ReachFirst ==
    ASSUME NEW R, NEW S, NEW x \in S, NEW y \in S, <<x, y>> \in R
    PROVE  y \in Reach(R, S)[x]
BY DEF Reach

LEMMA ReachOn ==
    ASSUME NEW R, NEW S, NEW x \in S, NEW y \in Reach(R, S)[x], NEW z \in S, <<y, z>> \in R
    PROVE  z \in Reach(R, S)[x]
BY DEF Reach

LEMMA ReachJoin ==
    ASSUME NEW R, NEW S, NEW x \in S, NEW y \in Reach(R, S)[x], NEW z \in Reach(R, S)[y]
    PROVE  z \in Reach(R, S)[x]
BY DEF Reach

-----------------------------------------------------------------------------
(* Nodes and packages.                                                     *)

LEMMA SingleIs ==
    ASSUME NEW p
    PROVE  /\ Single(p).of = {p} /\ ~IsComponent(Single(p))
           /\ \A q : Single(q) = Single(p) => q = p
BY DEF Single, IsComponent

\* A node that is no component is a package of the list, and only that.
LEMMA PackageIs ==
    ASSUME QueueInv, Ordering, NEW n \in DOMAIN graph, ~IsComponent(n)
    PROVE  \E p \in queue[1].of : n = Single(p) /\ n.of = {p}
BY SingleIs DEF QueueInv

\* A component that requires something is whole, so its packages are inside it.
LEMMA InsideIt ==
    ASSUME Knots, Contents, NEW n \in DOMAIN graph, IsComponent(n), Pre(graph, n) # {}, NEW p \in n.of
    PROVE  n \in Whole /\ Single(p) \in pkgs[n]
<1>1. n \in Alive
  BY DEF Alive
<1>2. n \notin ToSet(components)
  BY DEF Knots, ToSet
<1> QED
  BY <1>1, <1>2 DEF Whole, Contents

\* Relations that were there before are requirements still.
LEMMA ArcsStay ==
    ASSUME ArcsAreRequirements, UNCHANGED <<requires, queue>>,
           \A p, q \in queue[1].of :
              Single(p) \in DOMAIN graph' /\ Single(q) \in Pre(graph', Single(p)) =>
                  /\ Single(p) \in DOMAIN graph /\ Single(q) \in Pre(graph, Single(p))
                  /\ graph'[Single(p)][Single(q)] = graph[Single(p)][Single(q)]
    PROVE  ArcsAreRequirements'
<1>1. Job' = Job /\ Requires(Job)' = Requires(Job) /\ HardRequires(Job)' = HardRequires(Job)
  BY DEF Job, Requires, HardRequires
<1> SUFFICES ASSUME NEW p \in queue[1].of, NEW q \in queue[1].of,
                    Single(p) \in DOMAIN graph', Single(q) \in Pre(graph', Single(p))
             PROVE  /\ <<p, q>> \in Requires(Job)'
                    /\ (graph'[Single(p)][Single(q)] <=> <<p, q>> \in HardRequires(Job)')
  BY DEF ArcsAreRequirements
<1>2. /\ Single(p) \in DOMAIN graph /\ Single(q) \in Pre(graph, Single(p))
      /\ graph'[Single(p)][Single(q)] = graph[Single(p)][Single(q)]
  OBVIOUS
<1>3. /\ <<p, q>> \in Requires(Job)
      /\ (graph[Single(p)][Single(q)] <=> <<p, q>> \in HardRequires(Job))
  BY <1>2 DEF ArcsAreRequirements
<1> QED
  BY <1>1, <1>2, <1>3

\* The order and the list are as they were, and what was behind something still is.
LEMMA PairedStays ==
    ASSUME Paired, UNCHANGED <<requires, queue, order>>,
           \A r \in Requires(Job) : Linked(r[1], r[2]) => Linked(r[1], r[2])' \/ Excused(Job, r)
    PROVE  Paired'
<1>1. Job' = Job /\ Requires(Job)' = Requires(Job) /\ HardRequires(Job)' = HardRequires(Job)
  BY DEF Job, Requires, HardRequires
<1>2. \A r : Excused(Job, r)' = Excused(Job, r)
  BY <1>1 DEF Excused, Reach
<1> QED
  BY <1>1, <1>2 DEF Paired

\* Where neither order nor graph change, nothing is lost.
LEMMA SameOrder ==
    ASSUME OrderInv, Ordering, Ordering', UNCHANGED <<requires, queue, order, graph, components, pkgs>>
    PROVE  OrderInv'
<1>1. Alive' = Alive /\ Whole' = Whole /\ \A n : Pre(graph', n) = Pre(graph, n)
  BY SameShape
<1>2. Contents'
  BY <1>1 DEF OrderInv, Contents
<1>3. ArcsAreRequirements'
  BY ArcsStay DEF OrderInv, Pre
<1>4. Paired'
  <2>1. \A p, q : Linked(p, q)' = Linked(p, q)
    BY DEF Linked, Pre
  <2> QED
    BY <2>1, PairedStays DEF OrderInv
<1> QED
  BY <1>2, <1>3, <1>4 DEF OrderInv, Ordering

\* An order begins with the packages of the list, each linked to what it requires.
LEMMA StartOrder ==
    ASSUME QueueInv, GraphInv, Start
    PROVE  OrderInv'
<1> DEFINE op == queue[1].op
           ps == queue[1].of
<1>1. CASE Cardinality(Head(queue).of) <= 1
  <2>1. stage' = "idle"
    BY <1>1 DEF Start
  <2> QED
    BY <2>1 DEF OrderInv, Ordering
<1>2. CASE ~(Cardinality(Head(queue).of) <= 1)
  <2>1. /\ stage' = "detect" /\ components' = <<>> /\ queue' = queue /\ requires' = requires /\ order' = <<>>
        /\ queue # <<>> /\ Head(queue).do = "order"
        /\ graph' = GenRelations(Head(queue).of, Head(queue).op)
    BY <1>2 DEF Start, GraphInv
  <2>2. /\ 1 \in DOMAIN queue /\ op \in {"install", "erase"} /\ IsFiniteSet(ps)
        /\ graph' = GenRelations(ps, op)
    <3>1. /\ Head(queue) = queue[1] /\ 1 \in DOMAIN queue /\ IsFiniteSet(Head(queue).of)
          /\ Head(queue).op \in {"install", "erase"}
      BY <2>1, HeadIs DEF QueueInv
    <3> QED
      BY <2>1, <3>1
  <2> HIDE DEF op, ps
  <2>3. DOMAIN graph' = {Single(p) : p \in ps}
    BY <2>2, RelationsAre
  <2>4. \A n \in DOMAIN graph' : ~IsComponent(n)
    BY <2>3, SingleIs
  <2>5. Alive' = {} /\ Whole' = {}
    BY <2>4 DEF Alive, Whole
  <2>6. ToSet(order') = {}
    BY <2>1 DEF ToSet
  <2>7. Contents'
    BY <2>1, <2>3, <2>5, <2>6 DEF Contents, ps
  <2>8. ASSUME NEW p \in ps, NEW q
        PROVE  /\ Single(q) \in Pre(graph', Single(p)) <=> <<p, q>> \in Requires(<<op, ps>>)
               /\ Single(q) \in Pre(graph', Single(p)) =>
                     (graph'[Single(p)][Single(q)] <=> <<p, q>> \in HardRequires(<<op, ps>>))
    BY <2>2, RelationIs
  <2>9. Job' = <<op, ps>> /\ Requires(Job)' = Requires(<<op, ps>>) /\ HardRequires(Job)' = HardRequires(<<op, ps>>)
    BY <2>1 DEF Job, Requires, HardRequires, op, ps
  <2>10. ArcsAreRequirements'
    <3>1. queue'[1].of = ps
      BY <2>1 DEF ps
    <3> QED
      BY <2>8, <2>9, <3>1 DEF ArcsAreRequirements
  <2>11. Paired'
    <3> SUFFICES ASSUME NEW r \in Requires(<<op, ps>>)
                 PROVE  Linked(r[1], r[2])'
      BY <2>9 DEF Paired
    <3>1. r[1] \in ps /\ r[2] \in ps /\ r[1] # r[2] /\ r = <<r[1], r[2]>>
      BY DEF Requires
    <3>2. Single(r[2]) \in Pre(graph', Single(r[1])) /\ Single(r[1]) \in DOMAIN graph'
      BY <2>3, <2>8, <3>1
    <3>3. r[1] \in Single(r[1]).of /\ r[2] \in Single(r[2]).of /\ r[1] \notin Single(r[2]).of /\ r[2] \notin Single(r[1]).of
      BY <3>1, SingleIs
    <3> QED
      BY <2>6, <3>2, <3>3 DEF Linked
  <2>12. IsInjective(order')
    BY <2>1 DEF IsInjective
  <2> QED
    BY <2>1, <2>7, <2>10, <2>11, <2>12 DEF OrderInv
<1> QED
  BY <1>1, <1>2

\* What is inside the new component.
LEMMA NewContents ==
    ASSUME QueueInv, GraphInv, MergeNext, NEW ns, ns = Head(sccs), NEW c, c = Component(ns), NEW p
    PROVE  p \in c.of <=> Single(p) \in ns
<1>1. ns \subseteq DOMAIN graph /\ 1 \in DOMAIN sccs /\ ns = sccs[1] /\ Ahead /\ stage = "merge"
  BY MergeStep
<1>2. \A n \in ns : ~IsComponent(n)
  BY <1>1 DEF Ahead
<1>3. \A n \in ns : \E q \in queue[1].of : n = Single(q) /\ n.of = {q}
  BY <1>1, <1>2, PackageIs DEF Ordering
<1>4. p \in c.of <=> \E n \in ns : p \in n.of
  BY DEF Component
<1>5. Single(p).of = {p}
  BY SingleIs
<1> QED
  BY <1>3, <1>4, <1>5

\* Between packages no relation becomes harder or softer when a component is merged.
LEMMA MergeValues ==
    ASSUME NEW g, NEW c, NEW ns, NEW h, h = Merge(g, c, ns), c \notin DOMAIN g,
           NEW n \in DOMAIN g, NEW m \in Pre(h, n), m # c
    PROVE  h[n][m] = g[n][m]
<1>1. n # c
  OBVIOUS
<1>2. h[n] = MergedNode(g, c, ns, n)
  BY MergeIs
<1> QED
  BY <1>1, <1>2 DEF MergedNode, Pre

\* What was behind something still is when a component has become a node.
LEMMA MergeLinked ==
    ASSUME QueueInv, GraphInv, ShapeInv, Contents, MergeNext, NEW p, NEW q, Linked(p, q)
    PROVE  Linked(p, q)'
<1> DEFINE ns == Head(sccs)
           c == Component(ns)
<1>1. ns = Head(sccs) /\ c = Component(ns)
  OBVIOUS
<1> HIDE DEF ns, c
<1>2. /\ stage = "merge" /\ components' = components /\ GraphParts /\ Ahead /\ Knots
      /\ 1 \in DOMAIN sccs /\ ns = sccs[1] /\ ns \subseteq Current /\ Current \subseteq DOMAIN graph
      /\ Closed(Current)
      /\ c \notin DOMAIN graph /\ DOMAIN graph' = DOMAIN graph \union {c}
      /\ \A x \in Whole : pkgs[x] \intersect ns = {}
  <2>1. /\ stage = "merge" /\ components' = components /\ GraphParts /\ Ahead
        /\ 1 \in DOMAIN sccs /\ ns = sccs[1] /\ ns \subseteq Current /\ Current \subseteq DOMAIN graph
        /\ Closed(Current)
        /\ c \notin DOMAIN graph /\ DOMAIN graph' = DOMAIN graph \union {c}
    BY <1>1, MergeStep
  <2> QED
    BY <2>1 DEF Ahead, ShapeInv, Ordering
<1>3. order' = order
  BY DEF MergeNext
<1>4. PICK n \in DOMAIN graph : \E m \in Pre(graph, n) :
          p \in n.of /\ q \in m.of /\ p \notin m.of /\ q \notin n.of
  BY DEF Linked
<1>5. PICK m \in Pre(graph, n) : p \in n.of /\ q \in m.of /\ p \notin m.of /\ q \notin n.of
  BY <1>4
<1>6. /\ n \in ns => Pre(graph', n) = Pre(graph, n) \intersect ns
      /\ n \notin ns /\ Pre(graph, n) \intersect ns = {} => Pre(graph', n) = Pre(graph, n)
      /\ n \notin ns /\ Pre(graph, n) \intersect ns # {} => Pre(graph', n) = (Pre(graph, n) \ ns) \union {c}
      /\ Pre(graph', c) = Outside(graph, ns)
      /\ Pre(graph, n) \subseteq DOMAIN graph
  BY <1>1, MergePre
<1>7. /\ p \in c.of <=> Single(p) \in ns
      /\ q \in c.of <=> Single(q) \in ns
  BY <1>1, NewContents
<1>8. \A x \in DOMAIN graph : ~IsComponent(x) => \A y \in x.of : x = Single(y)
  BY <1>2, PackageIs DEF Ordering
<1>9. n \in DOMAIN graph' /\ c \in DOMAIN graph' /\ p \notin ToSet(order') /\ q \notin ToSet(order')
  BY <1>2, <1>3 DEF Linked
<1>10. \A x \in ns : ~IsComponent(x) /\ x \in DOMAIN graph
  BY <1>2 DEF Ahead
<1>11. CASE n \in ns <=> m \in ns
  <2>1. m \in Pre(graph', n)
    BY <1>6, <1>11
  <2> QED
    BY <1>5, <1>9, <2>1 DEF Linked
<1>12. CASE n \notin ns /\ m \in ns
  <2>1. c \in Pre(graph', n)
    BY <1>6, <1>12
  <2>2. q \in c.of
    <3>1. m = Single(q)
      BY <1>5, <1>8, <1>10, <1>12
    <3> QED
      BY <1>7, <1>12, <3>1
  <2>3. ASSUME p \in c.of PROVE FALSE
    <3>1. Single(p) \in ns /\ n # Single(p)
      BY <1>7, <1>12, <2>3
    <3>2. IsComponent(n)
      BY <1>5, <1>8, <3>1
    <3>3. n \in Whole /\ Single(p) \in pkgs[n]
      BY <1>2, <1>5, <3>2, InsideIt
    <3> QED
      BY <1>2, <3>1, <3>3
  <2> QED
    BY <1>5, <1>9, <2>1, <2>2, <2>3 DEF Linked
<1>13. CASE n \in ns /\ m \notin ns
  <2>1. m \in Pre(graph', c)
    <3>1. m \in Outside(graph, ns)
      BY <1>5, <1>13, OutsideIs
    <3> QED
      BY <1>6, <3>1
  <2>2. p \in c.of
    <3>1. n = Single(p)
      BY <1>5, <1>8, <1>10, <1>13
    <3> QED
      BY <1>7, <1>13, <3>1
  <2>3. ASSUME q \in c.of PROVE FALSE
    <3>1. Single(q) \in ns /\ m # Single(q) /\ m \in DOMAIN graph
      BY <1>6, <1>7, <1>13, <2>3
    <3>2. IsComponent(m)
      BY <1>5, <1>8, <3>1
    <3>3. m \in Current
      BY <1>2, <1>5, <1>13 DEF Closed
    <3>4. m \in Whole
      BY <1>2, <3>2, <3>3, InnerIsWhole
    <3>5. Single(q) \in pkgs[m]
      BY <1>5, <3>4 DEF Contents
    <3> QED
      BY <1>2, <3>1, <3>4, <3>5
  <2> QED
    BY <1>5, <1>9, <2>1, <2>2, <2>3 DEF Linked
<1> QED
  BY <1>11, <1>12, <1>13

\* A component has all its packages inside it from the start.
LEMMA MergeContents ==
    ASSUME QueueInv, GraphInv, Contents, MergeNext
    PROVE  Contents'
<1> DEFINE ns == Head(sccs)
           c == Component(ns)
<1>1. ns = Head(sccs) /\ c = Component(ns)
  OBVIOUS
<1> HIDE DEF ns, c
<1>2. /\ stage = "merge" /\ components' = components /\ GraphParts /\ Ahead
      /\ 1 \in DOMAIN sccs /\ ns = sccs[1] /\ ns \subseteq Current /\ Current \subseteq DOMAIN graph
      /\ c \notin DOMAIN graph /\ IsComponent(c) /\ DOMAIN graph' = DOMAIN graph \union {c}
      /\ pkgs'[c] = ns
      /\ components # <<>> => pkgs'[Head(components)] = (Current \ ns) \union {c}
      /\ Alive' = Alive \union {c} /\ Whole' = Whole \union {c}
  BY <1>1, MergeStep
<1>3. order' = order /\ queue' = queue
  BY DEF MergeNext
<1>4. components # <<>> => /\ Head(components) \in Alive /\ Current = pkgs[Head(components)]
                           /\ Head(components) \notin Whole
  BY <1>2, CurrentIs
<1>5. \A n \in ns : ~IsComponent(n) /\ n \in DOMAIN graph
  BY <1>2 DEF Ahead
<1>6. ASSUME NEW x \in Whole', NEW p \in x.of PROVE Single(p) \in pkgs'[x]
  <2>1. CASE x = c
    BY <1>1, <1>2, <1>6, <2>1, NewContents
  <2>2. CASE x \in Whole
    <3>1. pkgs'[x] = pkgs[x]
      <4>1. x \in Alive /\ (components = <<>> \/ x # Head(components))
        BY <1>4, <2>2 DEF Whole
      <4> QED
        BY <1>1, <4>1, MergeOthers
    <3> QED
      BY <1>6, <2>2, <3>1 DEF Contents
  <2> QED
    BY <1>2, <2>1, <2>2
<1>7. ASSUME NEW x \in Alive', NEW p \in x.of \ ToSet(order) PROVE \E n \in pkgs'[x] : p \in n.of
  <2>1. CASE x = c
    <3>1. Single(p) \in ns
      BY <1>1, <1>7, <2>1, NewContents
    <3> QED
      BY <1>2, <2>1, <3>1, SingleIs
  <2>2. CASE x \in Alive
    <3>1. PICK n \in pkgs[x] : p \in n.of
      BY <1>7, <2>2 DEF Contents
    <3>2. CASE components # <<>> /\ x = Head(components)
      <4>1. CASE n \in ns
        <5>1. n = Single(p)
          BY <1>2, <1>5, <3>1, <4>1, PackageIs DEF Ordering
        <5>2. p \in c.of
          BY <1>1, <4>1, <5>1, NewContents
        <5> QED
          BY <1>2, <3>2, <5>2
      <4>2. CASE n \notin ns
        BY <1>2, <1>4, <3>1, <3>2, <4>2
      <4> QED
        BY <4>1, <4>2
    <3>3. CASE components = <<>> \/ x # Head(components)
      <4>1. pkgs'[x] = pkgs[x]
        BY <1>1, <2>2, <3>3, MergeOthers
      <4> QED
        BY <3>1, <4>1
    <3> QED
      BY <3>2, <3>3
  <2> QED
    BY <1>2, <2>1, <2>2
<1>8. \A p \in queue[1].of : p \in ToSet(order) <=> Single(p) \notin DOMAIN graph'
  BY <1>2, SingleIs DEF Contents
<1> QED
  BY <1>3, <1>6, <1>7, <1>8 DEF Contents

\* Merging a component loses no requirement.
LEMMA MergeOrder ==
    ASSUME QueueInv, GraphInv, ShapeInv, OrderInv, MergeNext
    PROVE  OrderInv'
<1>1. stage = "merge" /\ stage' = "merge" /\ UNCHANGED <<requires, queue, order>>
  BY DEF MergeNext
<1>2. Contents /\ ArcsAreRequirements /\ IsInjective(order) /\ Paired
  BY <1>1 DEF OrderInv, Ordering
<1>3. Contents'
  BY <1>2, MergeContents
<1>4. ArcsAreRequirements'
  <2> DEFINE ns == Head(sccs)
             c == Component(ns)
  <2>1. ns = Head(sccs) /\ c = Component(ns)
    OBVIOUS
  <2> HIDE DEF ns, c
  <2>2. graph' = Merge(graph, c, ns) /\ c \notin DOMAIN graph /\ IsComponent(c) /\ DOMAIN graph' = DOMAIN graph \union {c}
    BY <2>1, MergeStep
  <2>3. ASSUME NEW p, NEW q, Single(p) \in DOMAIN graph', Single(q) \in Pre(graph', Single(p))
        PROVE  /\ Single(p) \in DOMAIN graph /\ Single(q) \in Pre(graph, Single(p))
               /\ graph'[Single(p)][Single(q)] = graph[Single(p)][Single(q)]
    <3>1. Single(p) \in DOMAIN graph /\ Single(p) # c /\ Single(q) # c
      BY <2>2, <2>3, SingleIs
    <3>2. Single(q) \in Pre(graph, Single(p))
      BY <2>1, <2>3, <3>1, MergePre
    <3> QED
      BY <2>2, <2>3, <3>1, <3>2, MergeValues
  <2> QED
    BY <1>1, <1>2, <2>3, ArcsStay
<1>5. Paired'
  <2>1. \A r \in Requires(Job) : Linked(r[1], r[2]) => Linked(r[1], r[2])'
    BY <1>2, MergeLinked
  <2> QED
    BY <1>1, <1>2, <2>1, PairedStays
<1> QED
  BY <1>1, <1>2, <1>3, <1>4, <1>5 DEF OrderInv

LEMMA OneInSeq ==
    ASSUME NEW a
    PROVE  SetToSeq({a}) = <<a>>
<1>1. Cardinality({a}) = 1 /\ IsFiniteSet({a})
  BY FS_Singleton
<1>2. SetToSeq({a}) = CHOOSE f \in [1 .. 1 -> {a}] : IsInjective(f)
  BY <1>1 DEF SetToSeq
<1>3. <<a>> \in [1 .. 1 -> {a}] /\ IsInjective(<<a>>)
  BY DEF IsInjective
<1>4. SetToSeq({a}) \in [1 .. 1 -> {a}]
  BY <1>2, <1>3
<1> QED
  BY <1>4

LEMMA RemoveNodeValues ==
    ASSUME NEW g, NEW n, NEW h, h = RemoveNode(g, n), NEW m \in DOMAIN h, NEW x \in Pre(h, m)
    PROVE  m \in DOMAIN g /\ x \in Pre(g, m) /\ h[m][x] = g[m][x]
BY DEF RemoveNode, Pre

\* A package more in the order, behind all that were there.
LEMMA OneMore ==
    ASSUME NEW S, NEW s \in Seq(S), NEW a, a \notin ToSet(s), NEW t, t = Append(s, a), IsInjective(s)
    PROVE  /\ ToSet(t) = ToSet(s) \union {a} /\ IsInjective(t)
           /\ \A p, q : First(s, p, q) => First(t, p, q)
           /\ \A p : p \notin ToSet(s) /\ p # a => First(t, a, p)
<1>1. /\ Len(t) = Len(s) + 1 /\ DOMAIN t = 1 .. Len(s) + 1
      /\ \A i \in 1 .. Len(s) : t[i] = s[i]
      /\ t[Len(s) + 1] = a
      /\ ToSet(t) = ToSet(s) \union {a}
  <2>1. Len(t) = Len(s) + 1 /\ DOMAIN t = 1 .. Len(s) + 1
    BY AppendIs
  <2>2. \A i \in 1 .. Len(s) : t[i] = s[i]
    BY AppendIs
  <2>3. t[Len(s) + 1] = a
    BY AppendIs
  <2>4. ToSet(t) = ToSet(s) \union {a}
    BY AppendIs
  <2> QED
    BY <2>1, <2>2, <2>3, <2>4
<1>2. DOMAIN s = 1 .. Len(s) /\ Len(s) \in Nat /\ \A i \in 1 .. Len(s) : s[i] \in ToSet(s)
  BY DEF ToSet
<1>3. \A i \in DOMAIN t : i \in 1 .. Len(s) \/ i = Len(s) + 1
  BY <1>1, <1>2
<1> HIDE DEF First
<1>4. ASSUME NEW i \in DOMAIN t, NEW j \in DOMAIN t, t[i] = t[j] PROVE i = j
  BY <1>1, <1>2, <1>3, <1>4 DEF IsInjective
<1>5. ASSUME NEW p, NEW q, First(s, p, q) PROVE First(t, p, q)
  <2>1. p \in ToSet(t)
    BY <1>1, <1>5 DEF First
  <2>2. ASSUME NEW i \in DOMAIN t, NEW j \in DOMAIN t, t[i] = p, t[j] = q PROVE i < j
    <3>1. i \in 1 .. Len(s)
      BY <1>1, <1>3, <1>5, <2>2 DEF First
    <3>2. CASE j \in 1 .. Len(s)
      BY <1>1, <1>2, <1>5, <2>2, <3>1, <3>2 DEF First
    <3>3. CASE j = Len(s) + 1
      BY <1>2, <3>1, <3>3
    <3> QED
      BY <1>3, <3>2, <3>3
  <2> QED
    BY <2>1, <2>2 DEF First
<1>6. ASSUME NEW p, p \notin ToSet(s), p # a PROVE First(t, a, p)
  BY <1>1, <1>2, <1>3, <1>6 DEF First
<1> QED
  BY <1>1, <1>4, <1>5, <1>6 DEF IsInjective

\* A package that requires nothing any more goes behind all it required.
LEMMA CollectOrder ==
    ASSUME QueueInv, GraphInv, ShapeInv, OrderInv, Collect
    PROVE  OrderInv'
<1>1. /\ stage = "collect" /\ GraphParts /\ Knots /\ Layers /\ UNCHANGED <<requires, queue>>
      /\ Contents /\ ArcsAreRequirements /\ IsInjective(order) /\ Paired
  BY DEF Collect, GraphInv, GraphParts, Ordering, ShapeInv, OrderInv
<1>2. PICK n \in NextLeaves :
          IF IsComponent(n)
          THEN /\ components' = <<n>> \o components
               /\ stage' = "break"
               /\ UNCHANGED <<graph, order, pkgs>>
          ELSE /\ order' = order \o SetToSeq(n.of)
               /\ Collected(n)
               /\ UNCHANGED <<components, stage>>
  BY DEF Collect
<1>3. n \in Current /\ Pre(graph, n) = {} /\ n \in DOMAIN graph
  BY <1>1, <1>2, CurrentIs DEF NextLeaves, Leaves, Closed
<1>4. CASE IsComponent(n)
  <2>1. components' = <<n>> \o components /\ stage' = "break" /\ UNCHANGED <<graph, order, pkgs>>
    BY <1>2, <1>4
  <2>2. Alive' = Alive /\ Whole' \subseteq Whole
    <3>1. components \in Seq(Alive)
      BY <1>1 DEF GraphParts, Nested
    <3>2. ASSUME NEW i \in DOMAIN components PROVE components[i] \in ToSet(components')
      <4>1. i + 1 \in DOMAIN components' /\ components'[i + 1] = components[i]
        BY <2>1, <3>1
      <4> QED
        BY <4>1 DEF ToSet
    <3>3. ToSet(components) \subseteq ToSet(components')
      BY <3>2 DEF ToSet
    <3> QED
      BY <2>1, <3>3 DEF Alive, Whole
  <2>3. Contents'
    BY <1>1, <2>1, <2>2 DEF Contents
  <2>4. ArcsAreRequirements'
    BY <1>1, <2>1, ArcsStay DEF Pre
  <2>5. Paired'
    <3>1. \A p, q : Linked(p, q)' = Linked(p, q)
      BY <2>1 DEF Linked, Pre
    <3> QED
      BY <1>1, <2>1, <3>1, PairedStays
  <2> QED
    BY <1>1, <2>1, <2>3, <2>4, <2>5 DEF OrderInv
<1>5. CASE ~IsComponent(n)
  <2>1. /\ graph' = RemoveNode(graph, n) /\ components' = components /\ stage' = "collect" /\ Collected(n)
        /\ order' = order \o SetToSeq(n.of)
    BY <1>1, <1>2, <1>5 DEF Collected
  <2>2. /\ \A c \in Alive : pkgs'[c] = pkgs[c] \ {n}
        /\ \A c \in Whole : n \notin pkgs[c]
        /\ Alive' = Alive /\ Whole' = Whole
    BY <1>1, <1>3, <1>5, <2>1, PackageGoes
  <2>3. PICK a \in queue[1].of : n = Single(a) /\ n.of = {a}
    BY <1>1, <1>3, <1>5, PackageIs DEF Ordering
  <2>4. order \in Seq(queue[1].of) /\ order' = Append(order, a)
    <3>1. order \in Seq(queue[1].of)
      BY <1>1 DEF QueueInv, Ordering
    <3>2. order' = order \o <<a>>
      BY <2>1, <2>3, OneInSeq
    <3>3. order \o <<a>> = Append(order, a)
      <4> DEFINE S == queue[1].of
      <4>1. order \in Seq(S) /\ a \in S
        BY <3>1
      <4> HIDE DEF S
      <4> QED
        BY <4>1
    <3> QED
      BY <3>1, <3>2, <3>3
  <2>5. a \notin ToSet(order)
    BY <1>1, <1>3, <2>3 DEF Contents
  <2>6. /\ ToSet(order') = ToSet(order) \union {a} /\ IsInjective(order')
        /\ \A p, q : First(order, p, q) => First(order', p, q)
        /\ \A p : p \notin ToSet(order) /\ p # a => First(order', a, p)
    BY <1>1, <2>4, <2>5, OneMore
  <2>7. DOMAIN graph' = DOMAIN graph \ {n}
    BY <2>1, NodesLeft
  <2>8. Contents'
    <3>1. \A c \in Whole : \A p \in c.of : Single(p) \in pkgs'[c]
      BY <1>1, <2>2 DEF Contents, Whole
    <3>2. ASSUME NEW c \in Alive, NEW p \in c.of \ ToSet(order') PROVE \E m \in pkgs'[c] : p \in m.of
      <4>1. PICK m \in pkgs[c] : p \in m.of
        BY <1>1, <2>6, <3>2 DEF Contents
      <4>2. m # n
        BY <2>3, <2>6, <3>2, <4>1
      <4> QED
        BY <2>2, <4>1, <4>2
    <3>3. \A p \in queue[1].of : p \in ToSet(order') <=> Single(p) \notin DOMAIN graph'
      BY <1>1, <2>3, <2>6, <2>7, SingleIs DEF Contents
    <3> QED
      BY <1>1, <2>2, <3>1, <3>2, <3>3 DEF Contents
  <2>9. ArcsAreRequirements'
    <3>1. ASSUME NEW p, NEW q, Single(p) \in DOMAIN graph', Single(q) \in Pre(graph', Single(p))
          PROVE  /\ Single(p) \in DOMAIN graph /\ Single(q) \in Pre(graph, Single(p))
                 /\ graph'[Single(p)][Single(q)] = graph[Single(p)][Single(q)]
      BY <2>1, <3>1, RemoveNodeValues
    <3> QED
      BY <1>1, <3>1, ArcsStay
  <2>10. ASSUME NEW p, NEW q, p # q, Linked(p, q) PROVE First(order', q, p) \/ Linked(p, q)'
    <3>1. CASE q = a
      BY <2>6, <2>10, <3>1 DEF Linked
    <3>2. CASE q # a
      <4>1. PICK x \in DOMAIN graph : \E y \in Pre(graph, x) :
                p \in x.of /\ q \in y.of /\ p \notin y.of /\ q \notin x.of
        BY <2>10 DEF Linked
      <4>2. PICK y \in Pre(graph, x) : p \in x.of /\ q \in y.of /\ p \notin y.of /\ q \notin x.of
        BY <4>1
      <4>3. x # n /\ y # n
        BY <1>3, <2>3, <3>2, <4>2
      <4>4. p # a
        <5>1. ASSUME p = a PROVE FALSE
          <6>1. IsComponent(x)
            BY <1>1, <2>3, <4>2, <4>3, <5>1, PackageIs DEF Ordering
          <6>2. x \in Whole /\ Single(p) \in pkgs[x]
            BY <1>1, <4>2, <6>1, InsideIt
          <6> QED
            BY <2>2, <2>3, <5>1, <6>2
        <5> QED
          BY <5>1
      <4>5. x \in DOMAIN graph' /\ y \in Pre(graph', x)
        BY <2>1, <2>7, <4>2, <4>3, RemoveNodeIs
      <4>6. p \notin ToSet(order') /\ q \notin ToSet(order')
        BY <2>6, <2>10, <3>2, <4>4 DEF Linked
      <4> QED
        BY <4>2, <4>5, <4>6 DEF Linked
    <3> QED
      BY <3>1, <3>2
  <2>11. Paired'
    <3>1. Job' = Job /\ Requires(Job)' = Requires(Job) /\ HardRequires(Job)' = HardRequires(Job)
      BY <1>1 DEF Job, Requires, HardRequires
    <3>2. \A r : Excused(Job, r)' = Excused(Job, r)
      BY <3>1 DEF Excused, Reach
    <3>3. ASSUME NEW r \in Requires(Job)
          PROVE  First(order', r[2], r[1]) \/ Excused(Job, r)' \/ Linked(r[1], r[2])'
      <4>1. r[1] # r[2]
        BY DEF Requires
      <4>2. First(order, r[2], r[1]) \/ Excused(Job, r) \/ Linked(r[1], r[2])
        BY <1>1 DEF Paired
      <4> QED
        BY <2>6, <2>10, <3>2, <4>1, <4>2
    <3> QED
      BY <3>1, <3>3 DEF Paired
  <2> QED
    BY <2>1, <2>6, <2>8, <2>9, <2>11 DEF OrderInv
<1> QED
  BY <1>4, <1>5

\* A component that is broken up has all its packages in the order.
LEMMA BrokenUpOrder ==
    ASSUME GraphInv, ShapeInv, OrderInv, BrokenUp
    PROVE  OrderInv'
<1> DEFINE n == Head(components)
<1>1. n = Head(components)
  OBVIOUS
<1> HIDE DEF n
<1>2. /\ stage = "collect" /\ stage' = "collect" /\ GraphParts /\ components # <<>>
      /\ graph' = RemoveNode(graph, n)
      /\ 1 \in DOMAIN components /\ n = components[1] /\ n \in Alive /\ n \in DOMAIN graph
      /\ \A c \in Alive \ {n} : pkgs'[c] = pkgs[c] \ {n}
      /\ \A c \in Whole : n \notin pkgs[c]
      /\ Alive' = Alive \ {n} /\ Whole' \subseteq Whole
  BY <1>1, ComponentGoes
<1>3. /\ Knots /\ Layers /\ Leaves = {} /\ UNCHANGED <<requires, queue, order>>
      /\ Contents /\ ArcsAreRequirements /\ IsInjective(order) /\ Paired
  BY <1>2 DEF ShapeInv, OrderInv, Ordering, BrokenUp
<1>4. pkgs[n] = {} /\ Pre(graph, n) = {}
  <2>1. Level = {}
    BY <1>2, <1>3, NothingLeft
  <2> QED
    BY <1>1, <1>2, <1>3, <2>1 DEF Level, Current, Knots
<1>5. n.of \subseteq ToSet(order)
  BY <1>2, <1>3, <1>4 DEF Contents
<1>6. DOMAIN graph' = DOMAIN graph \ {n}
  BY <1>2, NodesLeft
<1>7. Contents'
  <2>1. ASSUME NEW c \in Whole', NEW p \in c.of PROVE Single(p) \in pkgs'[c]
    <3>1. c \in Whole /\ c \in Alive'
      BY <1>2 DEF Whole
    <3> QED
      BY <1>2, <1>3, <2>1, <3>1 DEF Contents
  <2>2. ASSUME NEW c \in Alive', NEW p \in c.of \ ToSet(order) PROVE \E m \in pkgs'[c] : p \in m.of
    <3>1. PICK m \in pkgs[c] : p \in m.of
      BY <1>2, <1>3, <2>2 DEF Contents
    <3> QED
      BY <1>2, <1>5, <2>2, <3>1
  <2>3. \A p \in queue[1].of : p \in ToSet(order) <=> Single(p) \notin DOMAIN graph'
    BY <1>2, <1>3, <1>6, SingleIs DEF Contents, Alive
  <2> QED
    BY <1>3, <2>1, <2>2, <2>3 DEF Contents
<1>8. ArcsAreRequirements'
  <2>1. ASSUME NEW p, NEW q, Single(p) \in DOMAIN graph', Single(q) \in Pre(graph', Single(p))
        PROVE  /\ Single(p) \in DOMAIN graph /\ Single(q) \in Pre(graph, Single(p))
               /\ graph'[Single(p)][Single(q)] = graph[Single(p)][Single(q)]
    BY <1>2, <2>1, RemoveNodeValues
  <2> QED
    BY <1>3, <2>1, ArcsStay
<1>9. ASSUME NEW p, NEW q, Linked(p, q) PROVE Linked(p, q)'
  <2>1. PICK x \in DOMAIN graph : \E y \in Pre(graph, x) :
            p \in x.of /\ q \in y.of /\ p \notin y.of /\ q \notin x.of
    BY <1>9 DEF Linked
  <2>2. PICK y \in Pre(graph, x) : p \in x.of /\ q \in y.of /\ p \notin y.of /\ q \notin x.of
    BY <2>1
  <2>3. p \notin ToSet(order) /\ q \notin ToSet(order)
    BY <1>9 DEF Linked
  <2>4. x # n /\ y # n
    BY <1>4, <1>5, <2>2, <2>3
  <2>5. x \in DOMAIN graph' /\ y \in Pre(graph', x)
    BY <1>2, <1>6, <2>2, <2>4, RemoveNodeIs
  <2> QED
    BY <1>3, <2>2, <2>3, <2>5 DEF Linked
<1>10. Paired'
  BY <1>3, <1>9, PairedStays
<1> QED
  BY <1>2, <1>3, <1>7, <1>8, <1>10 DEF OrderInv

-----------------------------------------------------------------------------
(* What breaking up gives away.                                            *)

\* The nodes that are broken up are packages of the list, apart from each other.
Loose ==
    /\ Closed(Current) /\ IsFiniteSet(Current) /\ Knot(graph, Current)
    /\ \A n \in Current : Pre(graph, n) # {} /\ \E p \in queue[1].of : n = Single(p)

\* As soon as one of them requires another, each does.
LEMMA LooseIs ==
    ASSUME QueueInv, GraphInv, ShapeInv, stage = "break", NEW x \in Current, NEW y \in Pre(graph, x)
    PROVE  Loose
<1>1. GraphParts /\ Ahead /\ Knots
  BY DEF GraphInv, GraphParts, Ordering, ShapeInv
<1>2. Closed(Current) /\ IsFiniteSet(Current) /\ Knot(graph, Current)
  BY <1>1, CurrentIs DEF Knots
<1>3. ASSUME NEW n \in Current PROVE \E p \in queue[1].of : n = Single(p)
  BY <1>1, <1>2, PackageIs DEF Ahead, Ordering, Closed
<1>4. ASSUME NEW n \in Current, Pre(graph, n) = {} PROVE FALSE
  <2>1. {n} = Current
    BY <1>2, <1>4 DEF Knot
  <2>2. x = n /\ y \in Current
    BY <1>2, <2>1 DEF Closed
  <2> QED
    BY <1>4, <2>2
<1> QED
  BY <1>2, <1>3, <1>4 DEF Loose

\* Each of them requires all of them in the end.
LEMMA AllInTheEnd ==
    ASSUME Loose, ArcsAreRequirements, NEW u, NEW v, Single(u) \in Current, Single(v) \in Current
    PROVE  v \in Reach(Requires(Job), queue[1].of)[u]
<1> DEFINE S == queue[1].of
           R == Requires(Job)
           A == {n \in Current : \E z \in S : n = Single(z) /\ z \in Reach(R, S)[u]}
<1>1. u \in S /\ v \in S /\ Current \subseteq DOMAIN graph /\ \A n \in Current : Pre(graph, n) \subseteq Current
  BY SingleIs DEF Loose, Closed
<1>2. ASSUME NEW p \in S, NEW m, Single(p) \in Current, m \in Pre(graph, Single(p))
      PROVE  \E q \in S : m = Single(q) /\ m \in Current /\ <<p, q>> \in R
  <2>1. m \in Current
    BY <1>1, <1>2
  <2>2. PICK q \in S : m = Single(q)
    BY <2>1 DEF Loose
  <2>3. <<p, q>> \in R
    BY <1>1, <1>2, <2>2 DEF ArcsAreRequirements
  <2> QED
    BY <2>1, <2>2, <2>3
<1> HIDE DEF S, R
<1>3. A # {}
  <2>1. PICK m \in Pre(graph, Single(u)) : TRUE
    BY DEF Loose
  <2>2. PICK q \in S : m = Single(q) /\ m \in Current /\ <<u, q>> \in R
    BY <1>1, <1>2, <2>1
  <2>3. q \in Reach(R, S)[u]
    BY <1>1, <2>2, ReachFirst
  <2> QED
    BY <2>2, <2>3
<1>4. ASSUME NEW n \in A, NEW m \in Pre(graph, n) PROVE m \in A
  <2>1. PICK z \in S : n = Single(z) /\ z \in Reach(R, S)[u]
    OBVIOUS
  <2>2. PICK q \in S : m = Single(q) /\ m \in Current /\ <<z, q>> \in R
    BY <1>2, <2>1
  <2>3. q \in Reach(R, S)[u]
    BY <1>1, <2>1, <2>2, ReachOn
  <2> QED
    BY <2>2, <2>3
<1>5. A = Current
  <2>1. A \subseteq Current /\ \A n \in A : Pre(graph, n) \intersect Current \subseteq A
    BY <1>4
  <2> HIDE DEF A
  <2> QED
    BY <1>3, <2>1 DEF Loose, Knot
<1>6. PICK z \in S : Single(v) = Single(z) /\ z \in Reach(R, S)[u]
  BY <1>5
<1> QED
  BY <1>6, SingleIs DEF S, R

\* If each of them has a hard requirement on it, one has a hard requirement on itself
\* in the end: one of those with the most hard requirements.
LEMMA HardCycle ==
    ASSUME QueueInv, Loose, ArcsAreRequirements, Current \subseteq HardTargets, queue # <<>>,
           queue[1].do = "order"
    PROVE  \E p \in queue[1].of : Single(p) \in Current /\ p \in Reach(HardRequires(Job), queue[1].of)[p]
<1> DEFINE S == queue[1].of
           R == HardRequires(Job)
           H(p) == Reach(R, S)[p]
           P == {p \in S : Single(p) \in Current}
           K == {Cardinality(H(p)) : p \in P}
<1>1. IsFiniteSet(S)
  BY HeadIs DEF QueueInv
<1>2. ASSUME NEW w \in P PROVE \E u \in P : <<u, w>> \in R
  <2>1. PICK n \in Current : Single(w) \in Pre(graph, n) /\ graph[n][Single(w)]
    BY DEF HardTargets
  <2>2. PICK u \in S : n = Single(u)
    BY DEF Loose
  <2>3. <<u, w>> \in R
    BY <2>1, <2>2 DEF ArcsAreRequirements, Loose, Closed
  <2> QED
    BY <2>2, <2>3
<1>3. P # {}
  <2>1. PICK n \in Current : TRUE
    BY DEF Loose, Knot
  <2> QED
    BY <2>1 DEF Loose
<1> HIDE DEF S, R
<1>4. ASSUME NEW p \in P
      PROVE  /\ H(p) \subseteq S /\ IsFiniteSet(H(p)) /\ Cardinality(H(p)) \in 0 .. Cardinality(S)
  <2>1. H(p) \subseteq S
    BY ReachInside
  <2> HIDE DEF H
  <2>2. IsFiniteSet(H(p)) /\ Cardinality(H(p)) <= Cardinality(S)
    BY <1>1, <2>1, FS_Subset
  <2>3. Cardinality(H(p)) \in Nat /\ Cardinality(S) \in Nat
    BY <1>1, <2>2, FS_CardinalityType
  <2> QED
    BY <2>1, <2>2, <2>3
<1>5. \A u \in P : \A w \in P : <<u, w>> \in R => w \in H(u) /\ H(w) \subseteq H(u)
  <2>1. ASSUME NEW u \in P, NEW w \in P, <<u, w>> \in R PROVE w \in H(u)
    BY <2>1, ReachFirst
  <2>2. ASSUME NEW u \in P, NEW w \in P, <<u, w>> \in R, NEW z \in H(w) PROVE z \in H(u)
    BY <2>1, <2>2, ReachJoin
  <2> QED
    BY <2>1, <2>2
<1> HIDE DEF H
<1>6. PICK w \in P : \A p \in P : Cardinality(H(p)) <= Cardinality(H(w))
  <2>1. K \in SUBSET (0 .. Cardinality(S)) /\ K # {} /\ Cardinality(S) \in Nat
    BY <1>1, <1>3, <1>4, FS_CardinalityType
  <2>2. PICK k \in K : \A i \in K : i <= k
    <3> HIDE DEF K
    <3> QED
      BY <2>1, Greatest
  <2> QED
    BY <2>2
<1>7. PICK u \in P : <<u, w>> \in R
  BY <1>2
<1>8. w \in H(w)
  <2>1. ASSUME w \notin H(w) PROVE FALSE
    <3>1. w \in H(u) /\ H(w) \subseteq H(u) /\ H(w) # H(u)
      BY <1>5, <1>7, <2>1
    <3>2. Cardinality(H(w)) < Cardinality(H(u))
      BY <1>4, <3>1, FS_Subset
    <3>3. Cardinality(H(u)) <= Cardinality(H(w))
      BY <1>6
    <3>4. Cardinality(H(u)) \in Nat /\ Cardinality(H(w)) \in Nat
      BY <1>4
    <3> QED
      BY <3>2, <3>3, <3>4
  <2> QED
    BY <2>1
<1> QED
  BY <1>8 DEF H, S, R

LEMMA LeastIs ==
    ASSUME NEW H \in SUBSET Nat, H # {}
    PROVE  Min(H) \in H
<1>1. PICK x \in H : \A y \in H : x <= y
  BY Least
<1>2. Min(H) \in H
  BY <1>1, Zenon DEF Min
<1> QED
  BY <1>2

\* A hard requirement is dropped only when every node has one on it.
LEMMA BreakTakes ==
    ASSUME GraphInv, ShapeInv, Break
    PROVE  \E n \in Current : \E m \in Pre(graph, n) :
              /\ graph' = RemoveRelation(graph, n, m)
              /\ graph[n][m] => Current \subseteq HardTargets
<1> DEFINE N == Cardinality(Current)
<1>1. stage = "break" /\ GraphParts /\ Knots
  BY DEF Break, GraphInv, GraphParts, Ordering, ShapeInv
<1>2. Closed(Current) /\ IsFiniteSet(Current) /\ Knot(graph, Current) /\ N \in Nat
  BY <1>1, CurrentIs, FS_CardinalityType DEF Knots
<1>3. DOMAIN Weights = Near[N]
  BY DEF Weights
<1>4. ASSUME NEW n \in Current, NEW m \in Pre(graph, n), graph[n][m] PROVE m \in HardTargets
  BY <1>2, <1>4 DEF HardTargets, Closed
<1>5. HardTargets \subseteq DOMAIN Weights
  BY <1>2, <1>3, NearEnds
<1>6. CASE DOMAIN Weights = {}
  <2>1. PICK r \in UNION {{<<n, m>> : m \in Pre(graph, n)} : n \in Current} :
            graph' = RemoveRelation(graph, r[1], r[2])
    BY <1>6 DEF Break, BreakFreeing
  <2>2. r[1] \in Current /\ r[2] \in Pre(graph, r[1])
    OBVIOUS
  <2>3. ~graph[r[1]][r[2]]
    BY <1>4, <1>5, <1>6, <2>2
  <2> QED
    BY <2>1, <2>2, <2>3
<1>7. CASE DOMAIN Weights # {}
  <2>1. DOMAIN Weights = Current
    BY <1>2, <1>7, AllAreNear
  <2>2. stage' = "detect"
    BY NeverRaised
  <2>3. PICK pkg2 \in Farthest(Weights, DOMAIN Weights) :
            \E pkg1 \in Farthest(Weights, Post(graph, pkg2)) : graph' = RemoveRelation(graph, pkg1, pkg2)
    BY <1>7, <2>2 DEF Break, BreakFar
  <2>4. PICK pkg1 \in Farthest(Weights, Post(graph, pkg2)) : graph' = RemoveRelation(graph, pkg1, pkg2)
    BY <2>3
  <2>5. pkg2 \in Current /\ pkg1 \in DOMAIN graph /\ pkg2 \in Pre(graph, pkg1)
    BY <2>1 DEF Farthest, Post, Pre
  <2>6. pkg1 \in Current
    <3>1. Ahead /\ components # <<>>
      BY <1>1 DEF GraphInv, Ordering, Ahead
    <3>2. Head(components) \in Alive /\ Current = pkgs[Head(components)]
      BY <1>1, <3>1, CurrentIs
    <3> QED
      BY <1>1, <2>5, <3>2 DEF Knots
  <2>7. ASSUME graph[pkg1][pkg2], NEW x \in Current PROVE x \in HardTargets
    <3> DEFINE K(n) == {k \in 0 .. N : n \in Near[k]}
    <3>1. \A n \in Current : Weights[n] = Min(K(n)) /\ K(n) # {} /\ K(n) \in SUBSET Nat
      <4>1. Weights = [n \in Near[N] |-> Min(K(n))]
        BY DEF Weights
      <4>2. Near[N] = Current
        BY <1>3, <2>1
      <4>3. \A n \in Current : N \in K(n) /\ K(n) \in SUBSET Nat
        BY <1>2, <4>2
      <4> HIDE DEF K, N
      <4> QED
        BY <4>1, <4>2, <4>3
    <3>2. \A n \in Current : Weights[n] \in K(n)
      <4> HIDE DEF K
      <4> QED
        BY <3>1, LeastIs
    <3>3. Near[0] = HardTargets
      <4>1. 0 \in 0 .. Cardinality(Current)
        BY <1>2
      <4>2. Near[0] = Nearer(Near, 0)
        BY <1>2, <4>1, NearIs
      <4> QED
        BY <4>2 DEF Nearer
    <3>4. 0 \in K(pkg2)
      BY <1>2, <1>4, <2>5, <2>6, <2>7, <3>3
    <3>5. Weights[pkg2] = 0
      <4>1. \A k \in K(pkg2) : Min(K(pkg2)) <= k
        <5>1. K(pkg2) \in SUBSET Nat /\ K(pkg2) # {}
          BY <3>4
        <5> HIDE DEF K
        <5>2. PICK y \in K(pkg2) : \A z \in K(pkg2) : y <= z
          BY <5>1, Least
        <5>3. \A k \in K(pkg2) : Min(K(pkg2)) <= k
          BY <5>2, Zenon DEF Min
        <5> QED
          BY <5>3
      <4>2. Weights[pkg2] <= 0
        BY <2>5, <3>1, <3>4, <4>1
      <4> QED
        BY <2>5, <3>2, <4>2
    <3>6. Weights[x] <= 0
      BY <2>1, <3>5 DEF Farthest
    <3>7. Weights[x] = 0
      BY <3>2, <3>6
    <3> QED
      BY <3>2, <3>3, <3>7
  <2> QED
    BY <2>4, <2>5, <2>6, <2>7
<1> QED
  BY <1>6, <1>7

LEMMA RemoveRelationValues ==
    ASSUME NEW g, NEW x \in DOMAIN g, NEW y, NEW h, h = RemoveRelation(g, x, y),
           NEW n \in DOMAIN g, NEW m \in Pre(h, n)
    PROVE  m \in Pre(g, n) /\ h[n][m] = g[n][m]
BY DEF RemoveRelation, Pre

\* A relation is dropped whose requirement need not be kept.
LEMMA BreakOrder ==
    ASSUME QueueInv, GraphInv, ShapeInv, OrderInv, Break
    PROVE  OrderInv'
<1>1. /\ stage = "break" /\ stage' = "detect" /\ UNCHANGED <<requires, queue, order, components, pkgs>>
      /\ GraphParts /\ Contents /\ ArcsAreRequirements /\ IsInjective(order) /\ Paired
  BY NeverRaised DEF Break, OrderInv, Ordering, GraphInv, GraphParts
<1>2. PICK x \in Current : \E y \in Pre(graph, x) :
          /\ graph' = RemoveRelation(graph, x, y)
          /\ graph[x][y] => Current \subseteq HardTargets
  BY BreakTakes
<1>3. PICK y \in Pre(graph, x) :
          /\ graph' = RemoveRelation(graph, x, y)
          /\ graph[x][y] => Current \subseteq HardTargets
  BY <1>2
<1>4. Loose /\ x \in DOMAIN graph /\ y \in Current
  BY <1>1, LooseIs DEF Loose, Closed
<1>5. /\ DOMAIN graph' = DOMAIN graph /\ Pre(graph', x) = Pre(graph, x) \ {y}
      /\ \A n \in DOMAIN graph \ {x} : Pre(graph', n) = Pre(graph, n)
  BY <1>3, <1>4, RemoveRelationIs, OthersKeep
<1>6. Alive' = Alive /\ Whole' = Whole
  BY <1>1, <1>5 DEF Alive, Whole
<1>7. Contents'
  BY <1>1, <1>5, <1>6 DEF Contents
<1>8. ArcsAreRequirements'
  <2>1. ASSUME NEW p, NEW q, Single(p) \in DOMAIN graph', Single(q) \in Pre(graph', Single(p))
        PROVE  /\ Single(p) \in DOMAIN graph /\ Single(q) \in Pre(graph, Single(p))
               /\ graph'[Single(p)][Single(q)] = graph[Single(p)][Single(q)]
    BY <1>3, <1>4, <1>5, <2>1, RemoveRelationValues
  <2> QED
    BY <1>1, <2>1, ArcsStay
<1>9. ASSUME NEW r \in Requires(Job), Linked(r[1], r[2]) PROVE Linked(r[1], r[2])' \/ Excused(Job, r)
  <2>1. PICK n \in DOMAIN graph : \E m \in Pre(graph, n) :
            r[1] \in n.of /\ r[2] \in m.of /\ r[1] \notin m.of /\ r[2] \notin n.of
    BY <1>9 DEF Linked
  <2>2. PICK m \in Pre(graph, n) : r[1] \in n.of /\ r[2] \in m.of /\ r[1] \notin m.of /\ r[2] \notin n.of
    BY <2>1
  <2>3. CASE n # x \/ m # y
    <3>1. m \in Pre(graph', n)
      BY <1>5, <2>3
    <3>2. r[1] \notin ToSet(order') /\ r[2] \notin ToSet(order')
      BY <1>1, <1>9 DEF Linked
    <3> QED
      BY <1>5, <2>2, <3>1, <3>2 DEF Linked
  <2>4. CASE n = x /\ m = y
    <3>1. n = Single(r[1]) /\ m = Single(r[2])
      BY <1>4, <2>2, <2>4, SingleIs DEF Loose
    <3>2. r = <<r[1], r[2]>> /\ r[1] \in queue[1].of /\ r[2] \in queue[1].of
      BY DEF Requires, Job
    <3>3. r[1] \in Reach(Requires(Job), queue[1].of)[r[2]]
      BY <1>1, <1>4, <2>4, <3>1, AllInTheEnd
    <3>4. ASSUME r \in HardRequires(Job)
          PROVE  \E p \in Reach(Requires(Job), queue[1].of)[r[1]] :
                    /\ r[1] \in Reach(Requires(Job), queue[1].of)[p]
                    /\ p \in Reach(HardRequires(Job), queue[1].of)[p]
      <4>1. graph[x][y]
        BY <1>1, <1>4, <2>4, <3>1, <3>2, <3>4 DEF ArcsAreRequirements
      <4>2. queue # <<>> /\ queue[1].do = "order"
        BY <1>1 DEF QueueInv, Ordering
      <4>3. PICK p \in queue[1].of : Single(p) \in Current /\ p \in Reach(HardRequires(Job), queue[1].of)[p]
        BY <1>1, <1>3, <1>4, <4>1, <4>2, HardCycle
      <4>4. p \in Reach(Requires(Job), queue[1].of)[r[1]] /\ r[1] \in Reach(Requires(Job), queue[1].of)[p]
        BY <1>1, <1>4, <2>4, <3>1, <4>3, AllInTheEnd
      <4> QED
        BY <4>3, <4>4
    <3>5. Job[2] = queue[1].of
      BY DEF Job
    <3> QED
      BY <3>3, <3>4, <3>5 DEF Excused
  <2> QED
    BY <2>3, <2>4
<1>10. Paired'
  BY <1>1, <1>9, PairedStays
<1> QED
  BY <1>1, <1>7, <1>8, <1>10 DEF OrderInv

\* Nothing is left when an order is found.
LEMMA AllCollectedOrder ==
    ASSUME GraphInv, ShapeInv, OrderInv, AllCollected
    PROVE  OrderInv'
<1>1. /\ stage = "collect" /\ stage' = "ordered" /\ components = <<>> /\ Leaves = {}
      /\ UNCHANGED <<requires, queue, order, graph, components, pkgs>>
      /\ GraphParts /\ Knots /\ Layers /\ Contents /\ IsInjective(order) /\ Paired
  BY DEF AllCollected, OrderInv, Ordering, GraphInv, GraphParts, ShapeInv
<1>2. Outer = {}
  BY <1>1, NothingLeft DEF Level
<1>3. ASSUME NEW c \in Alive PROVE FALSE
  <2>1. c \in DOMAIN graph /\ IsComponent(c)
    BY DEF Alive
  <2>2. PICK d \in Alive : c \in pkgs[d]
    BY <1>2, <2>1, OuterIs
  <2>3. d \in Whole
    BY <1>1 DEF Whole, ToSet
  <2> QED
    BY <1>1, <2>1, <2>2, <2>3 DEF GraphParts, Insides
<1>4. DOMAIN graph = {}
  BY <1>2, <1>3, OuterIs
<1>5. queue[1].of \subseteq ToSet(order)
  BY <1>1, <1>4 DEF Contents
<1>6. \A p, q : Linked(p, q)' = Linked(p, q)
  BY <1>1 DEF Linked, Pre
<1>7. Paired'
  BY <1>1, <1>6, PairedStays
<1> QED
  BY <1>1, <1>5, <1>7 DEF OrderInv, Ordering

LEMMA OrderStarts == Init => OrderInv
BY DEF Init, OrderInv, Ordering

LEMMA OrderKeeps ==
    ASSUME IInv, ShapeInv, OrderInv, Next
    PROVE  OrderInv'
<1>1. CASE Start
  BY <1>1, StartOrder DEF IInv
<1>2. CASE Ordered \/ Emit
  <2>1. stage' = "idle"
    BY <1>2 DEF Ordered, Emit
  <2> QED
    BY <2>1 DEF OrderInv, Ordering
<1>3. CASE Detect \/ Root \/ Arc \/ Up \/ Found \/ AllMerged
  <2>1. /\ Ordering /\ Ordering'
        /\ UNCHANGED <<requires, queue, order, graph, components, pkgs>>
    BY <1>3 DEF Detect, Root, Arc, Up, Found, AllMerged, Ordering
  <2> QED
    BY <2>1, SameOrder
<1>4. CASE MergeNext
  BY <1>4, MergeOrder DEF IInv
<1>5. CASE Collect \/ BrokenUp
  BY <1>5, CollectOrder, BrokenUpOrder DEF IInv
<1>6. CASE AllCollected \/ Break
  BY <1>6, AllCollectedOrder, BreakOrder DEF IInv
<1> QED
  BY <1>1, <1>2, <1>3, <1>4, <1>5, <1>6 DEF Next

-----------------------------------------------------------------------------
(* The operations that are given and the lists that wait.                  *)

\* What is done so far and what is left to do.
All == operations \o queue

\* An item of it is for packages that are to be installed, or for ones that go.
Right(x) ==
    /\ x.do # "order" => x.do = x.op /\ \E p \in x.of : x.of = {p}
    /\ x.of \subseteq IF x.op = "erase" THEN request.erases \union Replaced(request)
                      ELSE request.installs

\* The packages it gives in the end.
Brings(x, p) ==
    \/ p \in x.of
    \/ x.do = "order" /\ x.op = "install" /\
          \E q \in x.of : p \in request.updates[q] \union request.obsoletes[q]

\* No package is given by two items.
Apart(s) == \A i, j \in DOMAIN s : \A p : Brings(s[i], p) /\ Brings(s[j], p) => i = j

\* A list that waits to be ordered, or comes up when another one has been.
Waits(x, job) ==
    /\ x.do = "order"
    /\ \/ job = <<x.op, x.of>>
       \/ x.op = "install" /\ \E p \in x.of :
             job = <<"erase", request.updates[p]>> \/ job = <<"erase", request.obsoletes[p]>>

\* The operation on a package, and one operation before another.
Does(x, p) == x.do # "order" /\ x.of = {p}

Earlier(s, p, q) == \E i, j \in DOMAIN s : i < j /\ Does(s[i], p) /\ Does(s[j], q)

\* A requirement is kept by the operations of s, or need not be kept.
Settled(s, job, r) ==
    \/ Excused(job, r)
    \/ IF job[1] = "erase" THEN Earlier(s, r[1], r[2]) ELSE Earlier(s, r[2], r[1])

\* Every package of the request is given or will be.
Brought == \A p \in request.installs \union request.erases \union Replaced(request) :
              \E i \in DOMAIN All : Brings(All[i], p)

\* Every list waits, or its requirements are settled.
Kept ==
    \A job \in Jobs :
        (\E i \in DOMAIN All : Waits(All[i], job)) \/ \A r \in Requires(job) : Settled(All, job, r)

\* Part of the inductive invariant: what is done and what is left give everything once.
GivenInv ==
    /\ operations \in Seq(Items) /\ \A i \in DOMAIN operations : operations[i].do # "order"
    /\ \A i \in DOMAIN All : Right(All[i])
    /\ Apart(All) /\ Brought /\ Kept

-----------------------------------------------------------------------------
(* The head of the queue makes way for what follows from it.               *)

\* Where the items are then.
Moved(i, h, n) == IF i < h THEN i ELSE i + n - 1

\* t is s with g in the place h, where the head of q was.
Spliced(s, t, h, g, G, q) ==
    /\ h \in DOMAIN s /\ s[h] = q[1]
    /\ \A i \in DOMAIN s \ {h} : Moved(i, h, G) \in DOMAIN t /\ t[Moved(i, h, G)] = s[i]
    /\ \A k \in DOMAIN g : (h - 1) + k \in DOMAIN t /\ t[(h - 1) + k] = g[k]
    /\ \A i \in DOMAIN t : \/ \E k \in DOMAIN g : i = (h - 1) + k
                           \/ \E k \in DOMAIN s \ {h} : i = Moved(k, h, G)

LEMMA JoinedIs ==
    ASSUME NEW S, NEW a \in Seq(S), NEW b \in Seq(S)
    PROVE  /\ a \o b \in Seq(S) /\ DOMAIN (a \o b) = 1 .. Len(a) + Len(b)
           /\ Len(a \o b) = Len(a) + Len(b) /\ Len(a) \in Nat /\ Len(b) \in Nat
           /\ \A i \in 1 .. Len(a) : (a \o b)[i] = a[i]
           /\ \A i \in 1 .. Len(b) : (a \o b)[Len(a) + i] = b[i]
OBVIOUS

LEMMA ThreeJoined ==
    ASSUME NEW S, NEW a \in Seq(S), NEW b \in Seq(S), NEW c \in Seq(S)
    PROVE  /\ DOMAIN (a \o (b \o c)) = 1 .. Len(a) + (Len(b) + Len(c))
           /\ \A i \in 1 .. Len(a) : (a \o (b \o c))[i] = a[i]
           /\ \A i \in 1 .. Len(b) : (a \o (b \o c))[Len(a) + i] = b[i]
           /\ \A i \in 1 .. Len(c) : (a \o (b \o c))[Len(a) + (Len(b) + i)] = c[i]
<1>1. /\ b \o c \in Seq(S) /\ Len(b \o c) = Len(b) + Len(c)
      /\ \A i \in 1 .. Len(b) : (b \o c)[i] = b[i]
      /\ \A i \in 1 .. Len(c) : (b \o c)[Len(b) + i] = c[i]
      /\ Len(b) \in Nat /\ Len(c) \in Nat
  BY JoinedIs
<1>2. /\ DOMAIN (a \o (b \o c)) = 1 .. Len(a) + Len(b \o c)
      /\ \A i \in 1 .. Len(a) : (a \o (b \o c))[i] = a[i]
      /\ \A i \in 1 .. Len(b \o c) : (a \o (b \o c))[Len(a) + i] = (b \o c)[i]
  BY <1>1, JoinedIs
<1>3. ASSUME NEW i \in 1 .. Len(b) PROVE (a \o (b \o c))[Len(a) + i] = b[i]
  <2>1. i \in 1 .. Len(b \o c)
    BY <1>1
  <2> QED
    BY <1>1, <1>2, <2>1, Zenon
<1>4. ASSUME NEW i \in 1 .. Len(c) PROVE (a \o (b \o c))[Len(a) + (Len(b) + i)] = c[i]
  <2>1. Len(b) + i \in 1 .. Len(b \o c)
    BY <1>1
  <2>2. (b \o c)[Len(b) + i] = c[i]
    BY <1>1, Zenon
  <2> QED
    BY <1>2, <2>1, <2>2, Zenon
<1> QED
  BY <1>1, <1>2, <1>3, <1>4, Zenon

\* Where the items of a, q and g are in s and t.
Places(a, g, q, s, t, A, G, Q) ==
    /\ A \in Nat /\ G \in Nat /\ Q \in Nat /\ Q >= 1
    /\ DOMAIN s = 1 .. A + Q /\ DOMAIN t = 1 .. A + (G + (Q - 1)) /\ DOMAIN g = 1 .. G
    /\ \A i \in 1 .. A : s[i] = a[i]
    /\ \A i \in 1 .. A : t[i] = a[i]
    /\ \A i \in 1 .. Q : s[A + i] = q[i]
    /\ \A i \in 1 .. G : t[A + i] = g[i]
    /\ \A i \in 1 .. Q - 1 : t[A + (G + i)] = q[i + 1]

LEMMA SplicePlaces ==
    ASSUME NEW a, NEW g, NEW q, NEW s, NEW t, NEW A, NEW G, NEW Q, Places(a, g, q, s, t, A, G, Q)
    PROVE  Spliced(s, t, A + 1, g, G, q)
<1>1. A \in Nat /\ G \in Nat /\ Q \in Nat /\ Q >= 1
  BY DEF Places
<1>2. DOMAIN s = 1 .. A + Q /\ DOMAIN t = 1 .. A + (G + (Q - 1)) /\ DOMAIN g = 1 .. G
  BY DEF Places
<1>3. /\ \A i \in 1 .. A : s[i] = a[i] /\ t[i] = a[i]
      /\ \A i \in 1 .. Q : s[A + i] = q[i]
      /\ \A i \in 1 .. G : t[A + i] = g[i]
      /\ \A i \in 1 .. Q - 1 : t[A + (G + i)] = q[i + 1]
  BY DEF Places
<1>4. A + 1 \in DOMAIN s /\ s[A + 1] = q[1]
  <2>1. 1 \in 1 .. Q /\ A + 1 \in 1 .. A + Q
    BY <1>1
  <2> QED
    BY <1>2, <1>3, <2>1
<1>5. ASSUME NEW i \in DOMAIN s \ {A + 1}
      PROVE  Moved(i, A + 1, G) \in DOMAIN t /\ t[Moved(i, A + 1, G)] = s[i]
  <2>1. CASE i < A + 1
    BY <1>1, <1>2, <1>3, <2>1 DEF Moved
  <2>2. CASE ~(i < A + 1)
    <3> DEFINE j == i - A - 1
    <3>1. i \in 1 .. A + Q /\ i # A + 1
      BY <1>2
    <3>2. j \in 1 .. Q - 1 /\ i = A + (j + 1) /\ j + 1 \in 1 .. Q /\ A + (G + j) = i + G - 1
      BY <1>1, <2>2, <3>1
    <3>3. s[i] = q[j + 1] /\ t[A + (G + j)] = q[j + 1]
      BY <1>3, <3>2
    <3>4. A + (G + j) \in DOMAIN t
      BY <1>1, <1>2, <3>2
    <3> HIDE DEF j
    <3> QED
      BY <1>1, <2>2, <3>2, <3>3, <3>4 DEF Moved
  <2> QED
    BY <2>1, <2>2
<1>6. ASSUME NEW k \in DOMAIN g PROVE A + k \in DOMAIN t /\ t[A + k] = g[k]
  BY <1>1, <1>2, <1>3
<1>7. ASSUME NEW i \in DOMAIN t, ~\E k \in DOMAIN g : i = A + k
      PROVE  \E k \in DOMAIN s \ {A + 1} : i = Moved(k, A + 1, G)
  <2>1. CASE i <= A
    BY <1>1, <1>2, <2>1 DEF Moved
  <2>2. CASE ~(i <= A)
    <3>1. ~(i <= A + G)
      <4>1. ASSUME i <= A + G PROVE FALSE
        <5>1. i - A \in DOMAIN g /\ i = A + (i - A)
          BY <1>1, <1>2, <2>2, <4>1
        <5> QED
          BY <1>7, <5>1
      <4> QED
        BY <4>1
    <3> DEFINE k == i - G + 1
    <3>2. k \in DOMAIN s /\ ~(k < A + 1) /\ k # A + 1 /\ k + G - 1 = i
      BY <1>1, <1>2, <2>2, <3>1
    <3> QED
      BY <1>1, <3>2 DEF Moved
  <2> QED
    BY <2>1, <2>2
<1>8. (A + 1) - 1 = A
  BY <1>1
<1> QED
  BY <1>4, <1>5, <1>6, <1>7, <1>8 DEF Spliced

LEMMA SpliceIs ==
    ASSUME NEW S, NEW a \in Seq(S), NEW q \in Seq(S), q # <<>>, NEW g \in Seq(S)
    PROVE  Spliced(a \o q, a \o (g \o Tail(q)), Len(a) + 1, g, Len(g), q)
<1>1. /\ Tail(q) \in Seq(S) /\ Len(Tail(q)) = Len(q) - 1
      /\ Len(a) \in Nat /\ Len(g) \in Nat /\ Len(q) \in Nat
      /\ Len(q) >= 1
      /\ DOMAIN g = 1 .. Len(g)
      /\ \A i \in 1 .. Len(q) - 1 : Tail(q)[i] = q[i + 1]
  OBVIOUS
<1>2. /\ DOMAIN (a \o (g \o Tail(q))) = 1 .. Len(a) + (Len(g) + Len(Tail(q)))
      /\ \A i \in 1 .. Len(a) : (a \o (g \o Tail(q)))[i] = a[i]
      /\ \A i \in 1 .. Len(g) : (a \o (g \o Tail(q)))[Len(a) + i] = g[i]
      /\ \A i \in 1 .. Len(Tail(q)) : (a \o (g \o Tail(q)))[Len(a) + (Len(g) + i)] = Tail(q)[i]
  BY <1>1, ThreeJoined
<1>3. \A i \in 1 .. Len(q) - 1 : (a \o (g \o Tail(q)))[Len(a) + (Len(g) + i)] = q[i + 1]
  BY <1>1, <1>2, Zenon
<1>4. /\ DOMAIN (a \o q) = 1 .. Len(a) + Len(q)
      /\ \A i \in 1 .. Len(a) : (a \o q)[i] = a[i]
      /\ \A i \in 1 .. Len(q) : (a \o q)[Len(a) + i] = q[i]
  BY JoinedIs
<1>5. DOMAIN (a \o (g \o Tail(q))) = 1 .. Len(a) + (Len(g) + (Len(q) - 1))
  BY <1>1, <1>2, Zenon
<1>6. Places(a, g, q, a \o q, a \o (g \o Tail(q)), Len(a), Len(g), Len(q))
  BY <1>1, <1>2, <1>3, <1>4, <1>5, Zenon DEF Places
<1> QED
  BY <1>6, SplicePlaces

\* What g brings is what x brought, each package once, and the lists that came up with
\* x have their turn or wait in g.
Follows(x, g) ==
    /\ \A k \in DOMAIN g : Right(g[k]) /\ \A p : Brings(g[k], p) => Brings(x, p)
    /\ Apart(g)
    /\ \A p : Brings(x, p) => \E k \in DOMAIN g : Brings(g[k], p)
    /\ \A job : Waits(x, job) => job = <<x.op, x.of>> \/ \E k \in DOMAIN g : Waits(g[k], job)

LEMMA SameRequest ==
    ASSUME UNCHANGED <<request, requires>>
    PROVE  /\ Items' = Items /\ Jobs' = Jobs
           /\ \A x : Right(x)' = Right(x)
           /\ \A x, p : Brings(x, p)' = Brings(x, p)
           /\ \A x, job : Waits(x, job)' = Waits(x, job)
           /\ \A job : Requires(job)' = Requires(job)
           /\ \A s, job, r : Settled(s, job, r)' = Settled(s, job, r)
<1>1. Items' = Items /\ Jobs' = Jobs
  BY DEF Items, Jobs, Replaced
<1>2. \A x : Right(x)' = Right(x)
  BY DEF Right, Replaced
<1>3. \A x, p : Brings(x, p)' = Brings(x, p)
  BY DEF Brings
<1>4. \A x, job : Waits(x, job)' = Waits(x, job)
  BY DEF Waits
<1>5. \A job : Requires(job)' = Requires(job) /\ HardRequires(job)' = HardRequires(job)
  BY DEF Requires, HardRequires
<1>6. ASSUME NEW job, NEW r PROVE Excused(job, r)' = Excused(job, r)
  <2>1. Requires(job)' = Requires(job) /\ HardRequires(job)' = HardRequires(job)
    BY <1>5
  <2> QED
    BY <2>1 DEF Excused, Reach
<1>7. \A s, job, r : Settled(s, job, r)' = Settled(s, job, r)
  BY <1>6 DEF Settled, Earlier, Does
<1> QED
  BY <1>1, <1>2, <1>3, <1>4, <1>5, <1>7

\* What was done in an order still is.
LEMMA StillEarlier ==
    ASSUME NEW s, NEW t, NEW h \in Nat, NEW g, NEW G \in Nat, NEW q, Spliced(s, t, h, g, G, q),
           DOMAIN s \subseteq Nat, s[h].do = "order", NEW x, NEW y, Earlier(s, x, y)
    PROVE  Earlier(t, x, y)
<1>1. PICK i \in DOMAIN s, j \in DOMAIN s : i < j /\ Does(s[i], x) /\ Does(s[j], y)
  BY DEF Earlier
<1>2. i # h /\ j # h /\ i \in Nat /\ j \in Nat
  BY <1>1 DEF Does
<1>3. /\ Moved(i, h, G) \in DOMAIN t /\ t[Moved(i, h, G)] = s[i]
      /\ Moved(j, h, G) \in DOMAIN t /\ t[Moved(j, h, G)] = s[j]
  BY <1>2 DEF Spliced
<1>4. Moved(i, h, G) < Moved(j, h, G)
  BY <1>1, <1>2 DEF Moved
<1> QED
  BY <1>1, <1>3, <1>4 DEF Earlier

LEMMA InsideEarlier ==
    ASSUME NEW s, NEW t, NEW h \in Nat, NEW g, NEW G \in Nat, NEW q, Spliced(s, t, h, g, G, q),
           DOMAIN g \subseteq Nat, NEW x, NEW y, Earlier(g, x, y)
    PROVE  Earlier(t, x, y)
<1>1. PICK i \in DOMAIN g, j \in DOMAIN g : i < j /\ Does(g[i], x) /\ Does(g[j], y)
  BY DEF Earlier
<1>2. /\ (h - 1) + i \in DOMAIN t /\ t[(h - 1) + i] = g[i]
      /\ (h - 1) + j \in DOMAIN t /\ t[(h - 1) + j] = g[j]
  BY DEF Spliced
<1>3. (h - 1) + i < (h - 1) + j
  BY <1>1
<1> QED
  BY <1>1, <1>2, <1>3 DEF Earlier

LEMMA StillApart ==
    ASSUME NEW s, NEW t, NEW h \in Nat, NEW g, NEW G \in Nat, NEW q, Spliced(s, t, h, g, G, q),
           Apart(s), Follows(s[h], g)
    PROVE  Apart(t)
<1> SUFFICES ASSUME NEW i \in DOMAIN t, NEW j \in DOMAIN t, NEW p, Brings(t[i], p), Brings(t[j], p)
             PROVE  i = j
  BY DEF Apart
<1> DEFINE New(x, k) == k \in DOMAIN g /\ x = (h - 1) + k /\ t[x] = g[k]
           Old(x, k) == k \in DOMAIN s \ {h} /\ x = Moved(k, h, G) /\ t[x] = s[k]
<1>1. ASSUME NEW x \in DOMAIN t PROVE (\E k : New(x, k)) \/ (\E k : Old(x, k))
  BY DEF Spliced
<1>2. ASSUME NEW x \in DOMAIN t, NEW k, NEW y \in DOMAIN t, NEW l, New(x, k), Old(y, l),
             Brings(t[x], p), Brings(t[y], p)
      PROVE  FALSE
  <2>1. Brings(s[h], p) /\ Brings(s[l], p) /\ h \in DOMAIN s
    BY <1>2 DEF Follows, Spliced
  <2> QED
    BY <1>2, <2>1 DEF Apart
<1>3. CASE \E k, l : New(i, k) /\ New(j, l)
  BY <1>3 DEF Follows, Apart
<1>4. CASE \E k, l : Old(i, k) /\ Old(j, l)
  BY <1>4 DEF Apart
<1> QED
  BY <1>1, <1>2, <1>3, <1>4

\* A list makes way for what follows from its order.
LEMMA HeadGoes ==
    ASSUME GivenInv, QueueInv, queue # <<>>, queue[1].do = "order",
           NEW g \in Seq(Items), queue' = g \o Tail(queue), UNCHANGED <<request, requires, operations>>,
           Follows(queue[1], g),
           \A r \in Requires(<<queue[1].op, queue[1].of>>) : Settled(g, <<queue[1].op, queue[1].of>>, r)
    PROVE  GivenInv'
<1> DEFINE s == All
           t == All'
           h == Len(operations) + 1
           G == Len(g)
           x == queue[1]
<1>1. queue \in Seq(Items) /\ operations \in Seq(Items)
  BY DEF QueueInv, GivenInv
<1>2. Spliced(operations \o queue, operations \o (g \o Tail(queue)), h, g, G, queue)
  <2> HIDE DEF h, G
  <2> QED
    BY <1>1, SpliceIs DEF h, G
<1>3. Spliced(s, t, h, g, G, queue)
  <2>1. t = operations \o (g \o Tail(queue))
    BY DEF All
  <2> QED
    BY <1>2, <2>1 DEF All
<1>4. h \in Nat /\ G \in Nat /\ DOMAIN s \subseteq Nat /\ DOMAIN g \subseteq Nat
  <2>1. s \in Seq(Items)
    BY <1>1 DEF All
  <2> HIDE DEF s
  <2> QED
    BY <1>1, <2>1
<1>5. /\ \A i \in DOMAIN s : Right(s[i])
      /\ Apart(s) /\ Brought /\ Kept
      /\ \A i \in DOMAIN operations : operations[i].do # "order"
  BY DEF GivenInv
<1>6. /\ Items' = Items /\ Jobs' = Jobs
      /\ \A y : Right(y)' = Right(y)
      /\ \A y, p : Brings(y, p)' = Brings(y, p)
      /\ \A y, job : Waits(y, job)' = Waits(y, job)
      /\ \A job : Requires(job)' = Requires(job)
      /\ \A u, job, r : Settled(u, job, r)' = Settled(u, job, r)
  BY SameRequest
<1>7. h \in DOMAIN s /\ s[h] = x
  BY <1>3 DEF Spliced
<1> HIDE DEF s, t, h, G, x
<1>8. \A i \in DOMAIN t : Right(t[i])
  <2>1. ASSUME NEW i \in DOMAIN t PROVE Right(t[i])
    <3>1. CASE \E k \in DOMAIN g : i = (h - 1) + k
      BY <1>3, <3>1 DEF Spliced, Follows
    <3>2. CASE \E k \in DOMAIN s \ {h} : i = Moved(k, h, G)
      BY <1>3, <1>5, <3>2 DEF Spliced
    <3> QED
      BY <1>3, <3>1, <3>2 DEF Spliced
  <2> QED
    BY <2>1
<1>9. Apart(t)
  <2>1. Follows(s[h], g)
    BY <1>7 DEF x
  <2> QED
    BY <1>3, <1>4, <1>5, <2>1, StillApart
<1>10. ASSUME NEW p, \E i \in DOMAIN s : Brings(s[i], p) PROVE \E i \in DOMAIN t : Brings(t[i], p)
  <2>1. PICK i \in DOMAIN s : Brings(s[i], p)
    BY <1>10
  <2>2. CASE i = h
    <3>1. PICK k \in DOMAIN g : Brings(g[k], p)
      BY <1>7, <2>1, <2>2 DEF Follows, x
    <3> QED
      BY <1>3, <3>1 DEF Spliced
  <2>3. CASE i # h
    BY <1>3, <2>1, <2>3 DEF Spliced
  <2> QED
    BY <2>2, <2>3
<1>11. ASSUME NEW job, NEW r, Settled(s, job, r) \/ Settled(g, job, r) PROVE Settled(t, job, r)
  <2>1. ASSUME NEW p, NEW q, Earlier(s, p, q) \/ Earlier(g, p, q) PROVE Earlier(t, p, q)
    <3>1. s[h].do = "order"
      BY <1>7 DEF x
    <3>2. CASE Earlier(s, p, q)
      BY <1>3, <1>4, <3>1, <3>2, StillEarlier
    <3>3. CASE Earlier(g, p, q)
      BY <1>3, <1>4, <3>3, InsideEarlier
    <3> QED
      BY <2>1, <3>2, <3>3
  <2> QED
    BY <1>11, <2>1 DEF Settled
<1>12. ASSUME NEW job \in Jobs
       PROVE  (\E i \in DOMAIN t : Waits(t[i], job)) \/ \A r \in Requires(job) : Settled(t, job, r)
  <2>1. CASE \A r \in Requires(job) : Settled(s, job, r)
    BY <1>11, <2>1
  <2>2. CASE \E i \in DOMAIN s : Waits(s[i], job)
    <3>1. PICK i \in DOMAIN s : Waits(s[i], job)
      BY <2>2
    <3>2. CASE i # h
      BY <1>3, <3>1, <3>2 DEF Spliced
    <3>3. CASE i = h
      <4>1. Waits(x, job)
        BY <1>7, <3>1, <3>3
      <4>2. CASE job = <<x.op, x.of>>
        BY <1>11, <4>2 DEF x
      <4>3. CASE \E k \in DOMAIN g : Waits(g[k], job)
        BY <1>3, <4>3 DEF Spliced
      <4> QED
        BY <4>1, <4>2, <4>3 DEF Follows, x
    <3> QED
      BY <3>2, <3>3
  <2> QED
    BY <1>5, <2>1, <2>2 DEF Kept, s
<1>13. Brought'
  <2>1. Replaced(request)' = Replaced(request) /\ request' = request
    BY DEF Replaced
  <2> SUFFICES ASSUME NEW p \in request.installs \union request.erases \union Replaced(request)
               PROVE  \E i \in DOMAIN t : Brings(t[i], p)
    BY <1>6, <2>1 DEF Brought, t
  <2>2. \E i \in DOMAIN s : Brings(s[i], p)
    BY <1>5 DEF Brought, s
  <2> QED
    BY <1>10, <2>2
<1>14. Kept'
  BY <1>6, <1>12 DEF Kept, t
<1>15. Apart(All)'
  BY <1>6, <1>9 DEF Apart, t
<1> QED
  BY <1>1, <1>5, <1>6, <1>8, <1>13, <1>14, <1>15 DEF GivenInv, t

-----------------------------------------------------------------------------
(* What follows from an order.                                             *)

\* Where the items of the n-th package are, when every package has three.
LEMMA ThreeEach ==
    ASSUME NEW N \in Nat, NEW k \in 1 .. 3 * N
    PROVE  \E j \in 1 .. N : k \in {3 * j - 2, 3 * j - 1, 3 * j}
<1> DEFINE Is(n) == \A i \in 1 .. 3 * n : \E j \in 1 .. n : i \in {3 * j - 2, 3 * j - 1, 3 * j}
           Not == {n \in Nat : ~Is(n)}
<1>1. ASSUME NEW n \in Not, \A m \in Not : n <= m PROVE FALSE
  <2>1. n # 0
    BY <1>1
  <2>2. n - 1 \in Nat /\ ~(n <= n - 1)
    BY <2>1
  <2>3. Is(n - 1)
    <3> HIDE DEF Is
    <3> QED
      BY <1>1, <2>2
  <2>4. ASSUME NEW i \in 1 .. 3 * n PROVE \E j \in 1 .. n : i \in {3 * j - 2, 3 * j - 1, 3 * j}
    <3>1. CASE i \in 1 .. 3 * (n - 1)
      <4>1. PICK j \in 1 .. n - 1 : i \in {3 * j - 2, 3 * j - 1, 3 * j}
        BY <2>3, <3>1
      <4>2. j \in 1 .. n
        BY <2>2
      <4> QED
        BY <4>1, <4>2
    <3>2. CASE i \notin 1 .. 3 * (n - 1)
      <4>1. n \in 1 .. n /\ i \in {3 * n - 2, 3 * n - 1, 3 * n}
        BY <2>1, <3>2
      <4> QED
        BY <4>1
    <3> QED
      BY <3>1, <3>2
  <2> QED
    BY <1>1, <2>4
<1>2. Not = {}
  BY <1>1, Least
<1>3. Is(N)
  BY <1>2
<1> QED
  BY <1>3

\* Sequences of three, joined one after the other.
Triples(f, ss, n) ==
    /\ Len(f) = 3 * n
    /\ \A j \in 1 .. n : f[3 * j - 2] = ss[j][1] /\ f[3 * j - 1] = ss[j][2] /\ f[3 * j] = ss[j][3]

LEMMA OneTripleMore ==
    ASSUME NEW S, NEW f \in Seq(S), NEW b \in Seq(S), Len(b) = 3, NEW ss, NEW n \in Nat, n # 0,
           Triples(f, ss, n - 1),
           b[1] = ss[n][1], b[2] = ss[n][2], b[3] = ss[n][3]
    PROVE  Triples(f \o b, ss, n)
<1>1. /\ Len(f \o b) = Len(f) + Len(b)
      /\ \A i \in 1 .. Len(f) : (f \o b)[i] = f[i]
      /\ \A i \in 1 .. Len(b) : (f \o b)[Len(f) + i] = b[i]
  BY JoinedIs
<1>2. Len(f) = 3 * (n - 1)
  BY DEF Triples
<1>3. Len(f \o b) = 3 * n
  BY <1>2, <1>1
<1>4. ASSUME NEW j \in 1 .. n
      PROVE  (f \o b)[3 * j - 2] = ss[j][1] /\ (f \o b)[3 * j - 1] = ss[j][2] /\ (f \o b)[3 * j] = ss[j][3]
  <2>1. CASE j = n
    <3>1. 1 \in 1 .. Len(b) /\ 2 \in 1 .. Len(b) /\ 3 \in 1 .. Len(b)
      OBVIOUS
    <3>2. Len(f) + 1 = 3 * n - 2 /\ Len(f) + 2 = 3 * n - 1 /\ Len(f) + 3 = 3 * n
      BY <1>2
    <3>3. (f \o b)[3 * n - 2] = b[1] /\ (f \o b)[3 * n - 1] = b[2] /\ (f \o b)[3 * n] = b[3]
      BY <1>1, <3>1, <3>2
    <3> QED
      BY <2>1, <3>3
  <2>2. CASE j # n
    <3>1. j \in 1 .. n - 1
      BY <2>2
    <3>2. 3 * j - 2 \in 1 .. Len(f) /\ 3 * j - 1 \in 1 .. Len(f) /\ 3 * j \in 1 .. Len(f)
      BY <1>2, <3>1
    <3>3. f[3 * j - 2] = ss[j][1] /\ f[3 * j - 1] = ss[j][2] /\ f[3 * j] = ss[j][3]
      BY <3>1 DEF Triples
    <3> QED
      BY <1>1, <3>2, <3>3
  <2> QED
    BY <2>1, <2>2
<1> QED
  BY <1>3, <1>4 DEF Triples

\* Three operations for each package, joined as genOperations() joins them.
LEMMA FlattenTriples ==
    ASSUME NEW S, NEW ss \in Seq(Seq(S)), \A i \in 1 .. Len(ss) : Len(ss[i]) = 3
    PROVE  Triples(FlattenSeq(ss), ss, Len(ss))
<1> DEFINE N == Len(ss)
           F == CHOOSE f : f = [i \in 1 .. N |-> Joined(f, ss, i)]
<1>1. N \in Nat /\ \A i \in 1 .. N : ss[i] \in Seq(S)
  OBVIOUS
<1>2. F = [i \in 1 .. N |-> Joined(F, ss, i)]
  BY <1>1, FlatExists, Zenon
<1>3. N # 0 => FlattenSeq(ss) = F[N]
  BY DEF FlattenSeq, Joined
<1>4. N = 0 => FlattenSeq(ss) = <<>>
  BY DEF FlattenSeq
<1> HIDE DEF F
<1> DEFINE Not == {i \in 1 .. N : ~(F[i] \in Seq(S) /\ Triples(F[i], ss, i))}
<1>5. ASSUME NEW i \in Not, \A j \in Not : i <= j PROVE FALSE
  <2>1. F[i] = Joined(F, ss, i) /\ ss[i] \in Seq(S) /\ Len(ss[i]) = 3 /\ i \in 1 .. N
    BY <1>1, <1>2
  <2>2. CASE i = 1
    <3>1. F[i] = ss[1]
      BY <2>1, <2>2 DEF Joined
    <3>2. Triples(ss[1], ss, 1)
      BY <2>1, <2>2 DEF Triples
    <3> QED
      BY <2>1, <2>2, <3>1, <3>2
  <2>3. CASE i # 1
    <3>1. i - 1 \in 1 .. N /\ i - 1 \notin Not
      BY <1>1, <1>5, <2>3
    <3>2. F[i - 1] \in Seq(S) /\ Triples(F[i - 1], ss, i - 1)
      BY <3>1
    <3>3. F[i] = F[i - 1] \o ss[i]
      BY <2>1, <2>3 DEF Joined
    <3>4. F[i - 1] \o ss[i] \in Seq(S)
      BY <2>1, <3>2
    <3>5. Triples(F[i - 1] \o ss[i], ss, i)
      <4>1. i \in Nat /\ i # 0
        BY <1>1, <2>1
      <4> QED
        BY <2>1, <3>2, <4>1, OneTripleMore
    <3> QED
      BY <3>3, <3>4, <3>5
  <2> QED
    BY <2>2, <2>3
<1>6. Not = {}
  <2>1. Not \in SUBSET Nat
    BY <1>1
  <2> QED
    BY <1>5, <2>1, Least
<1>7. CASE N = 0
  BY <1>4, <1>7 DEF Triples
<1>8. CASE N # 0
  BY <1>1, <1>3, <1>6, <1>8
<1> QED
  BY <1>7, <1>8

\* The packages of a list in an order.
Lists(x, ps) ==
    /\ x.do = "order" /\ ps \in Seq(x.of) /\ IsInjective(ps)
    /\ \A p \in x.of : \E i \in DOMAIN ps : ps[i] = p

\* The operations g are in the order ps.
InOrder(g, ps) == \A i, j \in DOMAIN ps : i < j => Earlier(g, ps[i], ps[j])

\* An order of packages that go is followed by their erasures.
LEMMA ErasureFollows ==
    ASSUME NEW x, NEW ps, Lists(x, ps), Right(x), x.op = "erase",
           NEW g, g = GenOperations("erase", ps)
    PROVE  Follows(x, g) /\ InOrder(g, ps)
<1>1. DOMAIN g = DOMAIN ps /\ \A i \in DOMAIN ps : g[i] = ToDo("erase", ps[i])
  BY DEF GenOperations
<1>2. ASSUME NEW i \in DOMAIN g
      PROVE  /\ g[i].do = "erase" /\ g[i].op = "erase" /\ g[i].of = {ps[i]} /\ ps[i] \in x.of
  <2>1. g[i] = ToDo("erase", ps[i]) /\ i \in DOMAIN ps
    BY <1>1
  <2>2. ps[i] \in x.of
    BY <2>1 DEF Lists
  <2> QED
    BY <2>1, <2>2 DEF ToDo
<1> HIDE DEF ToDo
<1>3. \A i \in DOMAIN g : \A p : Brings(g[i], p) <=> p = ps[i]
  BY <1>2 DEF Brings
<1>4. \A p : Brings(x, p) <=> p \in x.of
  BY DEF Brings
<1>5. \A i \in DOMAIN g : Right(g[i])
  BY <1>2 DEF Right
<1>6. Apart(g)
  BY <1>1, <1>3 DEF Apart, Lists, IsInjective
<1>7. \A p : Brings(x, p) => \E k \in DOMAIN g : Brings(g[k], p)
  BY <1>1, <1>3, <1>4 DEF Lists
<1>8. \A job : Waits(x, job) => job = <<x.op, x.of>>
  BY DEF Waits
<1>9. InOrder(g, ps)
  BY <1>1, <1>2 DEF InOrder, Earlier, Does
<1> QED
  BY <1>2, <1>3, <1>4, <1>5, <1>6, <1>7, <1>8, <1>9 DEF Follows

\* The packages that each of the three operations on a package brings.
Piece(p, c, z) ==
    \/ c = 2 /\ z = p
    \/ c = 1 /\ z \in request.obsoletes[p]
    \/ c = 0 /\ z \in request.updates[p]

LEMMA PieceOnce ==
    ASSUME HandedOverOnce, request \in Requests, NEW p \in request.installs, NEW q \in request.installs,
           NEW c, NEW d, NEW z, Piece(p, c, z), Piece(q, d, z)
    PROVE  p = q /\ c = d
<1>1. /\ request.updates \in [request.installs -> SUBSET (Pkg \ request.installs)]
      /\ request.obsoletes \in [request.installs -> SUBSET (Pkg \ request.installs)]
  BY OrdererAssumption
<1>2. \A y \in request.installs :
         request.updates[y] \intersect request.installs = {} /\ request.obsoletes[y] \intersect request.installs = {}
  BY <1>1
<1>3. /\ \A y \in request.installs : request.updates[y] \intersect request.obsoletes[y] = {}
      /\ p # q => (request.updates[p] \union request.obsoletes[p])
                     \intersect (request.updates[q] \union request.obsoletes[q]) = {}
  BY DEF HandedOverOnce
<1>4. CASE c = 2 \/ d = 2
  BY <1>2, <1>4 DEF Piece
<1>5. CASE c # 2 /\ d # 2
  BY <1>3, <1>5 DEF Piece
<1> QED
  BY <1>4, <1>5

\* An order of packages to install is followed by their operations, each with the lists of
\* the packages that it replaces.
LEMMA InstallationFollows ==
    ASSUME HandedOverOnce, request \in Requests, NEW x, NEW ps, Lists(x, ps), Right(x), x.op = "install",
           NEW g, g = GenOperations("install", ps)
    PROVE  Follows(x, g) /\ InOrder(g, ps)
<1> DEFINE Do(p) == ToDo(IF request.updates[p] # {} THEN "update" ELSE "install", p)
           Then(p) == << Do(p), ToOrder("erase", request.obsoletes[p]), ToOrder("erase", request.updates[p]) >>
           all == [i \in DOMAIN ps |-> Then(ps[i])]
           N == Len(ps)
           Item(p, c) == IF c = 2 THEN Do(p)
                         ELSE ToOrder("erase", IF c = 1 THEN request.obsoletes[p] ELSE request.updates[p])
<1>1. DOMAIN ps = 1 .. N /\ N \in Nat /\ x.of \subseteq request.installs /\ \A i \in 1 .. N : ps[i] \in x.of
  BY DEF Lists, Right
<1>2. g = FlattenSeq(all)
  BY DEF GenOperations
<1>3. Triples(g, all, N)
  <2> DEFINE T == UNION {{Do(p), ToOrder("erase", request.obsoletes[p]),
                          ToOrder("erase", request.updates[p])} : p \in x.of}
  <2>1. \A p \in x.of : Then(p) \in Seq(T) /\ Len(Then(p)) = 3
    <3>1. ASSUME NEW p \in x.of
          PROVE  /\ Do(p) \in T
                 /\ ToOrder("erase", request.obsoletes[p]) \in T
                 /\ ToOrder("erase", request.updates[p]) \in T
      OBVIOUS
    <3> HIDE DEF Do, T
    <3> QED
      BY <3>1
  <2> HIDE DEF Then, T
  <2>2. all \in Seq(Seq(T)) /\ Len(all) = N /\ \A i \in 1 .. N : Len(all[i]) = 3
    BY <1>1, <2>1
  <2> HIDE DEF all, N
  <2> QED
    BY <1>2, <2>2, FlattenTriples
<1>4. \A j \in 1 .. N : all[j][1] = Item(ps[j], 2) /\ all[j][2] = Item(ps[j], 1) /\ all[j][3] = Item(ps[j], 0)
  <2> HIDE DEF Do
  <2> QED
    BY <1>1
<1>5. DOMAIN g = 1 .. 3 * N
  <2>1. Len(g) = 3 * N
    BY <1>3 DEF Triples
  <2> QED
    BY <2>1
<1> HIDE DEF Item, all, N
<1>6. \A j \in 1 .. N : \A c \in 0 .. 2 : g[3 * j - c] = Item(ps[j], c) /\ 3 * j - c \in DOMAIN g
  <2> SUFFICES ASSUME NEW j \in 1 .. N, NEW c \in 0 .. 2
               PROVE  g[3 * j - c] = Item(ps[j], c) /\ 3 * j - c \in DOMAIN g
    OBVIOUS
  <2>1. g[3 * j - 2] = Item(ps[j], 2) /\ g[3 * j - 1] = Item(ps[j], 1) /\ g[3 * j] = Item(ps[j], 0)
    BY <1>3, <1>4 DEF Triples
  <2>2. 3 * j - c \in DOMAIN g
    BY <1>1, <1>5
  <2>3. c = 0 \/ c = 1 \/ c = 2
    OBVIOUS
  <2> QED
    BY <2>1, <2>2, <2>3
<1>7. \A k \in DOMAIN g : \E j \in 1 .. N : \E c \in 0 .. 2 : k = 3 * j - c
  <2> SUFFICES ASSUME NEW k \in DOMAIN g PROVE \E j \in 1 .. N : \E c \in 0 .. 2 : k = 3 * j - c
    OBVIOUS
  <2>1. PICK j \in 1 .. N : k \in {3 * j - 2, 3 * j - 1, 3 * j}
    BY <1>1, <1>5, ThreeEach
  <2>2. 3 * j = 3 * j - 0
    BY <1>1
  <2> QED
    BY <2>1, <2>2
<1>8. ASSUME NEW p \in x.of, NEW c \in 0 .. 2
      PROVE  /\ Right(Item(p, c))
             /\ \A z : Brings(Item(p, c), z) <=> Piece(p, c, z)
  <2>1. p \in request.installs
    BY <1>1
  <2>2. CASE c = 2
    <3>1. Item(p, c).of = {p} /\ Item(p, c).do = Item(p, c).op /\ Item(p, c).op \in {"install", "update"}
      BY <2>2 DEF Item, ToDo
    <3> QED
      BY <2>1, <2>2, <3>1 DEF Right, Brings, Piece
  <2>3. CASE c # 2
    <3> DEFINE S == IF c = 1 THEN request.obsoletes[p] ELSE request.updates[p]
    <3>1. Item(p, c).of = S /\ Item(p, c).do = "order" /\ Item(p, c).op = "erase"
      BY <2>3 DEF Item, ToOrder
    <3>2. S \subseteq Replaced(request)
      BY <2>1 DEF Replaced
    <3>3. \A z : z \in S <=> Piece(p, c, z)
      BY <2>3 DEF Piece
    <3> HIDE DEF S
    <3> QED
      BY <3>1, <3>2, <3>3 DEF Right, Brings
  <2> QED
    BY <2>2, <2>3
<1>9. \A z : Brings(x, z) <=> \E p \in x.of : \E c \in 0 .. 2 : Piece(p, c, z)
  BY DEF Brings, Piece, Lists
<1>10. ASSUME NEW k \in DOMAIN g
       PROVE  Right(g[k]) /\ \A z : Brings(g[k], z) => Brings(x, z)
  <2>1. PICK j \in 1 .. N : \E c \in 0 .. 2 : k = 3 * j - c
    BY <1>7
  <2>2. PICK c \in 0 .. 2 : k = 3 * j - c
    BY <2>1
  <2>3. g[k] = Item(ps[j], c) /\ ps[j] \in x.of
    BY <1>1, <1>6, <2>2
  <2>4. Right(Item(ps[j], c)) /\ \A z : Brings(Item(ps[j], c), z) => Brings(x, z)
    BY <1>8, <1>9, <2>3
  <2> QED
    BY <2>3, <2>4
<1>11. Apart(g)
  <2> SUFFICES ASSUME NEW k \in DOMAIN g, NEW l \in DOMAIN g, NEW z, Brings(g[k], z), Brings(g[l], z)
               PROVE  k = l
    BY DEF Apart
  <2>1. PICK i \in 1 .. N : \E c \in 0 .. 2 : k = 3 * i - c
    BY <1>7
  <2>2. PICK c \in 0 .. 2 : k = 3 * i - c
    BY <2>1
  <2>3. PICK j \in 1 .. N : \E d \in 0 .. 2 : l = 3 * j - d
    BY <1>7
  <2>4. PICK d \in 0 .. 2 : l = 3 * j - d
    BY <2>3
  <2>5. Piece(ps[i], c, z) /\ Piece(ps[j], d, z)
    BY <1>1, <1>6, <1>8, <2>2, <2>4
  <2>6. ps[i] = ps[j] /\ c = d
    BY <1>1, <2>5, PieceOnce
  <2>7. i = j
    BY <1>1, <2>6 DEF Lists, IsInjective
  <2> QED
    BY <2>2, <2>4, <2>6, <2>7
<1>12. ASSUME NEW z, Brings(x, z) PROVE \E k \in DOMAIN g : Brings(g[k], z)
  <2>1. PICK p \in x.of : \E c \in 0 .. 2 : Piece(p, c, z)
    BY <1>9, <1>12
  <2>2. PICK j \in 1 .. N : ps[j] = p
    BY <1>1 DEF Lists
  <2> QED
    BY <1>6, <1>8, <2>1, <2>2
<1>13. ASSUME NEW job, Waits(x, job) PROVE job = <<x.op, x.of>> \/ \E k \in DOMAIN g : Waits(g[k], job)
  <2>1. CASE job = <<x.op, x.of>>
    BY <2>1
  <2>2. CASE job # <<x.op, x.of>>
    <3>1. PICK p \in x.of : job = <<"erase", request.updates[p]>> \/ job = <<"erase", request.obsoletes[p]>>
      BY <1>13, <2>2 DEF Waits
    <3>2. PICK j \in 1 .. N : ps[j] = p
      BY <1>1 DEF Lists
    <3>3. PICK c \in 0 .. 2 : Item(p, c).do = "order" /\ job = <<Item(p, c).op, Item(p, c).of>>
      BY <3>1 DEF Item, ToOrder
    <3> QED
      BY <1>6, <3>2, <3>3 DEF Waits
  <2> QED
    BY <2>1, <2>2
<1>14. InOrder(g, ps)
  <2> SUFFICES ASSUME NEW i \in 1 .. N, NEW j \in 1 .. N, i < j PROVE Earlier(g, ps[i], ps[j])
    BY <1>1 DEF InOrder
  <2>1. \A k \in 1 .. N : 3 * k - 2 \in DOMAIN g /\ g[3 * k - 2] = Item(ps[k], 2)
    BY <1>6
  <2>2. \A p : Does(Item(p, 2), p)
    BY DEF Item, ToDo, Does
  <2>3. 3 * i - 2 < 3 * j - 2
    OBVIOUS
  <2> QED
    BY <2>1, <2>2, <2>3 DEF Earlier
<1> QED
  BY <1>10, <1>11, <1>12, <1>13, <1>14 DEF Follows

\* The request brings everything once, because it is handed over once.
LEMMA GivenStarts ==
    ASSUME HandedOverOnce, Init
    PROVE  GivenInv
<1> DEFINE x == ToOrder("install", request.installs)
           y == ToOrder("erase", request.erases \ Replaced(request))
<1>1. request \in Requests /\ operations = <<>> /\ queue = <<x, y>>
  BY DEF Init
<1>2. All = <<x, y>>
  <2> HIDE DEF x, y
  <2> QED
    BY <1>1 DEF All
<1>3. /\ x.do = "order" /\ x.op = "install" /\ x.of = request.installs
      /\ y.do = "order" /\ y.op = "erase" /\ y.of = request.erases \ Replaced(request)
  BY DEF ToOrder
<1> HIDE DEF x, y
<1>4. DOMAIN All = {1, 2} /\ All[1] = x /\ All[2] = y
  BY <1>2
<1>5. Right(x) /\ Right(y)
  BY <1>3 DEF Right
<1>6. \A p : Brings(x, p) <=> p \in request.installs \/ p \in Replaced(request)
  BY <1>3 DEF Brings, Replaced
<1>7. \A p : Brings(y, p) <=> p \in request.erases /\ p \notin Replaced(request)
  BY <1>3 DEF Brings
<1>8. request.installs \intersect request.erases = {}
  BY <1>1 DEF HandedOverOnce
<1>9. Apart(All)
  BY <1>4, <1>6, <1>7, <1>8 DEF Apart
<1>10. Brought
  BY <1>4, <1>6, <1>7 DEF Brought
<1>11. Kept
  <2>1. ASSUME NEW job \in Jobs PROVE Waits(x, job) \/ Waits(y, job)
    BY <1>3 DEF Jobs, Waits
  <2> QED
    BY <1>4, <2>1 DEF Kept
<1> QED
  BY <1>1, <1>4, <1>5, <1>9, <1>10, <1>11 DEF GivenInv

LEMMA GivenStays ==
    ASSUME GivenInv, UNCHANGED <<request, requires>>, All' = All,
           operations' \in Seq(Items), \A i \in DOMAIN operations' : operations'[i].do # "order"
    PROVE  GivenInv'
<1>1. /\ Items' = Items /\ Jobs' = Jobs
      /\ \A y : Right(y)' = Right(y)
      /\ \A y, p : Brings(y, p)' = Brings(y, p)
      /\ \A y, job : Waits(y, job)' = Waits(y, job)
      /\ \A job : Requires(job)' = Requires(job)
      /\ \A u, job, r : Settled(u, job, r)' = Settled(u, job, r)
  BY SameRequest
<1>2. Replaced(request)' = Replaced(request)
  BY DEF Replaced
<1>3. Apart(All)'
  BY <1>1 DEF GivenInv, Apart
<1>4. Brought'
  BY <1>1, <1>2 DEF GivenInv, Brought
<1>5. Kept'
  BY <1>1 DEF GivenInv, Kept
<1> QED
  BY <1>1, <1>3, <1>4, <1>5 DEF GivenInv

LEMMA HeadIsRight ==
    ASSUME GivenInv, QueueInv, queue # <<>>
    PROVE  Right(queue[1])
<1>1. queue \in Seq(Items) /\ operations \in Seq(Items)
  BY DEF QueueInv, GivenInv
<1>2. Len(operations) + 1 \in DOMAIN All /\ All[Len(operations) + 1] = queue[1]
  BY <1>1, SpliceIs DEF All, Spliced
<1> QED
  BY <1>2 DEF GivenInv

\* An order that is found follows from its list.
LEMMA OrderFollows ==
    ASSUME HandedOverOnce, QueueInv, GivenInv, queue # <<>>, Head(queue).do = "order",
           NEW ps, Lists(queue[1], ps),
           queue' = GenOperations(Head(queue).op, ps) \o Tail(queue), UNCHANGED <<request, requires, operations>>,
           \A g : InOrder(g, ps) => \A r \in Requires(Job) : Settled(g, Job, r)
    PROVE  GivenInv'
<1> DEFINE x == queue[1]
           g == GenOperations(x.op, ps)
<1>1. /\ Head(queue) = x /\ x.op \in {"install", "erase"} /\ x.of \in SUBSET Pkg
      /\ x.op # "erase" => x.of \subseteq request.installs
  BY HeadIs
<1>2. request \in Requests /\ Right(x)
  BY HeadIsRight DEF QueueInv
<1>3. g \in Seq(Items)
  <2>1. ps \in Seq(x.of)
    BY DEF Lists
  <2> HIDE DEF x
  <2> QED
    BY <1>1, <1>2, <2>1, OperationsAreItems
<1>4. Follows(x, g) /\ InOrder(g, ps)
  <2> HIDE DEF x
  <2>1. CASE x.op = "erase"
    BY <1>2, <2>1, ErasureFollows DEF x
  <2>2. CASE x.op = "install"
    BY <1>2, <2>2, InstallationFollows DEF x
  <2> QED
    BY <1>1, <2>1, <2>2
<1>5. \A r \in Requires(<<x.op, x.of>>) : Settled(g, <<x.op, x.of>>, r)
  <2> HIDE DEF g
  <2> QED
    BY <1>4 DEF Job
<1>6. queue' = g \o Tail(queue) /\ x.do = "order"
  BY <1>1
<1> HIDE DEF g
<1> QED
  BY <1>3, <1>4, <1>5, <1>6, HeadGoes

\* A list of one package or none is its own order.
LEMMA StartGiven ==
    ASSUME HandedOverOnce, QueueInv, GivenInv, Start
    PROVE  GivenInv'
<1> DEFINE S == queue[1].of
           ps == SetToSeq(S)
<1>1. queue # <<>> /\ Head(queue).do = "order" /\ UNCHANGED <<request, requires, operations>>
  BY DEF Start
<1>2. Head(queue) = queue[1] /\ IsFiniteSet(S)
  BY <1>1, HeadIs
<1>3. CASE Cardinality(S) <= 1
  <2>1. queue' = GenOperations(Head(queue).op, ps) \o Tail(queue)
    BY <1>2, <1>3 DEF Start
  <2> HIDE DEF S
  <2>2. Cardinality(S) = 0 \/ Cardinality(S) = 1
    BY <1>2, <1>3, FS_CardinalityType
  <2>3. S = {} \/ \E a : S = {a}
    BY <1>2, <2>2, FS_EmptySet, FS_Singleton
  <2>4. ps \in Seq(S) /\ IsInjective(ps) /\ \A p \in S : \E i \in DOMAIN ps : ps[i] = p
    <3>1. ps \in Seq(S)
      BY <1>2, SetToSeqIs
    <3>2. CASE S = {}
      <4>1. ps = <<>>
        <5> HIDE DEF ps
        <5> QED
          BY <3>1, <3>2
      <4> QED
        BY <3>1, <3>2, <4>1 DEF IsInjective
    <3>3. CASE \E a : S = {a}
      <4>1. PICK a : S = {a}
        BY <3>3
      <4>2. ps = <<a>>
        BY <4>1, OneInSeq
      <4> HIDE DEF ps
      <4> QED
        BY <3>1, <4>1, <4>2 DEF IsInjective
    <3> QED
      BY <2>3, <3>2, <3>3
  <2>5. Requires(Job) = {}
    <3>1. \A r \in Requires(Job) : r[1] \in S /\ r[2] \in S /\ r[1] # r[2]
      BY DEF Requires, Job, S
    <3> QED
      BY <2>3, <3>1
  <2>6. Lists(queue[1], ps)
    BY <1>1, <1>2, <2>4 DEF Lists, S
  <2> HIDE DEF ps
  <2> QED
    BY <1>1, <2>1, <2>5, <2>6, OrderFollows
<1>4. CASE ~(Cardinality(S) <= 1)
  <2>1. queue' = queue
    BY <1>2, <1>4 DEF Start
  <2> QED
    BY <1>1, <2>1, GivenStays DEF GivenInv, All
<1> QED
  BY <1>3, <1>4

\* What is reversed has the same members, the other way round.
LEMMA ReverseOrder ==
    ASSUME NEW S, NEW s \in Seq(S), IsInjective(s), \A p \in S : \E i \in DOMAIN s : s[i] = p
    PROVE  /\ Reverse(s) \in Seq(S) /\ IsInjective(Reverse(s))
           /\ \A p \in S : \E i \in DOMAIN Reverse(s) : Reverse(s)[i] = p
           /\ \A i, j \in DOMAIN s : i < j =>
                 \E k, l \in DOMAIN Reverse(s) : k < l /\ Reverse(s)[k] = s[j] /\ Reverse(s)[l] = s[i]
<1> DEFINE N == Len(s)
           t == Reverse(s)
<1>1. N \in Nat /\ DOMAIN s = 1 .. N /\ t \in Seq(S)
  BY ReverseIs
<1>2. DOMAIN t = 1 .. N /\ \A i \in 1 .. N : t[i] = s[N - i + 1]
  BY <1>1 DEF Reverse
<1>3. \A i \in 1 .. N : N - i + 1 \in 1 .. N /\ N - (N - i + 1) + 1 = i
  BY <1>1
<1> HIDE DEF N, t
<1>4. ASSUME NEW i \in 1 .. N PROVE N - i + 1 \in DOMAIN t /\ t[N - i + 1] = s[i]
  BY <1>2, <1>3
<1>5. ASSUME NEW i \in 1 .. N, NEW j \in 1 .. N, t[i] = t[j] PROVE i = j
  <2>1. N - i + 1 \in DOMAIN s /\ N - j + 1 \in DOMAIN s
    BY <1>1, <1>3
  <2>2. s[N - i + 1] = s[N - j + 1]
    BY <1>2, <1>5
  <2>3. \A k, l \in DOMAIN s : s[k] = s[l] => k = l
    BY DEF IsInjective
  <2>4. N - i + 1 = N - j + 1
    BY <2>1, <2>2, <2>3, Zenon
  <2> QED
    BY <1>1, <2>4
<1>6. ASSUME NEW i \in 1 .. N, NEW j \in 1 .. N, i < j
      PROVE  \E k, l \in DOMAIN t : k < l /\ t[k] = s[j] /\ t[l] = s[i]
  <2>1. N - j + 1 < N - i + 1
    BY <1>1, <1>6
  <2> QED
    BY <1>4, <2>1
<1>7. IsInjective(t)
  BY <1>2, <1>5 DEF IsInjective
<1>8. \A p \in S : \E i \in DOMAIN t : t[i] = p
  BY <1>1, <1>4
<1> QED
  BY <1>1, <1>6, <1>7, <1>8 DEF t

\* Packages that were ordered, erasures in reverse.
LEMMA OrderedGiven ==
    ASSUME HandedOverOnce, QueueInv, OrderInv, GivenInv, Ordered
    PROVE  GivenInv'
<1> DEFINE x == queue[1]
           ps == IF x.op = "erase" THEN Reverse(order) ELSE order
<1>1. /\ stage = "ordered" /\ UNCHANGED <<request, requires, operations>>
      /\ queue # <<>> /\ x.do = "order" /\ order \in Seq(x.of)
      /\ queue' = GenOperations(Head(queue).op, IF Head(queue).op = "erase" THEN Reverse(order) ELSE order) \o Tail(queue)
  BY DEF Ordered, QueueInv
<1>2. Head(queue) = x
  BY <1>1 DEF QueueInv
<1>3. IsInjective(order) /\ Paired /\ \A p \in x.of : \E i \in DOMAIN order : order[i] = p
  BY <1>1 DEF OrderInv, ToSet
<1>4. /\ Reverse(order) \in Seq(x.of) /\ IsInjective(Reverse(order))
      /\ \A p \in x.of : \E i \in DOMAIN Reverse(order) : Reverse(order)[i] = p
      /\ \A i, j \in DOMAIN order : i < j =>
            \E k, l \in DOMAIN Reverse(order) :
               k < l /\ Reverse(order)[k] = order[j] /\ Reverse(order)[l] = order[i]
  <2> HIDE DEF x
  <2> QED
    BY <1>1, <1>3, ReverseOrder
<1>5. Lists(x, ps)
  BY <1>1, <1>3, <1>4 DEF Lists
<1>6. ASSUME NEW r \in Requires(Job), ~Excused(Job, r)
      PROVE  \E i, j \in DOMAIN order : i < j /\ order[i] = r[2] /\ order[j] = r[1]
  <2>1. r[1] \in x.of /\ r[2] \in x.of
    BY DEF Requires, Job
  <2>2. PICK i \in DOMAIN order : order[i] = r[2]
    BY <1>3, <2>1
  <2>3. PICK j \in DOMAIN order : order[j] = r[1]
    BY <1>3, <2>1
  <2>4. r[1] \in ToSet(order)
    BY <2>3 DEF ToSet
  <2>5. First(order, r[2], r[1])
    BY <1>3, <1>6, <2>4 DEF Paired, Linked
  <2> QED
    BY <2>2, <2>3, <2>5 DEF First
<1>7. ASSUME NEW g, InOrder(g, ps), NEW r \in Requires(Job) PROVE Settled(g, Job, r)
  <2>1. CASE Excused(Job, r)
    BY <2>1 DEF Settled
  <2>2. CASE ~Excused(Job, r)
    <3>1. PICK i \in DOMAIN order, j \in DOMAIN order : i < j /\ order[i] = r[2] /\ order[j] = r[1]
      BY <1>6, <2>2
    <3>2. Job[1] = x.op
      BY DEF Job
    <3>3. CASE x.op = "erase"
      <4>1. PICK k \in DOMAIN Reverse(order), l \in DOMAIN Reverse(order) :
                k < l /\ Reverse(order)[k] = order[j] /\ Reverse(order)[l] = order[i]
        BY <1>4, <3>1
      <4>2. Earlier(g, Reverse(order)[k], Reverse(order)[l])
        BY <1>7, <3>3, <4>1 DEF InOrder
      <4> QED
        BY <3>1, <3>2, <3>3, <4>1, <4>2 DEF Settled
    <3>4. CASE x.op # "erase"
      BY <1>7, <3>1, <3>2, <3>4 DEF InOrder, Settled
    <3> QED
      BY <3>3, <3>4
  <2> QED
    BY <2>1, <2>2
<1>8. queue' = GenOperations(Head(queue).op, ps) \o Tail(queue) /\ Head(queue).do = "order"
  BY <1>1, <1>2
<1>9. \A g : InOrder(g, ps) => \A r \in Requires(Job) : Settled(g, Job, r)
  BY <1>7
<1> HIDE DEF ps
<1> QED
  BY <1>1, <1>5, <1>8, <1>9, OrderFollows

LEMMA EmitIs ==
    ASSUME NEW S, NEW a \in Seq(S), NEW q \in Seq(S), q # <<>>
    PROVE  Append(a, Head(q)) \o Tail(q) = a \o q
OBVIOUS

\* An operation that is given is only moved.
LEMMA EmitGiven ==
    ASSUME QueueInv, GivenInv, Emit
    PROVE  GivenInv'
<1>1. /\ queue # <<>> /\ Head(queue).do # "order" /\ UNCHANGED <<request, requires>>
      /\ operations' = Append(operations, Head(queue)) /\ queue' = Tail(queue)
      /\ queue \in Seq(Items) /\ operations \in Seq(Items)
  BY DEF Emit, QueueInv, GivenInv
<1>2. All' = All
  BY <1>1, EmitIs DEF All
<1>3. operations' \in Seq(Items) /\ \A i \in DOMAIN operations' : operations'[i].do # "order"
  <2>1. Head(queue) \in Items
    BY <1>1
  <2>2. \A i \in DOMAIN operations : operations[i].do # "order"
    BY DEF GivenInv
  <2>3. ASSUME NEW y, y = Head(queue)
        PROVE  /\ Append(operations, y) \in Seq(Items)
               /\ \A i \in DOMAIN Append(operations, y) : Append(operations, y)[i].do # "order"
    <3>1. y \in Items /\ y.do # "order"
      BY <1>1, <2>1, <2>3
    <3> QED
      BY <1>1, <2>2, <3>1
  <2> QED
    BY <1>1, <2>3
<1> QED
  BY <1>1, <1>2, <1>3, GivenStays

LEMMA GivenKeeps ==
    ASSUME HandedOverOnce, QueueInv, OrderInv, GivenInv, Next
    PROVE  GivenInv'
<1>1. CASE Start \/ Ordered \/ Emit
  BY <1>1, StartGiven, OrderedGiven, EmitGiven
<1>2. CASE ~(Start \/ Ordered \/ Emit)
  <2>1. UNCHANGED <<request, requires, operations, queue>>
    BY <1>2 DEF Next, Detect, Root, Arc, Up, Found, MergeNext, AllMerged, Collect, BrokenUp, AllCollected, Break
  <2> QED
    BY <2>1, GivenStays DEF GivenInv, All
<1> QED
  BY <1>1, <1>2

-----------------------------------------------------------------------------
(* The order is right.                                                     *)

LEMMA UnchangedShape ==
    ASSUME ShapeInv, UNCHANGED vars
    PROVE  ShapeInv'
<1>1. UNCHANGED <<graph, components, pkgs, stage, sccs>>
  BY DEF vars, detector
<1>2. /\ Level' = Level /\ Current' = Current /\ Alive' = Alive /\ Whole' = Whole /\ Outer' = Outer
      /\ \A n : Pre(graph', n) = Pre(graph, n)
  BY <1>1, SameShape
<1>3. Merged' = Merged /\ Pending' = Pending /\ Ordering' = Ordering
  BY <1>1 DEF Merged, Pending, Ordering
<1>4. Knots' = Knots
  BY <1>1, <1>2 DEF Knots
<1>5. Layers' = Layers
  BY <1>1, <1>2, <1>3 DEF Layers
<1> QED
  BY <1>3, <1>4, <1>5 DEF ShapeInv

LEMMA UnchangedOrder ==
    ASSUME OrderInv, UNCHANGED vars
    PROVE  OrderInv'
<1>1. UNCHANGED <<requires, queue, order, graph, components, pkgs, stage>>
  BY DEF vars
<1>2. CASE Ordering
  <2>1. Ordering'
    BY <1>1, <1>2 DEF Ordering
  <2> QED
    BY <1>1, <1>2, <2>1, SameOrder
<1>3. CASE ~Ordering
  <2>1. ~Ordering'
    BY <1>1, <1>3 DEF Ordering
  <2>2. Paired' = Paired
    <3>1. \A p, q : Linked(p, q)' = Linked(p, q)
      BY <1>1 DEF Linked, Pre
    <3>2. Job' = Job /\ Requires(Job)' = Requires(Job) /\ HardRequires(Job)' = HardRequires(Job)
      BY <1>1 DEF Job, Requires, HardRequires
    <3>3. \A r : Excused(Job, r)' = Excused(Job, r)
      BY <3>2 DEF Excused, Reach
    <3> QED
      BY <1>1, <3>1, <3>2, <3>3 DEF Paired
  <2> QED
    BY <1>1, <1>3, <2>1, <2>2 DEF OrderInv
<1> QED
  BY <1>2, <1>3

LEMMA NotRaisedStays ==
    ASSUME GraphInv, ShapeInv, NotRaised, Next
    PROVE  NotRaised'
<1>1. CASE Break
  BY <1>1, NeverRaised DEF NotRaised
<1>2. CASE ~Break
  BY <1>2 DEF NotRaised, Next, Start, Ordered, Emit, Detect, Root, Arc, Up, Found, MergeNext,
              AllMerged, Collect, BrokenUp, AllCollected
<1> QED
  BY <1>1, <1>2

\* The inductive invariant of what is ordered.
BreakingInv == IInv /\ ShapeInv /\ OrderInv /\ NotRaised

\* Whatever the packages and what they require, no cycle is outside the components that
\* are broken up, each of these hangs together when a requirement is taken from it, so
\* that breakUp() finds a weight for every node and raises no KeyError, and a
\* requirement that is neither in the graph nor kept by the order of genOrder() need not
\* be kept.
THEOREM BreakingInvHolds == Spec => []BreakingInv
<1>1. Init => IInv
  BY IInvStarts
<1>2. Init => BreakingInv
  BY <1>1, ShapeStarts, OrderStarts DEF BreakingInv
<1>3. BreakingInv /\ IInv' /\ [Next]_vars => BreakingInv'
  <2> SUFFICES ASSUME BreakingInv, IInv', [Next]_vars PROVE BreakingInv'
    OBVIOUS
  <2>1. CASE Next
    BY <2>1, ShapeKeeps, OrderKeeps, NotRaisedStays DEF BreakingInv, IInv
  <2>2. CASE UNCHANGED vars
    <3>1. NotRaised'
      BY <2>2 DEF BreakingInv, NotRaised, vars
    <3> QED
      BY <2>2, <3>1, UnchangedShape, UnchangedOrder DEF BreakingInv
  <2> QED
    BY <2>1, <2>2
<1> QED
  BY <1>2, <1>3, IInvHolds, PTL DEF Spec

LEMMA GivenOnce ==
    ASSUME GivenInv, queue = <<>>, NEW p \in request.installs \union request.erases \union Replaced(request)
    PROVE  \E i \in DOMAIN operations : Given(p) = {i}
<1>1. All = operations
  BY DEF GivenInv, All
<1>2. PICK i \in DOMAIN operations : Brings(operations[i], p)
  BY <1>1 DEF GivenInv, Brought
<1>3. ASSUME NEW j \in DOMAIN operations PROVE j \in Given(p) <=> Brings(operations[j], p)
  <2>1. operations[j].do # "order" /\ \E q \in operations[j].of : operations[j].of = {q}
    BY <1>1 DEF GivenInv, Right
  <2> QED
    BY <2>1 DEF Given, Brings
<1>4. \A j \in Given(p) : j \in DOMAIN operations
  BY DEF Given
<1>5. \A j \in DOMAIN operations : Brings(operations[j], p) => j = i
  BY <1>1, <1>2 DEF GivenInv, Apart
<1> QED
  BY <1>2, <1>3, <1>4, <1>5

LEMMA RightOnce ==
    ASSUME GivenInv, NotRaised
    PROVE  OrderedOnce
<1>1. stage # "raised"
  BY DEF NotRaised
<1>2. ASSUME queue = <<>>, NEW i \in DOMAIN operations
      PROVE  operations[i].of \subseteq
                IF operations[i].do = "erase" THEN request.erases \union Replaced(request)
                ELSE request.installs
  <2>1. All = operations
    BY <1>2 DEF GivenInv, All
  <2>2. operations[i].do = operations[i].op /\ Right(operations[i])
    BY <2>1 DEF GivenInv, Right
  <2> QED
    BY <2>2 DEF Right
<1>3. ASSUME queue = <<>>, NEW p \in request.installs \union request.erases \union Replaced(request)
      PROVE  Cardinality(Given(p)) = 1
  BY <1>3, GivenOnce, FS_Singleton
<1> QED
  BY <1>1, <1>2, <1>3 DEF OrderedOnce

LEMMA JobsAre ==
    ASSUME NEW job \in Jobs
    PROVE  /\ job = <<job[1], job[2]>> /\ job[1] \in {"install", "erase"}
           /\ job[2] \subseteq request.installs \union request.erases \union Replaced(request)
BY DEF Jobs, Replaced

LEMMA RightKept ==
    ASSUME GivenInv
    PROVE  RequirementsKept
<1> SUFFICES ASSUME queue = <<>>, NEW job \in Jobs, NEW r \in Requires(job)
             PROVE  \/ job[1] = "install" /\ Before(r[2], r[1])
                    \/ job[1] = "erase" /\ Before(r[1], r[2])
                    \/ Excused(job, r)
  BY DEF RequirementsKept, Excused
<1>1. All = operations /\ \A i \in DOMAIN operations : operations[i].do # "order"
  BY DEF GivenInv, All
<1>2. Settled(operations, job, r)
  BY <1>1 DEF GivenInv, Kept, Waits
<1>3. /\ job[1] \in {"install", "erase"}
      /\ r[1] \in request.installs \union request.erases \union Replaced(request)
      /\ r[2] \in request.installs \union request.erases \union Replaced(request)
  BY JobsAre DEF Requires
<1>4. ASSUME NEW p \in request.installs \union request.erases \union Replaced(request),
             NEW q \in request.installs \union request.erases \union Replaced(request),
             Earlier(operations, p, q)
      PROVE  Before(p, q)
  <2>1. PICK i \in DOMAIN operations, j \in DOMAIN operations :
            i < j /\ operations[i].of = {p} /\ operations[j].of = {q}
    BY <1>4 DEF Earlier, Does
  <2>2. i \in Given(p) /\ j \in Given(q)
    BY <2>1 DEF Given
  <2>3. Given(p) = {i} /\ Given(q) = {j}
    BY <2>2, GivenOnce
  <2> QED
    BY <2>1, <2>3 DEF Before
<1> QED
  BY <1>2, <1>3, <1>4 DEF Settled

\* When nothing is handed over twice, what genOperations() has given and what it has
\* still to order give every package of the request, each once, and every list that is
\* ordered has its requirements settled.
THEOREM GivenInvHolds ==
    ASSUME HandedOverOnce
    PROVE  Spec => []GivenInv
<1>1. Init => GivenInv
  BY GivenStarts
<1>2. BreakingInv /\ GivenInv /\ [Next]_vars => GivenInv'
  <2> SUFFICES ASSUME BreakingInv, GivenInv, [Next]_vars PROVE GivenInv'
    OBVIOUS
  <2>1. CASE Next
    BY <2>1, GivenKeeps DEF BreakingInv, IInv
  <2>2. CASE UNCHANGED vars
    <3>1. UNCHANGED <<request, requires, operations>> /\ All' = All
      BY <2>2 DEF vars, All
    <3> QED
      BY <3>1, GivenStays DEF GivenInv
  <2> QED
    BY <2>1, <2>2
<1> QED
  BY <1>1, <1>2, BreakingInvHolds, PTL DEF Spec

\* When nothing is handed over twice, RpmOrderer gives an operation for everything that
\* comes or goes, each once and nothing else, without a KeyError in breakUp(); what a
\* package requires is installed before it and erased after it, unless each requires the
\* other in the end, and a hard requirement is given up only where a package on the way
\* has a hard requirement on itself: for any packages, requirements and cycles of them.
THEOREM OrderRightHolds ==
    ASSUME HandedOverOnce
    PROVE  Spec => []OrderRight
<1>1. BreakingInv /\ GivenInv => OrderRight
  BY RightOnce, RightKept DEF OrderRight, BreakingInv
<1> QED
  BY <1>1, BreakingInvHolds, GivenInvHolds, PTL
=============================================================================
