--------------------------- MODULE PackageProofs ----------------------------
(***************************************************************************)
(* What an installation promises, for any package and wherever the file is *)
(* damaged or cut, a call fails or the process dies: the properties of     *)
(* Package and the inductive invariant they rest on.                       *)
(***************************************************************************)
EXTENDS Package, WellFoundedInduction, TLAPS

(* Sequences of sequences                                                  *)

LessThan == {ss \in Nat \X Nat : ss[1] < ss[2]}

LEMMA Least == ASSUME NEW T \in SUBSET Nat, T # {} PROVE \E x \in T : \A y \in T : x =< y
<1>1. IsWellFoundedOn(LessThan, Nat)
  BY ONLY NatLessThanWellFounded DEF OpToRel, LessThan
<1>2. PICK x \in T : \A y \in T : <<y, x>> \notin LessThan
  BY <1>1, WFMin
<1>3. ASSUME NEW y \in T PROVE x =< y
  <2>1. y < x => <<y, x>> \in LessThan
    BY DEF LessThan
  <2> QED
    BY <1>2, <2>1
<1> QED
  BY <1>3

LEMMA SetInduction ==
    ASSUME NEW S \in SUBSET Nat, 0 \in S, \A n \in S : n + 1 \in S
    PROVE  S = Nat
<1> SUFFICES ASSUME Nat \ S # {} PROVE FALSE
  OBVIOUS
<1>1. PICK x \in Nat \ S : \A y \in Nat \ S : x =< y
  BY Least
<1>2. x - 1 \in S
  BY <1>1
<1> QED
  BY <1>1, <1>2

\* What the recursive function of FlattenSeq is, up to n.
Flattening(seqs, n, g) == g = [i \in 1..n |-> IF i = 1 THEN seqs[i] ELSE g[i - 1] \o seqs[i]]

LEMMA FlatteningExists == ASSUME NEW seqs PROVE \A n \in Nat : \E g : Flattening(seqs, n, g)
<1> DEFINE S == {n \in Nat : \E g : Flattening(seqs, n, g)}
<1>1. 0 \in S
  <2>1. Flattening(seqs, 0, [i \in 1..0 |-> {}])
    BY DEF Flattening
  <2> QED
    BY <2>1
<1>2. ASSUME NEW n \in S PROVE n + 1 \in S
  <2>1. PICK g : Flattening(seqs, n, g)
    OBVIOUS
  <2> DEFINE h == [i \in 1..(n + 1) |->
                     IF i = n + 1 THEN IF i = 1 THEN seqs[i] ELSE g[i - 1] \o seqs[i] ELSE g[i]]
  <2>2. ASSUME NEW i \in 1..(n + 1) PROVE h[i] = IF i = 1 THEN seqs[i] ELSE h[i - 1] \o seqs[i]
    <3>1. CASE i = n + 1
      <4>1. i # 1 => h[i - 1] = g[i - 1]
        BY <3>1
      <4> QED
        BY <3>1, <4>1
    <3>2. CASE i # n + 1
      <4>1. i \in 1..n /\ h[i] = g[i] /\ (i # 1 => h[i - 1] = g[i - 1])
        BY <3>2
      <4>2. g[i] = IF i = 1 THEN seqs[i] ELSE g[i - 1] \o seqs[i]
        BY <2>1, <4>1 DEF Flattening
      <4> QED
        BY <4>1, <4>2
    <3> QED
      BY <3>1, <3>2
  <2>3. h = [i \in 1..(n + 1) |-> h[i]]
    OBVIOUS
  <2> HIDE DEF h
  <2>4. Flattening(seqs, n + 1, h)
    BY <2>2, <2>3 DEF Flattening
  <2> QED
    BY <2>4
<1> HIDE DEF S
<1>3. S = Nat
  BY <1>1, <1>2, SetInduction DEF S
<1> QED
  BY <1>3 DEF S

LEMMA FlattenSeqIs ==
    ASSUME NEW seqs, Len(seqs) \in Nat \ {0}
    PROVE  \E g : Flattening(seqs, Len(seqs), g) /\ FlattenSeq(seqs) = g[Len(seqs)]
<1>1. \E g : Flattening(seqs, Len(seqs), g)
  BY FlatteningExists
<1> DEFINE f == CHOOSE g : Flattening(seqs, Len(seqs), g)
<1>2. Flattening(seqs, Len(seqs), f)
  BY <1>1
<1>3. FlattenSeq(seqs) = f[Len(seqs)]
  BY Zenon DEF FlattenSeq, Flattening
<1> QED
  BY <1>2, <1>3

\* Where the parts of seqs begin in the whole.
Positions(seqs, pos) ==
    /\ pos \in [1..(Len(seqs) + 1) -> Nat]
    /\ pos[1] = 0
    /\ \A k \in 1..Len(seqs) :
        /\ pos[k + 1] = pos[k] + Len(seqs[k])
        /\ \A i \in 1..Len(seqs[k]) : FlattenSeq(seqs)[pos[k] + i] = seqs[k][i]
    /\ Len(FlattenSeq(seqs)) = pos[Len(seqs) + 1]

LEMMA FlatteningSteps ==
    ASSUME NEW n \in Nat \ {0}, NEW seqs, NEW g, Flattening(seqs, n, g)
    PROVE  g[1] = seqs[1] /\ \A k \in 1..(n - 1) : g[k + 1] = g[k] \o seqs[k + 1]
<1>1. ASSUME NEW i \in 1..n PROVE g[i] = IF i = 1 THEN seqs[i] ELSE g[i - 1] \o seqs[i]
  BY Zenon DEF Flattening
<1>2. ASSUME NEW k \in 1..(n - 1) PROVE g[k + 1] = g[k] \o seqs[k + 1]
  <2>1. k + 1 \in 1..n /\ k + 1 # 1 /\ (k + 1) - 1 = k
    OBVIOUS
  <2>2. g[k + 1] = g[(k + 1) - 1] \o seqs[k + 1]
    BY <1>1, <2>1
  <2> QED
    BY <2>1, <2>2
<1>3. g[1] = seqs[1]
  BY <1>1
<1> QED
  BY <1>2, <1>3

LEMMA Concatenation ==
    ASSUME NEW T, NEW s \in Seq(T), NEW t \in Seq(T), NEW u, u = s \o t
    PROVE  /\ u \in Seq(T) /\ Len(u) = Len(s) + Len(t)
           /\ Len(s) \in Nat /\ Len(t) \in Nat
           /\ \A i \in 1..Len(s) : i \in 1..Len(u) /\ u[i] = s[i]
           /\ \A i \in 1..Len(t) : Len(s) + i \in 1..Len(u) /\ u[Len(s) + i] = t[i]
OBVIOUS

LEMMA FlatteningTypes ==
    ASSUME NEW T, NEW n \in Nat \ {0}, NEW seqs \in [1..n -> Seq(T)], NEW g, Flattening(seqs, n, g)
    PROVE  \A k \in 1..n : g[k] \in Seq(T)
<1> DEFINE S == {k \in Nat : k < n => g[k + 1] \in Seq(T)}
<1>1. 0 \in S
  <2>1. g[1] = seqs[1]
    BY FlatteningSteps
  <2>2. seqs[1] \in Seq(T) /\ 0 + 1 = 1
    OBVIOUS
  <2> QED
    BY <2>1, <2>2
<1>2. ASSUME NEW k \in S PROVE k + 1 \in S
  <2>1. CASE k + 1 < n
    <3>1. k + 1 \in 1..(n - 1) /\ k < n /\ (k + 1) + 1 \in 1..n
      BY <2>1
    <3>2. g[(k + 1) + 1] = g[k + 1] \o seqs[(k + 1) + 1]
      BY <3>1, FlatteningSteps
    <3>3. g[k + 1] \in Seq(T) /\ seqs[(k + 1) + 1] \in Seq(T)
      BY <3>1
    <3>4. g[(k + 1) + 1] \in Seq(T)
      BY <3>2, <3>3, Concatenation
    <3> QED
      BY <3>4
  <2> QED
    BY <2>1
<1> HIDE DEF S
<1>3. S = Nat
  BY <1>1, <1>2, SetInduction DEF S
<1>4. ASSUME NEW k \in 1..n PROVE g[k] \in Seq(T)
  <2>1. k - 1 \in S /\ k - 1 < n /\ (k - 1) + 1 = k
    BY <1>3
  <2>2. g[(k - 1) + 1] \in Seq(T)
    BY <2>1 DEF S
  <2> QED
    BY <2>1, <2>2
<1> QED
  BY <1>4

LEMMA FlatteningGrows ==
    ASSUME NEW T, NEW n \in Nat \ {0}, NEW seqs \in [1..n -> Seq(T)], NEW g, Flattening(seqs, n, g),
           NEW k \in 1..n, NEW i \in 1..Len(g[k])
    PROVE  g[n][i] = g[k][i]
<1>0. \A m \in 1..n : g[m] \in Seq(T)
  BY FlatteningTypes
<1> DEFINE S == {m \in Nat : k + m =< n => (i \in 1..Len(g[k + m]) /\ g[k + m][i] = g[k][i])}
<1>1. 0 \in S
  OBVIOUS
<1>2. ASSUME NEW m \in S PROVE m + 1 \in S
  <2>1. CASE k + (m + 1) =< n
    <3>1. k + m \in 1..(n - 1) /\ (k + m) + 1 = k + (m + 1) /\ (k + m) + 1 \in 1..n /\ k + m \in 1..n
      BY <2>1
    <3>0. \A l \in 1..(n - 1) : g[l + 1] = g[l] \o seqs[l + 1]
      BY FlatteningSteps
    <3>2. g[(k + m) + 1] = g[k + m] \o seqs[(k + m) + 1]
      BY <3>0, <3>1
    <3>3. g[k + m] \in Seq(T) /\ seqs[(k + m) + 1] \in Seq(T) /\ i \in 1..Len(g[k + m]) /\ g[k + m][i] = g[k][i]
      BY <3>1, <1>0
    <3>4. i \in 1..Len(g[(k + m) + 1]) /\ g[(k + m) + 1][i] = g[k][i]
      <4>1. \A l \in 1..Len(g[k + m]) :
              l \in 1..Len(g[(k + m) + 1]) /\ g[(k + m) + 1][l] = g[k + m][l]
        <5>1. PICK a, b, c : a = g[k + m] /\ b = seqs[(k + m) + 1] /\ c = g[(k + m) + 1]
          OBVIOUS
        <5>2. a \in Seq(T) /\ b \in Seq(T) /\ c = a \o b
          BY <3>2, <3>3, <5>1
        <5>3. \A l \in 1..Len(a) : l \in 1..Len(c) /\ c[l] = a[l]
          BY <5>2, Concatenation
        <5> QED
          BY <5>1, <5>3
      <4> QED
        BY <3>3, <4>1
    <3> QED
      BY <3>1, <3>4
  <2> QED
    BY <2>1
<1> HIDE DEF S
<1>3. S = Nat
  BY <1>1, <1>2, SetInduction DEF S
<1>4. n - k \in S /\ k + (n - k) = n
  BY <1>3
<1> QED
  BY <1>4 DEF S

LEMMA FlattenSeqPositions ==
    ASSUME NEW T, NEW seqs \in Seq(Seq(T))
    PROVE  FlattenSeq(seqs) \in Seq(T) /\ \E pos : Positions(seqs, pos)
<1>1. CASE Len(seqs) = 0
  <2>1. FlattenSeq(seqs) = seqs /\ seqs = <<>>
    BY <1>1 DEF FlattenSeq
  <2>2. Positions(seqs, [k \in 1..1 |-> 0])
    BY <1>1, <2>1 DEF Positions
  <2> QED
    BY <2>1, <2>2
<1>2. CASE Len(seqs) # 0
  <2>1. Len(seqs) \in Nat \ {0}
    BY <1>2
  <2>2. PICK g : Flattening(seqs, Len(seqs), g) /\ FlattenSeq(seqs) = g[Len(seqs)]
    BY <2>1, FlattenSeqIs
  <2>3. PICK n \in Nat \ {0} : n = Len(seqs)
    BY <2>1
  <2>4. seqs \in [1..n -> Seq(T)] /\ Flattening(seqs, n, g) /\ FlattenSeq(seqs) = g[n]
    BY <2>2, <2>3
  <2>5. \A k \in 1..n : g[k] \in Seq(T)
    BY <2>4, FlatteningTypes
  <2>6. \A k \in 1..n : \A i \in 1..Len(g[k]) : g[n][i] = g[k][i]
    BY <2>4, FlatteningGrows
  <2>7. g[1] = seqs[1] /\ \A k \in 1..(n - 1) : g[k + 1] = g[k] \o seqs[k + 1]
    BY <2>4, FlatteningSteps
  <2> DEFINE pos == [k \in 1..(n + 1) |-> IF k = 1 THEN 0 ELSE Len(g[k - 1])]
  <2>8. pos \in [1..(n + 1) -> Nat] /\ pos[1] = 0
    BY <2>5
  <2>9. \A k \in 1..n : pos[k + 1] = Len(g[k])
    <3>1. ASSUME NEW k \in 1..n PROVE pos[k + 1] = Len(g[k])
      <4>1. k + 1 \in 1..(n + 1) /\ k + 1 # 1 /\ (k + 1) - 1 = k
        OBVIOUS
      <4> QED
        BY <4>1
    <3> QED
      BY <3>1
  <2> HIDE DEF pos
  <2>10. ASSUME NEW k \in 1..n
        PROVE  pos[k + 1] = pos[k] + Len(seqs[k]) /\ \A i \in 1..Len(seqs[k]) : g[n][pos[k] + i] = seqs[k][i]
    <3>1. CASE k = 1
      <4>1. seqs[1] \in Seq(T) /\ g[1] = seqs[1] /\ pos[2] = Len(seqs[1]) /\ pos[1] = 0
        BY <2>4, <2>7, <2>8, <2>9, <3>1
      <4>2. \A i \in 1..Len(seqs[1]) : g[n][i] = seqs[1][i]
        <5>1. 1 \in 1..n
          OBVIOUS
        <5> QED
          BY <4>1, <2>6, <5>1
      <4> QED
        BY <3>1, <4>1, <4>2
    <3>2. CASE k # 1
      <4>0. PICK j \in 1..(n - 1) : k = j + 1
        <5>1. k - 1 \in 1..(n - 1) /\ k = (k - 1) + 1
          BY <3>2
        <5> QED
          BY <5>1
      <4>1. g[j] \in Seq(T) /\ seqs[k] \in Seq(T) /\ g[k] = g[j] \o seqs[k]
        <5>1. j \in 1..n /\ k \in 1..n
          BY <4>0
        <5>2. g[j + 1] = g[j] \o seqs[j + 1]
          BY <2>7
        <5> QED
          BY <2>4, <2>5, <4>0, <5>1, <5>2
      <4>2. pos[k] = Len(g[j]) /\ pos[k + 1] = Len(g[k])
        BY <2>9, <4>0
      <4>3. /\ Len(g[k]) = Len(g[j]) + Len(seqs[k])
            /\ \A i \in 1..Len(seqs[k]) : Len(g[j]) + i \in 1..Len(g[k]) /\ g[k][Len(g[j]) + i] = seqs[k][i]
        <5>1. PICK a, b, c : a = g[j] /\ b = seqs[k] /\ c = g[k]
          OBVIOUS
        <5>2. a \in Seq(T) /\ b \in Seq(T) /\ c = a \o b
          BY <4>1, <5>1
        <5>3. Len(c) = Len(a) + Len(b) /\ \A i \in 1..Len(b) : Len(a) + i \in 1..Len(c) /\ c[Len(a) + i] = b[i]
          BY <5>2, Concatenation
        <5> QED
          BY <5>1, <5>3
      <4>4. \A i \in 1..Len(seqs[k]) : g[n][pos[k] + i] = seqs[k][i]
        BY <2>6, <4>2, <4>3
      <4> QED
        BY <4>2, <4>3, <4>4
    <3> QED
      BY <3>1, <3>2
  <2>11. Positions(seqs, pos)
    BY <2>3, <2>4, <2>8, <2>9, <2>10 DEF Positions
  <2> QED
    BY <2>4, <2>5, <2>11
<1> QED
  BY <1>1, <1>2

-----------------------------------------------------------------------------
(* The invariant                                                           *)

\* Tokens before the header of each entry, and before the end.
Pieces(a) == [i \in DOMAIN a |-> Tokens(a[i])]
Offsets(a) == CHOOSE pos : Positions(Pieces(a), pos)
Begin == Offsets(archive)

Reached == {i \in DOMAIN archive : Begin[i] < at}
ReadEntries == {archive[i] : i \in Reached}

\* The stream is in the k-th entry: after its header, or after its data.
At(k) ==
    /\ k \in DOMAIN archive
    /\ at = Begin[k] + 1 + readsize
    /\ lastfilesize = archive[k].size
    /\ readsize \in {0, lastfilesize}

Types ==
    /\ archive \in Archives
    /\ at \in Nat /\ lastfilesize \in Nat /\ readsize \in Nat
    /\ hardlinks \in [Ids -> Seq(File)] /\ links \in Seq(File)
    /\ fs = [f \in File |-> fs[f]]
    /\ refused \subseteq File

Position ==
    /\ \/ at = 0 /\ lastfilesize = 0 /\ readsize = 0
       \/ \E k \in DOMAIN archive : At(k)
       \/ at = Len(Stream)
    /\ point \in {"next", "entry"} => at # Len(Stream)
    /\ point = "entry" => \E k \in DOMAIN archive : At(k) /\ readsize = 0 /\ entry = archive[k]
    /\ point \in {"remaining", "done"} => at = Len(Stream)

Kept(e) == e.name \in Listed \ refused
Lost(e) == \E d \in Carriers(e) : ~Kept(d)
InHand(e) == point \in {"entry", "written"} /\ entry = e
Waits(e) == e.name \in Range(hardlinks[e.id])
Linking(e) == e.name \in Range(links)
Settled(e) == e \in ReadEntries /\ ~Waits(e) /\ ~Linking(e) /\ ~InHand(e)
Unchanged(e) == fs[e.name] = Left(e.name)

\* The file of l was made first, and the others share its inode if they can.
Leads(l) ==
    /\ fs[l.name] = Made(l.name, SetData(l))
    /\ \A d \in Members(l) : Settled(d) /\ Kept(d) =>
        fs[d.name] = Made(IF l.name \in Apart <=> d.name \in Apart THEN l.name ELSE d.name, SetData(l))

UnreadRight ==
    \A e \in Range(archive) \ ReadEntries : Unchanged(e) /\ e.name \notin refused /\ ~Waits(e)

WaitingRight ==
    /\ \A i \in Ids :
        /\ IsInjective(hardlinks[i])
        /\ \A f \in Range(hardlinks[i]) : \E e \in ReadEntries : e.name = f /\ e.id = i
    /\ \A e \in Range(archive) : Waits(e) =>
        /\ Unchanged(e) /\ Kept(e) /\ e.size = 0 /\ ~Linking(e) /\ ~InHand(e) /\ e.name \notin Device
        /\ \A c \in Carriers(e) : c \notin ReadEntries \/ InHand(c)

LinkingRight ==
    /\ IsInjective(links)
    /\ point \notin {"link", "unlinked", "linked"} => links = <<>>
    /\ point \in {"unlinked", "linked"} => links # <<>>
    /\ links # <<>> => entry \in ReadEntries /\ Settled(entry) /\ Kept(entry) /\ ~Lost(entry) /\ Leads(entry)
    /\ \A f \in Range(links) : \E e \in ReadEntries : e.name = f /\ e.id = entry.id
    /\ \A e \in Range(archive) : Linking(e) =>
        /\ Kept(e) /\ e.size = 0 /\ e.id = entry.id
        /\ IF point \in {"unlinked", "linked"} /\ e.name = Head(links) THEN fs[e.name] \in {Absent, Torn}
           ELSE Unchanged(e)

PointRight ==
    /\ point \in {"entry", "written"} => entry \in ReadEntries /\ Unchanged(entry)
    /\ point = "entry" => entry.name \notin refused
    /\ point = "written" =>
        /\ Kept(entry) /\ ~Lost(entry) /\ Members(entry) \subseteq ReadEntries
        /\ temp = Made(entry.name, SetData(entry))
    /\ point = "linked" => temp = fs[entry.name] /\ Together
    /\ point = "done" => \A i \in Ids : hardlinks[i] = <<>>

SettledRight ==
    \A e \in Range(archive) : Settled(e) =>
        IF ~Kept(e) \/ Lost(e) THEN Unchanged(e)
        ELSE /\ Members(e) \subseteq ReadEntries
             /\ hardlinks[e.id] = <<>>
             /\ \A d \in Members(e) : ~InHand(d)
             /\ \E l \in Members(e) : Settled(l) /\ Kept(l) /\ Leads(l)

Groups ==
    point # "raised" => UnreadRight /\ WaitingRight /\ LinkingRight /\ PointRight /\ SettledRight

Fresh ==
    ctl # "install" =>
        /\ at = 0 /\ lastfilesize = 0 /\ readsize = 0
        /\ hardlinks = [i \in Ids |-> <<>>]
        /\ fs = old /\ moved = {} /\ temp = Absent /\ links = <<>>
        /\ point = "closed" /\ refused = {}

TempRight ==
    temp # Absent => \/ point \in {"written", "linked"}
                     \/ point = "raised" /\ ("zlib" \in trouble \/ entry.name \in Device)

StepRight == InStep /\ (header_read => where = 4)

MovedRight == moved \subseteq Config \intersect Listed \intersect (File \ refused)

Right == Types /\ Position /\ Groups /\ OldOrNew

PkInv == Right /\ Fresh /\ TempRight /\ StepRight /\ MovedRight

VerdictRight ==
    verdict = 2 \/ \E r \in [Range(Order) -> {-1, 0, 1}] :
                      (\A t \in Range(Order) : r[t] \in Results(t)) /\ verdict = OneResult(r)

-----------------------------------------------------------------------------
(* The layout of the stream                                                *)

EntryType == [name : File, size : Nat, id : Nat]
TokenType == [kind : {"header", "data", "padding", "trailer"}, name : File \union {""}, n : Nat]

LEMMA PaddingNat == ASSUME NEW n \in Nat PROVE Padding(n) \in Nat
BY DEF Padding

LEMMA TokenTyped ==
    ASSUME NEW kind \in {"header", "data", "padding", "trailer"}, NEW name \in File \union {""}, NEW n \in Nat
    PROVE  Token(kind, name, n) \in TokenType /\ Token(kind, name, n).kind = kind
BY DEF Token, TokenType

LEMMA SequenceOf ==
    ASSUME NEW T, NEW n \in Nat, NEW s, DOMAIN s = 1..n, s = [i \in 1..n |-> s[i]], \A i \in 1..n : s[i] \in T
    PROVE  s \in Seq(T) /\ Len(s) = n
OBVIOUS

LEMMA Joined ==
    ASSUME NEW s \in Seq(TokenType), NEW t \in Seq(TokenType), NEW u, u = s \o t
    PROVE  /\ u \in Seq(TokenType) /\ Len(u) = Len(s) + Len(t)
           /\ Len(s) \in Nat /\ Len(t) \in Nat
           /\ \A i \in 1..Len(s) : i \in 1..Len(u) /\ u[i] = s[i]
           /\ \A i \in 1..Len(t) : Len(s) + i \in 1..Len(u) /\ u[Len(s) + i] = t[i]
OBVIOUS

LEMMA TokensAre ==
    ASSUME NEW e \in EntryType
    PROVE  /\ Tokens(e) \in Seq(TokenType)
           /\ Len(Tokens(e)) = 1 + e.size + Padding(e.size)
           /\ Tokens(e)[1] = Token("header", e.name, e.size)
           /\ \A i \in 1..e.size : Tokens(e)[1 + i] = Data(e)[i]
<1> DEFINE h == <<Token("header", e.name, e.size)>>
           p == [i \in 1..Padding(e.size) |-> Token("padding", "", 0)]
<1>1. e.size \in Nat /\ e.name \in File /\ Padding(e.size) \in Nat
  BY PaddingNat DEF EntryType
<1>2. h \in Seq(TokenType) /\ Len(h) = 1 /\ h[1] = Token("header", e.name, e.size)
  <2>1. h[1] \in TokenType
    BY <1>1, TokenTyped
  <2> QED
    BY <2>1
<1>3. Data(e) \in Seq(TokenType) /\ Len(Data(e)) = e.size
  <2>1. Data(e) = [i \in 1..e.size |-> Data(e)[i]] /\ DOMAIN Data(e) = 1..e.size
    BY DEF Data
  <2>2. ASSUME NEW i \in 1..e.size PROVE Data(e)[i] \in TokenType
    <3>1. Data(e)[i] = Token("data", e.name, i) /\ i \in Nat
      BY <1>1 DEF Data
    <3> QED
      BY <1>1, <3>1, TokenTyped
  <2> QED
    BY <1>1, <2>1, <2>2, SequenceOf
<1>4. p \in Seq(TokenType) /\ Len(p) = Padding(e.size)
  <2>1. p = [i \in 1..Padding(e.size) |-> p[i]] /\ DOMAIN p = 1..Padding(e.size)
    OBVIOUS
  <2>2. \A i \in 1..Padding(e.size) : p[i] \in TokenType
    BY TokenTyped
  <2> HIDE DEF p
  <2> QED
    BY <1>1, <2>1, <2>2, SequenceOf
<1> HIDE DEF h, p
<1>5. PICK u : u = h \o Data(e)
  OBVIOUS
<1>6. /\ u \in Seq(TokenType) /\ Len(u) = 1 + e.size /\ u[1] = h[1]
      /\ \A i \in 1..e.size : 1 + i \in 1..Len(u) /\ u[1 + i] = Data(e)[i]
  <2>1. PICK a, b : a = h /\ b = Data(e)
    OBVIOUS
  <2>2. a \in Seq(TokenType) /\ b \in Seq(TokenType) /\ u = a \o b
    BY <1>2, <1>3, <1>5, <2>1
  <2>3. /\ u \in Seq(TokenType) /\ Len(u) = Len(a) + Len(b)
        /\ \A i \in 1..Len(a) : u[i] = a[i]
        /\ \A i \in 1..Len(b) : Len(a) + i \in 1..Len(u) /\ u[Len(a) + i] = b[i]
    BY <2>2, Joined
  <2>4. Len(a) = 1 /\ Len(b) = e.size
    BY <1>2, <1>3, <2>1
  <2> QED
    BY <2>1, <2>3, <2>4
<1>7. PICK v : v = u \o p
  OBVIOUS
<1>8. v \in Seq(TokenType) /\ Len(v) = Len(u) + Len(p) /\ \A i \in 1..Len(u) : v[i] = u[i]
  <2>0. PICK b : b = p
    OBVIOUS
  <2>1. b \in Seq(TokenType) /\ v = u \o b
    BY <1>4, <1>7, <2>0
  <2>2. /\ v \in Seq(TokenType) /\ Len(v) = Len(u) + Len(b)
        /\ \A i \in 1..Len(u) : v[i] = u[i]
    BY <1>6, <2>1, Joined
  <2> QED
    BY <2>0, <2>2
<1>9. Tokens(e) = v
  BY <1>5, <1>7 DEF Tokens, h, p
<1>10. v[1] = u[1] /\ \A i \in 1..e.size : v[1 + i] = u[1 + i]
  BY <1>1, <1>6, <1>8
<1>11. Len(v) = 1 + e.size + Padding(e.size)
  BY <1>1, <1>4, <1>6, <1>8
<1> QED
  BY <1>2, <1>6, <1>8, <1>9, <1>10, <1>11

LEMMA Monotone ==
    ASSUME NEW n \in Nat, NEW b \in [1..(n + 1) -> Nat], \A k \in 1..n : b[k] < b[k + 1],
           NEW i \in 1..(n + 1), NEW j \in 1..(n + 1), i < j
    PROVE  b[i] < b[j]
<1> DEFINE S == {m \in Nat : (i + 1) + m =< n + 1 => b[i] < b[(i + 1) + m]}
<1>1. 0 \in S
  OBVIOUS
<1>2. ASSUME NEW m \in S PROVE m + 1 \in S
  <2>1. CASE (i + 1) + (m + 1) =< n + 1
    <3>1. PICK k \in 1..n : k = (i + 1) + m /\ k + 1 = (i + 1) + (m + 1)
      BY <2>1
    <3>2. b[i] < b[k] /\ b[k] < b[k + 1] /\ b[i] \in Nat /\ b[k] \in Nat /\ b[k + 1] \in Nat
      BY <3>1
    <3> QED
      BY <3>1, <3>2
  <2> QED
    BY <2>1
<1> HIDE DEF S
<1>3. S = Nat
  BY <1>1, <1>2, SetInduction DEF S
<1>4. PICK m \in Nat : j = (i + 1) + m
  <2>1. j - (i + 1) \in Nat /\ j = (i + 1) + (j - (i + 1))
    OBVIOUS
  <2> QED
    BY <2>1
<1>5. (i + 1) + m =< n + 1 => b[i] < b[(i + 1) + m]
  BY <1>3 DEF S
<1> QED
  BY <1>4, <1>5

Layout ==
    /\ archive \in Seq(EntryType) /\ AsBuilt(archive)
    /\ Begin \in [1..(Len(archive) + 1) -> Nat] /\ Begin[1] = 0
    /\ Stream \in Seq(TokenType) /\ Len(Stream) = Begin[Len(archive) + 1] + 1
    /\ Stream[Len(Stream)].kind = "trailer"
    /\ \A k \in DOMAIN archive :
        /\ Begin[k + 1] = Begin[k] + 1 + archive[k].size + Padding(archive[k].size)
        /\ Stream[Begin[k] + 1] = Token("header", archive[k].name, archive[k].size)
        /\ \A i \in 1..archive[k].size : Stream[Begin[k] + 1 + i] = Data(archive[k])[i]

\* Entry after entry, and the end.
LEMMA LaidOut == ASSUME archive \in Archives PROVE Layout
<1> DEFINE Q == Pieces(archive)
<1>1. archive \in Seq(EntryType) /\ AsBuilt(archive)
  BY PayloadAssumption DEF EntryType
<1>2. \A k \in DOMAIN archive : archive[k] \in EntryType
  BY <1>1
<1>3. Q \in Seq(Seq(TokenType)) /\ Len(Q) = Len(archive)
      /\ \A k \in DOMAIN archive : Q[k] = Tokens(archive[k])
  BY <1>1, <1>2, TokensAre DEF Pieces
<1>4. FlattenSeq(Q) \in Seq(TokenType) /\ Positions(Q, Begin)
  BY <1>3, FlattenSeqPositions DEF Begin, Offsets, Q
<1> DEFINE F == FlattenSeq(Q)
           z == <<Token("trailer", "", 0)>>
<1>5. z \in Seq(TokenType) /\ Len(z) = 1 /\ z[1].kind = "trailer"
  <2>1. PICK t : t = Token("trailer", "", 0)
    OBVIOUS
  <2>2. t \in TokenType /\ t.kind = "trailer"
    BY <2>1, TokenTyped
  <2>3. z = <<t>>
    BY <2>1
  <2> HIDE DEF z
  <2> QED
    BY <2>2, <2>3
<1>6. Stream = F \o z
  BY DEF Stream, Pieces
<1> HIDE DEF F, z
<1> HIDE DEF Q
<1>7. /\ Stream \in Seq(TokenType) /\ Len(Stream) = Len(F) + 1
      /\ \A i \in 1..Len(F) : Stream[i] = F[i]
      /\ \A i \in 1..Len(z) : Stream[Len(F) + i] = z[i]
  <2>1. F \in Seq(TokenType)
    BY <1>4 DEF F
  <2>2. PICK a, b, c : a = F /\ b = z /\ c = Stream
    OBVIOUS
  <2>3. a \in Seq(TokenType) /\ b \in Seq(TokenType) /\ c = a \o b
    BY <1>5, <1>6, <2>1, <2>2
  <2>4. /\ c \in Seq(TokenType) /\ Len(c) = Len(a) + Len(b)
        /\ \A i \in 1..Len(a) : c[i] = a[i]
        /\ \A i \in 1..Len(b) : c[Len(a) + i] = b[i]
    BY <2>3, Joined
  <2> QED
    BY <1>5, <2>2, <2>4
<1>8. Stream[Len(Stream)].kind = "trailer"
  BY <1>5, <1>7
<1>9. Begin \in [1..(Len(archive) + 1) -> Nat] /\ Begin[1] = 0 /\ Len(F) = Begin[Len(archive) + 1]
  BY <1>3, <1>4 DEF Positions, F
<1>10. ASSUME NEW k \in DOMAIN archive
       PROVE  /\ Len(Q[k]) = 1 + archive[k].size + Padding(archive[k].size)
              /\ Q[k] = Tokens(archive[k])
              /\ archive[k].size \in Nat /\ Padding(archive[k].size) \in Nat
              /\ Begin[k] \in Nat /\ Begin[k + 1] \in Nat
              /\ Begin[k + 1] = Begin[k] + 1 + archive[k].size + Padding(archive[k].size)
              /\ \A i \in 1..Len(Q[k]) : F[Begin[k] + i] = Q[k][i]
  <2>1. Len(Q[k]) = 1 + archive[k].size + Padding(archive[k].size) /\ Q[k] = Tokens(archive[k])
    BY <1>2, <1>3, TokensAre
  <2>2. archive[k].size \in Nat /\ Padding(archive[k].size) \in Nat
    BY <1>2, PaddingNat DEF EntryType
  <2>3. k \in 1..Len(Q) /\ k \in 1..(Len(archive) + 1) /\ k + 1 \in 1..(Len(archive) + 1)
    BY <1>1, <1>3
  <2>4. Begin[k] \in Nat /\ Begin[k + 1] \in Nat
    BY <1>9, <2>3
  <2>5. Begin[k + 1] = Begin[k] + Len(Q[k]) /\ \A i \in 1..Len(Q[k]) : F[Begin[k] + i] = Q[k][i]
    BY <1>4, <2>3 DEF Positions, F
  <2>6. Begin[k + 1] = Begin[k] + 1 + archive[k].size + Padding(archive[k].size)
    <3>1. Begin[k + 1] = Begin[k] + Len(Q[k]) /\ Len(Q[k]) = 1 + archive[k].size + Padding(archive[k].size)
      BY <2>1, <2>5
    <3> QED
      BY <2>2, <2>4, <3>1
  <2> QED
    BY Zenon, <2>1, <2>2, <2>4, <2>5, <2>6
<1>11. ASSUME NEW k \in DOMAIN archive PROVE Begin[k + 1] =< Len(F)
  <2>1. PICK n \in Nat : n = Len(archive)
    BY <1>1
  <2>2. Begin \in [1..(n + 1) -> Nat] /\ \A j \in 1..n : Begin[j] < Begin[j + 1]
    <3>1. ASSUME NEW j \in 1..n PROVE Begin[j] < Begin[j + 1]
      <4>1. j \in DOMAIN archive
        BY <1>1, <2>1
      <4>2. /\ Begin[j + 1] = Begin[j] + 1 + archive[j].size + Padding(archive[j].size)
            /\ Begin[j] \in Nat /\ archive[j].size \in Nat /\ Padding(archive[j].size) \in Nat
        BY <1>10, <4>1
      <4> QED
        BY <4>2
    <3> QED
      BY <1>9, <2>1, <3>1
  <2>3. k + 1 \in 1..(n + 1) /\ n + 1 \in 1..(n + 1)
    BY <1>1, <2>1
  <2>4. k + 1 < n + 1 => Begin[k + 1] < Begin[n + 1]
    BY <2>2, <2>3, Monotone
  <2> QED
    BY <1>9, <1>10, <2>1, <2>2, <2>3, <2>4
<1>12. ASSUME NEW k \in DOMAIN archive
       PROVE  /\ Stream[Begin[k] + 1] = Token("header", archive[k].name, archive[k].size)
              /\ \A i \in 1..archive[k].size : Stream[Begin[k] + 1 + i] = Data(archive[k])[i]
  <2>1. /\ Tokens(archive[k])[1] = Token("header", archive[k].name, archive[k].size)
        /\ \A i \in 1..archive[k].size : Tokens(archive[k])[1 + i] = Data(archive[k])[i]
    BY <1>2, TokensAre
  <2>2. \A j \in 1..(1 + archive[k].size) : Stream[Begin[k] + j] = Tokens(archive[k])[j]
    <3>1. Len(F) \in Nat
      BY <1>4 DEF F
    <3>2. /\ Begin[k] \in Nat /\ archive[k].size \in Nat /\ Padding(archive[k].size) \in Nat
          /\ Begin[k + 1] = Begin[k] + 1 + archive[k].size + Padding(archive[k].size)
          /\ Len(Q[k]) = 1 + archive[k].size + Padding(archive[k].size)
      BY <1>10
    <3>3. Begin[k + 1] =< Len(F)
      BY <1>11
    <3>4. \A j \in 1..(1 + archive[k].size) : Begin[k] + j \in 1..Len(F) /\ j \in 1..Len(Q[k])
      BY <3>1, <3>2, <3>3
    <3>5. Q[k] = Tokens(archive[k]) /\ \A i \in 1..Len(Q[k]) : F[Begin[k] + i] = Q[k][i]
      BY <1>10
    <3> QED
      BY <1>7, <3>4, <3>5
  <2>3. \A i \in 1..archive[k].size : 1 + i \in 1..(1 + archive[k].size) /\ Begin[k] + (1 + i) = Begin[k] + 1 + i
    <3>1. Begin[k] \in Nat /\ archive[k].size \in Nat
      BY <1>10
    <3> QED
      BY <3>1
  <2>4. 1 \in 1..(1 + archive[k].size)
    BY <1>10
  <2> QED
    BY <2>1, <2>2, <2>3, <2>4
<1> QED
  BY <1>1, <1>7, <1>8, <1>9, <1>10, <1>12 DEF Layout

-----------------------------------------------------------------------------
(* Where the reader is                                                     *)

LEMMA Entry ==
    ASSUME Layout, NEW k \in DOMAIN archive
    PROVE  /\ archive[k] \in EntryType /\ archive[k].size \in Nat /\ archive[k].name \in File
           /\ Padding(archive[k].size) \in Nat
           /\ k \in Nat /\ Len(archive) \in Nat /\ DOMAIN archive = 1..Len(archive)
           /\ Begin[k] \in Nat /\ Begin[k + 1] \in Nat
           /\ Begin[k + 1] = Begin[k] + 1 + archive[k].size + Padding(archive[k].size)
<1>1. archive \in Seq(EntryType)
  BY DEF Layout
<1>2. /\ archive[k] \in EntryType /\ k \in Nat /\ Len(archive) \in Nat /\ DOMAIN archive = 1..Len(archive)
      /\ k \in 1..(Len(archive) + 1) /\ k + 1 \in 1..(Len(archive) + 1)
  BY <1>1
<1>3. archive[k].size \in Nat /\ archive[k].name \in File
  BY <1>2 DEF EntryType
<1> QED
  BY <1>2, <1>3, PaddingNat DEF Layout

LEMMA Ordered ==
    ASSUME Layout, NEW i \in 1..(Len(archive) + 1), NEW j \in 1..(Len(archive) + 1), i < j
    PROVE  Begin[i] < Begin[j] /\ Begin[i] \in Nat /\ Begin[j] \in Nat
<1>1. archive \in Seq(EntryType) /\ Begin \in [1..(Len(archive) + 1) -> Nat]
  BY DEF Layout
<1>2. PICK n \in Nat : n = Len(archive) /\ DOMAIN archive = 1..n
  BY <1>1
<1>3. \A k \in 1..n : Begin[k] < Begin[k + 1]
  <2>1. ASSUME NEW k \in 1..n PROVE Begin[k] < Begin[k + 1]
    <3>1. /\ archive[k].size \in Nat /\ Padding(archive[k].size) \in Nat
          /\ Begin[k] \in Nat /\ Begin[k + 1] = Begin[k] + 1 + archive[k].size + Padding(archive[k].size)
      BY <1>2, Entry
    <3> QED
      BY <3>1
  <2> QED
    BY <2>1
<1>4. Begin[i] < Begin[j]
  BY <1>1, <1>2, <1>3, Monotone
<1> QED
  BY <1>1, <1>4

\* The entries that begin before p, when it is in the k-th.
LEMMA ReachedAt ==
    ASSUME Layout, NEW k \in DOMAIN archive, NEW p \in Nat, Begin[k] < p, p =< Begin[k + 1]
    PROVE  {i \in DOMAIN archive : Begin[i] < p} = {i \in DOMAIN archive : i =< k}
<1>1. /\ k \in Nat /\ Len(archive) \in Nat /\ DOMAIN archive = 1..Len(archive)
      /\ Begin[k] \in Nat /\ Begin[k + 1] \in Nat
  BY Entry
<1>2. ASSUME NEW i \in DOMAIN archive PROVE Begin[i] < p <=> i =< k
  <2>1. i \in Nat /\ Begin[i] \in Nat /\ i \in 1..(Len(archive) + 1) /\ k \in 1..(Len(archive) + 1)
        /\ k + 1 \in 1..(Len(archive) + 1)
    BY <1>1, Entry
  <2>2. CASE i < k
    <3>1. Begin[i] < Begin[k]
      BY <2>1, <2>2, Ordered
    <3> QED
      BY <1>1, <2>1, <2>2, <3>1
  <2>3. CASE i = k
    BY <2>1, <2>3
  <2>4. CASE i > k
    <3>1. i = k + 1 \/ Begin[k + 1] < Begin[i]
      BY <1>1, <2>1, <2>4, Ordered
    <3> QED
      BY <1>1, <2>1, <2>4, <3>1
  <2> QED
    BY <1>1, <2>1, <2>2, <2>3, <2>4
<1> QED
  BY <1>2

\* All of them, before the end.
LEMMA BeforeEnd ==
    ASSUME Layout, NEW k \in DOMAIN archive
    PROVE  Begin[k] < Len(Stream) /\ Begin[k + 1] < Len(Stream) /\ Len(Stream) \in Nat
<1>1. /\ Len(archive) \in Nat /\ Begin[k] \in Nat /\ Begin[k + 1] \in Nat
      /\ k \in 1..(Len(archive) + 1) /\ k + 1 \in 1..(Len(archive) + 1)
      /\ Len(archive) + 1 \in 1..(Len(archive) + 1)
      /\ k < Len(archive) + 1 /\ (k + 1 = Len(archive) + 1 \/ k + 1 < Len(archive) + 1)
  BY Entry
<1>2. Begin[k] < Begin[Len(archive) + 1] /\ Begin[Len(archive) + 1] \in Nat
  BY <1>1, Ordered
<1>3. k + 1 = Len(archive) + 1 \/ Begin[k + 1] < Begin[Len(archive) + 1]
  BY <1>1, Ordered
<1>4. Len(Stream) = Begin[Len(archive) + 1] + 1
  BY DEF Layout
<1> QED
  BY <1>1, <1>2, <1>3, <1>4

LEMMA AtReached ==
    ASSUME Layout, NEW k, At(k)
    PROVE  /\ at \in Nat /\ Begin[k] < at /\ at =< Begin[k + 1] /\ at < Len(Stream)
           /\ Reached = {i \in DOMAIN archive : i =< k}
           /\ at > 0 /\ Stream[at].kind # "trailer"
<1>1. k \in DOMAIN archive /\ at = Begin[k] + 1 + readsize /\ readsize \in {0, archive[k].size}
  BY DEF At
<1>2. /\ archive[k].size \in Nat /\ Padding(archive[k].size) \in Nat /\ Begin[k] \in Nat
      /\ k \in Nat /\ Len(archive) \in Nat /\ DOMAIN archive = 1..Len(archive)
      /\ Begin[k + 1] \in Nat
      /\ Begin[k + 1] = Begin[k] + 1 + archive[k].size + Padding(archive[k].size)
  BY <1>1, Entry
<1>3. at \in Nat /\ Begin[k] < at /\ at =< Begin[k + 1] /\ at > 0
  <2>1. readsize \in Nat /\ readsize =< archive[k].size
    BY <1>1, <1>2
  <2>2. at = Begin[k] + 1 + readsize
    BY <1>1
  <2> QED
    BY <1>2, <2>1, <2>2
<1>4. Reached = {i \in DOMAIN archive : i =< k}
  BY <1>1, <1>3, ReachedAt DEF Reached
<1>5. at < Len(Stream)
  BY <1>1, <1>2, <1>3, BeforeEnd
<1>6. Stream[at].kind # "trailer"
  <2>1. CASE readsize = 0
    <3>1. at = Begin[k] + 1
      BY <1>1, <1>2, <2>1
    <3>2. Stream[at] = Token("header", archive[k].name, archive[k].size)
      BY <1>1, <3>1 DEF Layout
    <3> QED
      BY <3>2 DEF Token
  <2>2. CASE readsize # 0
    <3>1. readsize \in 1..archive[k].size
      BY <1>1, <1>2, <2>2
    <3>2. Stream[at] = Data(archive[k])[readsize]
      BY <1>1, <3>1 DEF Layout
    <3>3. Stream[at] = Token("data", archive[k].name, readsize)
      BY <3>1, <3>2 DEF Data
    <3> QED
      BY <3>3 DEF Token
  <2> QED
    BY <2>1, <2>2
<1> QED
  BY <1>3, <1>4, <1>5, <1>6

\* What comes next.
LEMMA ToNext ==
    ASSUME Layout, Position, at # Len(Stream)
    PROVE  \E j \in 1..(Len(archive) + 1) :
              at + ToHeader = Begin[j] /\ Reached = {i \in DOMAIN archive : i < j}
<1>0. archive \in Seq(EntryType) /\ Begin \in [1..(Len(archive) + 1) -> Nat] /\ Begin[1] = 0
  BY DEF Layout
<1>1. CASE at = 0 /\ lastfilesize = 0 /\ readsize = 0
  <2>1. at + ToHeader = 0
    BY <1>1 DEF ToHeader, Rest, Padding
  <2>2. \A i \in DOMAIN archive : Begin[i] \in Nat /\ ~(i < 1)
    BY <1>0
  <2>3. Reached = {i \in DOMAIN archive : i < 1}
    BY <1>1, <2>2 DEF Reached
  <2>4. 1 \in 1..(Len(archive) + 1)
    BY <1>0
  <2> QED
    BY <1>0, <2>1, <2>3, <2>4
<1>2. ASSUME NEW k \in DOMAIN archive, At(k)
      PROVE  \E j \in 1..(Len(archive) + 1) :
                at + ToHeader = Begin[j] /\ Reached = {i \in DOMAIN archive : i < j}
  <2>1. /\ archive[k].size \in Nat /\ Padding(archive[k].size) \in Nat /\ Begin[k] \in Nat
        /\ k \in Nat /\ Len(archive) \in Nat /\ DOMAIN archive = 1..Len(archive)
        /\ Begin[k + 1] = Begin[k] + 1 + archive[k].size + Padding(archive[k].size)
    BY Entry
  <2>2. at = Begin[k] + 1 + readsize /\ readsize \in {0, archive[k].size} /\ lastfilesize = archive[k].size
    BY <1>2 DEF At
  <2>3. at + ToHeader = Begin[k + 1]
    BY <2>1, <2>2 DEF ToHeader, Rest
  <2>4. Reached = {i \in DOMAIN archive : i =< k}
    BY <1>2, AtReached
  <2>5. Reached = {i \in DOMAIN archive : i < k + 1}
    BY <2>1, <2>4
  <2>6. k + 1 \in 1..(Len(archive) + 1)
    BY <2>1
  <2> QED
    BY <2>3, <2>5, <2>6
<1> QED
  BY <1>1, <1>2 DEF Position

LEMMA SameLayout ==
    ASSUME archive' = archive
    PROVE  /\ Begin' = Begin /\ Stream' = Stream /\ Range(archive)' = Range(archive)
           /\ \A e : Members(e)' = Members(e) /\ Carriers(e)' = Carriers(e) /\ SetData(e)' = SetData(e)
<1>1. Begin' = Begin
  BY DEF Begin
<1>2. Stream' = Stream
  BY DEF Stream
<1>3. Range(archive)' = Range(archive)
  BY DEF Range
<1>4. \A e : Members(e)' = Members(e)
  BY <1>3 DEF Members
<1>5. \A e : Carriers(e)' = Carriers(e)
  BY <1>4 DEF Carriers
<1>6. \A e : SetData(e)' = SetData(e)
  BY <1>5 DEF SetData
<1> QED
  BY <1>1, <1>2, <1>3, <1>4, <1>5, <1>6

Entered == Range(archive)

\* What the entries of a package have in common, and what they do not.
LEMMA EntriesBuilt ==
    ASSUME archive \in Archives
    PROVE  /\ \A e \in Entered : e.name \in File /\ e.size \in Nat /\ e.id \in Ids /\ e \in EntryType
           /\ \A e, d \in Entered : e.name = d.name => e = d
           /\ \A e, d \in Entered : e # d /\ e.id = d.id =>
                ~(e.size > 0 /\ d.size > 0) /\ e.name \notin Device /\ (e.name \in Listed <=> d.name \in Listed)
           /\ \A i, j \in DOMAIN archive : archive[i].id = archive[j].id /\ archive[i].size > 0 => j =< i
           /\ \A e \in Entered : \A d : d.id = e.id => Members(d) = Members(e) /\ SetData(d) = SetData(e)
           /\ \A e \in Entered : \A c \in Carriers(e) : SetData(e) = Data(c)
           /\ \A e \in Entered : e.size = 0 => Data(e) = <<>>
           /\ \A e \in Entered : e.size > 0 => e \in Carriers(e)
           /\ \A e \in Entered : Carriers(e) = {} => SetData(e) = <<>>
<1>1. archive \in Seq(EntryType) /\ AsBuilt(archive)
  BY PayloadAssumption DEF EntryType
<1>2. ASSUME NEW e \in Entered PROVE \E i \in DOMAIN archive : e = archive[i]
  BY DEF Entered, Range
<1>3. ASSUME NEW e \in Entered PROVE e.name \in File /\ e.size \in Nat /\ e.id \in Ids /\ e \in EntryType
  <2>1. PICK i \in DOMAIN archive : e = archive[i]
    BY <1>2
  <2>2. e \in EntryType
    BY <1>1, <2>1
  <2>3. e \in Entries
    BY <2>1 DEF Entries
  <2> QED
    BY <2>2, <2>3 DEF EntryType, Ids
<1>4. ASSUME NEW i \in DOMAIN archive, NEW j \in DOMAIN archive, i # j
      PROVE  /\ archive[i].name # archive[j].name
             /\ archive[i].id = archive[j].id =>
                /\ archive[i].size > 0 => j < i
                /\ archive[i].name \notin Device
                /\ archive[i].name \in Listed <=> archive[j].name \in Listed
  BY <1>1, <1>4 DEF AsBuilt
<1>5. \A i, j \in DOMAIN archive : archive[i].id = archive[j].id /\ archive[i].size > 0 => j =< i
  <2>1. \A i \in DOMAIN archive : i \in Nat
    BY <1>1
  <2> QED
    BY <1>4, <2>1
<1>6. ASSUME NEW e \in Entered, NEW d \in Entered
      PROVE  /\ e.name = d.name => e = d
             /\ e # d /\ e.id = d.id =>
                ~(e.size > 0 /\ d.size > 0) /\ e.name \notin Device /\ (e.name \in Listed <=> d.name \in Listed)
  <2>1. PICK i \in DOMAIN archive : e = archive[i]
    BY <1>2
  <2>2. PICK j \in DOMAIN archive : d = archive[j]
    BY <1>2
  <2>3. i \in Nat /\ j \in Nat
    BY <1>1
  <2> QED
    BY <1>4, <2>1, <2>2, <2>3
<1>7. ASSUME NEW e \in Entered, NEW d, d.id = e.id
      PROVE  Members(d) = Members(e) /\ SetData(d) = SetData(e)
  <2>1. Members(d) = Members(e)
    BY <1>7 DEF Members
  <2>2. Carriers(d) = Carriers(e)
    BY <2>1 DEF Carriers
  <2> QED
    BY <2>1, <2>2 DEF SetData
<1>8. ASSUME NEW e \in Entered, NEW c \in Carriers(e) PROVE SetData(e) = Data(c)
  <2>1. \A x \in Carriers(e) : x \in Entered /\ x.id = e.id /\ x.size > 0
    BY DEF Carriers, Members, Entered
  <2>2. \A x \in Carriers(e) : x = c
    BY <1>6, <2>1
  <2>3. (CHOOSE d \in Carriers(e) : TRUE) = c
    BY <2>2
  <2> QED
    BY <2>3 DEF SetData, DataOf
<1>9. ASSUME NEW e \in Entered, e.size = 0 PROVE Data(e) = <<>>
  BY <1>9 DEF Data
<1>10. ASSUME NEW e \in Entered, e.size > 0 PROVE e \in Carriers(e)
  BY <1>10 DEF Carriers, Members, Entered
<1>11. ASSUME NEW e \in Entered, Carriers(e) = {} PROVE SetData(e) = <<>>
  BY <1>11 DEF SetData, DataOf
<1> QED
  BY <1>3, <1>5, <1>6, <1>7, <1>8, <1>9, <1>10, <1>11

LEMMA ReadThere == ASSUME archive \in Archives PROVE ReadEntries \subseteq Entered
BY DEF ReadEntries, Reached, Entered, Range

LEMMA ReadSame == ASSUME archive' = archive, at' = at PROVE ReadEntries' = ReadEntries
<1>1. Reached' = Reached
  BY SameLayout DEF Reached
<1> QED
  BY <1>1 DEF ReadEntries

\* NextEntry finds a header that was not read before, or the end.
LEMMA NextEntryReads ==
    ASSUME Types, Position, NextEntry
    PROVE  \/ /\ point' = "raised" /\ "magic" \notin trouble' \ trouble /\ "unpack" \notin trouble' \ trouble
              /\ UNCHANGED <<cpioVars, entry>>
           \/ /\ point' = "entry" /\ trouble' = trouble
              /\ at' \in Nat /\ lastfilesize' \in Nat /\ readsize' = 0 /\ at' # Len(Stream)
              /\ entry' \in Entered \ ReadEntries /\ ReadEntries' = ReadEntries \union {entry'}
              /\ \E k \in DOMAIN archive : At(k)' /\ entry' = archive[k]
           \/ /\ point' = "remaining" /\ trouble' = trouble
              /\ at' \in Nat /\ readsize' = 0 /\ at' = Len(Stream) /\ UNCHANGED <<lastfilesize, entry>>
              /\ ReadEntries' = ReadEntries /\ ReadEntries = Entered
<1>1. archive' = archive /\ point = "next"
  BY DEF NextEntry
<1>2. Layout /\ Begin' = Begin /\ Stream' = Stream
  BY <1>1, LaidOut, SameLayout DEF Types
<1>3. archive \in Seq(EntryType) /\ Len(archive) \in Nat /\ DOMAIN archive = 1..Len(archive)
  BY <1>2 DEF Layout
<1>4. PICK j \in 1..(Len(archive) + 1) : at + ToHeader = Begin[j] /\ Reached = {i \in DOMAIN archive : i < j}
  BY <1>1, <1>2, ToNext DEF Position
<1>5. j \in Nat /\ Begin[j] \in Nat
  BY <1>2, <1>3, <1>4 DEF Layout
<1>6. CASE ~Readable(ToHeader + 1)
  BY <1>6 DEF NextEntry, Unreadable, cpioVars
<1>7. CASE Readable(ToHeader + 1) /\ j \in DOMAIN archive
  <2>1. at + ToHeader + 1 = Begin[j] + 1
    BY <1>4
  <2>2. Stream[at + ToHeader + 1] = Token("header", archive[j].name, archive[j].size)
    BY <1>2, <1>7, <2>1 DEF Layout
  <2>3. PICK t : t = Stream[at + ToHeader + 1]
    OBVIOUS
  <2>4. t.kind = "header" /\ t.name = archive[j].name /\ t.n = archive[j].size
    BY <2>2, <2>3 DEF Token
  <2>5. /\ at' = Begin[j] + 1 /\ readsize' = 0 /\ lastfilesize' = archive[j].size
        /\ entry' = CHOOSE e \in Range(archive) : e.name = archive[j].name
        /\ point' = "entry" /\ trouble' = trouble
    BY <1>7, <2>1, <2>3, <2>4 DEF NextEntry
  <2>6. archive[j] \in Range(archive) /\ \A e \in Range(archive) : e.name = archive[j].name => e = archive[j]
    <3>1. archive[j] \in Range(archive)
      BY <1>7 DEF Range
    <3> QED
      BY <3>1, EntriesBuilt DEF Entered, Types
  <2>7. entry' = archive[j]
    BY <2>5, <2>6
  <2>8. At(j)'
    BY <1>1, <1>2, <1>5, <1>7, <2>5 DEF At
  <2>9. archive[j].size \in Nat
    BY <1>2, <1>7, Entry
  <2>10. Reached' = {i \in DOMAIN archive : i =< j}
    <3>1. /\ Begin[j] \in Nat /\ Begin[j + 1] \in Nat /\ Padding(archive[j].size) \in Nat
          /\ Begin[j + 1] = Begin[j] + 1 + archive[j].size + Padding(archive[j].size)
      BY <1>2, <1>7, Entry
    <3>2. at' \in Nat /\ Begin[j] < at' /\ at' =< Begin[j + 1]
      BY <2>5, <2>9, <3>1
    <3>3. {i \in DOMAIN archive : Begin[i] < at'} = {i \in DOMAIN archive : i =< j}
      BY <1>2, <1>7, <3>2, ReachedAt
    <3> QED
      BY <1>1, <1>2, <3>3 DEF Reached
  <2>11. ReadEntries' = ReadEntries \union {archive[j]}
    <3>1. {i \in DOMAIN archive : i =< j} = {i \in DOMAIN archive : i < j} \union {j}
      BY <1>3, <1>5, <1>7
    <3> QED
      BY <1>1, <1>4, <2>10, <3>1 DEF ReadEntries
  <2>12. archive[j] \notin ReadEntries
    <3>1. SUFFICES ASSUME NEW i \in DOMAIN archive, i < j, archive[i] = archive[j] PROVE FALSE
      BY <1>4 DEF ReadEntries
    <3>2. i # j
      BY <1>3, <1>5, <3>1
    <3> QED
      BY <1>2, <1>7, <3>1, <3>2 DEF Layout, AsBuilt
  <2>13. at' # Len(Stream)
    <3>1. /\ Begin[j + 1] < Len(Stream) /\ Begin[j + 1] \in Nat /\ Padding(archive[j].size) \in Nat
          /\ Begin[j + 1] = Begin[j] + 1 + archive[j].size + Padding(archive[j].size)
      BY <1>2, <1>7, Entry, BeforeEnd
    <3> QED
      BY <1>5, <2>5, <2>9, <3>1
  <2> QED
    BY <1>5, <1>7, <2>5, <2>6, <2>7, <2>8, <2>9, <2>11, <2>12, <2>13 DEF Entered
<1>8. CASE Readable(ToHeader + 1) /\ j \notin DOMAIN archive
  <2>1. j = Len(archive) + 1
    BY <1>3, <1>4, <1>8
  <2>2. at + ToHeader + 1 = Len(Stream)
    BY <1>2, <1>4, <2>1 DEF Layout
  <2>3. Stream[at + ToHeader + 1].kind = "trailer"
    BY <1>2, <2>2 DEF Layout
  <2>4. /\ at' = Len(Stream) /\ readsize' = 0 /\ point' = "remaining"
        /\ UNCHANGED <<lastfilesize, entry, trouble>>
    BY <1>8, <2>2, <2>3 DEF NextEntry
  <2>5. Reached' = DOMAIN archive
    BY <1>1, <1>2, <2>4, BeforeEnd DEF Reached
  <2>6. Reached = DOMAIN archive
    BY <1>3, <1>4, <2>1
  <2>7. ReadEntries' = ReadEntries /\ ReadEntries = Entered
    BY <1>1, <2>5, <2>6 DEF ReadEntries, Entered, Range
  <2>8. Len(Stream) \in Nat
    BY <1>2 DEF Layout
  <2> QED
    BY <2>4, <2>7, <2>8
<1> QED
  BY <1>6, <1>7, <1>8

\* The data of the entry in hand, and what is read with it.
LEMMA EntryInHand ==
    ASSUME Types, Position, point = "entry"
    PROVE  /\ entry \in ReadEntries /\ entry \in Entered
           /\ entry.size > 0 => Members(entry) \subseteq ReadEntries
           /\ \A c \in Carriers(entry) : c = entry \/ c \notin ReadEntries
           /\ Rest = entry.size
           /\ SubSeq(Stream, at + 1, at + Rest) = Data(entry)
<1>1. Layout
  BY LaidOut DEF Types
<1>2. PICK k \in DOMAIN archive : At(k) /\ readsize = 0 /\ entry = archive[k]
  BY DEF Position
<1>3. Reached = {i \in DOMAIN archive : i =< k}
  BY <1>1, <1>2, AtReached
<1>4. /\ entry.size \in Nat /\ k \in Nat /\ Begin[k] \in Nat /\ at \in Nat /\ at = Begin[k] + 1
      /\ lastfilesize = entry.size
  BY <1>1, <1>2, Entry DEF At, Types
<1>5. Rest = entry.size
  BY <1>2, <1>4 DEF Rest
<1>6. entry \in ReadEntries /\ entry \in Entered
  BY <1>2, <1>3, <1>4 DEF ReadEntries, Entered, Range
<1>7. ASSUME entry.size > 0 PROVE Members(entry) \subseteq ReadEntries
  <2>1. ASSUME NEW d \in Members(entry) PROVE d \in ReadEntries
    <3>1. PICK i \in DOMAIN archive : d = archive[i] /\ d.id = entry.id
      BY DEF Members, Range
    <3>2. i =< k
      BY <1>2, <1>7, <3>1, EntriesBuilt DEF Types
    <3> QED
      BY <1>3, <3>1, <3>2 DEF ReadEntries
  <2> QED
    BY <2>1
<1>9. ASSUME NEW c \in Carriers(entry), c \in ReadEntries PROVE c = entry
  <2>1. c.id = entry.id /\ c.size > 0
    BY DEF Carriers, Members
  <2>2. PICK i \in DOMAIN archive : c = archive[i] /\ i =< k
    BY <1>3, <1>9 DEF ReadEntries
  <2>3. k =< i
    BY <1>2, <2>1, <2>2, EntriesBuilt DEF Types
  <2>4. i \in Nat
    BY <1>1, <2>2, Entry
  <2> QED
    BY <1>2, <1>4, <2>2, <2>3, <2>4
<1>8. SubSeq(Stream, at + 1, at + Rest) = Data(entry)
  <2>1. \A i \in 1..entry.size : Stream[at + i] = Data(entry)[i]
    BY <1>1, <1>2, <1>4 DEF Layout
  <2>2. Data(entry) = [i \in 1..entry.size |-> Data(entry)[i]]
    BY DEF Data
  <2>3. SubSeq(Stream, at + 1, at + entry.size) = [i \in 1..entry.size |-> Stream[at + i]]
    <3>0. PICK s : s = Stream
      OBVIOUS
    <3>1. PICK m \in Nat, n \in Nat : m = at /\ n = entry.size
      BY <1>4
    <3>2. s \in Seq(TokenType) /\ m + n =< Len(s)
      <4>1. /\ Begin[k + 1] < Len(Stream) /\ Len(Stream) \in Nat /\ Padding(archive[k].size) \in Nat
            /\ Begin[k + 1] = Begin[k] + 1 + archive[k].size + Padding(archive[k].size)
        BY <1>1, Entry, BeforeEnd
      <4>2. at + entry.size =< Len(Stream)
        BY <1>2, <1>4, <4>1
      <4> QED
        BY <1>1, <3>0, <3>1, <4>2 DEF Layout
    <3>3. SubSeq(s, m + 1, m + n) = [i \in 1..n |-> s[m + i]]
      <4>1. Len(SubSeq(s, m + 1, m + n)) = n /\ SubSeq(s, m + 1, m + n) \in Seq(TokenType)
        BY <3>2
      <4>2. \A i \in 1..n : SubSeq(s, m + 1, m + n)[i] = s[m + i]
        BY <3>2
      <4> QED
        BY <4>1, <4>2
    <3> QED
      BY <3>0, <3>1, <3>3
  <2> QED
    BY <1>5, <2>1, <2>2, <2>3
<1> QED
  BY <1>5, <1>6, <1>7, <1>8, <1>9

LEMMA DataRead ==
    ASSUME Types, Position, point = "entry", archive' = archive, ReadData
    PROVE  /\ at' \in Nat /\ readsize' \in Nat /\ lastfilesize' = lastfilesize
           /\ ReadEntries' = ReadEntries /\ at' # Len(Stream)
           /\ \E k \in DOMAIN archive : At(k)'
<1>1. Layout /\ Begin' = Begin /\ Stream' = Stream
  BY LaidOut, SameLayout DEF Types
<1>2. PICK k \in DOMAIN archive : At(k) /\ readsize = 0 /\ entry = archive[k]
  BY DEF Position
<1>3. /\ archive[k].size \in Nat /\ Padding(archive[k].size) \in Nat
      /\ k \in Nat /\ Begin[k] \in Nat /\ Begin[k + 1] \in Nat /\ at = Begin[k] + 1
      /\ Begin[k + 1] = Begin[k] + 1 + archive[k].size + Padding(archive[k].size)
      /\ lastfilesize = archive[k].size
  BY <1>1, <1>2, Entry DEF At, Types
<1>4. at' = Begin[k] + 1 + archive[k].size /\ readsize' = archive[k].size /\ lastfilesize' = lastfilesize
  BY <1>2, <1>3 DEF ReadData, Rest
<1>5. At(k)'
  BY <1>1, <1>2, <1>3, <1>4 DEF At
<1>6. at' \in Nat /\ Begin[k] < at' /\ at' =< Begin[k + 1]
  BY <1>3, <1>4
<1>7. {i \in DOMAIN archive : Begin[i] < at'} = {i \in DOMAIN archive : i =< k}
  BY <1>1, <1>6, ReachedAt
<1>8. Reached' = Reached
  BY <1>1, <1>2, <1>7, AtReached DEF Reached
<1>9. ReadEntries' = ReadEntries
  BY <1>8 DEF ReadEntries
<1>10. at' # Len(Stream)
  BY <1>1, <1>3, <1>6, BeforeEnd
<1> QED
  BY <1>3, <1>4, <1>5, <1>6, <1>9, <1>10

-----------------------------------------------------------------------------
(* The beginning                                                           *)

Beginning ==
    /\ archive \in Archives
    /\ at = 0 /\ lastfilesize = 0 /\ readsize = 0
    /\ hardlinks = [i \in Ids |-> <<>>]
    /\ fs = [f \in File |-> fs[f]] /\ fs = old /\ moved = {} /\ temp = Absent /\ links = <<>>
    /\ point \in {"closed", "next"} /\ refused = {}

LEMMA BeginningRight == Beginning => Right
<1> SUFFICES ASSUME Beginning PROVE Right
  OBVIOUS
<1>1. Layout /\ Len(Stream) \in Nat /\ Len(Stream) # 0
  <2>1. Layout
    BY LaidOut DEF Beginning
  <2>2. archive \in Seq(EntryType) /\ Begin \in [1..(Len(archive) + 1) -> Nat]
    BY <2>1 DEF Layout
  <2>3. Begin[Len(archive) + 1] \in Nat
    BY <2>2
  <2> QED
    BY <2>1, <2>3 DEF Layout
<1>2. Types
  BY DEF Beginning, Types
<1>3. Position
  BY <1>1 DEF Position, Beginning
<1>4. ReadEntries = {}
  <2>1. \A i \in DOMAIN archive : Begin[i] \in Nat
    BY <1>1, Entry
  <2> QED
    BY <2>1 DEF ReadEntries, Reached, Beginning
<1>5. \A e \in Range(archive) : ~Waits(e)
  BY EntriesBuilt DEF Entered, Waits, Beginning, Range
<1>6. UnreadRight
  BY <1>5 DEF UnreadRight, Unchanged, Left, Beginning
<1>7. WaitingRight
  BY <1>5 DEF WaitingRight, Beginning, IsInjective, Range
<1>8. LinkingRight
  BY DEF LinkingRight, Beginning, IsInjective, Range, Linking
<1>9. PointRight
  BY DEF PointRight, Beginning
<1>10. SettledRight
  BY <1>4 DEF SettledRight, Settled
<1>11. OldOrNew
  BY DEF OldOrNew, Left, Beginning
<1> QED
  BY <1>2, <1>3, <1>6, <1>7, <1>8, <1>9, <1>10, <1>11 DEF Right, Groups

LEMMA BeginningRightNext == Beginning' => Right'
BY BeginningRight, PTL

-----------------------------------------------------------------------------
(* The extraction                                                          *)

LEMMA RangeOfAppend ==
    ASSUME NEW s \in Seq(File), NEW x \in File
    PROVE  /\ Range(Append(s, x)) = Range(s) \union {x}
           /\ IsInjective(s) /\ x \notin Range(s) => IsInjective(Append(s, x))
<1>1. PICK n \in Nat : n = Len(s)
  OBVIOUS
<1>2. PICK t : t = Append(s, x)
  OBVIOUS
<1>3. DOMAIN s = 1..n /\ DOMAIN t = 1..(n + 1) /\ t[n + 1] = x /\ \A i \in 1..n : t[i] = s[i]
  BY <1>1, <1>2
<1>4. n + 1 \in 1..(n + 1) /\ \A i \in 1..(n + 1) : i \in 1..n \/ i = n + 1
  OBVIOUS
<1>5. Range(t) = Range(s) \union {x}
  BY <1>3, <1>4 DEF Range
<1>6. IsInjective(s) /\ x \notin Range(s) => IsInjective(t)
  BY <1>3, <1>4 DEF Range, IsInjective
<1> QED
  BY <1>2, <1>5, <1>6

LEMMA RangeOfTail ==
    ASSUME NEW s \in Seq(File), s # <<>>
    PROVE  /\ Head(s) \in File /\ Tail(s) \in Seq(File) /\ Head(s) \in Range(s)
           /\ IsInjective(s) => Range(Tail(s)) = Range(s) \ {Head(s)} /\ IsInjective(Tail(s))
<1>1. PICK n \in Nat : n = Len(s) - 1 /\ Len(s) = n + 1
  OBVIOUS
<1>2. Tail(s) \in Seq(File) /\ Len(Tail(s)) = n /\ Head(s) = s[1] /\ \A i \in 1..n : Tail(s)[i] = s[i + 1]
  BY <1>1
<1>3. DOMAIN s = 1..(n + 1) /\ DOMAIN Tail(s) = 1..n
  BY <1>1, <1>2
<1>4. Head(s) \in Range(s) /\ Head(s) \in File
  BY <1>2, <1>3 DEF Range
<1>5. ASSUME IsInjective(s) PROVE Range(Tail(s)) = Range(s) \ {Head(s)}
  <2>1. ASSUME NEW x \in Range(Tail(s)) PROVE x \in Range(s) \ {Head(s)}
    <3>1. PICK i \in 1..n : x = s[i + 1]
      BY <1>2, <1>3 DEF Range
    <3> QED
      BY <1>2, <1>3, <1>5, <3>1 DEF Range, IsInjective
  <2>2. ASSUME NEW x \in Range(s) \ {Head(s)} PROVE x \in Range(Tail(s))
    <3>1. PICK i \in 1..(n + 1) : x = s[i]
      BY <1>3 DEF Range
    <3>2. i # 1
      BY <1>2, <3>1
    <3>3. i - 1 \in 1..n /\ (i - 1) + 1 = i
      BY <3>2
    <3>4. x = Tail(s)[i - 1]
      BY <1>2, <3>1, <3>3
    <3> QED
      BY <1>3, <3>3, <3>4 DEF Range
  <2> QED
    BY <2>1, <2>2
<1>6. ASSUME IsInjective(s) PROVE IsInjective(Tail(s))
  BY <1>2, <1>3, <1>6 DEF IsInjective
<1> QED
  BY <1>2, <1>4, <1>5, <1>6

LEMMA LeadsStays ==
    ASSUME archive' = archive, NEW l, Leads(l), fs[l.name]' = fs[l.name],
           \A d \in Members(l) : Settled(d)' /\ Kept(d)' =>
              Settled(d) /\ Kept(d) /\ fs[d.name]' = fs[d.name]
    PROVE  Leads(l)'
BY SameLayout DEF Leads

\* A file the header does not know is passed over, and all links to it are.
LEMMA UnlistedStep == ASSUME Right, Unlisted PROVE Right'
<1>1. /\ archive \in Archives /\ Types /\ Position /\ Groups /\ OldOrNew
      /\ point = "entry" /\ entry.name \notin Listed /\ point' = "next"
      /\ UNCHANGED <<archive, at, lastfilesize, readsize, hardlinks, fs, old, moved, temp, entry, links, refused>>
  BY DEF Right, Types, Unlisted, cpioVars, fileVars
<1>2. /\ Begin' = Begin /\ Stream' = Stream /\ Range(archive)' = Range(archive) /\ ReadEntries' = ReadEntries
      /\ \A e : Members(e)' = Members(e) /\ Carriers(e)' = Carriers(e) /\ SetData(e)' = SetData(e)
  BY <1>1, SameLayout, ReadSame
<1>3. entry \in ReadEntries /\ entry \in Range(archive) /\ ReadEntries \subseteq Range(archive)
  BY <1>1, EntryInHand, ReadThere DEF Entered
<1>4. UnreadRight /\ WaitingRight /\ LinkingRight /\ PointRight /\ SettledRight
  BY <1>1 DEF Groups
<1>5. Types'
  BY <1>1 DEF Types
<1>6. Position'
  BY <1>1, <1>2 DEF Position, At
<1>7. OldOrNew'
  BY <1>1, <1>2 DEF OldOrNew, Left
<1>8. \A e : /\ Kept(e)' <=> Kept(e)
             /\ Waits(e)' <=> Waits(e)
             /\ Linking(e)' <=> Linking(e)
             /\ Unchanged(e)' <=> Unchanged(e)
             /\ ~InHand(e)'
             /\ InHand(e) <=> e = entry
  BY <1>1 DEF Kept, Waits, Linking, Unchanged, Left, InHand, Range
<1>9. UnreadRight'
  BY <1>2, <1>4, <1>8, <1>1 DEF UnreadRight
<1>10. \A d \in Range(archive) : d.id = entry.id => ~Kept(d)
  BY <1>1, <1>3, EntriesBuilt DEF Entered, Kept
<1>11. WaitingRight'
  <2>1. \A e \in Range(archive) : \A c \in Carriers(e) : c.id = e.id
    BY DEF Carriers, Members
  <2> QED
    BY <1>1, <1>2, <1>4, <1>8, <1>10, <2>1 DEF WaitingRight
<1>12. links = <<>>
  BY <1>1, <1>4 DEF LinkingRight
<1>13. LinkingRight'
  BY <1>1, <1>2, <1>12 DEF LinkingRight, IsInjective, Range, Linking
<1>14. PointRight'
  BY <1>1 DEF PointRight
<1>15. \A e : Settled(e)' <=> (Settled(e) \/ (e = entry /\ ~Waits(e)))
  BY <1>2, <1>3, <1>8, <1>12 DEF Settled, Linking, Range
<1>16. ASSUME NEW e \in Range(archive), Settled(e)', Kept(e)', ~Lost(e)'
       PROVE  /\ Settled(e) /\ Kept(e) /\ ~Lost(e)
  BY <1>2, <1>3, <1>8, <1>10, <1>15, <1>16 DEF Lost
<1>17. \A l : Leads(l) => Leads(l)'
  <2>1. ~Kept(entry)
    BY <1>3, <1>10
  <2>2. \A d : Settled(d)' /\ Kept(d)' => Settled(d) /\ Kept(d)
    BY <1>8, <1>15, <2>1
  <2> QED
    BY <1>1, <2>2, LeadsStays
<1>18. SettledRight'
  BY <1>1, <1>2, <1>3, <1>4, <1>8, <1>10, <1>15, <1>16, <1>17 DEF SettledRight, Lost, PointRight
<1> QED
  BY <1>5, <1>6, <1>7, <1>9, <1>11, <1>13, <1>14, <1>18 DEF Right, Groups

LEMMA RaisedStep == ASSUME point' = "raised", Types', Position', OldOrNew' PROVE Right'
BY DEF Right, Groups

LEMMA NextEntryStep == ASSUME Right, NextEntry PROVE Right'
<1>1. /\ archive \in Archives /\ Types /\ Position /\ Groups /\ OldOrNew
      /\ point = "next"
      /\ UNCHANGED <<archive, hardlinks, fs, old, moved, temp, links, refused>>
  BY DEF Right, Types, NextEntry, fileVars
<1>2. /\ Begin' = Begin /\ Stream' = Stream /\ Range(archive)' = Range(archive)
      /\ \A e : Members(e)' = Members(e) /\ Carriers(e)' = Carriers(e) /\ SetData(e)' = SetData(e)
  BY <1>1, SameLayout
<1>3. UnreadRight /\ WaitingRight /\ LinkingRight /\ PointRight /\ SettledRight
  BY <1>1 DEF Groups
<1>4. OldOrNew'
  BY <1>1, <1>2 DEF OldOrNew, Left
<1>5. /\ ReadEntries \subseteq Range(archive) /\ links = <<>>
  BY <1>1, <1>3, ReadThere DEF LinkingRight, Entered
<1>6. \A e : /\ Kept(e)' <=> Kept(e)
             /\ Waits(e)' <=> Waits(e)
             /\ ~Linking(e) /\ ~Linking(e)'
             /\ Unchanged(e)' <=> Unchanged(e)
             /\ ~InHand(e)
  BY <1>1, <1>5 DEF Kept, Waits, Linking, Unchanged, Left, InHand, Range
<1>7. CASE point' = "raised" /\ UNCHANGED <<cpioVars, entry>>
  <2>1. Types' /\ Position'
    BY <1>1, <1>2, <1>7 DEF Types, Position, At, cpioVars
  <2> QED
    BY <1>4, <1>7, <2>1, RaisedStep
<1>8. CASE /\ point' = "entry" /\ at' \in Nat /\ lastfilesize' \in Nat /\ readsize' = 0 /\ at' # Len(Stream)
           /\ entry' \in Entered \ ReadEntries /\ ReadEntries' = ReadEntries \union {entry'}
           /\ \E k \in DOMAIN archive : At(k)' /\ entry' = archive[k]
  <2>1. Types'
    BY <1>1, <1>8 DEF Types
  <2>2. Position'
    BY <1>1, <1>2, <1>8 DEF Position
  <2>3. \A e : InHand(e)' <=> e = entry'
    BY <1>8 DEF InHand
  <2>4. \A e : Settled(e)' <=> Settled(e)
    BY <1>6, <1>8, <2>3 DEF Settled
  <2>5. Unchanged(entry') /\ entry'.name \notin refused /\ ~Waits(entry')
    BY <1>3, <1>8 DEF UnreadRight, Entered
  <2>6. UnreadRight'
    BY <1>1, <1>2, <1>3, <1>6, <1>8 DEF UnreadRight
  <2>7. WaitingRight'
    BY <1>1, <1>2, <1>3, <1>6, <1>8, <2>3, <2>5 DEF WaitingRight
  <2>8. LinkingRight'
    BY <1>1, <1>5, <1>6, <1>8 DEF LinkingRight, Range, IsInjective
  <2>9. PointRight'
    BY <1>1, <1>6, <1>8, <2>5 DEF PointRight
  <2>10. \A l : Leads(l) => Leads(l)'
    BY <1>1, <1>6, <2>4, LeadsStays
  <2>11. \A e : Lost(e)' <=> Lost(e)
    BY <1>2, <1>6 DEF Lost
  <2>12. SettledRight'
    BY <1>1, <1>2, <1>3, <1>6, <1>8, <2>3, <2>4, <2>10, <2>11 DEF SettledRight
  <2> QED
    BY <1>4, <2>1, <2>2, <2>6, <2>7, <2>8, <2>9, <2>12 DEF Right, Groups
<1>9. CASE /\ point' = "remaining" /\ at' \in Nat /\ readsize' = 0 /\ at' = Len(Stream)
           /\ UNCHANGED <<lastfilesize, entry>> /\ ReadEntries' = ReadEntries
  <2>1. Types'
    BY <1>1, <1>9 DEF Types
  <2>2. Position'
    BY <1>1, <1>2, <1>9 DEF Position
  <2>3. \A e : ~InHand(e)'
    BY <1>9 DEF InHand
  <2>4. \A e : Settled(e)' <=> Settled(e)
    BY <1>6, <1>9, <2>3 DEF Settled
  <2>6. UnreadRight'
    BY <1>1, <1>2, <1>3, <1>6, <1>9 DEF UnreadRight
  <2>7. WaitingRight'
    BY <1>1, <1>2, <1>3, <1>6, <1>9, <2>3 DEF WaitingRight
  <2>8. LinkingRight'
    BY <1>1, <1>5, <1>6, <1>9 DEF LinkingRight, Range, IsInjective
  <2>9. PointRight'
    BY <1>9 DEF PointRight
  <2>10. \A l : Leads(l) => Leads(l)'
    BY <1>1, <1>6, <2>4, LeadsStays
  <2>11. \A e : Lost(e)' <=> Lost(e)
    BY <1>2, <1>6 DEF Lost
  <2>12. SettledRight'
    BY <1>1, <1>2, <1>3, <1>6, <1>9, <2>3, <2>4, <2>10, <2>11 DEF SettledRight
  <2> QED
    BY <1>4, <2>1, <2>2, <2>6, <2>7, <2>8, <2>9, <2>12 DEF Right, Groups
<1> QED
  BY <1>1, <1>7, <1>8, <1>9, NextEntryReads

\* An edited configuration file that is moved away leaves its path as the program
\* left it, and no other is touched.
LEMMA SaveEditedStep == ASSUME Right, SaveEdited PROVE Right'
<1>1. /\ archive \in Archives /\ Types /\ Position /\ Groups /\ OldOrNew
      /\ point = "entry"
      /\ UNCHANGED <<archive, at, lastfilesize, readsize, hardlinks, old, temp, entry, links, refused>>
  BY DEF Right, Types, SaveEdited, cpioVars
<1>2. /\ Begin' = Begin /\ Stream' = Stream /\ Range(archive)' = Range(archive) /\ ReadEntries' = ReadEntries
      /\ \A e : Members(e)' = Members(e) /\ Carriers(e)' = Carriers(e) /\ SetData(e)' = SetData(e)
  BY <1>1, SameLayout, ReadSame
<1>3. UnreadRight /\ WaitingRight /\ LinkingRight /\ PointRight /\ SettledRight
  BY <1>1 DEF Groups
<1>4. entry \in ReadEntries /\ entry \in Range(archive) /\ ReadEntries \subseteq Range(archive)
  BY <1>1, EntryInHand, ReadThere DEF Entered
<1>5. \A e, d \in Range(archive) : e.name = d.name => e = d
  BY <1>1, EntriesBuilt DEF Entered
<1>6. CASE point' = "raised" /\ UNCHANGED <<fs, moved>>
  <2>1. Types' /\ Position' /\ OldOrNew'
    BY <1>1, <1>2, <1>6 DEF Types, Position, At, OldOrNew, Left
  <2> QED
    BY <1>6, <2>1, RaisedStep
<1>7. CASE point' = point /\ fs' = [fs EXCEPT ![entry.name] = Absent] /\ moved' = moved \union {entry.name}
  <2>1. entry.name \in File
    BY <1>1, <1>4, EntriesBuilt DEF Entered
  <2>2. \A e : e = entry => fs'[e.name] = Absent /\ Left(e.name)' = Absent
    BY <1>1, <1>7, <2>1 DEF Types, Left
  <2>3. \A f : f # entry.name => Left(f)' = Left(f)
    BY <1>1, <1>7 DEF Left
  <2>4. \A e \in Range(archive) : e # entry => fs'[e.name] = fs[e.name] /\ Left(e.name)' = Left(e.name)
    BY <1>1, <1>4, <1>5, <1>7, <2>3 DEF Types
  <2>5. /\ fs' = [f \in File |-> fs'[f]]
    BY <1>1, <1>7 DEF Types
  <2>6. Types' /\ Position'
    BY <1>1, <1>2, <1>7, <2>5 DEF Types, Position, At
  <2>7. OldOrNew'
    <3>1. ASSUME NEW e \in Range(archive), e # entry
          PROVE  \/ fs'[e.name] = Left(e.name)'
                 \/ \E g \in File : fs'[e.name] = Made(g, SetData(e))
                 \/ (e.size = 0 \/ e.name \in Device) /\ fs'[e.name] \in {Absent, Torn}
      BY <1>1, <2>4, <3>1 DEF OldOrNew
    <3> QED
      BY <1>2, <2>2, <3>1 DEF OldOrNew
  <2>8. \A e \in Range(archive) : /\ Kept(e)' <=> Kept(e)
                                  /\ Waits(e)' <=> Waits(e)
                                  /\ Linking(e)' <=> Linking(e)
                                  /\ InHand(e)' <=> InHand(e)
                                  /\ InHand(e) <=> e = entry
                                  /\ Unchanged(e) => Unchanged(e)'
    <3>1. \A e \in Range(archive) : Unchanged(e) => Unchanged(e)'
      BY <2>2, <2>4 DEF Unchanged
    <3> QED
      BY <1>1, <1>7, <3>1 DEF Kept, Waits, Linking, InHand, Range
  <2>9. \A e \in Range(archive) : (Settled(e)' <=> Settled(e)) /\ (Settled(e) => e # entry)
    BY <1>2, <2>8 DEF Settled
  <2>10. \A e : \A d \in Members(e) : d \in Range(archive)
    BY DEF Members
  <2>11. \A e \in Range(archive) : Lost(e)' <=> Lost(e)
    BY <1>2, <2>8, <2>10 DEF Lost, Carriers
  <2>12. ASSUME NEW l \in Range(archive), Settled(l), Leads(l) PROVE Leads(l)'
    <3>1. \A d \in Members(l) : Settled(d)' /\ Kept(d)' => Settled(d) /\ Kept(d) /\ fs[d.name]' = fs[d.name]
      BY <2>4, <2>8, <2>9, <2>10
    <3>2. fs[l.name]' = fs[l.name]
      BY <2>4, <2>9, <2>12
    <3> QED
      BY <1>1, <2>12, <3>1, <3>2, LeadsStays
  <2>13. links = <<>>
    BY <1>1, <1>3 DEF LinkingRight
  <2>14. UnreadRight'
    BY <1>1, <1>2, <1>3, <2>8 DEF UnreadRight
  <2>15. WaitingRight'
    <3>1. \A e \in Range(archive) : \A c \in Carriers(e) : c \in Range(archive)
      BY <2>10 DEF Carriers
    <3> QED
      BY <1>1, <1>2, <1>3, <2>8, <3>1 DEF WaitingRight
  <2>16. LinkingRight'
    BY <1>1, <1>2, <1>7, <2>13 DEF LinkingRight, IsInjective, Range, Linking
  <2>17. PointRight'
    <3>1. Unchanged(entry)'
      <4>1. \A e : e = entry => Unchanged(e)'
        BY <2>2 DEF Unchanged
      <4> QED
        BY <1>1, <4>1 DEF Unchanged, Left
    <3> QED
      BY <1>1, <1>2, <1>3, <1>7, <3>1 DEF PointRight
  <2>18. SettledRight'
    BY <1>1, <1>2, <1>3, <2>8, <2>9, <2>10, <2>11, <2>12 DEF SettledRight
  <2> QED
    BY <2>6, <2>7, <2>14, <2>15, <2>16, <2>17, <2>18 DEF Right, Groups
<1> QED
  BY <1>6, <1>7 DEF SaveEdited

\* What was refused is as it was, and so are the links to its data.
LEMMA RefuseStep == ASSUME Right, Refuse PROVE Right'
<1>1. /\ archive \in Archives /\ Types /\ Position /\ Groups /\ OldOrNew
      /\ point = "entry" /\ entry.name \in Listed \ Device
      /\ refused' = refused \union {entry.name}
      /\ UNCHANGED <<archive, fs, old, moved, temp, entry, links>>
  BY DEF Right, Types, Refuse, cpioVars, fileVars
<1>2. /\ Begin' = Begin /\ Stream' = Stream /\ Range(archive)' = Range(archive)
      /\ \A e : Members(e)' = Members(e) /\ Carriers(e)' = Carriers(e) /\ SetData(e)' = SetData(e)
  BY <1>1, SameLayout
<1>3. UnreadRight /\ WaitingRight /\ LinkingRight /\ PointRight /\ SettledRight
  BY <1>1 DEF Groups
<1>4. \A e : \A d \in Members(e) : d \in Range(archive) /\ d.id = e.id
  BY DEF Members
<1>5. \A e, d \in Range(archive) : d.id = e.id => d \in Members(e) /\ Members(d) = Members(e) /\ SetData(d) = SetData(e)
  BY <1>1, EntriesBuilt DEF Entered, Members
<1>6. \A e \in Range(archive) : e.name \in File /\ e.id \in Ids /\ e.size \in Nat
  BY <1>1, EntriesBuilt DEF Entered
<1>7. \A e, d \in Range(archive) : e.name = d.name => e = d
  BY <1>1, EntriesBuilt DEF Entered
<1>8. ReadEntries \subseteq Range(archive)
  BY <1>1, ReadThere DEF Entered
<1>9. OldOrNew'
  BY <1>1, <1>2 DEF OldOrNew, Left
<1>10. entry \in ReadEntries /\ entry \in Range(archive) /\ links = <<>>
  BY <1>1, <1>3, <1>8, EntryInHand DEF LinkingRight
<1>11. refused' \subseteq File
  BY <1>1, <1>6, <1>10 DEF Types
<1>12. CASE ~Readable(Rest)
  <2>1. point' = "raised" /\ UNCHANGED <<at, lastfilesize, readsize, hardlinks>>
    BY <1>12 DEF Refuse, Unreadable, cpioVars
  <2>2. Types' /\ Position'
    BY <1>1, <1>2, <1>11, <2>1 DEF Types, Position, At
  <2> QED
    BY <1>9, <2>1, <2>2, RaisedStep
<1>13. CASE Readable(Rest)
  <2>1. ReadData /\ RemoveHardlinks /\ point' = "next"
    BY <1>13 DEF Refuse
  <2>2. /\ at' \in Nat /\ readsize' \in Nat /\ lastfilesize' = lastfilesize
        /\ ReadEntries' = ReadEntries /\ at' # Len(Stream) /\ \E k \in DOMAIN archive : At(k)'
    BY <1>1, <2>1, DataRead
  <2>3. Types'
    <3>1. hardlinks' \in [Ids -> Seq(File)]
      <4>1. hardlinks \in [Ids -> Seq(File)] /\ <<>> \in Seq(File)
        BY <1>1 DEF Types
      <4> QED
        BY <2>1, <4>1 DEF RemoveHardlinks
    <3> QED
      BY <1>1, <1>11, <2>2, <3>1 DEF Types
  <2>4. Position'
    BY <1>1, <1>2, <2>1, <2>2 DEF Position
  <2>5. /\ \A i \in Ids : hardlinks'[i] = IF entry.size > 0 /\ i = entry.id THEN <<>> ELSE hardlinks[i]
    BY <1>1, <2>1 DEF RemoveHardlinks, Types
  <2>6. Range(<<>>) = {} /\ IsInjective(<<>>)
    BY DEF Range, IsInjective
  <2>7. \A e \in Range(archive) :
          /\ Kept(e)' <=> Kept(e) /\ e # entry
          /\ Waits(e)' <=> Waits(e) /\ ~(entry.size > 0 /\ e.id = entry.id)
          /\ ~Linking(e) /\ ~Linking(e)'
          /\ Unchanged(e)' <=> Unchanged(e)
          /\ ~InHand(e)'
          /\ InHand(e) <=> e = entry
    <3>1. ASSUME NEW e \in Range(archive) PROVE Waits(e)' <=> Waits(e) /\ ~(entry.size > 0 /\ e.id = entry.id)
      <4>1. e.id \in Ids
        BY <1>6
      <4> QED
        BY <2>5, <2>6, <4>1 DEF Waits, Range
    <3>2. ASSUME NEW e \in Range(archive) PROVE Kept(e)' <=> Kept(e) /\ e # entry
      BY <1>1, <1>7, <1>10 DEF Kept
    <3>3. ASSUME NEW e \in Range(archive) PROVE ~Linking(e) /\ ~Linking(e)'
      BY <1>1, <1>10, <2>6 DEF Linking
    <3> QED
      BY <1>1, <2>1, <3>1, <3>2, <3>3 DEF Unchanged, Left, InHand
  <2>8. UnreadRight'
    BY <1>1, <1>2, <1>3, <1>7, <1>10, <2>2, <2>7 DEF UnreadRight
  <2>9. WaitingRight'
    <3>1. ASSUME NEW i \in Ids
          PROVE  /\ IsInjective(hardlinks'[i])
                 /\ \A f \in Range(hardlinks'[i]) : \E e \in ReadEntries : e.name = f /\ e.id = i
      BY <1>3, <2>5, <2>6 DEF WaitingRight
    <3>2. ASSUME NEW e \in Range(archive), Waits(e)'
          PROVE  /\ Unchanged(e)' /\ Kept(e)' /\ e.size = 0 /\ ~Linking(e)' /\ ~InHand(e)' /\ e.name \notin Device
                 /\ \A c \in Carriers(e) : c \notin ReadEntries
      <4>1. \A c \in Carriers(e) : c.id = e.id /\ c.size > 0 /\ c \in Range(archive)
        BY DEF Carriers, Members
      <4> QED
        BY <1>3, <2>7, <3>2, <4>1 DEF WaitingRight
    <3> QED
      BY <1>2, <2>2, <3>1, <3>2 DEF WaitingRight
  <2>10. LinkingRight'
    BY <1>1, <1>2, <1>10, <2>1, <2>6, <2>7 DEF LinkingRight
  <2>11. PointRight'
    BY <2>1 DEF PointRight
  <2>12. \A e \in Range(archive) :
           Settled(e)' <=> \/ Settled(e) \/ e = entry
                           \/ e \in ReadEntries /\ Waits(e) /\ entry.size > 0 /\ e.id = entry.id
    BY <1>3, <1>10, <2>2, <2>7 DEF Settled, WaitingRight
  <2>13. \A e \in Range(archive) : Lost(e)' <=> Lost(e) \/ entry \in Carriers(e)
    BY <1>2, <1>4, <2>7 DEF Lost, Carriers
  <2>14. \A e \in Range(archive) : e.id = entry.id /\ entry.size > 0 => entry \in Carriers(e)
    BY <1>5, <1>10 DEF Carriers
  <2>15. SettledRight'
    <3>1. ASSUME NEW e \in Range(archive), Settled(e)', ~Kept(e)' \/ Lost(e)' PROVE Unchanged(e)'
      <4>1. CASE e = entry
        BY <1>1, <1>3, <1>10, <2>7, <4>1 DEF PointRight
      <4>2. CASE Waits(e)
        BY <1>3, <2>7, <4>2 DEF WaitingRight
      <4>3. CASE Settled(e) /\ e # entry
        BY <1>3, <1>4, <2>7, <2>13, <3>1, <4>3 DEF SettledRight, Carriers
      <4> QED
        BY <2>12, <3>1, <4>1, <4>2, <4>3
    <3>2. ASSUME NEW e \in Range(archive), Settled(e)', Kept(e)', ~Lost(e)'
          PROVE  /\ Members(e) \subseteq ReadEntries /\ hardlinks'[e.id] = <<>>
                 /\ \A d \in Members(e) : ~InHand(d)'
                 /\ \E l \in Members(e) : Settled(l)' /\ Kept(l)' /\ Leads(l)'
      <4>1. Settled(e) /\ Kept(e) /\ ~Lost(e) /\ e.id \in Ids
        BY <1>6, <2>7, <2>12, <2>13, <2>14, <3>2
      <4>2. /\ Members(e) \subseteq ReadEntries /\ hardlinks[e.id] = <<>>
            /\ \A d \in Members(e) : ~InHand(d)
        BY <1>3, <4>1 DEF SettledRight
      <4>3. PICK l \in Members(e) : Settled(l) /\ Kept(l) /\ Leads(l)
        BY <1>3, <4>1 DEF SettledRight
      <4>4. e.id # entry.id
        BY <1>5, <1>10, <2>7, <4>2
      <4>5. hardlinks'[e.id] = <<>> /\ \A d \in Members(e) : ~InHand(d)'
        BY <1>4, <2>5, <2>7, <4>1, <4>2
      <4>6. \A d \in Members(e) : Settled(d)' /\ Kept(d)' => Settled(d) /\ Kept(d)
        BY <1>4, <1>10, <2>7, <2>12, <4>4
      <4>7. Settled(l)' /\ Kept(l)' /\ Members(l) = Members(e)
        BY <1>4, <1>5, <1>10, <2>7, <2>12, <4>3, <4>4
      <4>8. Leads(l)'
        BY <1>1, <4>3, <4>6, <4>7, LeadsStays
      <4> QED
        BY <4>2, <4>5, <4>7, <4>8
    <3> QED
      BY <1>2, <2>2, <3>1, <3>2 DEF SettledRight
  <2> QED
    BY <1>9, <2>3, <2>4, <2>8, <2>9, <2>10, <2>11, <2>15 DEF Right, Groups
<1> QED
  BY <1>12, <1>13

\* What may be a link waits: the data, if any, is still to come.
LEMMA PossibleHardLinkStep == ASSUME Right, PossibleHardLink PROVE Right'
<1>1. /\ archive \in Archives /\ Types /\ Position /\ Groups /\ OldOrNew
      /\ point = "entry" /\ entry.name \in Listed \ Device
      /\ entry.size = 0 /\ hardlinks' = [hardlinks EXCEPT ![entry.id] = Append(@, entry.name)]
      /\ point' = "next"
      /\ UNCHANGED <<archive, at, lastfilesize, readsize, fs, old, moved, temp, entry, links, refused>>
  BY DEF Right, Types, PossibleHardLink, cpioVars, fileVars
<1>2. /\ Begin' = Begin /\ Stream' = Stream /\ Range(archive)' = Range(archive)
      /\ \A e : Members(e)' = Members(e) /\ Carriers(e)' = Carriers(e) /\ SetData(e)' = SetData(e)
  BY <1>1, SameLayout
<1>3. UnreadRight /\ WaitingRight /\ LinkingRight /\ PointRight /\ SettledRight
  BY <1>1 DEF Groups
<1>4. \A e : \A d \in Members(e) : d \in Range(archive) /\ d.id = e.id
  BY DEF Members
<1>5. \A e, d \in Range(archive) : d.id = e.id => d \in Members(e) /\ Members(d) = Members(e) /\ SetData(d) = SetData(e)
  BY <1>1, EntriesBuilt DEF Entered, Members
<1>6. \A e \in Range(archive) : e.name \in File /\ e.id \in Ids /\ e.size \in Nat
  BY <1>1, EntriesBuilt DEF Entered
<1>7. \A e, d \in Range(archive) : e.name = d.name => e = d
  BY <1>1, EntriesBuilt DEF Entered
<1>8. ReadEntries \subseteq Range(archive)
  BY <1>1, ReadThere DEF Entered
<1>9. OldOrNew'
  BY <1>1, <1>2 DEF OldOrNew, Left
<1>10. entry \in ReadEntries /\ entry \in Range(archive) /\ links = <<>> /\ ReadEntries' = ReadEntries
  BY <1>1, <1>3, <1>8, EntryInHand, ReadSame DEF LinkingRight
<1>11. entry.id \in Ids /\ entry.name \in File /\ hardlinks[entry.id] \in Seq(File)
  BY <1>1, <1>6, <1>10 DEF Types
<1>12. ~Waits(entry) /\ Kept(entry) /\ Unchanged(entry)
  BY <1>1, <1>3, <1>10 DEF WaitingRight, InHand, Kept, PointRight
<1>13. hardlinks' \in [Ids -> Seq(File)]
  <2>1. hardlinks \in [Ids -> Seq(File)] /\ Append(hardlinks[entry.id], entry.name) \in Seq(File)
    BY <1>1, <1>11 DEF Types
  <2> QED
    BY <1>1, <2>1
<1>14. Types'
  BY <1>1, <1>13 DEF Types
<1>15. Position'
  BY <1>1, <1>2 DEF Position, At
<1>16. \A i \in Ids :
         /\ i # entry.id => hardlinks'[i] = hardlinks[i]
         /\ i = entry.id => Range(hardlinks'[i]) = Range(hardlinks[i]) \union {entry.name}
         /\ i = entry.id => IsInjective(hardlinks'[i])
  <2>1. \A i \in Ids : hardlinks'[i] = IF i = entry.id THEN Append(hardlinks[i], entry.name) ELSE hardlinks[i]
    BY <1>1 DEF Types
  <2>2. Range(Append(hardlinks[entry.id], entry.name)) = Range(hardlinks[entry.id]) \union {entry.name}
    BY <1>11, RangeOfAppend
  <2>3. IsInjective(hardlinks[entry.id]) /\ entry.name \notin Range(hardlinks[entry.id])
    BY <1>3, <1>11, <1>12 DEF WaitingRight, Waits
  <2>4. IsInjective(Append(hardlinks[entry.id], entry.name))
    BY <1>11, <2>3, RangeOfAppend
  <2> QED
    BY <2>1, <2>2, <2>4
<1>17. Range(<<>>) = {} /\ IsInjective(<<>>)
  BY DEF Range, IsInjective
<1>18. \A e \in Range(archive) :
          /\ Kept(e)' <=> Kept(e)
          /\ Waits(e)' <=> Waits(e) \/ e = entry
          /\ ~Linking(e) /\ ~Linking(e)'
          /\ Unchanged(e)' <=> Unchanged(e)
          /\ ~InHand(e)'
          /\ InHand(e) <=> e = entry
  <2>1. ASSUME NEW e \in Range(archive) PROVE Waits(e)' <=> Waits(e) \/ e = entry
    <3>1. e.id \in Ids /\ Range(hardlinks[e.id])' = Range(hardlinks'[e.id])
      BY <1>6 DEF Range
    <3>2. Waits(e)' <=> e.name \in Range(hardlinks'[e.id])
      BY <3>1 DEF Waits
    <3>3. CASE e.id = entry.id
      BY <1>7, <1>10, <1>16, <3>1, <3>2, <3>3 DEF Waits
    <3>4. CASE e.id # entry.id
      BY <1>16, <3>1, <3>2, <3>4 DEF Waits
    <3> QED
      BY <3>3, <3>4
  <2>2. ASSUME NEW e \in Range(archive) PROVE ~Linking(e) /\ ~Linking(e)'
    BY <1>1, <1>10, <1>17 DEF Linking
  <2> QED
    BY <1>1, <2>1, <2>2 DEF Unchanged, Left, InHand, Kept
<1>19. UnreadRight'
  BY <1>1, <1>2, <1>3, <1>10, <1>18 DEF UnreadRight
<1>20. WaitingRight'
  <2>1. ASSUME NEW i \in Ids
        PROVE  /\ IsInjective(hardlinks'[i])
               /\ \A f \in Range(hardlinks'[i]) : \E e \in ReadEntries : e.name = f /\ e.id = i
    BY <1>3, <1>10, <1>16 DEF WaitingRight
  <2>2. ASSUME NEW e \in Range(archive), Waits(e)'
        PROVE  /\ Unchanged(e)' /\ Kept(e)' /\ e.size = 0 /\ ~Linking(e)' /\ ~InHand(e)' /\ e.name \notin Device
               /\ \A c \in Carriers(e) : c \notin ReadEntries
    <3>1. CASE e = entry
      <4>1. \A c \in Carriers(entry) : c.size > 0
        BY DEF Carriers
      <4>2. \A c \in Carriers(entry) : c = entry \/ c \notin ReadEntries
        BY <1>1, EntryInHand
      <4>3. \A c \in Carriers(entry) : c \notin ReadEntries
        BY <1>1, <4>1, <4>2
      <4> QED
        BY <1>1, <1>12, <1>18, <3>1, <4>3
    <3>2. CASE Waits(e)
      <4>1. \A c \in Carriers(e) : c.size > 0 /\ c \in Range(archive)
        BY DEF Carriers, Members
      <4>2. \A c \in Carriers(e) : c \notin ReadEntries \/ InHand(c)
        BY <1>3, <3>2 DEF WaitingRight
      <4>3. \A c \in Carriers(e) : c \notin ReadEntries
        BY <1>1, <1>18, <4>1, <4>2
      <4> QED
        BY <1>3, <1>18, <3>2, <4>3 DEF WaitingRight
    <3> QED
      BY <1>18, <2>2, <3>1, <3>2
  <2> QED
    BY <1>2, <1>10, <2>1, <2>2 DEF WaitingRight
<1>21. LinkingRight'
  BY <1>1, <1>2, <1>10, <1>17, <1>18 DEF LinkingRight
<1>22. PointRight'
  BY <1>1 DEF PointRight
<1>23. \A e \in Range(archive) : Settled(e)' <=> Settled(e)
  BY <1>10, <1>18 DEF Settled
<1>24. \A e \in Range(archive) : Lost(e)' <=> Lost(e)
  BY <1>2, <1>4, <1>18 DEF Lost, Carriers
<1>25. \A l \in Range(archive) : Leads(l) => Leads(l)'
  BY <1>1, <1>4, <1>18, <1>23, LeadsStays
<1>26. SettledRight'
  <2>1. ASSUME NEW e \in Range(archive), Settled(e)', Kept(e)', ~Lost(e)'
        PROVE  /\ Members(e) \subseteq ReadEntries /\ hardlinks'[e.id] = <<>>
               /\ \A d \in Members(e) : ~InHand(d)'
               /\ \E l \in Members(e) : Settled(l)' /\ Kept(l)' /\ Leads(l)'
    <3>1. Settled(e) /\ Kept(e) /\ ~Lost(e) /\ e.id \in Ids
      BY <1>6, <1>18, <1>23, <1>24, <2>1
    <3>2. /\ Members(e) \subseteq ReadEntries /\ hardlinks[e.id] = <<>>
          /\ \A d \in Members(e) : ~InHand(d)
      BY <1>3, <3>1 DEF SettledRight
    <3>3. e.id # entry.id
      BY <1>5, <1>10, <1>18, <3>2
    <3>4. PICK l \in Members(e) : Settled(l) /\ Kept(l) /\ Leads(l)
      BY <1>3, <3>1 DEF SettledRight
    <3> QED
      BY <1>4, <1>16, <1>18, <1>23, <1>25, <3>1, <3>2, <3>3, <3>4
  <2>2. ASSUME NEW e \in Range(archive), Settled(e)', ~Kept(e)' \/ Lost(e)' PROVE Unchanged(e)'
    BY <1>3, <1>18, <1>23, <1>24, <2>2 DEF SettledRight
  <2> QED
    BY <1>2, <1>10, <2>1, <2>2 DEF SettledRight
<1> QED
  BY <1>9, <1>14, <1>15, <1>19, <1>20, <1>21, <1>22, <1>26 DEF Right, Groups

\* The temporary file gets what the entry and its links are to hold.
LEMMA WriteTempStep == ASSUME Right, WriteTemp PROVE Right'
<1>1. /\ archive \in Archives /\ Types /\ Position /\ Groups /\ OldOrNew
      /\ point = "entry" /\ entry.name \in Listed
      /\ (entry.name \in Device \/ entry.size > 0)
      /\ UNCHANGED <<archive, hardlinks, fs, old, moved, entry, links, refused>>
  BY DEF Right, Types, WriteTemp, cpioVars, fileVars
<1>2. /\ Begin' = Begin /\ Stream' = Stream /\ Range(archive)' = Range(archive)
      /\ \A e : Members(e)' = Members(e) /\ Carriers(e)' = Carriers(e) /\ SetData(e)' = SetData(e)
  BY <1>1, SameLayout
<1>3. UnreadRight /\ WaitingRight /\ LinkingRight /\ PointRight /\ SettledRight
  BY <1>1 DEF Groups
<1>4. \A e : \A d \in Members(e) : d \in Range(archive) /\ d.id = e.id
  BY DEF Members
<1>5. \A e, d \in Range(archive) : d.id = e.id => d \in Members(e) /\ Members(d) = Members(e) /\ SetData(d) = SetData(e)
  BY <1>1, EntriesBuilt DEF Entered, Members
<1>6. \A e \in Range(archive) : e.name \in File /\ e.id \in Ids /\ e.size \in Nat
  BY <1>1, EntriesBuilt DEF Entered
<1>7. \A e, d \in Range(archive) : e.name = d.name => e = d
  BY <1>1, EntriesBuilt DEF Entered
<1>8. ReadEntries \subseteq Range(archive)
  BY <1>1, ReadThere DEF Entered
<1>9. OldOrNew'
  BY <1>1, <1>2 DEF OldOrNew, Left
<1>10. entry \in ReadEntries /\ entry \in Range(archive) /\ links = <<>>
  BY <1>1, <1>3, <1>8, EntryInHand DEF LinkingRight
<1>11. CASE ~Readable(Rest)
  <2>1. point' = "raised" /\ UNCHANGED <<at, lastfilesize, readsize>>
    BY <1>11 DEF WriteTemp, Unreadable, cpioVars
  <2>2. Types' /\ Position'
    BY <1>1, <1>2, <2>1 DEF Types, Position, At
  <2> QED
    BY <1>9, <2>1, <2>2, RaisedStep
<1>12. CASE Readable(Rest)
  <2>1. /\ ReadData /\ point' = "written"
        /\ temp' = Made(entry.name, SubSeq(Stream, at + 1, at + Rest))
    BY <1>12 DEF WriteTemp
  <2>2. /\ at' \in Nat /\ readsize' \in Nat /\ lastfilesize' = lastfilesize
        /\ ReadEntries' = ReadEntries /\ at' # Len(Stream) /\ \E k \in DOMAIN archive : At(k)'
    BY <1>1, <2>1, DataRead
  <2>3. Types'
    BY <1>1, <2>2 DEF Types
  <2>4. Position'
    BY <1>1, <1>2, <2>1, <2>2 DEF Position
  <2>5. \A e : /\ Kept(e)' <=> Kept(e)
               /\ Waits(e)' <=> Waits(e)
               /\ Linking(e)' <=> Linking(e)
               /\ Unchanged(e)' <=> Unchanged(e)
               /\ InHand(e)' <=> InHand(e)
    BY <1>1, <2>1 DEF Kept, Waits, Linking, Unchanged, Left, InHand, Range
  <2>6. \A e : Settled(e)' <=> Settled(e)
    BY <2>2, <2>5 DEF Settled
  <2>7. \A e : Lost(e)' <=> Lost(e)
    BY <1>2, <2>5 DEF Lost
  <2>8. \A l : Leads(l) => Leads(l)'
    BY <1>1, <2>5, <2>6, LeadsStays
  <2>9. Kept(entry) /\ Unchanged(entry)
    BY <1>1, <1>3 DEF PointRight, Kept
  <2>10. \A c \in Carriers(entry) : c = entry
    <3>1. \A c \in Carriers(entry) : c \in Range(archive) /\ c.id = entry.id /\ c.size > 0
      BY DEF Carriers, Members
    <3> QED
      BY <1>1, <1>10, <3>1, EntriesBuilt DEF Entered
  <2>11. ~Lost(entry)
    BY <2>9, <2>10 DEF Lost
  <2>12. Members(entry) \subseteq ReadEntries
    <3>1. CASE entry.size > 0
      BY <1>1, <3>1, EntryInHand
    <3>2. CASE entry.name \in Device
      <4>1. \A d \in Members(entry) : d = entry
        BY <1>1, <1>4, <1>10, <3>2, EntriesBuilt DEF Entered
      <4> QED
        BY <1>10, <4>1
    <3> QED
      BY <1>1, <3>1, <3>2
  <2>13. SetData(entry) = Data(entry)
    <3>1. CASE entry.size > 0
      BY <1>1, <1>10, <3>1, EntriesBuilt DEF Entered
    <3>2. CASE ~(entry.size > 0)
      <4>1. entry.size = 0 /\ entry \notin Carriers(entry)
        BY <1>6, <1>10, <3>2 DEF Carriers
      <4>2. Carriers(entry) = {}
        BY <2>10, <4>1
      <4> QED
        BY <1>1, <1>10, <4>1, <4>2, EntriesBuilt DEF Entered
    <3> QED
      BY <3>1, <3>2
  <2>14. temp' = Made(entry.name, SetData(entry))
    BY <1>1, <2>1, <2>13, EntryInHand
  <2>15. UnreadRight'
    BY <1>1, <1>2, <1>3, <2>2, <2>5 DEF UnreadRight
  <2>16. WaitingRight'
    BY <1>1, <1>2, <1>3, <2>2, <2>5 DEF WaitingRight
  <2>17. LinkingRight'
    <3>1. Range(<<>>) = {} /\ IsInjective(<<>>)
      BY DEF Range, IsInjective
    <3> QED
      BY <1>1, <1>10, <2>1, <3>1 DEF LinkingRight, Linking
  <2>18. PointRight'
    <3>1. /\ fs'[entry.name] = Left(entry.name)' /\ entry.name \in Listed \ refused'
          /\ \A d \in Carriers(entry) : d.name \in Listed \ refused'
      BY <1>1, <2>9, <2>11 DEF Unchanged, Left, Kept, Lost
    <3>2. /\ Unchanged(entry)' /\ Kept(entry)' /\ ~Lost(entry)'
          /\ Members(entry)' = Members(entry) /\ SetData(entry)' = SetData(entry)
      <4>1. /\ Members(entry)' = Members(entry) /\ SetData(entry)' = SetData(entry)
            /\ Carriers(entry)' = Carriers(entry)
        BY <1>1, SameLayout DEF Members, Carriers, SetData
      <4> QED
        BY <1>1, <3>1, <4>1 DEF Unchanged, Left, Kept, Lost
    <3> QED
      BY <1>1, <1>10, <2>1, <2>2, <2>12, <2>14, <3>2 DEF PointRight
  <2>19. SettledRight'
    BY <1>1, <1>2, <1>3, <2>2, <2>5, <2>6, <2>7, <2>8 DEF SettledRight
  <2> QED
    BY <1>9, <2>3, <2>4, <2>15, <2>16, <2>17, <2>18, <2>19 DEF Right, Groups
<1> QED
  BY <1>11, <1>12

\* A device is no hard link: it can be passed over alone.
LEMMA NoDeviceStep == ASSUME Right, NoDevice PROVE Right'
<1>1. /\ archive \in Archives /\ Types /\ Position /\ Groups /\ OldOrNew
      /\ point = "entry" /\ entry.name \in Listed \intersect Device
      /\ refused' = refused \union {entry.name}
      /\ point' = "link" /\ links' = hardlinks[entry.id]
      /\ hardlinks' = [hardlinks EXCEPT ![entry.id] = <<>>]
      /\ UNCHANGED <<archive, at, lastfilesize, readsize, fs, old, moved, temp, entry>>
  BY DEF Right, Types, NoDevice, cpioVars, fileVars
<1>2. /\ Begin' = Begin /\ Stream' = Stream /\ Range(archive)' = Range(archive)
      /\ \A e : Members(e)' = Members(e) /\ Carriers(e)' = Carriers(e) /\ SetData(e)' = SetData(e)
  BY <1>1, SameLayout
<1>3. UnreadRight /\ WaitingRight /\ LinkingRight /\ PointRight /\ SettledRight
  BY <1>1 DEF Groups
<1>4. \A e : \A d \in Members(e) : d \in Range(archive) /\ d.id = e.id
  BY DEF Members
<1>5. \A e, d \in Range(archive) : d.id = e.id => d \in Members(e) /\ Members(d) = Members(e) /\ SetData(d) = SetData(e)
  BY <1>1, EntriesBuilt DEF Entered, Members
<1>6. \A e \in Range(archive) : e.name \in File /\ e.id \in Ids /\ e.size \in Nat
  BY <1>1, EntriesBuilt DEF Entered
<1>7. \A e, d \in Range(archive) : e.name = d.name => e = d
  BY <1>1, EntriesBuilt DEF Entered
<1>8. ReadEntries \subseteq Range(archive)
  BY <1>1, ReadThere DEF Entered
<1>9. OldOrNew'
  BY <1>1, <1>2 DEF OldOrNew, Left
<1>10. entry \in ReadEntries /\ entry \in Range(archive) /\ links = <<>> /\ ReadEntries' = ReadEntries
  BY <1>1, <1>3, <1>8, EntryInHand, ReadSame DEF LinkingRight
<1>11. \A d \in Members(entry) : d = entry
  BY <1>1, <1>4, <1>10, EntriesBuilt DEF Entered
<1>12. ~Waits(entry) /\ Unchanged(entry)
  BY <1>1, <1>3, <1>10 DEF WaitingRight, InHand, PointRight
<1>13. entry.id \in Ids /\ hardlinks \in [Ids -> Seq(File)]
  BY <1>1, <1>6, <1>10 DEF Types
<1>14. hardlinks[entry.id] = <<>>
  <2>1. \A f \in Range(hardlinks[entry.id]) : \E e \in Range(archive) : e.name = f /\ e.id = entry.id
    BY <1>3, <1>8, <1>13 DEF WaitingRight
  <2>2. Range(hardlinks[entry.id]) = {}
    BY <1>5, <1>10, <1>11, <1>12, <2>1 DEF Waits
  <2>3. PICK s \in Seq(File) : s = hardlinks[entry.id]
    BY <1>13
  <2>4. s # <<>> => s[1] \in Range(s)
    BY DEF Range
  <2> QED
    BY <2>2, <2>3, <2>4
<1>15. links' = links /\ hardlinks' = hardlinks
  BY <1>1, <1>10, <1>13, <1>14
<1>16. Types'
  <2>1. entry.name \in File
    BY <1>6, <1>10
  <2> QED
    BY <1>1, <1>15, <2>1 DEF Types
<1>17. Position'
  BY <1>1, <1>2 DEF Position, At
<1>18. Range(<<>>) = {} /\ IsInjective(<<>>)
  BY DEF Range, IsInjective
<1>19. \A e \in Range(archive) :
          /\ Kept(e)' <=> Kept(e) /\ e # entry
          /\ Waits(e)' <=> Waits(e)
          /\ ~Linking(e) /\ ~Linking(e)'
          /\ Unchanged(e)' <=> Unchanged(e)
          /\ ~InHand(e)'
          /\ InHand(e) <=> e = entry
  <2>1. ASSUME NEW e \in Range(archive) PROVE Waits(e)' <=> Waits(e)
    BY <1>15 DEF Waits, Range
  <2>2. ASSUME NEW e \in Range(archive) PROVE Kept(e)' <=> Kept(e) /\ e # entry
    BY <1>1, <1>7, <1>10 DEF Kept
  <2>3. ASSUME NEW e \in Range(archive) PROVE ~Linking(e) /\ ~Linking(e)'
    BY <1>10, <1>15, <1>18 DEF Linking
  <2> QED
    BY <1>1, <2>1, <2>2, <2>3 DEF Unchanged, Left, InHand
<1>20. UnreadRight'
  BY <1>1, <1>2, <1>3, <1>7, <1>10, <1>19 DEF UnreadRight
<1>21. WaitingRight'
  <2>1. ASSUME NEW e \in Range(archive), Waits(e)' PROVE \A c \in Carriers(e) : c \notin ReadEntries
    <3>1. e # entry /\ \A c \in Carriers(e) : c \in Members(e) /\ c \in Range(archive)
      BY <1>12, <1>19, <2>1 DEF Carriers, Members
    <3>2. \A c \in Carriers(e) : c # entry
      BY <1>4, <1>5, <1>10, <1>11, <2>1, <3>1
    <3> QED
      BY <1>3, <1>19, <2>1, <3>1, <3>2 DEF WaitingRight
  <2> QED
    BY <1>1, <1>2, <1>3, <1>10, <1>12, <1>15, <1>19, <2>1 DEF WaitingRight
<1>22. LinkingRight'
  BY <1>1, <1>2, <1>10, <1>15, <1>18, <1>19 DEF LinkingRight
<1>23. PointRight'
  BY <1>1 DEF PointRight
<1>24. \A e \in Range(archive) : Settled(e)' <=> Settled(e) \/ e = entry
  BY <1>10, <1>12, <1>19 DEF Settled
<1>25. \A e \in Range(archive) : e # entry => (Lost(e)' <=> Lost(e))
  <2>1. ASSUME NEW e \in Range(archive), e # entry PROVE \A c \in Carriers(e) : c \in Range(archive) /\ c # entry
    <3>1. \A c \in Carriers(e) : c \in Members(e)
      BY DEF Carriers
    <3> QED
      BY <1>4, <1>5, <1>10, <1>11, <2>1, <3>1
  <2> QED
    BY <1>2, <1>19, <2>1 DEF Lost
<1>26. SettledRight'
  <2>1. ASSUME NEW e \in Range(archive), Settled(e)', Kept(e)', ~Lost(e)'
        PROVE  /\ Members(e) \subseteq ReadEntries /\ hardlinks'[e.id] = <<>>
               /\ \A d \in Members(e) : ~InHand(d)'
               /\ \E l \in Members(e) : Settled(l)' /\ Kept(l)' /\ Leads(l)'
    <3>1. e # entry /\ Settled(e) /\ Kept(e) /\ ~Lost(e)
      BY <1>19, <1>24, <1>25, <2>1
    <3>2. /\ Members(e) \subseteq ReadEntries /\ hardlinks[e.id] = <<>>
          /\ \A d \in Members(e) : ~InHand(d)
      BY <1>3, <3>1 DEF SettledRight
    <3>3. PICK l \in Members(e) : Settled(l) /\ Kept(l) /\ Leads(l)
      BY <1>3, <3>1 DEF SettledRight
    <3>4. \A d \in Members(e) : d # entry /\ d \in Range(archive)
      BY <1>4, <1>5, <1>10, <1>11, <3>1
    <3>5. Members(l) = Members(e)
      BY <1>4, <1>5
    <3>6. Leads(l)'
      BY <1>1, <1>19, <1>24, <3>3, <3>4, <3>5, LeadsStays
    <3> QED
      BY <1>15, <1>19, <1>24, <3>2, <3>3, <3>4, <3>6
  <2>2. ASSUME NEW e \in Range(archive), Settled(e)', ~Kept(e)' \/ Lost(e)' PROVE Unchanged(e)'
    BY <1>3, <1>12, <1>19, <1>24, <1>25, <2>2 DEF SettledRight
  <2> QED
    BY <1>2, <1>10, <2>1, <2>2 DEF SettledRight
<1> QED
  BY <1>9, <1>16, <1>17, <1>20, <1>21, <1>22, <1>23, <1>26 DEF Right, Groups

LEMMA AttrsFailStep == ASSUME Right, AttrsFail PROVE Right'
<1>1. /\ archive \in Archives /\ Types /\ Position /\ Groups /\ OldOrNew
      /\ point = "written" /\ point' = "raised"
      /\ UNCHANGED <<archive, at, lastfilesize, readsize, hardlinks, old, moved, entry, links, refused>>
  BY DEF Right, Types, AttrsFail, cpioVars, fileVars
<1>2. /\ Begin' = Begin /\ Stream' = Stream /\ Range(archive)' = Range(archive)
      /\ \A e : Members(e)' = Members(e) /\ Carriers(e)' = Carriers(e) /\ SetData(e)' = SetData(e)
  BY <1>1, SameLayout
<1>3. UnreadRight /\ WaitingRight /\ LinkingRight /\ PointRight /\ SettledRight
  BY <1>1 DEF Groups
<1>4. \A e : \A d \in Members(e) : d \in Range(archive) /\ d.id = e.id
  BY DEF Members
<1>5. \A e, d \in Range(archive) : d.id = e.id => d \in Members(e) /\ Members(d) = Members(e) /\ SetData(d) = SetData(e)
  BY <1>1, EntriesBuilt DEF Entered, Members
<1>6. \A e \in Range(archive) : e.name \in File /\ e.id \in Ids /\ e.size \in Nat
  BY <1>1, EntriesBuilt DEF Entered
<1>7. \A e, d \in Range(archive) : e.name = d.name => e = d
  BY <1>1, EntriesBuilt DEF Entered
<1>8. ReadEntries \subseteq Range(archive)
  BY <1>1, ReadThere DEF Entered
<1>9. Types'
  BY <1>1 DEF Types, AttrsFail
<1>10. Position'
  BY <1>1, <1>2 DEF Position, At
<1>11. ASSUME NEW e \in Range(archive)
       PROVE  fs'[e.name] = fs[e.name] \/ (e.name \in Device /\ fs'[e.name] = Absent)
  <2>1. e.name \in File
    BY <1>6
  <2> QED
    BY <1>1, <2>1 DEF AttrsFail, Types
<1>12. OldOrNew'
  BY <1>1, <1>2, <1>11 DEF OldOrNew, Left
<1> QED
  BY <1>1, <1>9, <1>10, <1>12, RaisedStep

\* The file is there, and its links are to follow.
LEMMA PlaceStep == ASSUME Right, Place PROVE Right'
<1>1. /\ archive \in Archives /\ Types /\ Position /\ Groups /\ OldOrNew
      /\ point = "written"
      /\ fs' = [fs EXCEPT ![entry.name] = temp] /\ point' = "link"
      /\ links' = hardlinks[entry.id] /\ hardlinks' = [hardlinks EXCEPT ![entry.id] = <<>>]
      /\ UNCHANGED <<archive, at, lastfilesize, readsize, old, moved, entry, refused>>
  BY DEF Right, Types, Place, cpioVars, fileVars
<1>2. /\ Begin' = Begin /\ Stream' = Stream /\ Range(archive)' = Range(archive)
      /\ \A e : Members(e)' = Members(e) /\ Carriers(e)' = Carriers(e) /\ SetData(e)' = SetData(e)
  BY <1>1, SameLayout
<1>3. UnreadRight /\ WaitingRight /\ LinkingRight /\ PointRight /\ SettledRight
  BY <1>1 DEF Groups
<1>4. \A e : \A d \in Members(e) : d \in Range(archive) /\ d.id = e.id
  BY DEF Members
<1>5. \A e, d \in Range(archive) : d.id = e.id => d \in Members(e) /\ Members(d) = Members(e) /\ SetData(d) = SetData(e)
  BY <1>1, EntriesBuilt DEF Entered, Members
<1>6. \A e \in Range(archive) : e.name \in File /\ e.id \in Ids /\ e.size \in Nat
  BY <1>1, EntriesBuilt DEF Entered
<1>7. \A e, d \in Range(archive) : e.name = d.name => e = d
  BY <1>1, EntriesBuilt DEF Entered
<1>8. ReadEntries \subseteq Range(archive)
  BY <1>1, ReadThere DEF Entered
<1>9. /\ entry \in ReadEntries /\ entry \in Range(archive) /\ links = <<>> /\ ReadEntries' = ReadEntries
      /\ Kept(entry) /\ ~Lost(entry) /\ Members(entry) \subseteq ReadEntries /\ Unchanged(entry)
      /\ temp = Made(entry.name, SetData(entry))
  BY <1>1, <1>3, <1>8, ReadSame DEF LinkingRight, PointRight
<1>10. entry.id \in Ids /\ entry.name \in File /\ hardlinks[entry.id] \in Seq(File) /\ <<>> \in Seq(File)
  BY <1>1, <1>6, <1>9 DEF Types
<1>11. Types'
  BY <1>1, <1>10 DEF Types
<1>12. Position'
  BY <1>1, <1>2 DEF Position, At
<1>13. \A i \in Ids : hardlinks'[i] = IF i = entry.id THEN <<>> ELSE hardlinks[i]
  BY <1>1 DEF Types
<1>14. Range(<<>>) = {} /\ IsInjective(<<>>)
  BY DEF Range, IsInjective
<1>15. \A e \in Range(archive) : fs'[e.name] = IF e = entry THEN temp ELSE fs[e.name]
  BY <1>1, <1>6, <1>7, <1>9 DEF Types
<1>16. ~Waits(entry)
  BY <1>1, <1>3, <1>9 DEF WaitingRight, InHand
<1>17. \A e \in Range(archive) :
          /\ Kept(e)' <=> Kept(e)
          /\ Waits(e)' <=> Waits(e) /\ e.id # entry.id
          /\ ~Linking(e)
          /\ Linking(e)' <=> Waits(e) /\ e.id = entry.id
          /\ e # entry => (Unchanged(e)' <=> Unchanged(e))
          /\ ~InHand(e)'
          /\ InHand(e) <=> e = entry
  <2>1. ASSUME NEW e \in Range(archive) PROVE Waits(e)' <=> Waits(e) /\ e.id # entry.id
    <3>1. e.id \in Ids
      BY <1>6
    <3> QED
      BY <1>13, <1>14, <3>1 DEF Waits, Range
  <2>2. ASSUME NEW e \in Range(archive) PROVE Linking(e)' <=> Waits(e) /\ e.id = entry.id
    <3>1. Linking(e)' <=> e.name \in Range(hardlinks[entry.id])
      BY <1>1 DEF Linking, Range
    <3>2. ASSUME e.name \in Range(hardlinks[entry.id]) PROVE e.id = entry.id
      <4>1. PICK d \in ReadEntries : d.name = e.name /\ d.id = entry.id
        BY <1>3, <1>10, <3>2 DEF WaitingRight
      <4> QED
        BY <1>7, <1>8, <4>1
    <3> QED
      BY <3>1, <3>2 DEF Waits
  <2>3. ASSUME NEW e \in Range(archive) PROVE ~Linking(e)
    BY <1>9, <1>14 DEF Linking
  <2>4. ASSUME NEW e \in Range(archive), e # entry PROVE Unchanged(e)' <=> Unchanged(e)
    BY <1>1, <1>15, <2>4 DEF Unchanged, Left
  <2> QED
    BY <1>1, <2>1, <2>2, <2>3, <2>4 DEF InHand, Kept
<1>18. OldOrNew'
  <2>1. ASSUME NEW e \in Range(archive), e # entry
        PROVE  \/ fs'[e.name] = Left(e.name)'
               \/ \E g \in File : fs'[e.name] = Made(g, SetData(e))
               \/ (e.size = 0 \/ e.name \in Device) /\ fs'[e.name] \in {Absent, Torn}
    BY <1>1, <1>15, <2>1 DEF OldOrNew, Left
  <2>2. fs'[entry.name] = Made(entry.name, SetData(entry)) /\ entry.name \in File
    BY <1>9, <1>10, <1>15
  <2> QED
    BY <1>1, <1>2, <2>1, <2>2 DEF OldOrNew, Left
<1>19. \A e \in Range(archive) : Lost(e)' <=> Lost(e)
  BY <1>2, <1>4, <1>17 DEF Lost, Carriers
<1>20. \A e \in Range(archive) : Settled(e)' <=> Settled(e) \/ e = entry
  BY <1>9, <1>16, <1>17 DEF Settled
<1>21. \A d \in Members(entry) : Settled(d) /\ Kept(d) => FALSE
  <2>1. SUFFICES ASSUME NEW d \in Members(entry), Settled(d), Kept(d) PROVE FALSE
    OBVIOUS
  <2>2. d \in Range(archive) /\ d.id = entry.id /\ entry \in Members(d) /\ Members(d) = Members(entry)
    BY <1>4, <1>5, <1>9
  <2>3. ~Lost(d)
    BY <1>9, <2>2 DEF Lost, Carriers
  <2>4. ~InHand(entry)
    BY <1>3, <2>1, <2>2, <2>3 DEF SettledRight
  <2> QED
    BY <1>9, <1>17, <2>4
<1>22. Leads(entry)'
  <2>1. fs'[entry.name] = Made(entry.name, SetData(entry))
    BY <1>9, <1>15
  <2>2. \A d \in Members(entry) : Settled(d)' /\ Kept(d)' => d = entry
    BY <1>4, <1>17, <1>20, <1>21
  <2>3. Members(entry)' = Members(entry) /\ SetData(entry)' = SetData(entry) /\ entry' = entry
    BY <1>1, SameLayout DEF Members, SetData, Carriers
  <2> QED
    BY <2>1, <2>2, <2>3 DEF Leads
<1>23. UnreadRight'
  BY <1>1, <1>2, <1>3, <1>9, <1>17 DEF UnreadRight
<1>24. WaitingRight'
  <2>1. ASSUME NEW i \in Ids
        PROVE  /\ IsInjective(hardlinks'[i])
               /\ \A f \in Range(hardlinks'[i]) : \E e \in ReadEntries : e.name = f /\ e.id = i
    BY <1>3, <1>13, <1>14 DEF WaitingRight
  <2>2. ASSUME NEW e \in Range(archive), Waits(e)'
        PROVE  /\ Unchanged(e)' /\ Kept(e)' /\ e.size = 0 /\ ~Linking(e)' /\ ~InHand(e)' /\ e.name \notin Device
               /\ \A c \in Carriers(e) : c \notin ReadEntries
    <3>1. \A c \in Carriers(e) : c \in Range(archive) /\ c.id = e.id
      BY DEF Carriers, Members
    <3>2. e # entry
      BY <1>16, <1>17, <2>2
    <3> QED
      BY <1>3, <1>17, <2>2, <3>1, <3>2 DEF WaitingRight
  <2> QED
    BY <1>2, <1>9, <2>1, <2>2 DEF WaitingRight
<1>25. LinkingRight'
  <2>1. IsInjective(links)'
    <3>1. IsInjective(hardlinks[entry.id])
      BY <1>3, <1>10 DEF WaitingRight
    <3> QED
      BY <1>1, <3>1 DEF IsInjective
  <2>2. \A f \in Range(links)' : \E e \in ReadEntries : e.name = f /\ e.id = entry.id
    <3>1. Range(links)' = Range(hardlinks[entry.id])
      BY <1>1 DEF Range
    <3> QED
      BY <1>3, <1>10, <3>1 DEF WaitingRight
  <2>3. ASSUME NEW e \in Range(archive), Linking(e)'
        PROVE  Kept(e)' /\ e.size = 0 /\ e.id = entry.id /\ Unchanged(e)'
    <3>1. Waits(e) /\ e.id = entry.id /\ e # entry
      BY <1>16, <1>17, <2>3
    <3> QED
      BY <1>3, <1>17, <3>1 DEF WaitingRight
  <2>4. Settled(entry)' /\ Kept(entry)' /\ ~Lost(entry)' /\ entry \in ReadEntries' /\ entry' = entry
    <3>1. \A e \in Range(archive) : e = entry => Settled(e)' /\ Kept(e)' /\ ~Lost(e)'
      BY <1>9, <1>17, <1>19, <1>20
    <3> QED
      BY <1>1, <1>9, <3>1 DEF Settled, Kept, Lost, InHand, Waits, Linking
  <2> QED
    BY <1>1, <1>2, <1>9, <1>22, <2>1, <2>2, <2>3, <2>4 DEF LinkingRight
<1>26. PointRight'
  BY <1>1 DEF PointRight
<1>27. SettledRight'
  <2>1. ASSUME NEW e \in Range(archive), Settled(e)', Kept(e)', ~Lost(e)'
        PROVE  /\ Members(e) \subseteq ReadEntries /\ hardlinks'[e.id] = <<>>
               /\ \A d \in Members(e) : ~InHand(d)'
               /\ \E l \in Members(e) : Settled(l)' /\ Kept(l)' /\ Leads(l)'
    <3>1. CASE e = entry
      <4>1. entry \in Members(entry) /\ hardlinks'[entry.id] = <<>>
        BY <1>5, <1>9, <1>10, <1>13
      <4>2. \A d \in Members(entry) : ~InHand(d)'
        BY <1>4, <1>17
      <4>3. \A l : l = entry => Leads(l)'
        BY <1>1, <1>22 DEF Leads
      <4> QED
        BY <1>9, <2>1, <3>1, <4>1, <4>2, <4>3
    <3>2. CASE e # entry
      <4>1. Settled(e) /\ Kept(e) /\ ~Lost(e) /\ e.id \in Ids
        BY <1>6, <1>17, <1>19, <1>20, <2>1, <3>2
      <4>2. /\ Members(e) \subseteq ReadEntries /\ hardlinks[e.id] = <<>>
            /\ \A d \in Members(e) : ~InHand(d)
        BY <1>3, <4>1 DEF SettledRight
      <4>3. PICK l \in Members(e) : Settled(l) /\ Kept(l) /\ Leads(l)
        BY <1>3, <4>1 DEF SettledRight
      <4>4. e.id # entry.id /\ \A d \in Members(e) : d # entry /\ d \in Range(archive)
        BY <1>4, <1>5, <1>9, <1>17, <4>2
      <4>5. Members(l) = Members(e)
        BY <1>4, <1>5
      <4>6. Leads(l)'
        BY <1>1, <1>15, <1>17, <1>20, <4>3, <4>4, <4>5, LeadsStays
      <4> QED
        BY <1>13, <1>17, <1>20, <4>1, <4>2, <4>3, <4>4, <4>6
    <3> QED
      BY <3>1, <3>2
  <2>2. ASSUME NEW e \in Range(archive), Settled(e)', ~Kept(e)' \/ Lost(e)' PROVE Unchanged(e)'
    <3>1. e # entry /\ Settled(e) /\ (~Kept(e) \/ Lost(e))
      BY <1>9, <1>17, <1>19, <1>20, <2>2
    <3> QED
      BY <1>3, <1>17, <3>1 DEF SettledRight
  <2> QED
    BY <1>2, <1>9, <2>1, <2>2 DEF SettledRight
<1> QED
  BY <1>11, <1>12, <1>18, <1>23, <1>24, <1>25, <1>26, <1>27 DEF Right, Groups

LEMMA LinkedStep == ASSUME Right, Linked PROVE Right'
<1>1. /\ archive \in Archives /\ Types /\ Position /\ Groups /\ OldOrNew
      /\ point = "link" /\ links = <<>>
      /\ point' = IF Ended THEN "remaining" ELSE "next"
      /\ UNCHANGED <<archive, at, lastfilesize, readsize, hardlinks, fs, old, moved, temp, entry, links, refused>>
  BY DEF Right, Types, Linked, cpioVars, fileVars
<1>2. /\ Begin' = Begin /\ Stream' = Stream /\ Range(archive)' = Range(archive)
      /\ \A e : Members(e)' = Members(e) /\ Carriers(e)' = Carriers(e) /\ SetData(e)' = SetData(e)
  BY <1>1, SameLayout
<1>3. UnreadRight /\ WaitingRight /\ LinkingRight /\ PointRight /\ SettledRight
  BY <1>1 DEF Groups
<1>4. \A e : \A d \in Members(e) : d \in Range(archive) /\ d.id = e.id
  BY DEF Members
<1>5. \A e, d \in Range(archive) : d.id = e.id => d \in Members(e) /\ Members(d) = Members(e) /\ SetData(d) = SetData(e)
  BY <1>1, EntriesBuilt DEF Entered, Members
<1>6. \A e \in Range(archive) : e.name \in File /\ e.id \in Ids /\ e.size \in Nat
  BY <1>1, EntriesBuilt DEF Entered
<1>7. \A e, d \in Range(archive) : e.name = d.name => e = d
  BY <1>1, EntriesBuilt DEF Entered
<1>8. ReadEntries \subseteq Range(archive)
  BY <1>1, ReadThere DEF Entered
<1>9. Types' /\ OldOrNew'
  BY <1>1, <1>2 DEF Types, OldOrNew, Left
<1>10. ReadEntries' = ReadEntries
  BY <1>1, ReadSame
<1>11. Position'
  <2>1. Layout
    BY <1>1, LaidOut
  <2>2. Ended <=> at = Len(Stream)
    <3>1. ASSUME at = Len(Stream) PROVE Ended
      <4>1. Stream[at].kind = "trailer" /\ Stream \in Seq(TokenType) /\ at \in Nat
        BY <1>1, <2>1, <3>1 DEF Layout, Types
      <4>2. at > 0
        <5>1. Begin \in [1..(Len(archive) + 1) -> Nat] /\ archive \in Seq(EntryType)
          BY <2>1 DEF Layout
        <5>2. Begin[Len(archive) + 1] \in Nat
          BY <5>1
        <5> QED
          BY <2>1, <3>1, <5>2 DEF Layout
      <4> QED
        BY <4>1, <4>2 DEF Ended
    <3>2. ASSUME Ended PROVE at = Len(Stream)
      BY <1>1, <2>1, <3>2, AtReached DEF Position, Ended
    <3> QED
      BY <3>1, <3>2
  <2> QED
    BY <1>1, <1>2, <2>2 DEF Position, At
<1>12. Range(<<>>) = {} /\ IsInjective(<<>>)
  BY DEF Range, IsInjective
<1>13. \A e : /\ Kept(e)' <=> Kept(e)
              /\ Waits(e)' <=> Waits(e)
              /\ ~Linking(e) /\ ~Linking(e)'
              /\ Unchanged(e)' <=> Unchanged(e)
              /\ ~InHand(e) /\ ~InHand(e)'
  BY <1>1, <1>12 DEF Kept, Waits, Linking, Unchanged, Left, InHand, Range
<1>14. \A e : Settled(e)' <=> Settled(e)
  BY <1>10, <1>13 DEF Settled
<1>15. \A e : Lost(e)' <=> Lost(e)
  BY <1>2, <1>13 DEF Lost
<1>16. \A l : Leads(l) => Leads(l)'
  BY <1>1, <1>13, <1>14, LeadsStays
<1>17. UnreadRight'
  BY <1>1, <1>2, <1>3, <1>10, <1>13 DEF UnreadRight
<1>18. WaitingRight'
  BY <1>1, <1>2, <1>3, <1>10, <1>13 DEF WaitingRight
<1>19. LinkingRight'
  BY <1>1, <1>2, <1>12, <1>13 DEF LinkingRight
<1>20. PointRight'
  BY <1>1 DEF PointRight
<1>21. SettledRight'
  BY <1>1, <1>2, <1>3, <1>10, <1>13, <1>14, <1>15, <1>16 DEF SettledRight
<1> QED
  BY <1>9, <1>11, <1>17, <1>18, <1>19, <1>20, <1>21 DEF Right, Groups

LEMMA ExtractedStep == ASSUME Right, Extracted PROVE Right'
<1>1. /\ archive \in Archives /\ Types /\ Position /\ Groups /\ OldOrNew
      /\ point = "remaining" /\ point' = "done"
      /\ UNCHANGED <<archive, at, lastfilesize, readsize, hardlinks, fs, old, moved, temp, entry, links, refused>>
  BY DEF Right, Types, Extracted, cpioVars, fileVars
<1>2. /\ Begin' = Begin /\ Stream' = Stream /\ Range(archive)' = Range(archive)
      /\ \A e : Members(e)' = Members(e) /\ Carriers(e)' = Carriers(e) /\ SetData(e)' = SetData(e)
  BY <1>1, SameLayout
<1>3. UnreadRight /\ WaitingRight /\ LinkingRight /\ PointRight /\ SettledRight
  BY <1>1 DEF Groups
<1>4. \A e : \A d \in Members(e) : d \in Range(archive) /\ d.id = e.id
  BY DEF Members
<1>5. \A e, d \in Range(archive) : d.id = e.id => d \in Members(e) /\ Members(d) = Members(e) /\ SetData(d) = SetData(e)
  BY <1>1, EntriesBuilt DEF Entered, Members
<1>6. \A e \in Range(archive) : e.name \in File /\ e.id \in Ids /\ e.size \in Nat
  BY <1>1, EntriesBuilt DEF Entered
<1>7. \A e, d \in Range(archive) : e.name = d.name => e = d
  BY <1>1, EntriesBuilt DEF Entered
<1>8. ReadEntries \subseteq Range(archive)
  BY <1>1, ReadThere DEF Entered
<1>9. Types' /\ OldOrNew' /\ Position'
  BY <1>1, <1>2 DEF Types, OldOrNew, Left, Position, At
<1>10. ReadEntries' = ReadEntries /\ links = <<>>
  BY <1>1, <1>3, ReadSame DEF LinkingRight
<1>12. Range(<<>>) = {} /\ IsInjective(<<>>)
  BY DEF Range, IsInjective
<1>13. \A e : /\ Kept(e)' <=> Kept(e)
              /\ Waits(e)' <=> Waits(e)
              /\ ~Linking(e) /\ ~Linking(e)'
              /\ Unchanged(e)' <=> Unchanged(e)
              /\ ~InHand(e) /\ ~InHand(e)'
  BY <1>1, <1>10, <1>12 DEF Kept, Waits, Linking, Unchanged, Left, InHand, Range
<1>14. \A e : Settled(e)' <=> Settled(e)
  BY <1>10, <1>13 DEF Settled
<1>15. \A e : Lost(e)' <=> Lost(e)
  BY <1>2, <1>13 DEF Lost
<1>16. \A l : Leads(l) => Leads(l)'
  BY <1>1, <1>13, <1>14, LeadsStays
<1>17. UnreadRight'
  BY <1>1, <1>2, <1>3, <1>10, <1>13 DEF UnreadRight
<1>18. WaitingRight'
  BY <1>1, <1>2, <1>3, <1>10, <1>13 DEF WaitingRight
<1>19. LinkingRight'
  BY <1>1, <1>2, <1>10, <1>12, <1>13 DEF LinkingRight
<1>20. PointRight'
  BY <1>1 DEF PointRight, Extracted
<1>21. SettledRight'
  BY <1>1, <1>2, <1>3, <1>10, <1>13, <1>14, <1>15, <1>16 DEF SettledRight
<1> QED
  BY <1>9, <1>17, <1>18, <1>19, <1>20, <1>21 DEF Right, Groups

\* What a link replaces goes first.
LEMMA UnlinkStep == ASSUME Right, Unlink PROVE Right'
<1>1. /\ archive \in Archives /\ Types /\ Position /\ Groups /\ OldOrNew
      /\ point = "link" /\ links # <<>>
      /\ fs' = [fs EXCEPT ![Head(links)] = Absent] /\ point' = "unlinked"
      /\ UNCHANGED <<archive, at, lastfilesize, readsize, hardlinks, old, moved, temp, entry, links, refused>>
  BY DEF Right, Types, Unlink, cpioVars, fileVars
<1>2. /\ Begin' = Begin /\ Stream' = Stream /\ Range(archive)' = Range(archive)
      /\ \A e : Members(e)' = Members(e) /\ Carriers(e)' = Carriers(e) /\ SetData(e)' = SetData(e)
  BY <1>1, SameLayout
<1>3. UnreadRight /\ WaitingRight /\ LinkingRight /\ PointRight /\ SettledRight
  BY <1>1 DEF Groups
<1>4. \A e : \A d \in Members(e) : d \in Range(archive) /\ d.id = e.id
  BY DEF Members
<1>5. \A e, d \in Range(archive) : d.id = e.id => d \in Members(e) /\ Members(d) = Members(e) /\ SetData(d) = SetData(e)
  BY <1>1, EntriesBuilt DEF Entered, Members
<1>6. \A e \in Range(archive) : e.name \in File /\ e.id \in Ids /\ e.size \in Nat
  BY <1>1, EntriesBuilt DEF Entered
<1>7. \A e, d \in Range(archive) : e.name = d.name => e = d
  BY <1>1, EntriesBuilt DEF Entered
<1>8. ReadEntries \subseteq Range(archive)
  BY <1>1, ReadThere DEF Entered
<1>9. /\ links \in Seq(File) /\ links # <<>> /\ IsInjective(links)
      /\ entry \in ReadEntries /\ entry \in Range(archive) /\ Settled(entry) /\ Kept(entry) /\ ~Lost(entry) /\ Leads(entry)
  BY <1>1, <1>3, <1>8 DEF LinkingRight, Types
<1>10. /\ Head(links) \in File /\ Head(links) \in Range(links) /\ Tail(links) \in Seq(File)
       /\ Range(Tail(links)) = Range(links) \ {Head(links)} /\ IsInjective(Tail(links))
  BY <1>9, RangeOfTail
<1>11. PICK h \in Range(archive) : h \in ReadEntries /\ h.name = Head(links) /\ h.id = entry.id
  BY <1>3, <1>8, <1>10 DEF LinkingRight
<1>12. Linking(h) /\ h # entry /\ Kept(h) /\ h.size = 0 /\ ~Waits(h) /\ ~Lost(h)
       /\ Members(h) = Members(entry) /\ SetData(h) = SetData(entry)
  <2>1. Linking(h)
    BY <1>10, <1>11 DEF Linking
  <2>2. Members(h) = Members(entry) /\ SetData(h) = SetData(entry)
    BY <1>5, <1>9, <1>11
  <2>3. ~Lost(h)
    BY <1>9, <2>2 DEF Lost, Carriers
  <2> QED
    BY <1>3, <1>9, <2>1, <2>2, <2>3 DEF LinkingRight, WaitingRight, Settled
<1>13. Types'
  BY <1>1 DEF Types
<1>14. Position'
  BY <1>1, <1>2 DEF Position, At
<1>15. ReadEntries' = ReadEntries
  BY <1>1, ReadSame
<1>16. \A e \in Range(archive) : fs'[e.name] = IF e = h THEN Absent ELSE fs[e.name]
  BY <1>1, <1>6, <1>7, <1>11 DEF Types
<1>17. \A e : /\ Kept(e)' <=> Kept(e)
              /\ Waits(e)' <=> Waits(e)
              /\ Linking(e)' <=> Linking(e)
              /\ ~InHand(e) /\ ~InHand(e)'
  BY <1>1 DEF Kept, Waits, Linking, InHand, Range
<1>18. \A e \in Range(archive) : e # h => (Unchanged(e)' <=> Unchanged(e))
  BY <1>1, <1>16 DEF Unchanged, Left
<1>19. \A e : Settled(e)' <=> Settled(e)
  BY <1>15, <1>17 DEF Settled
<1>20. \A e : Lost(e)' <=> Lost(e)
  BY <1>2, <1>17 DEF Lost
<1>21. \A e \in Range(archive) : Settled(e) => e # h
  BY <1>12 DEF Settled
<1>22. ASSUME NEW l \in Range(archive), Settled(l), Leads(l) PROVE Leads(l)'
  <2>1. fs[l.name]' = fs[l.name]
    BY <1>1, <1>16, <1>21, <1>22
  <2>2. \A d \in Members(l) : Settled(d)' => Settled(d) /\ fs[d.name]' = fs[d.name]
    BY <1>1, <1>4, <1>16, <1>19, <1>21
  <2> QED
    BY <1>1, <1>17, <1>22, <2>1, <2>2, LeadsStays
<1>23. OldOrNew'
  <2>1. ASSUME NEW e \in Range(archive)
        PROVE  \/ fs'[e.name] = Left(e.name)'
               \/ \E g \in File : fs'[e.name] = Made(g, SetData(e))
               \/ (e.size = 0 \/ e.name \in Device) /\ fs'[e.name] \in {Absent, Torn}
    BY <1>1, <1>12, <1>16, <2>1 DEF OldOrNew, Left
  <2> QED
    BY <1>1, <1>2, <2>1 DEF OldOrNew, Left
<1>24. UnreadRight'
  BY <1>1, <1>2, <1>3, <1>11, <1>15, <1>17, <1>18 DEF UnreadRight
<1>25. WaitingRight'
  BY <1>1, <1>2, <1>3, <1>12, <1>15, <1>17, <1>18 DEF WaitingRight
<1>26. LinkingRight'
  <2>1. ASSUME NEW e \in Range(archive), Linking(e)
        PROVE  /\ Kept(e)' /\ e.size = 0 /\ e.id = entry.id
               /\ IF e.name = Head(links) THEN fs'[e.name] = Absent ELSE Unchanged(e)'
    <3>1. e.name = Head(links) <=> e = h
      BY <1>7, <1>11
    <3>2. Kept(e) /\ e.size = 0 /\ e.id = entry.id /\ (e # h => Unchanged(e))
      BY <1>1, <1>3, <2>1, <3>1 DEF LinkingRight
    <3> QED
      BY <1>16, <1>17, <1>18, <3>1, <3>2
  <2>2. Leads(entry)'
    <3>1. \A l : l = entry => Leads(l)'
      BY <1>9, <1>22
    <3> QED
      BY <1>1, <3>1 DEF Leads
  <2>3. Settled(entry)' /\ Kept(entry)' /\ ~Lost(entry)' /\ Leads(entry)' /\ entry \in ReadEntries'
    <3>1. \A e : e = entry => Settled(e)' /\ Kept(e)' /\ ~Lost(e)'
      BY <1>9, <1>17, <1>19, <1>20
    <3> QED
      BY <1>1, <1>9, <1>15, <2>2, <3>1 DEF Settled, Kept, Lost, InHand, Waits, Linking, Leads
  <2>4. \A f \in Range(links)' : \E e \in ReadEntries' : e.name = f /\ e.id = (entry.id)'
    BY <1>1, <1>3, <1>15 DEF LinkingRight, Range
  <2>5. IsInjective(links)' /\ links' # <<>>
    BY <1>1, <1>9 DEF IsInjective
  <2> QED
    BY <1>1, <1>2, <1>17, <2>1, <2>3, <2>4, <2>5 DEF LinkingRight
<1>27. PointRight'
  BY <1>1 DEF PointRight
<1>28. SettledRight'
  <2>1. ASSUME NEW e \in Range(archive), Settled(e)', Kept(e)', ~Lost(e)'
        PROVE  /\ Members(e) \subseteq ReadEntries /\ hardlinks'[e.id] = <<>>
               /\ \A d \in Members(e) : ~InHand(d)'
               /\ \E l \in Members(e) : Settled(l)' /\ Kept(l)' /\ Leads(l)'
    BY <1>1, <1>3, <1>4, <1>17, <1>19, <1>20, <1>22, <2>1 DEF SettledRight
  <2>2. ASSUME NEW e \in Range(archive), Settled(e)', ~Kept(e)' \/ Lost(e)' PROVE Unchanged(e)'
    BY <1>3, <1>17, <1>18, <1>19, <1>20, <1>21, <2>2 DEF SettledRight
  <2> QED
    BY <1>2, <1>15, <2>1, <2>2 DEF SettledRight
<1> QED
  BY <1>13, <1>14, <1>23, <1>24, <1>25, <1>26, <1>27, <1>28 DEF Right, Groups

LEMMA LinkStep == ASSUME Right, Link PROVE Right'
<1>1. /\ archive \in Archives /\ Types /\ Position /\ Groups /\ OldOrNew
      /\ point = "unlinked" /\ Together
      /\ (point' = "raised" \/ (temp' = fs[entry.name] /\ point' = "linked"))
      /\ UNCHANGED <<archive, at, lastfilesize, readsize, hardlinks, old, moved, fs, entry, links, refused>>
  BY DEF Right, Types, Link, cpioVars, fileVars
<1>2. /\ Begin' = Begin /\ Stream' = Stream /\ Range(archive)' = Range(archive)
      /\ \A e : Members(e)' = Members(e) /\ Carriers(e)' = Carriers(e) /\ SetData(e)' = SetData(e)
  BY <1>1, SameLayout
<1>3. UnreadRight /\ WaitingRight /\ LinkingRight /\ PointRight /\ SettledRight
  BY <1>1 DEF Groups
<1>4. \A e : \A d \in Members(e) : d \in Range(archive) /\ d.id = e.id
  BY DEF Members
<1>5. \A e, d \in Range(archive) : d.id = e.id => d \in Members(e) /\ Members(d) = Members(e) /\ SetData(d) = SetData(e)
  BY <1>1, EntriesBuilt DEF Entered, Members
<1>6. \A e \in Range(archive) : e.name \in File /\ e.id \in Ids /\ e.size \in Nat
  BY <1>1, EntriesBuilt DEF Entered
<1>7. \A e, d \in Range(archive) : e.name = d.name => e = d
  BY <1>1, EntriesBuilt DEF Entered
<1>8. ReadEntries \subseteq Range(archive)
  BY <1>1, ReadThere DEF Entered
<1>9. Types' /\ OldOrNew' /\ Position'
  BY <1>1, <1>2 DEF Types, OldOrNew, Left, Position, At
<1>10. CASE point' = "raised"
  BY <1>9, <1>10, RaisedStep
<1>11. CASE point' = "linked" /\ temp' = fs[entry.name]
  <2>10. ReadEntries' = ReadEntries
    BY <1>1, ReadSame
  <2>13. \A e : /\ Kept(e)' <=> Kept(e)
                /\ Waits(e)' <=> Waits(e)
                /\ Linking(e)' <=> Linking(e)
                /\ Unchanged(e)' <=> Unchanged(e)
                /\ ~InHand(e) /\ ~InHand(e)'
    BY <1>1, <1>11 DEF Kept, Waits, Linking, Unchanged, Left, InHand, Range
  <2>14. \A e : Settled(e)' <=> Settled(e)
    BY <2>10, <2>13 DEF Settled
  <2>15. \A e : Lost(e)' <=> Lost(e)
    BY <1>2, <2>13 DEF Lost
  <2>16. \A l : Leads(l) => Leads(l)'
    BY <1>1, <2>13, <2>14, LeadsStays
  <2>17. UnreadRight'
    BY <1>1, <1>2, <1>3, <2>10, <2>13 DEF UnreadRight
  <2>18. WaitingRight'
    BY <1>1, <1>2, <1>3, <2>10, <2>13 DEF WaitingRight
  <2>19. LinkingRight'
    <3>1. Settled(entry) /\ Kept(entry) /\ ~Lost(entry) /\ Leads(entry) /\ entry \in ReadEntries /\ links # <<>>
      BY <1>1, <1>3 DEF LinkingRight
    <3>2. \A e : e = entry => Settled(e)' /\ Kept(e)' /\ ~Lost(e)' /\ Leads(e)'
      BY <2>13, <2>14, <2>15, <2>16, <3>1
    <3>3. Settled(entry)' /\ Kept(entry)' /\ ~Lost(entry)' /\ Leads(entry)'
      BY <1>1, <3>2 DEF Settled, Kept, Lost, InHand, Waits, Linking, Leads
    <3>4. IsInjective(links)' /\ Range(links)' = Range(links)
      BY <1>1, <1>3 DEF LinkingRight, IsInjective, Range
    <3> QED
      BY <1>1, <1>2, <1>3, <1>11, <2>10, <2>13, <3>1, <3>3, <3>4 DEF LinkingRight
  <2>20. PointRight'
    BY <1>1, <1>11 DEF PointRight, Together
  <2>21. SettledRight'
    BY <1>1, <1>2, <1>3, <2>10, <2>13, <2>14, <2>15, <2>16 DEF SettledRight
  <2> QED
    BY <1>9, <2>17, <2>18, <2>19, <2>20, <2>21 DEF Right, Groups
<1> QED
  BY <1>1, <1>10, <1>11

\* A link is made, with the inode of the file or, on another partition, its own.
LEMMA LinkMade ==
    ASSUME Right, point \in {"unlinked", "linked"}, point' = "link",
           fs' = [fs EXCEPT ![Head(links)] =
                    Made(IF Together THEN entry.name ELSE Head(links), fs[entry.name].data)],
           links' = Tail(links),
           UNCHANGED <<archive, at, lastfilesize, readsize, hardlinks, old, moved, entry, refused>>
    PROVE  Right'
<1>1. /\ archive \in Archives /\ Types /\ Position /\ Groups /\ OldOrNew
  BY DEF Right, Types
<1>2. /\ Begin' = Begin /\ Stream' = Stream /\ Range(archive)' = Range(archive)
      /\ \A e : Members(e)' = Members(e) /\ Carriers(e)' = Carriers(e) /\ SetData(e)' = SetData(e)
  BY <1>1, SameLayout
<1>3. UnreadRight /\ WaitingRight /\ LinkingRight /\ PointRight /\ SettledRight
  BY <1>1 DEF Groups
<1>4. \A e : \A d \in Members(e) : d \in Range(archive) /\ d.id = e.id
  BY DEF Members
<1>5. \A e, d \in Range(archive) : d.id = e.id => d \in Members(e) /\ Members(d) = Members(e) /\ SetData(d) = SetData(e)
  BY <1>1, EntriesBuilt DEF Entered, Members
<1>6. \A e \in Range(archive) : e.name \in File /\ e.id \in Ids /\ e.size \in Nat
  BY <1>1, EntriesBuilt DEF Entered
<1>7. \A e, d \in Range(archive) : e.name = d.name => e = d
  BY <1>1, EntriesBuilt DEF Entered
<1>8. ReadEntries \subseteq Range(archive)
  BY <1>1, ReadThere DEF Entered
<1>9. /\ links \in Seq(File) /\ links # <<>> /\ IsInjective(links)
      /\ entry \in ReadEntries /\ entry \in Range(archive) /\ Settled(entry) /\ Kept(entry) /\ ~Lost(entry) /\ Leads(entry)
  BY <1>1, <1>3, <1>8 DEF LinkingRight, Types
<1>10. /\ Head(links) \in File /\ Head(links) \in Range(links) /\ Tail(links) \in Seq(File)
       /\ Range(Tail(links)) = Range(links) \ {Head(links)} /\ IsInjective(Tail(links))
  BY <1>9, RangeOfTail
<1>11. PICK h \in Range(archive) : h \in ReadEntries /\ h.name = Head(links) /\ h.id = entry.id
  BY <1>3, <1>8, <1>10 DEF LinkingRight
<1>12. Linking(h) /\ h # entry /\ Kept(h) /\ h.size = 0 /\ ~Waits(h) /\ ~Lost(h)
       /\ Members(h) = Members(entry) /\ SetData(h) = SetData(entry)
  <2>1. Linking(h)
    BY <1>10, <1>11 DEF Linking
  <2>2. Members(h) = Members(entry) /\ SetData(h) = SetData(entry)
    BY <1>5, <1>9, <1>11
  <2>3. ~Lost(h)
    BY <1>9, <2>2 DEF Lost, Carriers
  <2> QED
    BY <1>3, <1>9, <2>1, <2>2, <2>3 DEF LinkingRight, WaitingRight, Settled
<1>13. PICK new : new = Made(IF entry.name \in Apart <=> h.name \in Apart THEN entry.name ELSE h.name, SetData(entry))
  OBVIOUS
<1>14. fs' = [fs EXCEPT ![Head(links)] = new]
  <2>1. fs[entry.name] = Made(entry.name, SetData(entry))
    BY <1>9 DEF Leads
  <2>2. fs[entry.name].data = SetData(entry)
    BY <2>1 DEF Made
  <2> QED
    BY <1>11, <1>13, <2>2 DEF Together
<1>15. Types'
  BY <1>1, <1>10, <1>14 DEF Types
<1>16. Position'
  BY <1>1, <1>2 DEF Position, At
<1>17. ReadEntries' = ReadEntries
  BY <1>1, ReadSame
<1>18. \A e \in Range(archive) : fs'[e.name] = IF e = h THEN new ELSE fs[e.name]
  BY <1>1, <1>6, <1>7, <1>11, <1>14 DEF Types
<1>19. \A e \in Range(archive) :
         /\ Kept(e)' <=> Kept(e)
         /\ Waits(e)' <=> Waits(e)
         /\ Linking(e)' <=> Linking(e) /\ e # h
         /\ ~InHand(e) /\ ~InHand(e)'
  <2>1. ASSUME NEW e \in Range(archive) PROVE Linking(e)' <=> Linking(e) /\ e # h
    <3>1. Range(links)' = Range(Tail(links))
      BY DEF Range
    <3> QED
      BY <1>7, <1>10, <1>11, <3>1 DEF Linking
  <2> QED
    BY <1>1, <2>1 DEF Kept, Waits, InHand, Range
<1>20. \A e \in Range(archive) : e # h => (Unchanged(e)' <=> Unchanged(e))
  BY <1>1, <1>18 DEF Unchanged, Left
<1>21. \A e \in Range(archive) : Settled(e)' <=> Settled(e) \/ e = h
  BY <1>11, <1>12, <1>17, <1>19 DEF Settled
<1>22. \A e \in Range(archive) : Lost(e)' <=> Lost(e)
  BY <1>2, <1>4, <1>19 DEF Lost, Carriers
<1>23. \A e \in Range(archive) : Settled(e) => e # h
  BY <1>12 DEF Settled
<1>24. Leads(entry)'
  <2>1. Members(entry)' = Members(entry) /\ SetData(entry)' = SetData(entry)
    BY <1>1, SameLayout DEF Members, SetData, Carriers
  <2>2. fs'[entry.name] = fs[entry.name]
    BY <1>9, <1>12, <1>18
  <2>3. ASSUME NEW d \in Members(entry), Settled(d)', Kept(d)'
        PROVE  fs'[d.name] = Made(IF entry.name \in Apart <=> d.name \in Apart THEN entry.name ELSE d.name, SetData(entry))
    <3>1. CASE d = h
      BY <1>4, <1>13, <1>18, <3>1
    <3>2. CASE d # h
      BY <1>4, <1>9, <1>18, <1>19, <1>21, <2>3, <3>2 DEF Leads
    <3> QED
      BY <3>1, <3>2
  <2> QED
    BY <1>9, <2>1, <2>2, <2>3 DEF Leads
<1>25. ASSUME NEW l \in Range(archive), Settled(l), Leads(l), l.id # entry.id PROVE Leads(l)'
  <2>1. fs[l.name]' = fs[l.name]
    BY <1>1, <1>18, <1>23, <1>25
  <2>2. \A d \in Members(l) : d # h /\ d \in Range(archive)
    BY <1>4, <1>11, <1>25
  <2>3. \A d \in Members(l) : Settled(d)' /\ Kept(d)' => Settled(d) /\ Kept(d) /\ fs[d.name]' = fs[d.name]
    BY <1>1, <1>18, <1>19, <1>21, <2>2
  <2> QED
    BY <1>1, <1>25, <2>1, <2>3, LeadsStays
<1>26. OldOrNew'
  <2>1. \E g \in File : new = Made(g, SetData(h))
    BY <1>6, <1>9, <1>12, <1>13
  <2>2. ASSUME NEW e \in Range(archive)
        PROVE  \/ fs'[e.name] = Left(e.name)'
               \/ \E g \in File : fs'[e.name] = Made(g, SetData(e))
               \/ (e.size = 0 \/ e.name \in Device) /\ fs'[e.name] \in {Absent, Torn}
    BY <1>1, <1>18, <2>1 DEF OldOrNew, Left
  <2> QED
    BY <1>1, <1>2, <2>2 DEF OldOrNew, Left
<1>27. UnreadRight'
  BY <1>1, <1>2, <1>3, <1>11, <1>17, <1>19, <1>20 DEF UnreadRight
<1>28. WaitingRight'
  <2>1. \A e \in Range(archive) : Waits(e) => e # h
    BY <1>12
  <2>2. \A e : \A c \in Carriers(e) : c \in Range(archive)
    BY DEF Carriers, Members
  <2> QED
    BY <1>1, <1>2, <1>3, <1>17, <1>19, <1>20, <2>1, <2>2 DEF WaitingRight
<1>29. LinkingRight'
  <2>1. ASSUME NEW e \in Range(archive), Linking(e), e # h
        PROVE  Kept(e)' /\ e.size = 0 /\ e.id = entry.id /\ Unchanged(e)'
    <3>1. e.name # Head(links)
      BY <1>7, <1>11, <2>1
    <3> QED
      BY <1>3, <1>19, <1>20, <2>1, <3>1 DEF LinkingRight
  <2>2. Settled(entry)' /\ Kept(entry)' /\ ~Lost(entry)' /\ entry \in ReadEntries'
    <3>1. \A e \in Range(archive) : e = entry => Settled(e)' /\ Kept(e)' /\ ~Lost(e)'
      BY <1>9, <1>19, <1>21, <1>22
    <3> QED
      BY <1>1, <1>9, <1>17, <3>1 DEF Settled, Kept, Lost, InHand, Waits, Linking
  <2>3. Range(links)' \subseteq Range(links) /\ IsInjective(links)'
    BY <1>1, <1>10 DEF Range, IsInjective
  <2>4. \A f \in Range(links)' : \E e \in ReadEntries' : e.name = f /\ e.id = (entry.id)'
    BY <1>1, <1>3, <1>17, <2>3 DEF LinkingRight
  <2> QED
    BY <1>1, <1>2, <1>19, <1>24, <2>1, <2>2, <2>3, <2>4 DEF LinkingRight
<1>30. PointRight'
  BY DEF PointRight
<1>31. SettledRight'
  <2>0. /\ Members(entry) \subseteq ReadEntries /\ hardlinks[entry.id] = <<>>
    BY <1>3, <1>9 DEF SettledRight
  <2>1. ASSUME NEW e \in Range(archive), Settled(e)', Kept(e)', ~Lost(e)'
        PROVE  /\ Members(e) \subseteq ReadEntries /\ hardlinks'[e.id] = <<>>
               /\ \A d \in Members(e) : ~InHand(d)'
               /\ \E l \in Members(e) : Settled(l)' /\ Kept(l)' /\ Leads(l)'
    <3>1. CASE e.id = entry.id
      <4>1. Members(e) = Members(entry) /\ entry \in Members(e)
        BY <1>5, <1>9, <3>1
      <4>2. \A l : l = entry => Leads(l)'
        BY <1>1, <1>24 DEF Leads
      <4>3. Settled(entry) /\ Kept(entry)
        BY <1>9
      <4> QED
        BY <1>1, <1>4, <1>9, <1>19, <1>21, <2>0, <3>1, <4>1, <4>2, <4>3
    <3>2. CASE e.id # entry.id
      <4>1. Settled(e) /\ Kept(e) /\ ~Lost(e)
        BY <1>11, <1>19, <1>21, <1>22, <2>1, <3>2
      <4>2. /\ Members(e) \subseteq ReadEntries /\ hardlinks[e.id] = <<>>
            /\ \E l \in Members(e) : Settled(l) /\ Kept(l) /\ Leads(l)
        BY <1>3, <4>1 DEF SettledRight
      <4>3. PICK l \in Members(e) : Settled(l) /\ Kept(l) /\ Leads(l)
        BY <4>2
      <4>4. l \in Range(archive) /\ l.id # entry.id
        BY <1>4, <3>2
      <4>5. Leads(l)' /\ Settled(l)' /\ Kept(l)'
        BY <1>19, <1>21, <1>25, <4>3, <4>4
      <4> QED
        BY <1>1, <1>4, <1>19, <4>2, <4>5
    <3> QED
      BY <3>1, <3>2
  <2>2. ASSUME NEW e \in Range(archive), Settled(e)', ~Kept(e)' \/ Lost(e)' PROVE Unchanged(e)'
    <3>1. e # h /\ Settled(e) /\ (~Kept(e) \/ Lost(e))
      BY <1>12, <1>19, <1>21, <1>22, <2>2
    <3> QED
      BY <1>3, <1>20, <3>1 DEF SettledRight
  <2> QED
    BY <1>2, <1>17, <2>1, <2>2 DEF SettledRight
<1> QED
  BY <1>15, <1>16, <1>26, <1>27, <1>28, <1>29, <1>30, <1>31 DEF Right, Groups

LEMMA PlaceLinkStep == ASSUME Right, PlaceLink PROVE Right'
<1>1. /\ point = "linked" /\ point' = "link" /\ links' = Tail(links)
      /\ fs' = [fs EXCEPT ![Head(links)] = temp]
      /\ UNCHANGED <<archive, at, lastfilesize, readsize, hardlinks, old, moved, entry, refused>>
  BY DEF PlaceLink, cpioVars
<1>2. temp = fs[entry.name] /\ Together /\ Leads(entry)
  BY <1>1 DEF Right, Groups, PointRight, LinkingRight
<1>3. temp = Made(IF Together THEN entry.name ELSE Head(links), fs[entry.name].data)
  BY <1>2 DEF Leads, Made
<1> QED
  BY <1>1, <1>3, LinkMade

\* Nothing but the head of the links is touched before it is whole.
LEMMA CopyStep == ASSUME Right, Copy PROVE Right'
<1>1. /\ archive \in Archives /\ Types /\ Position /\ Groups /\ OldOrNew
      /\ point = "unlinked" /\ ~Together
      /\ UNCHANGED <<archive, at, lastfilesize, readsize, hardlinks, old, moved, temp, entry, refused>>
  BY DEF Right, Types, Copy, cpioVars, fileVars
<1>2. /\ Begin' = Begin /\ Stream' = Stream /\ Range(archive)' = Range(archive)
      /\ \A e : Members(e)' = Members(e) /\ Carriers(e)' = Carriers(e) /\ SetData(e)' = SetData(e)
  BY <1>1, SameLayout
<1>3. UnreadRight /\ WaitingRight /\ LinkingRight /\ PointRight /\ SettledRight
  BY <1>1 DEF Groups
<1>4. \A e : \A d \in Members(e) : d \in Range(archive) /\ d.id = e.id
  BY DEF Members
<1>5. \A e, d \in Range(archive) : d.id = e.id => d \in Members(e) /\ Members(d) = Members(e) /\ SetData(d) = SetData(e)
  BY <1>1, EntriesBuilt DEF Entered, Members
<1>6. \A e \in Range(archive) : e.name \in File /\ e.id \in Ids /\ e.size \in Nat
  BY <1>1, EntriesBuilt DEF Entered
<1>7. \A e, d \in Range(archive) : e.name = d.name => e = d
  BY <1>1, EntriesBuilt DEF Entered
<1>8. ReadEntries \subseteq Range(archive)
  BY <1>1, ReadThere DEF Entered
<1>9. /\ links \in Seq(File) /\ links # <<>> /\ IsInjective(links)
      /\ entry \in ReadEntries /\ entry \in Range(archive) /\ Settled(entry) /\ Kept(entry) /\ ~Lost(entry) /\ Leads(entry)
  BY <1>1, <1>3, <1>8 DEF LinkingRight, Types
<1>10. /\ Head(links) \in File /\ Head(links) \in Range(links) /\ Tail(links) \in Seq(File)
       /\ Range(Tail(links)) = Range(links) \ {Head(links)} /\ IsInjective(Tail(links))
  BY <1>9, RangeOfTail
<1>11. PICK h \in Range(archive) : h \in ReadEntries /\ h.name = Head(links) /\ h.id = entry.id
  BY <1>3, <1>8, <1>10 DEF LinkingRight
<1>12. Linking(h) /\ h # entry /\ Kept(h) /\ h.size = 0 /\ ~Waits(h) /\ ~Lost(h)
       /\ Members(h) = Members(entry) /\ SetData(h) = SetData(entry)
  <2>1. Linking(h)
    BY <1>10, <1>11 DEF Linking
  <2>2. Members(h) = Members(entry) /\ SetData(h) = SetData(entry)
    BY <1>5, <1>9, <1>11
  <2>3. ~Lost(h)
    BY <1>9, <2>2 DEF Lost, Carriers
  <2> QED
    BY <1>3, <1>9, <2>1, <2>2, <2>3 DEF LinkingRight, WaitingRight, Settled
<1>13. CASE links' = Tail(links)
  <2>1. /\ fs' = [fs EXCEPT ![Head(links)] = Made(Head(links), fs[entry.name].data)]
        /\ point' = "link"
    <3>1. links' # links
      BY <1>9, <1>13
    <3> QED
      BY <3>1 DEF Copy
  <2> QED
    BY <1>1, <1>13, <2>1, LinkMade
<1>14. CASE links' = links /\ point' = "raised" /\ fs' = fs
  <2>1. Types' /\ OldOrNew' /\ Position'
    BY <1>1, <1>2, <1>14 DEF Types, OldOrNew, Left, Position, At
  <2> QED
    BY <1>14, <2>1, RaisedStep
<1>15. CASE links' = links /\ point' = point /\ fs' = [fs EXCEPT ![Head(links)] = Torn]
  <2>1. Types' /\ Position'
    BY <1>1, <1>2, <1>15 DEF Types, Position, At
  <2>2. ReadEntries' = ReadEntries
    BY <1>1, ReadSame
  <2>3. \A e \in Range(archive) : fs'[e.name] = IF e = h THEN Torn ELSE fs[e.name]
    BY <1>1, <1>6, <1>7, <1>11, <1>15 DEF Types
  <2>4. \A e : /\ Kept(e)' <=> Kept(e)
               /\ Waits(e)' <=> Waits(e)
               /\ Linking(e)' <=> Linking(e)
               /\ ~InHand(e) /\ ~InHand(e)'
    BY <1>1, <1>15 DEF Kept, Waits, Linking, InHand, Range
  <2>5. \A e \in Range(archive) : e # h => (Unchanged(e)' <=> Unchanged(e))
    BY <1>1, <2>3 DEF Unchanged, Left
  <2>6. \A e : Settled(e)' <=> Settled(e)
    BY <2>2, <2>4 DEF Settled
  <2>7. \A e : Lost(e)' <=> Lost(e)
    BY <1>2, <2>4 DEF Lost
  <2>8. \A e \in Range(archive) : Settled(e) => e # h
    BY <1>12 DEF Settled
  <2>9. ASSUME NEW l \in Range(archive), Settled(l), Leads(l) PROVE Leads(l)'
    <3>1. fs[l.name]' = fs[l.name]
      BY <1>1, <2>3, <2>8, <2>9
    <3>2. \A d \in Members(l) : Settled(d)' => Settled(d) /\ fs[d.name]' = fs[d.name]
      BY <1>1, <1>4, <2>3, <2>6, <2>8
    <3> QED
      BY <1>1, <2>4, <2>9, <3>1, <3>2, LeadsStays
  <2>10. OldOrNew'
    <3>1. ASSUME NEW e \in Range(archive)
          PROVE  \/ fs'[e.name] = Left(e.name)'
                 \/ \E g \in File : fs'[e.name] = Made(g, SetData(e))
                 \/ (e.size = 0 \/ e.name \in Device) /\ fs'[e.name] \in {Absent, Torn}
      BY <1>1, <1>12, <2>3, <3>1 DEF OldOrNew, Left
    <3> QED
      BY <1>1, <1>2, <3>1 DEF OldOrNew, Left
  <2>11. UnreadRight'
    BY <1>1, <1>2, <1>3, <1>11, <2>2, <2>4, <2>5 DEF UnreadRight
  <2>12. WaitingRight'
    BY <1>1, <1>2, <1>3, <1>12, <2>2, <2>4, <2>5 DEF WaitingRight
  <2>13. LinkingRight'
    <3>1. ASSUME NEW e \in Range(archive), Linking(e)
          PROVE  /\ Kept(e)' /\ e.size = 0 /\ e.id = entry.id
                 /\ IF e.name = Head(links) THEN fs'[e.name] = Torn ELSE Unchanged(e)'
      <4>1. e.name = Head(links) <=> e = h
        BY <1>7, <1>11
      <4>2. Kept(e) /\ e.size = 0 /\ e.id = entry.id /\ (e # h => Unchanged(e))
        BY <1>1, <1>3, <3>1, <4>1 DEF LinkingRight
      <4> QED
        BY <2>3, <2>4, <2>5, <4>1, <4>2
    <3>2. \A l : l = entry => Leads(l)' /\ Settled(l)' /\ Kept(l)' /\ ~Lost(l)'
      BY <1>9, <2>4, <2>6, <2>7, <2>9
    <3>3. Settled(entry)' /\ Kept(entry)' /\ ~Lost(entry)' /\ Leads(entry)' /\ entry \in ReadEntries'
      BY <1>1, <1>9, <2>2, <3>2 DEF Settled, Kept, Lost, InHand, Waits, Linking, Leads
    <3>4. \A f \in Range(links)' : \E e \in ReadEntries' : e.name = f /\ e.id = (entry.id)'
      BY <1>1, <1>3, <1>15, <2>2 DEF LinkingRight, Range
    <3>5. IsInjective(links)' /\ links' # <<>>
      BY <1>1, <1>9, <1>15 DEF IsInjective
    <3> QED
      BY <1>1, <1>2, <1>15, <2>4, <3>1, <3>3, <3>4, <3>5 DEF LinkingRight
  <2>14. PointRight'
    BY <1>1, <1>15 DEF PointRight
  <2>15. SettledRight'
    <3>1. ASSUME NEW e \in Range(archive), Settled(e)', Kept(e)', ~Lost(e)'
          PROVE  /\ Members(e) \subseteq ReadEntries /\ hardlinks'[e.id] = <<>>
                 /\ \A d \in Members(e) : ~InHand(d)'
                 /\ \E l \in Members(e) : Settled(l)' /\ Kept(l)' /\ Leads(l)'
      BY <1>1, <1>3, <1>4, <2>4, <2>6, <2>7, <2>9, <3>1 DEF SettledRight
    <3>2. ASSUME NEW e \in Range(archive), Settled(e)', ~Kept(e)' \/ Lost(e)' PROVE Unchanged(e)'
      BY <1>3, <2>4, <2>5, <2>6, <2>7, <2>8, <3>2 DEF SettledRight
    <3> QED
      BY <1>2, <2>2, <3>1, <3>2 DEF SettledRight
  <2> QED
    BY <2>1, <2>10, <2>11, <2>12, <2>13, <2>14, <2>15 DEF Right, Groups
<1> QED
  BY <1>1, <1>13, <1>14, <1>15 DEF Copy

\* The first of the links that nobody brought data for is empty.
LEMMA RemainingStep == ASSUME Right, Remaining PROVE Right'
<1>1. /\ archive \in Archives /\ Types /\ Position /\ Groups /\ OldOrNew
      /\ point = "remaining" /\ point' = "written"
      /\ UNCHANGED <<archive, at, lastfilesize, readsize, fs, old, moved, links, refused>>
  BY DEF Right, Types, Remaining, cpioVars, fileVars
<1>2. /\ Begin' = Begin /\ Stream' = Stream /\ Range(archive)' = Range(archive)
      /\ \A e : Members(e)' = Members(e) /\ Carriers(e)' = Carriers(e) /\ SetData(e)' = SetData(e)
  BY <1>1, SameLayout
<1>3. UnreadRight /\ WaitingRight /\ LinkingRight /\ PointRight /\ SettledRight
  BY <1>1 DEF Groups
<1>4. \A e : \A d \in Members(e) : d \in Range(archive) /\ d.id = e.id
  BY DEF Members
<1>5. \A e, d \in Range(archive) : d.id = e.id => d \in Members(e) /\ Members(d) = Members(e) /\ SetData(d) = SetData(e)
  BY <1>1, EntriesBuilt DEF Entered, Members
<1>6. \A e \in Range(archive) : e.name \in File /\ e.id \in Ids /\ e.size \in Nat
  BY <1>1, EntriesBuilt DEF Entered
<1>7. \A e, d \in Range(archive) : e.name = d.name => e = d
  BY <1>1, EntriesBuilt DEF Entered
<1>8. ReadEntries \subseteq Range(archive)
  BY <1>1, ReadThere DEF Entered
<1>9. PICK i \in Ids :
        /\ hardlinks[i] # <<>>
        /\ entry' = [name |-> Head(hardlinks[i]), size |-> 0, id |-> i]
        /\ temp' = Made(Head(hardlinks[i]), <<>>)
        /\ hardlinks' = [hardlinks EXCEPT ![i] = Tail(@)]
  BY DEF Remaining
<1>10. hardlinks \in [Ids -> Seq(File)] /\ hardlinks[i] \in Seq(File)
  BY <1>1 DEF Types
<1>11. /\ Head(hardlinks[i]) \in File /\ Head(hardlinks[i]) \in Range(hardlinks[i]) /\ Tail(hardlinks[i]) \in Seq(File)
       /\ Range(Tail(hardlinks[i])) = Range(hardlinks[i]) \ {Head(hardlinks[i])} /\ IsInjective(Tail(hardlinks[i]))
  BY <1>3, <1>9, <1>10, RangeOfTail DEF WaitingRight
<1>12. PICK h \in Range(archive) : h \in ReadEntries /\ h.name = Head(hardlinks[i]) /\ h.id = i
  BY <1>3, <1>8, <1>11 DEF WaitingRight
<1>13. Waits(h)
  BY <1>11, <1>12 DEF Waits
<1>14. Unchanged(h) /\ Kept(h) /\ h.size = 0 /\ ~Linking(h) /\ \A c \in Carriers(h) : c \notin ReadEntries \/ InHand(c)
  BY <1>3, <1>13 DEF WaitingRight
<1>15. entry' = h
  <2>1. h \in EntryType
    BY <1>1, EntriesBuilt DEF Entered
  <2> QED
    BY <1>9, <1>12, <1>14, <2>1 DEF EntryType
<1>16. ReadEntries' = ReadEntries /\ ReadEntries = Range(archive)
  <2>1. at = Len(Stream) /\ Layout
    BY <1>1, LaidOut DEF Position
  <2>2. Reached = DOMAIN archive
    BY <2>1, BeforeEnd DEF Reached
  <2>3. ReadEntries = Range(archive)
    BY <2>2 DEF ReadEntries, Range
  <2> QED
    BY <1>1, <2>3, ReadSame
<1>17. /\ links = <<>> /\ \A e : ~InHand(e)
  BY <1>1, <1>3 DEF LinkingRight, InHand
<1>18. Range(<<>>) = {} /\ IsInjective(<<>>)
  BY DEF Range, IsInjective
<1>19. Carriers(h) = {} /\ SetData(h) = <<>> /\ ~Lost(h)
  <2>1. \A c \in Carriers(h) : c \in Range(archive)
    BY DEF Carriers, Members
  <2>2. Carriers(h) = {}
    BY <1>14, <1>16, <1>17, <2>1
  <2> QED
    BY <1>1, <2>2, EntriesBuilt DEF Lost, Entered
<1>20. hardlinks' \in [Ids -> Seq(File)] /\ \A j \in Ids : hardlinks'[j] = IF j = i THEN Tail(hardlinks[i]) ELSE hardlinks[j]
  BY <1>9, <1>10, <1>11
<1>21. Types'
  BY <1>1, <1>20 DEF Types
<1>22. Position'
  BY <1>1, <1>2 DEF Position, At
<1>23. OldOrNew'
  BY <1>1, <1>2 DEF OldOrNew, Left
<1>24. \A e \in Range(archive) :
         /\ Kept(e)' <=> Kept(e)
         /\ Waits(e)' <=> Waits(e) /\ e # h
         /\ ~Linking(e) /\ ~Linking(e)'
         /\ Unchanged(e)' <=> Unchanged(e)
         /\ InHand(e)' <=> e = h
  <2>1. ASSUME NEW e \in Range(archive) PROVE Waits(e)' <=> Waits(e) /\ e # h
    <3>1. e.id \in Ids /\ (Waits(e)' <=> e.name \in Range(hardlinks'[e.id]))
      BY <1>6 DEF Waits, Range
    <3>2. CASE e.id = i
      BY <1>7, <1>11, <1>12, <1>20, <3>1, <3>2 DEF Waits
    <3>3. CASE e.id # i
      BY <1>12, <1>20, <3>1, <3>3 DEF Waits
    <3> QED
      BY <3>2, <3>3
  <2>2. ASSUME NEW e \in Range(archive) PROVE ~Linking(e) /\ ~Linking(e)'
    BY <1>1, <1>17, <1>18 DEF Linking
  <2>3. ASSUME NEW e \in Range(archive) PROVE InHand(e)' <=> e = h
    BY <1>1, <1>15 DEF InHand
  <2> QED
    BY <1>1, <2>1, <2>2, <2>3 DEF Kept, Unchanged, Left
<1>25. \A e \in Range(archive) : Settled(e)' <=> Settled(e)
  BY <1>13, <1>16, <1>17, <1>24 DEF Settled
<1>26. \A e \in Range(archive) : Lost(e)' <=> Lost(e)
  BY <1>2, <1>4, <1>24 DEF Lost, Carriers
<1>27. \A l \in Range(archive) : Leads(l) => Leads(l)'
  BY <1>1, <1>4, <1>24, <1>25, LeadsStays
<1>28. UnreadRight'
  BY <1>1, <1>2, <1>16 DEF UnreadRight
<1>29. WaitingRight'
  <2>1. ASSUME NEW j \in Ids
        PROVE  /\ IsInjective(hardlinks'[j])
               /\ \A f \in Range(hardlinks'[j]) : \E e \in ReadEntries : e.name = f /\ e.id = j
    BY <1>3, <1>11, <1>20 DEF WaitingRight
  <2>2. ASSUME NEW e \in Range(archive), Waits(e)'
        PROVE  /\ Unchanged(e)' /\ Kept(e)' /\ e.size = 0 /\ ~Linking(e)' /\ ~InHand(e)' /\ e.name \notin Device
               /\ \A c \in Carriers(e) : c \notin ReadEntries
    BY <1>3, <1>17, <1>24, <2>2 DEF WaitingRight
  <2> QED
    BY <1>2, <1>16, <2>1, <2>2 DEF WaitingRight
<1>30. LinkingRight'
  BY <1>1, <1>2, <1>17, <1>18, <1>24 DEF LinkingRight
<1>31. PointRight'
  <2>1. Members(h) \subseteq ReadEntries
    BY <1>4, <1>16
  <2>2. /\ \A x : x = h => Unchanged(x)' /\ Kept(x)' /\ ~Lost(x)' /\ Members(x)' = Members(h) /\ SetData(x)' = <<>>
    BY <1>2, <1>12, <1>14, <1>19, <1>24, <1>26
  <2>3. /\ Unchanged(entry)' /\ Kept(entry)' /\ ~Lost(entry)' /\ Members(entry)' = Members(h) /\ SetData(entry)' = <<>>
    BY <1>15, <2>2 DEF Unchanged, Left, Kept, Lost, Members, SetData, Carriers
  <2>4. temp' = Made(entry'.name, <<>>) /\ entry' \in ReadEntries'
    BY <1>9, <1>12, <1>15, <1>16
  <2> QED
    BY <1>1, <1>16, <2>1, <2>3, <2>4 DEF PointRight
<1>32. SettledRight'
  <2>1. ASSUME NEW e \in Range(archive), Settled(e)', Kept(e)', ~Lost(e)'
        PROVE  /\ Members(e) \subseteq ReadEntries /\ hardlinks'[e.id] = <<>>
               /\ \A d \in Members(e) : ~InHand(d)'
               /\ \E l \in Members(e) : Settled(l)' /\ Kept(l)' /\ Leads(l)'
    <3>1. Settled(e) /\ Kept(e) /\ ~Lost(e) /\ e.id \in Ids
      BY <1>6, <1>24, <1>25, <1>26, <2>1
    <3>2. /\ Members(e) \subseteq ReadEntries /\ hardlinks[e.id] = <<>>
      BY <1>3, <3>1 DEF SettledRight
    <3>3. PICK l \in Members(e) : Settled(l) /\ Kept(l) /\ Leads(l)
      BY <1>3, <3>1 DEF SettledRight
    <3>4. e.id # i
      BY <1>9, <3>2
    <3> QED
      BY <1>4, <1>12, <1>20, <1>24, <1>25, <1>27, <3>1, <3>2, <3>3, <3>4
  <2>2. ASSUME NEW e \in Range(archive), Settled(e)', ~Kept(e)' \/ Lost(e)' PROVE Unchanged(e)'
    BY <1>3, <1>24, <1>25, <1>26, <2>2 DEF SettledRight
  <2> QED
    BY <1>2, <1>16, <2>1, <2>2 DEF SettledRight
<1> QED
  BY <1>21, <1>22, <1>23, <1>28, <1>29, <1>30, <1>31, <1>32 DEF Right, Groups

LEMMA ExtractStep == ASSUME Right, Extract PROVE Right'
BY NextEntryStep, UnlistedStep, SaveEditedStep, RefuseStep, PossibleHardLinkStep, WriteTempStep, NoDeviceStep,
   AttrsFailStep, PlaceStep, LinkedStep, UnlinkStep, LinkStep, PlaceLinkStep, CopyStep,
   RemainingStep, ExtractedStep DEF Extract

\* No step of it but that of a broken zlib stream or a device leaves a temporary file.
LEMMA ExtractTemp == ASSUME TempRight, Extract PROVE TempRight'
<1>1. CASE NextEntry
  BY <1>1 DEF TempRight, NextEntry, fileVars
<1>2. CASE Unlisted
  BY <1>2 DEF TempRight, Unlisted, fileVars
<1>3. CASE Refuse
  BY <1>3 DEF TempRight, Refuse, fileVars
<1>4. CASE PossibleHardLink
  BY <1>4 DEF TempRight, PossibleHardLink, fileVars
<1>5. CASE WriteTemp
  BY <1>5 DEF TempRight, WriteTemp, Unreadable
<1>6. CASE NoDevice
  BY <1>6 DEF TempRight, NoDevice, fileVars
<1>7. CASE AttrsFail
  BY <1>7 DEF TempRight, AttrsFail
<1>8. CASE Place \/ PlaceLink
  BY <1>8 DEF TempRight, Place, PlaceLink
<1>9. CASE Linked
  BY <1>9 DEF TempRight, Linked, fileVars
<1>10. CASE Unlink
  BY <1>10 DEF TempRight, Unlink
<1>11. CASE Link
  BY <1>11 DEF TempRight, Link
<1>12. CASE Copy
  BY <1>12 DEF TempRight, Copy
<1>13. CASE Remaining
  BY <1>13 DEF TempRight, Remaining
<1>14. CASE Extracted
  BY <1>14 DEF TempRight, Extracted, fileVars
<1>15. CASE SaveEdited
  BY <1>15 DEF TempRight, SaveEdited
<1> QED
  BY <1>1, <1>2, <1>3, <1>4, <1>5, <1>6, <1>7, <1>8, <1>9, <1>10, <1>11, <1>12, <1>13, <1>14, <1>15
     DEF Extract

\* No data is read as a header.
LEMMA ExtractInStep == ASSUME Types, Position, InStep, Extract PROVE InStep'
<1>1. CASE NextEntry
  <2>1. "magic" \notin trouble' /\ "unpack" \notin trouble'
    BY <1>1, NextEntryReads DEF InStep
  <2> QED
    BY <2>1 DEF InStep
<1>2. CASE Refuse
  BY <1>2 DEF InStep, Refuse, Unreadable
<1>3. CASE WriteTemp
  BY <1>3 DEF InStep, WriteTemp, Unreadable
<1>4. CASE AttrsFail
  BY <1>4 DEF InStep, AttrsFail
<1>5. CASE Link
  BY <1>5 DEF InStep, Link
<1>6. CASE Copy
  BY <1>6 DEF InStep, Copy
<1>8. CASE SaveEdited
  BY <1>8 DEF InStep, SaveEdited
<1>7. CASE \/ Unlisted \/ PossibleHardLink \/ NoDevice \/ Place \/ Linked
           \/ Unlink \/ PlaceLink \/ Remaining \/ Extracted
  BY <1>7 DEF InStep, Unlisted, PossibleHardLink, NoDevice, Place, Linked, Unlink, PlaceLink,
     Remaining, Extracted
<1> QED
  BY <1>1, <1>2, <1>3, <1>4, <1>5, <1>6, <1>7, <1>8 DEF Extract

\* Only a configuration file is moved, and none that is then refused.
LEMMA ExtractMoved == ASSUME Right, MovedRight, Extract PROVE MovedRight'
<1>1. CASE SaveEdited
  <2>1. entry.name \in Config \intersect Listed \intersect (File \ refused)
    BY <1>1, PayloadAssumption DEF SaveEdited, Right, Groups, PointRight
  <2> QED
    BY <1>1, <2>1 DEF SaveEdited, MovedRight
<1>2. CASE Refuse
  BY <1>2 DEF Refuse, MovedRight
<1>3. CASE NoDevice
  BY <1>3, PayloadAssumption DEF NoDevice, MovedRight
<1>4. CASE \/ NextEntry \/ Unlisted \/ PossibleHardLink \/ WriteTemp \/ AttrsFail \/ Place \/ Linked
           \/ Unlink \/ Link \/ PlaceLink \/ Copy \/ Remaining \/ Extracted
  BY <1>4 DEF MovedRight, NextEntry, Unlisted, PossibleHardLink, WriteTemp, AttrsFail, Place, Linked,
     Unlink, Link, PlaceLink, Copy, Remaining, Extracted
<1> QED
  BY <1>1, <1>2, <1>3, <1>4 DEF Extract

-----------------------------------------------------------------------------
(* The package as a whole                                                  *)

Outside == Reread \/ ReadHeader \/ VerifyOneSignature \/ CloseVerified \/ OpenAgain

LEMMA OutsideStep == ASSUME PkInv, Outside PROVE PkInv'
<1>1. /\ ctl # "install" /\ ctl' # "install"
      /\ UNCHANGED <<archive, hardlinks, fs, old, moved, temp, entry, links, point, refused>>
      /\ trouble' \subseteq trouble \union {"read", "signature"}
  BY DEF Outside, Reread, ReadHeader, VerifyOneSignature, CloseVerified, OpenAgain, Reading, fileVars,
     Failed
<1>2. Beginning
  BY <1>1 DEF PkInv, Right, Types, Fresh, Beginning
<1>3. at' = 0 /\ lastfilesize' = 0 /\ readsize' = 0
  BY <1>2 DEF Outside, Reread, ReadHeader, VerifyOneSignature, CloseVerified, OpenAgain, IoRead,
     cpioVars, Beginning
<1>4. Beginning'
  BY <1>1, <1>2, <1>3 DEF Beginning
<1>5. Right'
  BY <1>4, BeginningRightNext
<1>6. Fresh'
  BY <1>1, <1>3 DEF PkInv, Fresh
<1>7. TempRight'
  BY <1>1, <1>2 DEF TempRight, Beginning
<1>8. InStep'
  BY <1>1 DEF PkInv, StepRight, InStep
<1>9. MovedRight'
  BY <1>1 DEF PkInv, MovedRight
<1>10. header_read' => where' = 4
  BY DEF PkInv, StepRight, Outside, Reread, ReadHeader, VerifyOneSignature, CloseVerified, OpenAgain,
     Clear, ioVars
<1> QED
  BY <1>5, <1>6, <1>7, <1>8, <1>9, <1>10 DEF PkInv, StepRight

LEMMA InstallStep == ASSUME PkInv, Install PROVE PkInv'
<1>1. /\ ctl # "install" /\ ctl' = "install" /\ where = 4 /\ point' = "next"
      /\ UNCHANGED <<archive, at, lastfilesize, readsize, hardlinks, fs, old, moved, temp, entry, links, refused,
                     trouble, header_read, where>>
  BY DEF PkInv, StepRight, Install, fileVars, cpioVars, ioVars
<1>2. Beginning'
  BY <1>1 DEF PkInv, Right, Types, Fresh, Beginning
<1>3. Right'
  BY <1>2, BeginningRightNext
<1> QED
  BY <1>1, <1>2, <1>3 DEF PkInv, Fresh, TempRight, StepRight, InStep, MovedRight, Beginning

LEMMA ExtractingStep == ASSUME PkInv, Extracting PROVE PkInv'
<1>1. ctl = "install" /\ Extract /\ UNCHANGED <<header_read, where, ctl>>
  BY DEF Extracting, ioVars
<1>2. Right'
  BY <1>1, ExtractStep DEF PkInv
<1>3. TempRight' /\ InStep' /\ MovedRight'
  BY <1>1, ExtractTemp, ExtractInStep, ExtractMoved DEF PkInv, Right, StepRight
<1> QED
  BY <1>1, <1>2, <1>3 DEF PkInv, Fresh, StepRight

LEMMA RestartStep == ASSUME PkInv, Restart PROVE PkInv'
<1>1. Beginning' /\ point' = "closed"
  BY DEF PkInv, Right, Types, Restart, Beginning
<1>2. Right'
  BY <1>1, BeginningRightNext
<1>3. Fresh' /\ TempRight'
  BY <1>1 DEF Fresh, TempRight, Beginning
<1>4. StepRight'
  BY DEF StepRight, InStep, Restart
<1>5. MovedRight'
  BY DEF MovedRight, Restart
<1> QED
  BY <1>2, <1>3, <1>4, <1>5 DEF PkInv

LEMMA InitRight == PackageInit => PkInv
<1> SUFFICES ASSUME PackageInit PROVE PkInv
  OBVIOUS
<1>1. fs = [f \in File |-> fs[f]]
  <2>1. PICK S \in Present : fs = [f \in File |-> IF f \in S THEN Old ELSE Absent]
    BY DEF PackageInit, PayloadInit
  <2> QED
    BY <2>1
<1>2. Beginning /\ point = "closed"
  BY <1>1 DEF PackageInit, PayloadInit, Beginning
<1>3. Right
  BY <1>2, BeginningRight
<1>4. Fresh /\ TempRight
  BY <1>2 DEF Fresh, TempRight, Beginning
<1>5. StepRight /\ MovedRight
  BY DEF StepRight, InStep, MovedRight, PackageInit, PayloadInit
<1> QED
  BY <1>3, <1>4, <1>5 DEF PkInv

LEMMA RightSame == ASSUME Right, UNCHANGED payloadVars PROVE Right'
<1>1. /\ Types /\ Position /\ Groups /\ OldOrNew
      /\ UNCHANGED <<archive, at, lastfilesize, readsize, hardlinks, fs, old, moved, temp, entry, links, point, refused>>
  BY DEF Right, payloadVars
<1>2. /\ Begin' = Begin /\ Stream' = Stream /\ Range(archive)' = Range(archive) /\ ReadEntries' = ReadEntries
      /\ \A e : Members(e)' = Members(e) /\ Carriers(e)' = Carriers(e) /\ SetData(e)' = SetData(e)
  BY <1>1, SameLayout, ReadSame
<1>3. Types' /\ OldOrNew' /\ Position'
  BY <1>1, <1>2 DEF Types, OldOrNew, Left, Position, At
<1>4. ASSUME point # "raised" PROVE UnreadRight' /\ WaitingRight' /\ LinkingRight' /\ PointRight' /\ SettledRight'
  <2>1. UnreadRight /\ WaitingRight /\ LinkingRight /\ PointRight /\ SettledRight
    BY <1>1, <1>4 DEF Groups
  <2>2. \A e : /\ Kept(e)' <=> Kept(e)
               /\ Waits(e)' <=> Waits(e)
               /\ Linking(e)' <=> Linking(e)
               /\ Unchanged(e)' <=> Unchanged(e)
               /\ InHand(e)' <=> InHand(e)
    BY <1>1 DEF Kept, Waits, Linking, Unchanged, Left, InHand, Range
  <2>3. \A e : Settled(e)' <=> Settled(e)
    BY <1>2, <2>2 DEF Settled
  <2>4. \A e : Lost(e)' <=> Lost(e)
    BY <1>2, <2>2 DEF Lost
  <2>5. \A l : Leads(l) => Leads(l)'
    BY <1>1, <2>2, <2>3, LeadsStays
  <2>6. UnreadRight'
    BY <1>1, <1>2, <2>1, <2>2 DEF UnreadRight
  <2>7. WaitingRight'
    BY <1>1, <1>2, <2>1, <2>2 DEF WaitingRight
  <2>8. LinkingRight'
    <3>1. links # <<>> => /\ entry \in ReadEntries' /\ Settled(entry)' /\ Kept(entry)' /\ ~Lost(entry)' /\ Leads(entry)'
      <4>1. PICK h : h = entry
        OBVIOUS
      <4>2. links # <<>> => /\ h \in ReadEntries' /\ Settled(h)' /\ Kept(h)' /\ ~Lost(h)' /\ Leads(h)'
        BY <1>2, <2>1, <2>2, <2>3, <2>4, <2>5, <4>1 DEF LinkingRight
      <4>3. h' = entry'
        BY <1>1, <4>1
      <4> QED
        BY <1>1, <4>1, <4>2 DEF Settled, Kept, Lost, Leads, Waits, Linking, InHand, Members, Carriers,
           SetData, Range
    <3> QED
      BY <1>1, <1>2, <2>1, <2>2, <3>1 DEF LinkingRight, IsInjective, Range
  <2>9. PointRight'
    BY <1>1, <1>2, <2>1 DEF PointRight, Unchanged, Left, Kept, Lost, Members, SetData, Carriers, Together,
       Range
  <2>10. SettledRight'
    BY <1>1, <1>2, <2>1, <2>2, <2>3, <2>4, <2>5 DEF SettledRight
  <2> QED
    BY <2>6, <2>7, <2>8, <2>9, <2>10
<1> QED
  BY <1>1, <1>3, <1>4 DEF Right, Groups

LEMMA PkInvSame == ASSUME PkInv, UNCHANGED packageVars PROVE PkInv'
<1>1. Right'
  BY RightSame DEF PkInv, packageVars
<1>2. Fresh' /\ TempRight' /\ StepRight' /\ MovedRight'
  BY DEF PkInv, Fresh, TempRight, StepRight, InStep, MovedRight, packageVars, payloadVars, ioVars
<1> QED
  BY <1>1, <1>2 DEF PkInv

\* The inductive invariant: where the reader is in the stream, which files wait
\* for the data of their hard links, which are about to be linked, and what each
\* path holds while the entry in hand, and those it brought, are not done.
THEOREM PackageInvariant == PackageSpec => []PkInv
<1>1. PackageInit => PkInv
  BY InitRight
<1>2. PkInv /\ [PackageNext]_packageVars => PkInv'
  BY OutsideStep, InstallStep, ExtractingStep, RestartStep, PkInvSame DEF PackageNext, Outside
<1> QED
  BY <1>1, <1>2, PTL DEF PackageSpec

\* CutShort of Package: wherever an extraction is, and however often one was
\* begun, a path holds what it held before or all that it is to hold - but an
\* edited configuration file may be missing after it was moved to .rpmsave, and a
\* hard link or a device while it is made - and none that has ended leaves a
\* temporary file.
THEOREM CutShortHolds == PackageSpec => []CutShort
<1>1. PkInv => OldOrNew
  BY DEF PkInv, Right
<1>2. PkInv => NothingLeft
  BY DEF PkInv, TempRight, NothingLeft
<1> QED
  BY <1>1, <1>2, PackageInvariant, PTL DEF CutShort

LEMMA WholeThen == PkInv => InstalledWhole
<1> SUFFICES ASSUME PkInv, point = "done", NEW e \in Range(archive)
             PROVE  LET kept == {d.name : d \in Members(e)} \intersect (Listed \ refused)
                        lost == \E d \in Carriers(e) : d.name \notin kept
                    IN  IF e.name \notin kept THEN fs[e.name] = old[e.name]
                        ELSE IF lost THEN fs[e.name] = Left(e.name)
                        ELSE fs[e.name].data = SetData(e) /\ OneInode(kept)
  BY DEF InstalledWhole
<1> DEFINE kept == {d.name : d \in Members(e)} \intersect (Listed \ refused)
<1>1. archive \in Archives /\ Types /\ Position
  BY DEF PkInv, Right, Types
<1>2. WaitingRight /\ LinkingRight /\ PointRight /\ SettledRight
  BY DEF PkInv, Right, Groups
<1>3. \A d \in Members(e) : d \in Range(archive) /\ d.id = e.id /\ Members(d) = Members(e) /\ SetData(d) = SetData(e)
  BY <1>1, EntriesBuilt DEF Entered, Members
<1>4. e \in Members(e) /\ Carriers(e) \subseteq Members(e)
  BY DEF Members, Carriers
<1>5. ReadEntries = Range(archive)
  <2>1. at = Len(Stream) /\ Layout
    BY <1>1, LaidOut DEF Position
  <2>2. Reached = DOMAIN archive
    BY <2>1, BeforeEnd DEF Reached
  <2> QED
    BY <2>2 DEF ReadEntries, Range
<1>6. \A d \in Range(archive) : Settled(d)
  <2>1. links = <<>> /\ \A i \in Ids : hardlinks[i] = <<>>
    BY <1>2 DEF LinkingRight, PointRight
  <2>2. \A d \in Range(archive) : d.id \in Ids
    BY <1>1, EntriesBuilt DEF Entered
  <2> QED
    BY <1>5, <2>1, <2>2 DEF Settled, Waits, Linking, InHand, Range
<1>7. \A d \in Members(e) : d.name \in kept <=> Kept(d)
  BY DEF Kept
<1>8. (\E d \in Carriers(e) : d.name \notin kept) <=> Lost(e)
  BY <1>4, <1>7 DEF Lost
<1>9. CASE ~Kept(e) \/ Lost(e)
  <2>1. fs[e.name] = Left(e.name)
    BY <1>2, <1>6, <1>9 DEF SettledRight, Unchanged
  <2>2. ~Kept(e) => Left(e.name) = old[e.name]
    BY DEF PkInv, MovedRight, Left, Kept
  <2> QED
    BY <1>4, <1>7, <1>8, <1>9, <2>1, <2>2
<1>10. CASE Kept(e) /\ ~Lost(e)
  <2>1. PICK l \in Members(e) : Settled(l) /\ Kept(l) /\ Leads(l)
    BY <1>2, <1>6, <1>10 DEF SettledRight
  <2>2. \A d \in Members(e) : Kept(d) =>
          fs[d.name] = Made(IF l.name \in Apart <=> d.name \in Apart THEN l.name ELSE d.name, SetData(e))
    BY <1>3, <1>6, <2>1 DEF Leads
  <2>6. \A f, data : Made(f, data).by = f /\ Made(f, data).data = data
    BY DEF Made
  <2>3. fs[e.name].data = SetData(e)
    BY <1>4, <1>10, <2>2, <2>6
  <2>4. \A g \in kept : fs[g].by = IF l.name \in Apart <=> g \in Apart THEN l.name ELSE g
    <3>1. ASSUME NEW g \in kept PROVE fs[g].by = IF l.name \in Apart <=> g \in Apart THEN l.name ELSE g
      <4>1. PICK d \in Members(e) : d.name = g /\ Kept(d)
        BY <1>7
      <4> QED
        BY <2>2, <2>6, <4>1
    <3> QED
      BY <3>1
  <2>5. OneInode(kept)
    BY <1>7, <2>1, <2>4 DEF OneInode
  <2> QED
    BY <1>4, <1>7, <1>8, <1>10, <2>3, <2>5
<1> QED
  BY <1>9, <1>10

\* PayloadWhole of Package: no data is ever read as a header, and once a package
\* is extracted its files have their contents, hard links share them, and what
\* was not to be installed is untouched.
THEOREM PayloadWholeHolds == PackageSpec => []PayloadWhole
<1>1. PkInv => InStep
  BY DEF PkInv, StepRight
<1> QED
  BY <1>1, WholeThen, PackageInvariant, PTL DEF PayloadWhole

-----------------------------------------------------------------------------
(* The verdict on a package                                                *)

LEMMA VerdictStep == ASSUME VerdictRight, [PackageNext]_packageVars PROVE VerdictRight'
<1>1. UNCHANGED givenVars
  BY DEF PackageNext, Reread, ReadHeader, VerifyOneSignature, CloseVerified, OpenAgain, Install,
     Extracting,
         Restart, Reading, packageVars
<1>2. /\ \A t : Results(t)' = Results(t)
      /\ \A r : OneResult(r)' = OneResult(r)
  BY <1>1 DEF givenVars, Results, OneResult
<1>3. CASE VerifyOneSignature
  <2>1. PICK r \in [Range(Order) -> {-1, 0, 1}] :
          (\A t \in Range(Order) : r[t] \in Results(t)) /\ verdict' = OneResult(r)
    BY <1>3 DEF VerifyOneSignature
  <2> QED
    BY <1>2, <2>1 DEF VerdictRight, Order, Range
<1>4. CASE Restart
  BY <1>4 DEF Restart, VerdictRight
<1>5. CASE ~VerifyOneSignature /\ ~Restart
  <2>1. verdict' = verdict
    BY <1>5 DEF PackageNext, Reread, ReadHeader, CloseVerified, OpenAgain, Install, Extracting,
       Reading, packageVars
  <2> QED
    BY <1>2, <2>1 DEF VerdictRight, Order, Range
<1> QED
  BY <1>3, <1>4, <1>5

LEMMA VerdictThen == VerdictRight => DamageRefused
<1> SUFFICES ASSUME VerdictRight, verdict \in {0, 1}, "signature" \notin damaged,
                    NEW part \in damaged, NEW i \in Usable, part \in Covers(Order[i])
             PROVE  \E j \in Usable : j < i /\ part \notin Covers(Order[j])
  BY DEF DamageRefused
<1>1. PICK r \in [Range(Order) -> {-1, 0, 1}] :
        (\A t \in Range(Order) : r[t] \in Results(t)) /\ verdict = OneResult(r)
  BY DEF VerdictRight
<1> DEFINE decided == {k \in DOMAIN Order : Order[k] \in sigs /\ r[Order[k]] # 0}
<1>2. DOMAIN Order = 1..5 /\ \A k \in DOMAIN Order : Order[k] \in Range(Order)
  BY DEF Order, Range
<1>3. i \in DOMAIN Order /\ Order[i] \in sigs /\ ~remote /\ (Order[i] \in NeedsKey => known)
  BY DEF Usable
<1>4. r[Order[i]] = -1
  <2>1. r[Order[i]] \in Results(Order[i]) /\ damaged \intersect Covers(Order[i]) # {}
    BY <1>1, <1>2, <1>3
  <2> QED
    BY <1>3, <2>1 DEF Results
<1>5. i \in decided
  BY <1>3, <1>4
<1>6. decided \in SUBSET Nat
  BY <1>2
<1>7. \E x \in decided : \A y \in decided : x =< y
  BY <1>5, <1>6, Least
<1>8. PICK m : m = Min(decided)
  OBVIOUS
<1>9. m \in decided /\ \A y \in decided : m =< y
  BY <1>7, <1>8 DEF Min
<1>10. verdict = r[Order[m]]
  BY <1>1, <1>5, <1>8 DEF OneResult
<1>11. m \in Nat /\ i \in Nat /\ m < i
  BY <1>4, <1>5, <1>6, <1>9, <1>10
<1>12. /\ m \in DOMAIN Order /\ Order[m] \in sigs /\ r[Order[m]] = 1
       /\ 1 \in Results(Order[m])
  BY <1>1, <1>2, <1>9, <1>10
<1>13. (Order[m] \in NeedsKey => known) /\ damaged \intersect Covers(Order[m]) = {}
  BY <1>3, <1>12 DEF Results
<1> QED
  BY <1>3, <1>11, <1>12, <1>13 DEF Usable

\* DamageRefused of Package: a package whose signature is accepted has no damage
\* in a part that one of its usable digests covers, unless one before it that
\* does not cover that part decided.
THEOREM DamageRefusedHolds == PackageSpec => []DamageRefused
<1>1. PackageInit => VerdictRight
  BY DEF PackageInit, VerdictRight
<1>2. VerdictRight /\ [PackageNext]_packageVars => VerdictRight'
  BY VerdictStep
<1> QED
  BY <1>1, <1>2, VerdictThen, PTL DEF PackageSpec

=============================================================================
