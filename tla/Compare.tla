------------------------------- MODULE Compare -------------------------------
(***************************************************************************)
(* Comparison of versions (pyrpm/functions.py): stringCompare segment by   *)
(* segment, called by labelCompare for epoch, version and release, and     *)
(* rangeCompare with what it returns.                                      *)
(*                                                                         *)
(* A string is a sequence of characters, a character a number: a digit is  *)
(* its value, letters come after them in the order of cmp(), everything    *)
(* else is a separator.  Indexes start at 1.                               *)
(***************************************************************************)
EXTENDS Integers, Sequences, SequencesExt, FiniteSetsExt

CONSTANTS
    Evr,     \* triples of strings: epoch, version, release
    Letter   \* the characters that are letters

Digit == 0..9

CompareAssumption ==
    /\ Evr \subseteq Seq(Int) \X Seq(Int) \X Seq(Int)
    /\ \A c \in Letter : c \in Int /\ c > 9

VARIABLES
    evr1, evr2,  \* the arguments of labelCompare
    part,        \* the component that stringCompare is called for
    i1, i2,      \* how far stringCompare is in either string
    result       \* what labelCompare returns

vars == <<evr1, evr2, part, i1, i2, result>>

Epoch == 1
Version == 2
Release == 3
Done == 4

str1 == evr1[part]
str2 == evr2[part]

TypeOK ==
    /\ evr1 \in Evr /\ evr2 \in Evr
    /\ part \in Epoch..Done
    /\ part # Done => i1 \in 1..Len(str1) + 1 /\ i2 \in 1..Len(str2) + 1
    /\ result \in -1..1

Init ==
    /\ evr1 \in Evr /\ evr2 \in Evr
    /\ part = Epoch
    /\ i1 = 1 /\ i2 = 1
    /\ result = 0

-----------------------------------------------------------------------------
(* Python's cmp() and the scanning of a string                             *)

Cmp(s, t) ==
    LET differ == {i \in 1..Len(s) : i > Len(t) \/ s[i] # t[i]}
    IN  IF differ = {} THEN IF Len(s) = Len(t) THEN 0 ELSE -1
        ELSE LET i == Min(differ) IN IF i > Len(t) \/ s[i] > t[i] THEN 1 ELSE -1

\* The first index from i on whose character is not in C.
Skip(s, i, C) == Min({j \in i..Len(s) : s[j] \notin C} \union {Len(s) + 1})

\* The first index from i on of a letter or digit.
SkipSeparators(s, i) ==
    Min({j \in i..Len(s) : s[j] \in Digit \union Letter} \union {Len(s) + 1})

Mut_NumberFromKeepsZeros(s, i, j) == i

\* Leading zeros of the number from i up to before j do not count.
NumberFrom(s, i, j) == Min({j} \union {k \in i..j - 1 : s[k] # 0})

\* Two segments of the same kind, i included and j not.
SegmentCompare(isnum, k1, j1, k2, j2) ==
    LET n1 == IF isnum THEN NumberFrom(str1, k1, j1) ELSE k1
        n2 == IF isnum THEN NumberFrom(str2, k2, j2) ELSE k2
    IN  IF isnum /\ j1 - n1 # j2 - n2
        THEN IF j1 - n1 > j2 - n2 THEN 1 ELSE -1
        ELSE Cmp(SubSeq(str1, n1, j1 - 1), SubSeq(str2, n2, j2 - 1))

-----------------------------------------------------------------------------
(* labelCompare goes on with what stringCompare returns.                   *)

Return(r) ==
    LET last == \/ part = Release
                \/ part = Version /\ (evr1[Release] = <<>> \/ evr2[Release] = <<>>)
    IN  /\ part' = IF r # 0 \/ last THEN Done ELSE part + 1
        /\ result' = r
        /\ i1' = 1 /\ i2' = 1

Equal ==
    /\ part # Done
    /\ str1 = str2
    /\ Return(0)
    /\ UNCHANGED <<evr1, evr2>>

\* One or both strings are used up, at indexes k1 and k2.
ReturnEnd(k1, k2) ==
    Return(IF k1 # Len(str1) + 1 THEN 1 ELSE IF k2 # Len(str2) + 1 THEN -1 ELSE 0)

MoveOn(j1, j2) == i1' = j1 /\ i2' = j2

\* A segment of either string, of the kind that the first one has.
CompareSegments ==
    LET k1 == SkipSeparators(str1, i1)
        k2 == SkipSeparators(str2, i2)
        isnum == str1[k1] \in Digit
        j1 == Skip(str1, k1, IF isnum THEN Digit ELSE Letter)
        j2 == Skip(str2, k2, IF isnum THEN Digit ELSE Letter)
        x == SegmentCompare(isnum, k1, j1, k2, j2)
    IN  IF k1 = Len(str1) + 1 \/ k2 = Len(str2) + 1 THEN ReturnEnd(k1, k2)
        ELSE IF j2 = k2 THEN Return(IF isnum THEN 1 ELSE -1)
        ELSE IF x # 0 THEN Return(x)
        ELSE MoveOn(j1, j2) /\ UNCHANGED <<part, result>>

Segment ==
    /\ part # Done
    /\ str1 # str2
    /\ i1 =< Len(str1) /\ i2 =< Len(str2)
    /\ CompareSegments
    /\ UNCHANGED <<evr1, evr2>>

End ==
    /\ part # Done
    /\ str1 # str2
    /\ i1 > Len(str1) \/ i2 > Len(str2)
    /\ ReturnEnd(i1, i2)
    /\ UNCHANGED <<evr1, evr2>>

Next == Equal \/ Segment \/ End

Spec == Init /\ [][Next]_vars

Flags == SUBSET {"LESS", "EQUAL", "GREATER"} \ {{}}

RangeCompare(flag1, flag2, sense) ==
    \/ sense < 0 /\ ("GREATER" \in flag1 \/ "LESS" \in flag2)
    \/ sense > 0 /\ ("LESS" \in flag1 \/ "GREATER" \in flag2)
    \/ sense = 0 /\ flag1 \intersect flag2 # {}

-----------------------------------------------------------------------------
(* The algorithm of doc/pyrpm-devel.txt, on lists of elements.             *)

Kind(c) == IF c \in Digit THEN "number" ELSE IF c \in Letter THEN "word" ELSE "separator"

\* Maximal sections of digits or letters: numbers by their value.
Elements(s) ==
    LET starts == {i \in 1..Len(s) : /\ Kind(s[i]) # "separator"
                                     /\ i = 1 \/ Kind(s[i - 1]) # Kind(s[i])}
        section(i) == SubSeq(s, i, Min({j \in i..Len(s) : j = Len(s) \/ Kind(s[j + 1]) # Kind(s[i])}))
        element(i) == [kind |-> Kind(s[i]),
                       value |-> IF s[i] \in Digit
                                 THEN <<FoldLeft(LAMBDA n, d : 10 * n + d, 0, section(i))>>
                                 ELSE section(i)]
    IN  [k \in DOMAIN SetToSortSeq(starts, <) |-> element(SetToSortSeq(starts, <)[k])]

\* A number is newer than a word, otherwise the values decide.
CompareElements(e, f) ==
    IF e.kind # f.kind THEN IF e.kind = "number" THEN 1 ELSE -1 ELSE Cmp(e.value, f.value)

\* The first elements that differ decide, then the longer list, then (where
\* the document leaves it open) a separator at the end.
CompareLists(s, t) ==
    LET e == Elements(s)
        f == Elements(t)
        differ == {k \in 1..Min({Len(e), Len(f)}) : e[k] # f[k]}
        trails(u) == u # <<>> /\ Kind(Last(u)) = "separator"
    IN  IF differ # {} THEN CompareElements(e[Min(differ)], f[Min(differ)])
        ELSE IF Len(e) # Len(f) THEN IF Len(e) > Len(f) THEN 1 ELSE -1
        ELSE IF trails(s) = trails(t) THEN 0 ELSE IF trails(s) THEN 1 ELSE -1

\* Epoch, then version, then release, that one only if both have it.
CompareLabels(e, f) ==
    LET parts == IF <<>> \in {e[Release], f[Release]} THEN Epoch..Version ELSE Epoch..Release
        differ == {p \in parts : CompareLists(e[p], f[p]) # 0}
    IN  IF differ = {} THEN 0 ELSE CompareLists(e[Min(differ)], f[Min(differ)])

-----------------------------------------------------------------------------
(* What the comparison promises.                                           *)

\* The scan of two strings with two indexes gives what the list of elements of
\* each says: an order that does not depend on which label comes first, also
\* for the labels that begin or end with separators.
AgreesWithElements == part = Done => result = CompareLabels(evr1, evr2)

\* rangeCompare says whether some version lies in both ranges: the two labels
\* and the versions between and around them are points of a line.
RangesMeet ==
    part = Done =>
        \A flag1, flag2 \in Flags :
            RangeCompare(flag1, flag2, result) <=>
                \E p \in -3..3 :
                    LET in(flag, q) == \/ "LESS" \in flag /\ p < q
                                       \/ "EQUAL" \in flag /\ p = q
                                       \/ "GREATER" \in flag /\ p > q
                    IN  in(flag1, result) /\ in(flag2, -result)

=============================================================================
