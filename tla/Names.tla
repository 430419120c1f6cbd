-------------------------------- MODULE Names --------------------------------
(***************************************************************************)
(* Packages by what a user calls them: a name alone, with epoch, version,  *)
(* release and architecture in any of the usual forms, or a pattern.  The  *)
(* memory database has a table of all forms (NevraList), the database on   *)
(* disk and the sqlite repositories have only names, and search the part   *)
(* of the argument that may be one.  envraSplit() takes a form apart.      *)
(*                                                                         *)
(* Strings are sequences of characters.                                    *)
(***************************************************************************)
EXTENDS Integers, Sequences, SequencesExt, FiniteSetsExt

CONSTANTS
    Pkg,
    Label,    \* package |-> name, epoch, version, release, arch and whether it is a source package
    Pattern   \* what is searched for

VARIABLES
    pkgs,     \* the packages of the database
    hash,     \* NevraList.hash: form |-> packages
    found     \* database |-> what searchPkgs() returns

vars == <<pkgs, hash, found>>

\* A class of characters that begins with the closing bracket is one for fnmatch, and
\* is none for __splitre__: such patterns are not asked.
NamesAssumption ==
    \A q \in Pattern : \A k \in 1..Len(q) - 1 :
        q[k] = "[" => q[k + 1] # "]" /\ (q[k + 1] = "!" /\ k + 1 < Len(q) => q[k + 2] # "]")

-----------------------------------------------------------------------------
(* The forms of a name.                                                    *)

GetAllNames(p) ==
    LET l == Label[p]
        arch == <<".">> \o (IF l.source THEN <<"s", "r", "c">> ELSE l.arch)
        nv == l.name \o <<"-">> \o l.version
        nev == l.name \o <<"-">> \o l.epoch \o <<":">> \o l.version
        forms == {l.name, nv, nev, nv \o <<"-">> \o l.release, nev \o <<"-">> \o l.release}
    IN  forms \union {n \o arch : n \in forms}

Names == {Label[p].name : p \in pkgs}
PkgsByName(n) == {p \in pkgs : Label[p].name = n}

\* The last place of character c in s, 0 if there is none.
RFind(s, c) == Max({0} \union {k \in DOMAIN s : s[k] = c})
Find(s, c) == Min({k \in DOMAIN s : s[k] = c} \union {Len(s) + 1})

None == "None"

\* What is after the last "." is the architecture, unless a "-" comes later; what
\* is after the last two "-" is version and release, or the version alone.
EnvraSplit(envra) ==
    LET i == Find(envra, ":")
        nvra == IF i > Len(envra) THEN envra ELSE SubSeq(envra, i + 1, Len(envra))
        dot == RFind(nvra, ".")
        last == RFind(nvra, "-")
        nvr == IF dot > last THEN SubSeq(nvra, 1, dot - 1) ELSE nvra
        first == RFind(SubSeq(nvr, 1, last - 1), "-")
        after(k) == SubSeq(nvr, k + 1, Len(nvr))
    IN  [epoch |-> IF i > Len(envra) THEN None ELSE SubSeq(envra, 1, i - 1),
         arch |-> IF dot > last THEN SubSeq(nvra, dot + 1, Len(nvra)) ELSE None,
         name |-> SubSeq(nvr, 1, (IF first # 0 THEN first ELSE IF last # 0 THEN last ELSE Len(nvr) + 1) - 1),
         version |-> IF first # 0 THEN SubSeq(nvr, first + 1, last - 1)
                     ELSE IF last # 0 THEN after(last) ELSE None,
         release |-> IF first # 0 THEN after(last) ELSE None]

-----------------------------------------------------------------------------
(* Patterns: the module fnmatch of Python, without ranges of characters.   *)

\* Where the class that begins at i ends, 0 if it does not.
Close(q, i) ==
    LET ends == {k \in i + 2..Len(q) : q[k] = "]"} IN IF ends = {} THEN 0 ELSE Min(ends)

InClass(c, class) == IF Head(class) = "!" THEN c \notin Range(Tail(class)) ELSE c \in Range(class)

Fnmatch(s, q) ==
    LET match[i \in 1..Len(q) + 1, j \in 1..Len(s) + 1] ==
          IF i > Len(q) THEN j > Len(s)
          ELSE IF q[i] = "*" THEN match[i + 1, j] \/ (j <= Len(s) /\ match[i, j + 1])
          ELSE /\ j <= Len(s)
               /\ IF q[i] = "[" /\ Close(q, i) # 0
                  THEN InClass(s[j], SubSeq(q, i + 1, Close(q, i) - 1)) /\ match[Close(q, i) + 1, j + 1]
                  ELSE q[i] \in {"?", s[j]} /\ match[i + 1, j + 1]
    IN  match[1, 1]

\* __fnmatchre__
IsGlob(q) == Range(q) \intersect {"*", "?", "[", "]"} # {}

\* Where __splitre__ splits.
Splits(q) ==
    {k \in DOMAIN q : q[k] \in {":", "*", "?", "-", "."} \/ (q[k] = "[" /\ Close(q, k) # 0)}

-----------------------------------------------------------------------------
(* The searches.                                                           *)

\* The names that may be meant: those that begin like a pattern, or the beginnings
\* of what is no pattern.
Candidates(q) ==
    IF IsGlob(q)
    THEN {n \in Names : IsPrefix(SubSeq(q, 1, Min(Splits(q) \union {Len(q) + 1}) - 1), n)}
    ELSE {SubSeq(q, 1, k - 1) : k \in Splits(q) \union {Len(q) + 1}}

\* RpmDB
SearchPkgs(q) ==
    {p \in UNION {PkgsByName(n) : n \in Candidates(q)} :
        \E n \in GetAllNames(p) : IF IsGlob(q) THEN Fnmatch(n, q) ELSE n = q}

\* SqliteRepoDB has a loop of its own, the same but that a package may be found
\* twice.
SearchPkgsSqlite(q) ==
    UNION {{p \in PkgsByName(n) :
               \/ q \in GetAllNames(p) /\ ~IsGlob(q)
               \/ IsGlob(q) /\ \E m \in GetAllNames(p) : Fnmatch(m, q)} : n \in Candidates(q)}

\* NevraList, which takes braces for a pattern as well: fnmatch does not.
Search(q) ==
    UNION ({hash[n] : n \in DOMAIN hash \intersect {q}}
             \union {hash[n] : n \in {m \in DOMAIN hash : IsGlob(q) /\ Fnmatch(m, q)}})

-----------------------------------------------------------------------------

Unasked == [disk |-> {}, sqlite |-> {}, memory |-> {}, for |-> <<>>]

Init == pkgs = {} /\ hash = [n \in {} |-> {}] /\ found = Unasked

AddPkg(p) ==
    /\ p \notin pkgs
    /\ pkgs' = pkgs \union {p}
    /\ hash' = [n \in DOMAIN hash \union GetAllNames(p) |->
                  (IF n \in DOMAIN hash THEN hash[n] ELSE {})
                    \union (IF n \in GetAllNames(p) THEN {p} ELSE {})]
    /\ found' = Unasked

RemovePkg(p) ==
    /\ p \in pkgs
    /\ pkgs' = pkgs \ {p}
    /\ hash' = [n \in {m \in DOMAIN hash : hash[m] # {p}} |-> hash[n] \ {p}]
    /\ found' = Unasked

Ask(q) ==
    /\ found = Unasked
    /\ found' = [disk |-> SearchPkgs(q), sqlite |-> SearchPkgsSqlite(q), memory |-> Search(q), for |-> q]
    /\ UNCHANGED <<pkgs, hash>>

Next == (\E p \in Pkg : AddPkg(p) \/ RemovePkg(p)) \/ \E q \in Pattern : Ask(q)

Spec == Init /\ [][Next]_vars

-----------------------------------------------------------------------------
(* What a search promises.                                                 *)

\* Whichever database is asked, and whatever was added and removed before, the
\* packages one of whose forms is asked for or fits the pattern are found.
SearchesAgree ==
    found # Unasked =>
        /\ found.disk = {p \in pkgs : \E n \in GetAllNames(p) : n = found.for \/ Fnmatch(n, found.for)}
        /\ found.disk = found.memory /\ found.disk = found.sqlite

\* envraSplit() gets back what a form was made from, whatever characters the name
\* has; of the name of a source package, its release with the first suffix.
SplitRight ==
    \A p \in pkgs :
        LET l == Label[p]
            nvr == l.name \o <<"-">> \o l.version \o <<"-">> \o l.release
            src == EnvraSplit(nvr \o <<".", "s", "r", "c", ".", "r", "p", "m">>)
        IN  /\ EnvraSplit(l.epoch \o <<":">> \o nvr \o <<".">> \o l.arch)
                 = [epoch |-> l.epoch, name |-> l.name, version |-> l.version,
                    release |-> l.release, arch |-> l.arch]
            /\ src.name = l.name /\ src.version = l.version
            /\ src.release = l.release \o <<".", "s", "r", "c">>

=============================================================================
