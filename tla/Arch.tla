-------------------------------- MODULE Arch ---------------------------------
(***************************************************************************)
(* Architectures: the tables of pyrpm/base.py, what is made of them in     *)
(* pyrpm/functions.py, and the list of packages that a command starts      *)
(* from: those for other machines are dropped one by one, the others are   *)
(* put in order, the best one first.                                       *)
(***************************************************************************)
EXTENDS Integers, Sequences, FiniteSets, Functions, SequencesExt, TLC

CONSTANTS
    Machine,   \* config.machine
    Lists      \* Lists[m]: lists of packages [arch, evr] on machine m

VARIABLES
    machine,
    asked, list, \* the list at first, and now
    i,           \* the package that is looked at, 0 when the list is in order
    result       \* history: indices in `asked` of what is in `list`

archVars == <<machine, asked, list, i, result>>

-----------------------------------------------------------------------------
(* arch_compats, "best match first": mostly every architecture is followed *)
(* by those after it in a list.                                            *)

From(s, n) == SubSeq(s, n, Len(s))
Chain(s, rest) == [a \in Range(s) |-> From(s \o rest, CHOOSE n \in DOMAIN s : s[n] = a)]
Each(A, s) == [a \in A |-> <<a>> \o s]

I386 == <<"i686", "i586", "i486", "i386", "noarch">>
PPC == <<"ppc", "rs6000", "noarch">>

ArchCompats ==
    Chain(<<"alphaev67", "alphaev6", "alphapca56", "alphaev56", "alphaev5", "alpha">>, <<"axp", "noarch">>)
    @@ Chain(<<"athlon">> \o I386, <<>>)
    @@ ("osfmach3_i686" :> <<"osfmach3_i686", "i686", "osfmach3_i586", "i586", "osfmach3_i486", "i486",
                             "osfmach3_i386", "i486", "i386", "noarch">>)
    @@ ("osfmach3_i586" :> <<"osfmach3_i586", "i586", "osfmach3_i486", "i486", "osfmach3_i386", "i486",
                             "i386", "noarch">>)
    @@ ("osfmach3_i486" :> <<"osfmach3_i486", "i486", "osfmach3_i386", "i486", "i386", "noarch">>)
    @@ ("osfmach3_i386" :> <<"osfmach3_i386", "i486", "i386", "noarch">>)
    @@ Each({"osfmach3_ppc", "powerpc", "powerppc", "ppc8260", "ppc8560", "ppc32dy4", "ppciseries",
               "ppcpseries", "ppc64"}, PPC)
    @@ Each({"ppc64pseries", "ppc64iseries"}, <<"ppc64">> \o PPC)
    @@ Chain(PPC, <<>>)
    @@ Each({"sun4c", "sun4d", "sun4m", "sparcv8"}, <<"sparc", "noarch">>)
    @@ Chain(<<"sun4u", "sparc64", "sparcv9", "sparc">>, <<"noarch">>)
    @@ Chain(<<"hppa2.0", "hppa1.2", "hppa1.1", "hppa1.0", "parisc">>, <<"noarch">>)
    @@ Chain(<<"armv4l", "armv3l">>, <<"noarch">>)
    @@ Each({"atarist", "atariste", "ataritt", "falcon", "atariclone", "milan", "hades"},
              <<"m68kmint", "noarch">>)
    @@ Chain(<<"s390x", "s390">>, <<"noarch">>)
    @@ Each({"mips", "mipsel", "armv4b", "i370", "ia64"}, <<"noarch">>)
    @@ Each({"amd64", "ia32e"}, <<"x86_64", "athlon">> \o I386)
    @@ Each({"x86_64"}, <<"amd64", "athlon">> \o I386)

\* buildarchtranslate: the base architecture.
BuildArchTranslate ==
    [a \in {"osfmach3_i686", "osfmach3_i586", "osfmach3_i486", "osfmach3_i386", "athlon",
            "pentium4", "pentium3", "i686", "i586", "i486", "i386"} |-> "i386"]
    @@ [a \in {"alphaev5", "alphaev56", "alphapca56", "alphaev6", "alphaev67", "alpha"} |-> "alpha"]
    @@ [a \in {"sun4c", "sun4d", "sun4m", "sparcv8", "sparcv9", "sparc"} |-> "sparc"]
    @@ [a \in {"sun4u", "sparc64"} |-> "sparc64"]
    @@ [a \in {"osfmach3_ppc", "powerpc", "powerppc", "ppc8260", "ppc8560", "ppc32dy4", "ppciseries",
               "ppcpseries", "ppc"} |-> "ppc"]
    @@ [a \in {"ppc64pseries", "ppc64iseries", "ppc64"} |-> "ppc64"]
    @@ [a \in {"atarist", "atariste", "ataritt", "falcon", "atariclone", "milan", "hades",
               "m68kmint"} |-> "m68kmint"]
    @@ [a \in {"amd64", "ia32e", "x86_64"} |-> "x86_64"]
    @@ [a \in {"s390", "s390x", "ia64", "noarch"} |-> a]

Compats(arch) == IF arch \in DOMAIN ArchCompats THEN ArchCompats[arch] ELSE <<>>

ArchCompat(parch, arch) == arch = "noarch" \/ parch \in Range(Compats(arch))

Base(arch) == IF arch \in DOMAIN BuildArchTranslate THEN BuildArchTranslate[arch] ELSE arch
ArchDuplicate(parch, arch) == Base(parch) = Base(arch)

\* list.index(): the first place, counted from 0.
Place(arch, of) == CHOOSE n \in 0 .. Len(Compats(of)) - 1 :
                        /\ Compats(of)[n + 1] = arch
                        /\ \A k \in 1..n : Compats(of)[k] # arch

\* Mutant: only the table of the package is looked at.
Mut_MachineDistanceOneWay(arch1, arch2) ==
    IF "noarch" \in {arch1, arch2} THEN 0
    ELSE IF arch1 = arch2 THEN 1
    ELSE IF arch2 \in Range(Compats(arch1)) THEN Place(arch2, arch1) + 2
    ELSE 999

\* "noarch is always very good"; of others the place in a table of the two.
MachineDistance(arch1, arch2) ==
    IF "noarch" \in {arch1, arch2} THEN 0
    ELSE IF arch1 = arch2 THEN 1
    ELSE IF arch2 \in Range(Compats(arch1)) THEN Place(arch2, arch1) + 2
    ELSE IF arch1 \in Range(Compats(arch2)) THEN Place(arch1, arch2) + 2
    ELSE 999

-----------------------------------------------------------------------------
(* The list.                                                               *)

Init ==
    /\ machine \in Machine
    /\ asked \in Lists[machine] /\ list = asked
    /\ i = 1 /\ result = [n \in DOMAIN asked |-> n]

\* A step of filterArchCompat().
FilterArchCompat ==
    /\ i \in DOMAIN list
    /\ IF ArchCompat(list[i].arch, machine) THEN i' = i + 1 /\ UNCHANGED <<list, result>>
       ELSE list' = RemoveAt(list, i) /\ result' = RemoveAt(result, i) /\ UNCHANGED i
    /\ UNCHANGED <<machine, asked>>

\* pkgmdcmp() > 0
Better(p, q) ==
    \/ p.evr > q.evr
    \/ p.evr = q.evr /\ MachineDistance(p.arch, machine) < MachineDistance(q.arch, machine)

\* A sort that keeps the order of equals, turned round.
OrderList ==
    /\ i > Len(list)
    /\ \E order \in Permutations(DOMAIN list) :
          /\ \A m, n \in DOMAIN list :
                m < n => \/ Better(list[order[m]], list[order[n]])
                         \/ ~Better(list[order[n]], list[order[m]]) /\ order[m] > order[n]
          /\ list' = [n \in DOMAIN list |-> list[order[n]]]
          /\ result' = [n \in DOMAIN list |-> result[order[n]]]
    /\ i' = 0
    /\ UNCHANGED <<machine, asked>>

Next == FilterArchCompat \/ OrderList

Spec == Init /\ [][Next]_archVars

-----------------------------------------------------------------------------

\* The list ends up with the packages the machine can run, all of them and no others,
\* newer ones first, and of one version packages for no architecture and then in the
\* order in which arch_compats has their architectures for the machine.  This is what
\* pkgmdcmp() says it needs; the docstring of orderList() has the distance first.
BestFirst ==
    i = 0 =>
        LET place(p) == IF p.arch = "noarch" THEN -1 ELSE Place(p.arch, machine)
        IN  /\ Range(result) = {n \in DOMAIN asked : asked[n].arch \in Range(Compats(machine)) \/ machine = "noarch"}
            /\ \A m, n \in DOMAIN list :
                  m < n => \/ list[m].evr > list[n].evr
                           \/ /\ list[m].evr = list[n].evr
                              /\ machine # "noarch" => place(list[m]) <= place(list[n])

\* Of two packages a machine can run, of which one shares files with the other and is
\* not of its base architecture, one counts as the higher: __verifyFileInstall() asks
\* for nothing else when packages of two architectures have different files.
OneIsHigher ==
    machine # "noarch" =>
        \A a, b \in Range(Compats(machine)) \ {"noarch"} :
            \/ ArchDuplicate(a, b)
            \/ a \in Range(Compats(b)) \/ b \in Range(Compats(a))

=============================================================================
