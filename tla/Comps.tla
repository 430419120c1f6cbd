-------------------------------- MODULE Comps --------------------------------
(***************************************************************************)
(* Groups of packages: RpmCompsXML (pyrpm/database/comps.py) reads the     *)
(* comps.xml of a repository and says which packages a group stands for,   *)
(* and the group commands of yum.py install them, with the packages that   *)
(* the languages in use have for each.                                     *)
(*                                                                         *)
(* The XML is the sequence of its groups: [id, name, localized, langonly,  *)
(* packages, groups], where packages is a sequence of [name, type,         *)
(* requires] and groups the sequence of the groups it requires, by any of  *)
(* their names.  Groups do not require each other in circles: the code     *)
(* does not come to an end then.  A name belongs to one group: with two    *)
(* the order of a dictionary decides.                                      *)
(***************************************************************************)
EXTENDS Sequences, SequencesExt, FiniteSets

CONSTANTS
    Repo,
    Xml,      \* the groups of a repository; <<>> if it has no comps.xml
    Offers,   \* the names of the packages of a repository
    Commands  \* the sequences of groups that the user may ask for

None == "None"

VARIABLES
    input,       \* the groups that are still to be parsed
    grouphash,   \* repository |-> id |-> group
    langhash,    \* repository |-> language |-> id of its group
    pkgtypehash, \* repository |-> the pairs of names and types
    args,        \* the groups of the command that is carried out
    langs,       \* RpmYum.langs
    names,       \* the names that are still to be installed
    installed,
    spoken       \* history: package |-> the languages when it was installed

compsVars == <<input, grouphash, langhash, pkgtypehash>>
groupVars == <<args, langs, names, installed, spoken>>

NewCompsXML ==
    /\ input = Xml
    /\ grouphash = [r \in Repo |-> <<>>] /\ langhash = [r \in Repo |-> <<>>]
    /\ pkgtypehash = [r \in Repo |-> {}]

\* There is no group command.
Idle == args = <<>> /\ langs = {} /\ names = {} /\ installed = {} /\ spoken = <<>>

Init ==
    /\ NewCompsXML
    /\ args \in Commands
    /\ langs = {} /\ names = {} /\ installed = {} /\ spoken = <<>>

-----------------------------------------------------------------------------
(* Reading comps.xml.                                                      *)

\* A package that is there twice is what the last entry says.
ParsePackageList(list) ==
    {list[i] : i \in {n \in DOMAIN list : \A m \in n + 1..Len(list) : list[m].name # list[n].name}}

ParseGroupList(g) == ToSet(g.groups)

ParseGroup(r) ==
    /\ input[r] # <<>>
    /\ LET g == Head(input[r])
       IN  /\ grouphash' = [grouphash EXCEPT ![r] = 
                  (g.id :> [name |-> g.name, localized |-> g.localized, langonly |-> g.langonly,
                            packages |-> ParsePackageList(g.packages), groups |-> ParseGroupList(g)]) @@ @]
           /\ langhash' = IF g.langonly = None THEN langhash
                          ELSE [langhash EXCEPT ![r] = (g.langonly :> g.id) @@ @]
           /\ pkgtypehash' = [pkgtypehash EXCEPT ![r] =
                  @ \union {<<e.name, e.type>> : e \in ToSet(g.packages)}]
    /\ input' = [input EXCEPT ![r] = Tail(@)]
    /\ UNCHANGED groupVars

AllParsed == \A r \in Repo : input[r] = <<>>

-----------------------------------------------------------------------------
(* Asking for groups and packages.                                         *)

Groups(r) == DOMAIN grouphash[r]
HasComps(r) == Xml[r] # <<>>

\* The id of a group, by its id, else its name, else a localized name.
GetGroup(r, name) ==
    LET called == {g \in Groups(r) : grouphash[r][g].name = name}
        localized == {g \in Groups(r) : name \in grouphash[r][g].localized}
    IN  IF name \in Groups(r) THEN name
        ELSE IF called # {} THEN CHOOSE g \in called : TRUE
        ELSE IF localized # {} THEN CHOOSE g \in localized : TRUE ELSE None

GetGroupLanguage(r, name) ==
    IF GetGroup(r, name) = None THEN None ELSE grouphash[r][GetGroup(r, name)].langonly

\* __getPackageNames(): the entries of the group and of those it requires.
RECURSIVE PackagesOf(_, _, _)
PackagesOf(r, name, types) ==
    LET g == GetGroup(r, name)
    IN  IF g = None THEN {}
        ELSE {e \in grouphash[r][g].packages : e.type \in types}
               \union UNION {PackagesOf(r, h, types) : h \in grouphash[r][g].groups}

\* With the packages that they require.
GetPackageNames(r, name) ==
    UNION {{e.name} \union e.requires : e \in PackagesOf(r, name, {"mandatory", "default"})}

GetOptionalPackageNames(r, name) == PackagesOf(r, name, {"optional"})
GetConditionalPackageNames(r, name) == PackagesOf(r, name, {"conditional"})

GetLangOnlyPackageNames(r, lang, pkgname) ==
    IF lang \notin DOMAIN langhash[r] THEN {}
    ELSE LET g == langhash[r][lang]
         IN  {e.name : e \in {x \in GetConditionalPackageNames(r, g)
                                      \union GetOptionalPackageNames(r, g) : pkgname \in x.requires}}

HasType(r, pkgname, type) == <<pkgname, type>> \in pkgtypehash[r]

\* pkg.compstype, set when the packages are read.
CompsType(r, pkgname) ==
    CASE HasType(r, pkgname, "mandatory") -> "mandatory"
      [] ~HasType(r, pkgname, "mandatory") /\ HasType(r, pkgname, "default") -> "default"
      [] ~HasType(r, pkgname, "mandatory") /\ ~HasType(r, pkgname, "default")
            /\ HasType(r, pkgname, "optional") -> "optional"
      [] OTHER -> None

-----------------------------------------------------------------------------
(* groupInstall(): one group after the other.                              *)

Offered == UNION {Offers[r] : r \in Repo}

\* getGroupPackages(): the language of a group is in use from then on.
GetGroupPackages(name) == UNION {GetPackageNames(r, name) : r \in Repo}

GroupInstall ==
    /\ AllParsed /\ names = {} /\ args # <<>>
    /\ names' = GetGroupPackages(Head(args))
    /\ langs' = langs \union ({GetGroupLanguage(r, Head(args)) : r \in Repo} \ {None})
    /\ args' = Tail(args)
    /\ UNCHANGED <<compsVars, installed, spoken>>

\* Mutant: packages are installed without those of the languages.
Mut_LangPackages(p) == {}

\* __handleSinglePkg(): the packages that the languages have for this one.
LangPackages(p) ==
    UNION {UNION {GetLangOnlyPackageNames(r, lang, p) : lang \in langs} : r \in Repo}

\* What is not offered is passed over, what is there already is not installed.
Install(p) ==
    /\ p \in names
    /\ LET new == p \in Offered \ installed
       IN  /\ installed' = IF new THEN installed \union {p} ELSE installed
           /\ spoken' = IF new THEN (p :> langs) @@ spoken ELSE spoken
           /\ names' = (names \ {p}) \union (IF new THEN LangPackages(p) ELSE {})
    /\ UNCHANGED <<compsVars, args, langs>>

Next ==
    \/ \E r \in Repo : ParseGroup(r)
    \/ GroupInstall
    \/ \E p \in names : Install(p)

Spec == Init /\ [][Next]_<<compsVars, groupVars>>

-----------------------------------------------------------------------------
(* What groups promise.                                                    *)

\* The last group with an id in comps.xml is the one that counts.
LastOf(r, id) ==
    LET there == {i \in DOMAIN Xml[r] : Xml[r][i].id = id}
    IN  Xml[r][CHOOSE i \in there : \A j \in there : j <= i]
Ids(r) == {g.id : g \in ToSet(Xml[r])}
Named(r, name) ==
    IF name \in Ids(r) THEN {name}
    ELSE {id \in Ids(r) : name \in {LastOf(r, id).name} \union LastOf(r, id).localized}

\* The groups that are reached from the groups of ids by what they require, and the
\* last entries in them.
Reached(r, ids) ==
    LET more(S) == S \union UNION {UNION {Named(r, h) : h \in ToSet(LastOf(r, id).groups)} : id \in S}
        reach[n \in 0..Cardinality(Ids(r))] == IF n = 0 THEN ids ELSE more(reach[n - 1])
    IN  reach[Cardinality(Ids(r))]
Entries(r, ids, types) ==
    UNION {LET list == LastOf(r, id).packages
           IN  {list[i] : i \in {n \in DOMAIN list :
                   list[n].type \in types /\ \A m \in DOMAIN list :
                       list[m].name = list[n].name => m <= n}} : id \in Reached(r, ids)}

\* The packages for p in a language: those of the last group of that language.
ForLanguage(r, lang, p) ==
    LET speaking == {i \in DOMAIN Xml[r] : Xml[r][i].langonly = lang}
        last == CHOOSE i \in speaking : \A j \in speaking : j <= i
    IN  IF speaking = {} THEN {}
        ELSE {e.name : e \in {x \in Entries(r, {Xml[r][last].id}, {"optional", "conditional"}) :
                                  p \in x.requires}}

\* Once a command is done, of the groups it named so far everything is installed that
\* is mandatory or default in them or in the groups they require, and that is offered;
\* whatever was installed while a language was in use has its packages in that
\* language, and nothing else is there.
GroupsWhole ==
    AllParsed /\ names = {} =>
        LET done == {c \in Commands : \E n \in 0..Len(c) : args = SubSeq(c, n + 1, Len(c))}
            langPkgs(p) == UNION {UNION {ForLanguage(r, l, p) : l \in spoken[p]} : r \in Repo}
            of(group) == UNION {UNION {{e.name} \union e.requires :
                              e \in Entries(r, Named(r, group), {"mandatory", "default"})} : r \in Repo}
            asked(c) == UNION {of(c[i]) : i \in 1..Len(c) - Len(args)}
        IN  /\ \A p \in installed : langPkgs(p) \intersect Offered \subseteq installed
            /\ \E c \in done :
                  /\ asked(c) \intersect Offered \subseteq installed
                  /\ installed \subseteq asked(c) \union UNION {langPkgs(p) : p \in installed}

\* A package counts as what it is in the group that it is most important for.
TypesKnown ==
    AllParsed => \A r \in Repo : \A p \in Offers[r] :
        LET types == {e.type : e \in {x \in UNION {ToSet(g.packages) : g \in ToSet(Xml[r])} : x.name = p}}
            first == SelectSeq(<<"mandatory", "default", "optional">>, LAMBDA t : t \in types)
        IN  CompsType(r, p) = IF first = <<>> THEN None ELSE Head(first)

=============================================================================
