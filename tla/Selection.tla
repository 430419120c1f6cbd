------------------------------ MODULE Selection ------------------------------
(***************************************************************************)
(* The packages of an installation: getPackages() of the installer         *)
(* (pyrpm/installer/installer.py) makes a list of names out of the         *)
(* %packages section of the kickstart file, of what the other settings in  *)
(* it need, and of the languages.                                          *)
(*                                                                         *)
(* `pkgs` is a list in the code and a bag here: a name may be in it twice. *)
(* Files are looked for in the complete lists of files.                    *)
(***************************************************************************)
EXTENDS Comps, Bags

CONSTANTS
    BaseRepos,   \* the repositories of the installation source
    Provided,    \* repository |-> file |-> names of the packages that have it
    Sorted,      \* all names of packages, in the order of strings
    Kickstarts   \* groups, nobase, add, drop, startx, settings, fstypes, languages,
                 \* all_comps, and what the release has

VARIABLES
    ks,
    stage,     \* "read", "select", "languages", "done" or the exception
    pkgs,
    bound,     \* the variable pkg has a value
    todo,      \* the groups to add, each with a repository
    steps,     \* the rest of the list of what is added and dropped
    base       \* history: what was chosen before the languages

selectVars == <<ks, stage, pkgs, bound, todo, steps, base>>

SelectInit ==
    /\ NewCompsXML /\ Idle
    /\ ks \in Kickstarts
    /\ stage = "read" /\ pkgs = EmptyBag /\ bound = FALSE
    /\ todo = {} /\ steps = <<>> /\ base = {}

Chosen == BagToSet(pkgs)
With(S) == pkgs (+) SetToBag(S \ Chosen)

\* The repositories whose groups count.
Used == IF ks.all_comps THEN Repo ELSE BaseRepos
Everything == "everything" \in ks.groups
All == "*" \in ToSet(ks.add)

-----------------------------------------------------------------------------
(* What is to be done after the groups, one thing after the other.         *)

Step(do, what) == [do |-> do, what |-> what, with |-> {}, unless |-> {}]
AddPkg(name) == Step("package", name)
AddPkgByFilename(file) == Step("file", file)
If(condition, list) == IF condition THEN list ELSE <<>>
Has(setting) == setting \in ks.settings
Release(feature) == feature \in ks.release

Needs ==
    If(Has("xconfig") /\ Release("drivers"), <<AddPkg(IF Has("driver") THEN "xorg-x11-drv" ELSE "xorg-x11-drivers")>>)
    \o LET made == SelectSeq(ks.fstypes, LAMBDA t : t # "swap") IN [n \in DOMAIN made |-> AddPkgByFilename(made[n])]
    \o <<Step("optional", "comps")>>
    \o If(Has("raid"), <<AddPkgByFilename("mdadm")>>)
    \o If(Has("authconfig"), <<AddPkgByFilename("authconfig")>>)
    \o If(Has("firewall"), <<AddPkg("iptables")>>)
    \o If(Release("lokkit"), <<AddPkgByFilename("lokkit")>>) \* with or without a firewall
    \o <<[AddPkg("kernel") EXCEPT !.unless = {"kernel-smp"}]>>
    \o If(Release("kernel-devel"),
          <<[AddPkg("kernel-devel") EXCEPT !.with = {"gcc", "kernel"}],
            [AddPkg("kernel-smp-devel") EXCEPT !.with = {"gcc", "kernel-smp"}, !.unless = {"kernel"}]>>)
    \o If(Has("firstboot"), <<AddPkg("firstboot")>>)
    \o If(Has("bootloader"), <<AddPkg("grub")>>)
    \o If(Has("dhcp"), <<AddPkg("dhclient")>>)

\* Mutant: what the settings need is dropped as well.
Mut_Steps ==
    Needs \o [n \in DOMAIN ks.add |-> Step("add", ks.add[n])] \o [n \in DOMAIN ks.drop |-> Step("drop", ks.drop[n])]

Steps ==
    [n \in DOMAIN ks.add |-> Step("add", ks.add[n])] \o [n \in DOMAIN ks.drop |-> Step("drop", ks.drop[n])]
    \o Needs

-----------------------------------------------------------------------------
(* The groups.                                                             *)

Wanted ==
    (ks.groups \ {"everything"})
      \union (IF ks.nobase THEN {} ELSE {"base", "core"})
      \union (IF Everything THEN UNION {Groups(r) : r \in Used} ELSE {})
      \union (IF ks.startx THEN {"base-x", "desktop"} ELSE {})

\* With "*" a name is there once for each repository that has it.
Begin ==
    /\ stage = "read" /\ AllParsed
    /\ IF Everything /\ \E r \in Used : ~HasComps(r)
       THEN stage' = "AttributeError" /\ UNCHANGED <<pkgs, todo, steps>>
       ELSE /\ stage' = "select" /\ steps' = Steps
            /\ todo' = IF All THEN {} ELSE {<<r, GetGroup(r, g)>> : r \in Used, g \in Wanted} \ (Used \X {None})
            /\ pkgs' = IF All THEN [p \in Offered |-> Cardinality({r \in Repo : p \in Offers[r]})] ELSE pkgs
    /\ UNCHANGED <<ks, bound, base>>

AddGroup(r, g) ==
    /\ stage = "select" /\ <<r, g>> \in todo
    /\ todo' = todo \ {<<r, g>>}
    /\ LET listed == GetPackageNames(r, g)
                       \union (IF Everything THEN {e.name : e \in GetConditionalPackageNames(r, g)} ELSE {})
       IN  /\ pkgs' = With(listed \intersect Offers[r])
           /\ bound' = (bound \/ listed # {})
    /\ UNCHANGED <<ks, stage, steps, base>>

-----------------------------------------------------------------------------
(* Packages that are asked for, dropped or needed.                         *)

\* The sets of names of which one is needed, each set from one repository.
Candidates(s) ==
    IF s.do = "file" THEN {Provided[r][s.what] : r \in Repo} \ {{}}
    ELSE IF s.what \in Offered THEN {{s.what}} ELSE {}

\* The warning names the variable pkg instead of the package.
Lacking(s) ==
    /\ stage' = CASE s.do = "add" -> IF bound THEN stage ELSE "UnboundLocalError"
                  [] s.do = "optional" -> stage
                  [] OTHER -> "ValueError"
    /\ UNCHANGED <<pkgs, bound>>

\* One of them.
Drop(s) == pkgs' = pkgs (-) SetToBag({s.what})

TakeStep ==
    /\ stage = "select" /\ todo = {} /\ steps # <<>>
    /\ LET s == Head(steps)
       IN  CASE s.do = "drop" -> Drop(s) /\ bound' = TRUE /\ UNCHANGED stage
             [] s.do # "drop" /\ (s.what = "*" \/ ~(s.with \subseteq Chosen) \/ s.unless \intersect Chosen # {}) ->
                  UNCHANGED <<pkgs, bound, stage>>
             [] OTHER ->
                  \/ Candidates(s) = {} /\ Lacking(s)
                  \/ \E S \in Candidates(s) :
                        /\ IF S \intersect Chosen # {} THEN UNCHANGED pkgs ELSE \E p \in S : pkgs' = With({p})
                        /\ UNCHANGED <<bound, stage>>
    /\ steps' = Tail(steps)
    /\ UNCHANGED <<ks, todo, base>>

-----------------------------------------------------------------------------
(* Languages.                                                              *)

EndSteps ==
    /\ stage = "select" /\ todo = {} /\ steps = <<>>
    /\ stage' = "languages" /\ base' = Chosen
    /\ todo' = IF ks.languages = {} THEN {} ELSE UNION {{r} \X Groups(r) : r \in Used}
    /\ UNCHANGED <<ks, pkgs, bound, steps>>

\* The groups that a group leads to, in the order in which they are worked off.
RECURSIVE LangOrder(_, _)
LangOrder(r, g) ==
    IF g \notin Groups(r) \/ grouphash[r][g].langonly \notin ks.languages THEN <<>>
    ELSE LET first == SetToSeq(grouphash[r][g].groups)
         IN  FlattenSeq([n \in DOMAIN first |-> LangOrder(r, first[n])]) \o <<g>>

\* Those of the entries that have a requirement in the list so far.
Required(S, entries) ==
    FoldLeft(LAMBDA T, p : IF \E e \in entries : e.name = p /\ e.requires \intersect T # {}
                           THEN T \union {p} ELSE T,
             S, Sorted)

CompsLangsupport(S, r, g) ==
    Required(Required(S \union GetPackageNames(r, g), GetOptionalPackageNames(r, g)),
             GetConditionalPackageNames(r, g))

AddLanguage(r, g) ==
    /\ stage = "languages" /\ <<r, g>> \in todo
    /\ todo' = todo \ {<<r, g>>}
    /\ LET order == LangOrder(r, g)
       IN  IF \E n \in DOMAIN order : ~(GetPackageNames(r, order[n]) \subseteq Offered)
           THEN stage' = "ValueError" /\ UNCHANGED pkgs
           ELSE /\ pkgs' = With(FoldLeft(LAMBDA S, h : CompsLangsupport(S, r, h), Chosen, order))
                /\ UNCHANGED stage
    /\ UNCHANGED <<ks, bound, steps, base>>

\* Every name once.
Finish ==
    /\ stage = "languages" /\ todo = {}
    /\ stage' = "done" /\ pkgs' = SetToBag(Chosen)
    /\ UNCHANGED <<ks, bound, todo, steps, base>>

SelectNext ==
    \/ \E r \in Repo : ParseGroup(r) /\ UNCHANGED selectVars
    \/ /\ \/ Begin \/ TakeStep \/ EndSteps \/ Finish
          \/ \E x \in todo : AddGroup(x[1], x[2]) \/ AddLanguage(x[1], x[2])
       /\ UNCHANGED <<compsVars, groupVars>>

SelectSpec == SelectInit /\ [][SelectNext]_<<compsVars, groupVars, selectVars>>

-----------------------------------------------------------------------------
(* What the list promises.                                                 *)

NamesOf(entries) == UNION {{e.name} \union e.requires : e \in entries}
Usual == {"mandatory", "default"}

\* What is asked for and offered.
Asked ==
    IF All THEN Offered
    ELSE (ToSet(ks.add) \intersect Offered) \union
         UNION {LET groups == UNION {Named(r, g) : g \in Wanted}
                    conditional == IF Everything THEN {e.name : e \in Entries(r, groups, {"conditional"})} ELSE {}
                IN  (NamesOf(Entries(r, groups, Usual)) \union conditional) \intersect Offers[r] : r \in Used}

\* What the settings bring in: of the packages with a file none if one is asked for.
Kept == Asked \ ToSet(ks.drop)
Needed ==
    UNION {UNION {S \in Candidates(s) : S \intersect Kept = {}} :
              s \in {n \in ToSet(Needs) : n.with \subseteq base /\ n.unless \intersect base = {}}}

\* The entries of the groups of the languages, and which packages they bring in.
LanguageGroups(r) == {g \in Ids(r) : LastOf(r, g).langonly \in ks.languages}
LanguageEntries(types) == UNION {Entries(r, LanguageGroups(r), types) : r \in Used}

\* Everything that was asked for is in the list if it is offered and not dropped.  What
\* was dropped is not, unless a setting needs it, or all packages were asked for and two
\* repositories have it.  The settings have what they need, the system a kernel (a
\* second one only if asked for), and packages the support for the languages; there is
\* nothing else in the list, and no error but for a package that is missing.
SelectionRight ==
    /\ stage = "done" =>
          LET some == LanguageEntries({"optional", "conditional"})
          IN  /\ Kept \subseteq Chosen
              /\ base \subseteq Asked \union Needed
              /\ \A p \in (base \intersect ToSet(ks.drop)) \ Needed :
                    All /\ Cardinality({r \in Repo : p \in Offers[r]}) > 1
              /\ {"kernel", "kernel-smp"} \intersect Chosen # {}
              /\ {"kernel", "kernel-smp"} \subseteq Chosen => {"kernel", "kernel-smp"} \subseteq Asked
              /\ \A s \in ToSet(Needs) :
                    s.with \subseteq Chosen /\ s.unless \intersect Chosen = {} /\ s.do # "optional"
                      => \E S \in Candidates(s) : S \intersect Chosen # {}
              /\ NamesOf(LanguageEntries(Usual)) \union {e.name : e \in {x \in some : x.requires \intersect base # {}}}
                   \subseteq Chosen
              /\ \A p \in Chosen \ (base \union NamesOf(LanguageEntries(Usual))) :
                    \E e \in some : e.name = p /\ e.requires \intersect Chosen # {}
    /\ stage = "ValueError" =>
          \/ \E s \in ToSet(Needs) : Candidates(s) = {}
          \/ ~(NamesOf(LanguageEntries(Usual)) \subseteq Offered)

==============================================================================
