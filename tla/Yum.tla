-------------------------------- MODULE Yum ---------------------------------
(***************************************************************************)
(* RpmYum (pyrpm/yum.py) on the resolver: the packages a command selects,  *)
(* and the turns in which dependencies, obsoletes and conflicts are worked *)
(* off until nothing changes, with autoerase if it was asked for.          *)
(*                                                                         *)
(* The calls of the code that are under way are the frames of `stack`, the *)
(* innermost first.  A step runs the innermost one up to its next call of  *)
(* the resolver or of another function.  A call that did something adds    *)
(* that to the field `got` of its caller.  Searches return sets: where the *)
(* code goes through a dictionary or a list in database order, any order.  *)
(* The repositories have their complete lists of files.                    *)
(***************************************************************************)
EXTENDS Resolver, Sequences, SequencesExt

CONSTANTS
    Available,      \* the packages of the repositories
    Requests,       \* command line: command, args (names), autoerase
    AlwaysInstall,  \* names "that get installed instead of updated"
    Exclude,        \* names that are not to be erased automatically
    LanguageNames,  \* name |-> names of its packages for the chosen languages
    Machine,        \* config.machine
    BaseArch,       \* buildarchtranslate
    Distance,       \* machineDistance
    Type,           \* rank of pkg.compstype: mandatory, default, optional, none
    Sense,          \* conflict |-> the comparison in it
    Hash            \* rank of pkg.hash: a set of packages is gone through in this order

ASSUME YumAssumption ==
    /\ Available \subseteq Pkg \ Installed /\ IsFiniteSet(Available)
    /\ \A r \in Requests :
          /\ r.command \in {"install", "update", "remove", "list"}
          /\ r.autoerase \in BOOLEAN
    /\ Hash \in [Pkg -> Nat] /\ Evr \in [Pkg -> Nat]
    /\ ~checkinstalled /\ ~noconflicts

VARIABLES
    request,
    stack,          \* the calls under way
    erase_list,     \* packages autoerase has removed
    opkg_list,      \* packages used for obsoleting
    delay_obsolete, delay_obsolete_list,
    obsoleteslist,
    result          \* what runArgs() and runDepRes() came to

resolverVars == <<dbVars, opVars, checkVars, last>>
yumVars == <<erase_list, opkg_list, delay_obsolete, delay_obsolete_list, result>>
yvars == <<vars, request, stack, yumVars, obsoleteslist>>

-----------------------------------------------------------------------------
(* Choosing packages.                                                      *)

\* orderList(): newer packages first, then those nearer to the architecture.
Better(p, q, arch) ==
    \/ Evr[p] > Evr[q]
    \/ Evr[p] = Evr[q] /\ Distance[Arch[p], arch] < Distance[Arch[q], arch]

FindPkgs(name) == {p \in Available : Name[p] = name}
Newer(r, P) == {p \in P : Evr[p] > Evr[r]}
DbNamed(name) == {r \in Db : Name[r] = name}
Names(P) == {Name[p] : p \in P}

FitsArch(p, arch) ==
    \/ <<Arch[p], arch>> \in ArchDuplicate \union ArchCompat
    \/ <<arch, Arch[p]>> \in ArchCompat

\* Mutant: packages that were erased are chosen again.
Mut_CandidatesErased(P, arch, exact, filereq) ==
    {p \in P \ Db : (exact => Arch[p] \in {arch, NoArch}) /\ (filereq \/ FitsArch(p, arch))}

\* The packages __handleBestPkg() keeps, seen once, before it adds the first.
Candidates(P, arch, exact, filereq) ==
    {p \in P \ (erase_list \union Db) :
        /\ exact => Arch[p] \in {arch, NoArch}
        /\ filereq \/ FitsArch(p, arch)}

\* What it may try next: the best package of a name, or with `single` the best
\* of the first type of packages.
BestOf(frame) ==
    IF frame.single
    THEN LET first == {p \in frame.todo : \A q \in frame.todo : Type[p] <= Type[q]}
         IN  {p \in first : \A q \in first : ~Better(q, p, frame.arch)}
    ELSE {p \in frame.todo :
             \A q \in frame.todo : Name[q] = Name[p] => ~Better(q, p, frame.arch)}

\* __generateObsoletesList(): the best obsoleting package of each name.
Obsoleting == {p \in Available : \E r \in Pkg : <<p, r>> \in Obsoletes}
ObsoletesLists ==
    LET best == {p \in Obsoleting :
                    \A q \in Obsoleting : Name[q] = Name[p] => ~Better(q, p, Machine)}
    IN  {s \in SetToSeqs(best) :
            \A i, j \in DOMAIN s : Better(s[i], s[j], Machine) => i < j}

-----------------------------------------------------------------------------
(* Calls.                                                                  *)

BestPkg(cmd, P, arch, exact, filereq, do_obsolete, single) ==
    [f |-> "best", cmd |-> cmd, todo |-> Candidates(P, arch, exact, filereq), arch |-> arch,
     do_obsolete |-> do_obsolete, single |-> single, got |-> FALSE]
Removal(P) == [f |-> "remove", todo |-> P, got |-> FALSE]
\* What follows a package that was added: language packages, obsoletes.
Extras(p, do_obsolete) ==
    [f |-> "extras", pkg |-> p, todo |-> UNION {LanguageNames[n] : n \in {Name[p]} \intersect DOMAIN LanguageNames},
     do_obsolete |-> do_obsolete, got |-> FALSE]
UpdateNames(P, do_obsolete) ==
    [f |-> "update", todo |-> P, do_obsolete |-> do_obsolete, got |-> FALSE]
HandleObsoletes(pkglist) ==
    [f |-> "obsoletes", pkglist |-> pkglist, named |-> pkglist, next |-> 1, readd |-> <<>>,
     res |-> FALSE, got |-> FALSE]
UnresolvedDeps == [f |-> "deps", unresolvable |-> {}, dep |-> {}, res |-> FALSE, got |-> FALSE]
ResolveDep(p, d) == [f |-> "dep", pkg |-> p, dep |-> d, at |-> "best", got |-> FALSE]
DoAutoerase(p) == [f |-> "autoerase", pkg |-> p, started |-> FALSE, todo |-> {}, got |-> FALSE]
ConflictErases(kind) == [f |-> "conflictErase", kind |-> kind, got |-> FALSE]
ObsoleteConflicts ==
    [f |-> "obsoleteConflicts", got |-> FALSE,
     todo |-> IF request.autoerase THEN {c[2] : c \in GetObsoleteConflicts} ELSE {}]

Top == Head(stack)
Running(f) == stack # <<>> /\ Top.f = f
Call(caller, callee) == stack' = <<callee, caller>> \o Tail(stack)
Continue(frame) == stack' = <<frame>> \o Tail(stack)
Reply(done) == stack' = <<[stack[2] EXCEPT !.got = @ \/ done]>> \o SubSeq(stack, 3, Len(stack))

Quiet == UNCHANGED resolverVars
Lists == <<erase_list, opkg_list, delay_obsolete, delay_obsolete_list, result>>

-----------------------------------------------------------------------------
(* Adding and removing packages: __handleBestPkg(), __handleSinglePkg().   *)

Remaining(frame, p, added) ==
    CASE added /\ frame.single -> {}
      [] added /\ ~frame.single -> {q \in frame.todo : Name[q] # Name[p]}
      [] OTHER -> frame.todo \ {p}

AddPkg(cmd, p) ==
    IF cmd = "install" \/ Name[p] \in AlwaysInstall THEN InstallPkg(p) ELSE UpdatePkg(p)

TryBest ==
    /\ Running("best")
    /\ \E p \in BestOf(Top) :
          LET left(added) == [Top EXCEPT !.todo = Remaining(Top, p, added), !.got = @ \/ added]
          IN  /\ AddPkg(Top.cmd, p)
              /\ IF last'.ret = "OK" THEN Call(left(TRUE), Extras(p, Top.do_obsolete))
                                     ELSE Continue(left(FALSE))
    /\ UNCHANGED Lists

\* A frame that counts on its own calls has to forget what its callees did.
EndBest ==
    /\ Running("best") /\ Top.todo = {}
    /\ Reply(Top.got)
    /\ Quiet /\ UNCHANGED Lists

RemovePkgs ==
    /\ Running("remove")
    /\ \/ \E p \in Top.todo : ErasePkg(p) /\ Continue([Top EXCEPT !.todo = @ \ {p}])
       \/ Top.todo = {} /\ Reply(TRUE) /\ Quiet
    /\ UNCHANGED Lists

UpdateLanguage ==
    /\ Running("extras")
    /\ \E n \in Top.todo :
          Call([Top EXCEPT !.todo = @ \ {n}], UpdateNames(FindPkgs(n), TRUE))
    /\ Quiet /\ UNCHANGED Lists

ObsoletesOf ==
    /\ Running("extras") /\ Top.todo = {}
    /\ IF Top.do_obsolete /\ ~delay_obsolete
       THEN Continue(HandleObsoletes(<<Top.pkg>>)) /\ UNCHANGED delay_obsolete_list
       ELSE /\ Reply(FALSE)
            /\ delay_obsolete_list' = IF Top.do_obsolete THEN Append(delay_obsolete_list, Top.pkg)
                                                         ELSE delay_obsolete_list
    /\ Quiet /\ UNCHANGED <<erase_list, opkg_list, delay_obsolete, result>>

-----------------------------------------------------------------------------
(* update().                                                               *)

Bucket(p) == IF exactarch THEN Arch[p] ELSE BaseArch[Arch[p]]
Multi(R) == \E r, s \in R : BaseArch[Arch[r]] # BaseArch[Arch[s]]
Newest(R) == CHOOSE r \in R : \A s \in R : Evr[r] >= Evr[s]

PerArch(P, R, do_obsolete) ==
    [f |-> "archs", todo |-> R, ipkg |-> {}, dict |-> FALSE, do_obsolete |-> do_obsolete,
     buckets |-> [a \in {Bucket(p) : p \in P} |-> {p \in P : Bucket(p) = a}],
     res |-> FALSE, got |-> FALSE]

UpdateName ==
    /\ Running("update")
    /\ \E n \in Names(Top.todo) :
          LET P == {p \in Top.todo : Name[p] = n}
              R == DbNamed(n)
              best(Q, arch) == BestPkg("update", Q, arch, FALSE, FALSE, Top.do_obsolete, FALSE)
              rest == [Top EXCEPT !.todo = @ \ P]
          IN  \/ /\ n \in AlwaysInstall \/ R = {}
                 /\ Call(rest, best(P, Machine))
              \/ /\ n \notin AlwaysInstall /\ R # {} /\ ~exactarch /\ ~Multi(R)
                 /\ \E r \in R : Call(rest, best(Newer(Newest(R), P), Arch[r]))
              \/ /\ n \notin AlwaysInstall /\ R # {} /\ (exactarch \/ Multi(R))
                 /\ Call(rest, PerArch(P, R, Top.do_obsolete))
    /\ Quiet /\ UNCHANGED Lists

EndUpdate ==
    /\ Running("update") /\ Top.todo = {}
    /\ Reply(Top.got)
    /\ Quiet /\ UNCHANGED Lists

-----------------------------------------------------------------------------
(* update(), one installed package after the other.  A bucket is emptied   *)
(* once it was used.  `dict`: an empty dictionary was put in for a missing *)
(* bucket of noarch packages; it cannot be extended.                       *)

Get(buckets, a) == UNION {buckets[b] : b \in {a} \intersect DOMAIN buckets}
Raise ==
    /\ result' = "raised" /\ stack' = <<>>
    /\ Quiet /\ UNCHANGED <<erase_list, opkg_list, delay_obsolete, delay_obsolete_list>>

UpdateArch ==
    /\ Running("archs") /\ Top.ipkg = {}
    /\ \E r \in Top.todo :
          LET noarch == Arch[r] = NoArch
              a == Bucket(r)
              from == IF noarch THEN UNION {Top.buckets[b] : b \in DOMAIN Top.buckets}
                                ELSE Get(Top.buckets, a) \union Get(Top.buckets, NoArch)
              march == IF exactarch /\ ~noarch THEN Arch[r] ELSE Machine
              left == [Top EXCEPT
                         !.todo = @ \ {r},
                         !.dict = @ \/ (~noarch /\ NoArch \notin DOMAIN Top.buckets),
                         !.buckets = [b \in DOMAIN Top.buckets \union {a} |->
                                         IF b = a THEN {} ELSE Top.buckets[b]]]
          IN  \/ noarch /\ Top.dict /\ Raise
              \/ /\ ~(noarch /\ Top.dict)
                 /\ IF Newer(r, from) = {}
                    THEN Continue(left)
                    ELSE Call([left EXCEPT !.ipkg = {r}],
                              BestPkg("update", Newer(r, from), march, exactarch, FALSE,
                                      Top.do_obsolete, FALSE))
                 /\ Quiet /\ UNCHANGED Lists

UpdatedArch ==
    /\ Running("archs")
    /\ \E r \in Top.ipkg :
          /\ IF Top.got THEN ErasePkg(r) ELSE Quiet
          /\ Continue([Top EXCEPT !.ipkg = {}, !.res = @ \/ Top.got, !.got = FALSE])
    /\ UNCHANGED Lists

EndArchs ==
    /\ Running("archs") /\ Top.todo = {} /\ Top.ipkg = {}
    /\ Reply(Top.res)
    /\ Quiet /\ UNCHANGED Lists

-----------------------------------------------------------------------------
(* __handleObsoletes(): without a list every package may be obsoleted.     *)

Matching(o) == {r \in Db : <<o, r>> \in Obsoletes}
Given(frame) == {frame.pkglist[i] : i \in DOMAIN frame.pkglist}
Wanted(frame, o) == {r \in Matching(o) : Name[r] # Name[o] /\ r \in Given(frame)}

Considered(o) == o \notin opkg_list \union erase_list

\* Passed over: the list consists of as many packages as had the name of o in
\* the list at first, or a package of that name is the first that matches.
Blocked(frame, o) ==
    \/ ~Considered(o) \/ Matching(o) = {}
    \/ frame.pkglist # <<>>
         /\ Len(frame.pkglist) = Cardinality({i \in DOMAIN frame.named : Name[frame.named[i]] = Name[o]})
    \/ frame.pkglist # <<>> /\ Wanted(frame, o) = {}
MayTry(frame, o) == ~Blocked(frame, o) /\ \E r \in Matching(o) : Name[r] # Name[o]
MayPass(frame, o) == Blocked(frame, o) \/ \E r \in Matching(o) : Name[r] = Name[o]

Reached(frame, j) == \A k \in frame.next .. j - 1 : MayPass(frame, obsoleteslist[k])

\* The obsoleting package takes the place of those it obsoletes in the list.
Obsoleted(frame, o, P) ==
    LET without(s, p) == IF p \in P THEN s ELSE Append(s, p)
    IN  /\ Continue([frame EXCEPT
              !.res = TRUE, !.next = 1, !.readd = <<>>,
              !.pkglist = IF frame.pkglist = <<>> THEN @
                          ELSE FoldLeft(without, <<>>, @) \o <<o>>])
        /\ opkg_list' = opkg_list \union {o}

TryObsolete ==
    /\ Running("obsoletes") /\ Top.readd = <<>>
    /\ \E j \in Top.next .. Len(obsoleteslist) :
          LET o == obsoleteslist[j]
              P == Wanted(Top, o)
          IN  /\ Reached(Top, j) /\ MayTry(Top, o)
              /\ UpdatePkg(o)
              /\ CASE last'.ret = "OK" -> Obsoleted(Top, o, P)
                   [] last'.ret = "ALREADY_ADDED" ->
                        /\ Continue([Top EXCEPT !.next = j + 1, !.readd = <<o, P, "erase">>])
                        /\ UNCHANGED opkg_list
                   [] OTHER -> Continue([Top EXCEPT !.next = j + 1]) /\ UNCHANGED opkg_list
    /\ UNCHANGED <<erase_list, delay_obsolete, delay_obsolete_list, result>>

EraseToReadd ==
    /\ Running("obsoletes") /\ Top.readd # <<>> /\ Top.readd[3] = "erase"
    /\ ErasePkg(Top.readd[1])
    /\ Continue([Top EXCEPT !.readd[3] = "update"])
    /\ UNCHANGED Lists

Readd ==
    /\ Running("obsoletes") /\ Top.readd # <<>> /\ Top.readd[3] = "update"
    /\ UpdatePkg(Top.readd[1])
    /\ IF last'.ret = "OK" THEN Obsoleted(Top, Top.readd[1], Top.readd[2])
       ELSE Continue([Top EXCEPT !.readd = <<>>]) /\ UNCHANGED opkg_list
    /\ UNCHANGED <<erase_list, delay_obsolete, delay_obsolete_list, result>>

EndObsoletes ==
    /\ Running("obsoletes") /\ Top.readd = <<>>
    /\ Reached(Top, Len(obsoleteslist) + 1)
    /\ Reply(Top.res)
    /\ Quiet /\ UNCHANGED Lists

-----------------------------------------------------------------------------
(* __handleUnresolvedDeps(): the first dependency that was not given up    *)
(* yet, of those the iteration over the changes finds.  On its way it      *)
(* drops changes that left nothing unresolved.                             *)

Settled(frame) ==
    IF frame.got THEN [frame EXCEPT !.got = FALSE, !.dep = {}, !.res = TRUE]
    ELSE [frame EXCEPT !.dep = {}, !.unresolvable = @ \union frame.dep]

\* The packages with a dependency that was not given up, of the function from
\* packages to what they leave unresolved.
Open(frame, u) == u[2] \notin frame.unresolvable
Opening(frame, problems) == {p \in DOMAIN problems : \E u \in problems[p] : Open(frame, u)}
First(P) == CHOOSE p \in P : \A q \in P : Hash[p] <= Hash[q]
Before(P, p) == {q \in P : Hash[q] < Hash[p]}
Missing(p) == Unresolved({p})
EraseOpening(frame) == Opening(frame, [p \in check_erases |-> EraseProblems(p)])
InstallOpening(frame) == Opening(frame, [p \in check_installs |-> Missing(p)])

NextDeps(frame) ==
    LET E == EraseOpening(frame)
        I == InstallOpening(frame)
    IN  {u \in IF E # {} THEN EraseProblems(First(E))
               ELSE IF I # {} THEN Missing(First(I)) ELSE FileProblems : Open(frame, u)}

\* Mutant: a change is checked off whatever it leaves unresolved.
Mut_PassedAll(frame) ==
    LET E == EraseOpening(frame)
        I == InstallOpening(frame)
    IN  /\ check_erases' = IF E = {} THEN {} ELSE check_erases \ Before(check_erases, First(E))
        /\ check_installs' = check_installs \
              (CASE E # {} -> {} [] E = {} /\ I # {} -> Before(check_installs, First(I))
                 [] OTHER -> check_installs)
        /\ UNCHANGED check_file_requires

\* The checks as they are when the iteration is given up at one of NextDeps.
Passed(frame) ==
    LET E == EraseOpening(frame)
        I == InstallOpening(frame)
    IN  /\ check_erases' = check_erases \
              ((IF E = {} THEN check_erases ELSE Before(check_erases, First(E))) \ StillErased)
        /\ check_installs' = check_installs \
              ((CASE E # {} -> {} [] E = {} /\ I # {} -> Before(check_installs, First(I))
                  [] OTHER -> check_installs) \ StillInstalled)
        /\ UNCHANGED check_file_requires

PickDep ==
    /\ Running("deps")
    /\ LET frame == Settled(Top) IN
       \E u \in NextDeps(frame) :
          IF request.command = "remove"
          THEN ErasePkg(u[1]) /\ Continue([frame EXCEPT !.res = TRUE])
          ELSE /\ Passed(frame)
               /\ Call([frame EXCEPT !.dep = {u[2]}], ResolveDep(u[1], u[2]))
               /\ UNCHANGED <<dbVars, opVars, last>>
    /\ UNCHANGED Lists

EndDeps ==
    /\ Running("deps")
    /\ NextDeps(Settled(Top)) = {}
    /\ PruneChecks
    /\ Reply(Settled(Top).res)
    /\ UNCHANGED <<dbVars, opVars, last, erase_list, opkg_list, delay_obsolete,
                   delay_obsolete_list, result>>

\* __resolveDep(): add a package, else update the one, else erase it.
ResolvedDep(frame) ==
    LET name == Name[frame.pkg]
        providers == {p \in Available : frame.dep \in Owed(p)}
    IN  CASE frame.got \/ frame.at = "end" -> Reply(frame.got)
          [] ~frame.got /\ frame.at = "best" ->
               Call([frame EXCEPT !.at = "update"],
                    BestPkg("update", providers, Machine, FALSE, frame.dep \in FileDep, TRUE, TRUE))
          [] ~frame.got /\ frame.at = "update" ->
               Call([frame EXCEPT !.at = IF request.autoerase THEN "autoerase" ELSE "end"],
                    UpdateNames(FindPkgs(name), TRUE))
          [] OTHER -> Call([frame EXCEPT !.at = "end"], DoAutoerase(frame.pkg))

StepDep == Running("dep") /\ ResolvedDep(Top) /\ Quiet /\ UNCHANGED Lists

-----------------------------------------------------------------------------
(* __doAutoerase().                                                        *)

\* The log method of the message for an excluded package does not exist.
KeepExcluded ==
    /\ Running("autoerase") /\ ~Top.started
    /\ Name[Top.pkg] \in Exclude /\ Cardinality(DbNamed(Name[Top.pkg])) = 1
    /\ erase_list' = erase_list \union {Top.pkg}
    /\ result' = "raised" /\ stack' = <<>>
    /\ Quiet /\ UNCHANGED <<opkg_list, delay_obsolete, delay_obsolete_list>>

EraseAutomatically ==
    /\ Running("autoerase") /\ ~Top.started
    /\ ~(Name[Top.pkg] \in Exclude /\ Cardinality(DbNamed(Name[Top.pkg])) = 1)
    /\ ErasePkg(Top.pkg)
    /\ IF last'.ret = "OK"
       THEN /\ erase_list' = erase_list \union {Top.pkg}
            /\ Continue([Top EXCEPT !.started = TRUE, !.todo = updates[Top.pkg] \ erase_list'])
       ELSE UNCHANGED erase_list /\ Reply(FALSE)
    /\ UNCHANGED <<opkg_list, delay_obsolete, delay_obsolete_list, result>>

TakeBackUpdated ==
    /\ Running("autoerase") /\ Top.started
    /\ \/ \E p \in Top.todo : UpdatePkg(p) /\ Continue([Top EXCEPT !.todo = @ \ {p}])
       \/ Top.todo = {} /\ Reply(TRUE) /\ Quiet
    /\ UNCHANGED Lists

-----------------------------------------------------------------------------
(* Conflicts: first updates of the packages, then one of them is erased.   *)

ConflictsOf(kind) == IF kind = "conflict" THEN GetConflicts ELSE GetFileConflicts
Kinds == IF nofileconflicts THEN {"conflict"} ELSE {"conflict", "file"}

HandleConflicts(kind, res, left) ==
    [f |-> "conflicts", kind |-> kind, todo |-> ConflictsOf(kind), names |-> <<>>,
     res |-> res, left |-> left, got |-> FALSE]

\* Whose updates are tried, in this order.
Parties(kind, c) ==
    CASE kind = "file" -> <<c[2], c[1]>>
      [] kind = "conflict" /\ Sense[c] = "less" -> <<c[2]>>
      [] kind = "conflict" /\ Sense[c] = "greater" -> <<c[1]>>
      [] OTHER -> c

TryConflict ==
    /\ Running("conflicts")
    /\ CASE Top.got -> Continue(HandleConflicts(Top.kind, TRUE, Top.left))
         [] ~Top.got /\ Top.names # <<>> ->
              Call([Top EXCEPT !.names = Tail(@)], UpdateNames(FindPkgs(Head(Top.names)), TRUE))
         [] ~Top.got /\ Top.names = <<>> ->
              \E c \in Top.todo :
                 Continue([Top EXCEPT !.todo = @ \ {c},
                             !.names = [i \in DOMAIN Parties(Top.kind, c) |-> Name[Parties(Top.kind, c)[i]]]])
    /\ Quiet /\ UNCHANGED Lists

EndConflicts ==
    /\ Running("conflicts") /\ ~Top.got /\ Top.names = <<>> /\ Top.todo = {}
    /\ LET left == Top.left \/ ConflictsOf(Top.kind) # {}
       IN  IF Top.kind = "conflict" /\ "file" \in Kinds THEN Continue(HandleConflicts("file", Top.res, left))
           ELSE IF left /\ request.autoerase THEN Continue(ConflictErases("conflict"))
           ELSE Reply(Top.res)
    /\ Quiet /\ UNCHANGED Lists

\* __doConflictAutoerase(); in the end the source packages, obsoletes and the
\* lengths of the names decide.
Victim(p, q) ==
    LET d(r) == Distance[Arch[r], Machine]
    IN  CASE p \in erase_list -> {q}
          [] p \notin erase_list /\ q \in erase_list -> {p}
          [] {p, q} \intersect erase_list = {} /\ p \in Installed -> {p}
          [] {p, q} \intersect erase_list = {} /\ p \notin Installed /\ q \in Installed -> {q}
          [] OTHER -> IF d(q) < d(p) THEN {p} ELSE IF d(q) > d(p) THEN {q} ELSE {p, q}

EraseConflict ==
    /\ Running("conflictErase")
    /\ \/ \E c \in ConflictsOf(Top.kind) : \E p \in Victim(c[1], c[2]) : Call(Top, DoAutoerase(p))
       \/ /\ ConflictsOf(Top.kind) = {}
          /\ IF Top.kind = "conflict" /\ "file" \in Kinds
             THEN Continue([Top EXCEPT !.kind = "file"]) ELSE Reply(Top.got)
    /\ Quiet /\ UNCHANGED Lists

EraseObsoleting ==
    /\ Running("obsoleteConflicts")
    /\ \/ \E p \in Top.todo : Call([Top EXCEPT !.todo = @ \ {p}], DoAutoerase(p))
       \/ Top.todo = {} /\ Reply(Top.got)
    /\ Quiet /\ UNCHANGED Lists

-----------------------------------------------------------------------------
(* runArgs() and runDepRes().                                              *)

Main(at, todo) == [f |-> "main", at |-> at, todo |-> todo, got |-> FALSE]

YumInit ==
    /\ Init
    /\ request \in Requests
    /\ erase_list = {} /\ opkg_list = {}
    /\ delay_obsolete = FALSE /\ delay_obsolete_list = <<>>
    /\ obsoleteslist \in ObsoletesLists
    /\ result = "running"
    /\ stack = CASE request.command = "list" -> <<HandleObsoletes(<<>>), Main("list", {})>>
                 [] request.command = "update" /\ request.args = {} ->
                       <<Main("all", Names(Db) \intersect Names(Available))>>
                 [] OTHER -> <<Main("args", request.args)>>

UpdateAll ==
    /\ Running("main") /\ Top.at = "all"
    /\ \/ \E n \in Top.todo : Call([Top EXCEPT !.todo = @ \ {n}], UpdateNames(FindPkgs(n), FALSE))
       \/ Top.todo = {} /\ Continue(Main("args", {}))
    /\ Quiet /\ UNCHANGED Lists

\* getUpdates(): the packages of `list updates` are those an update adds, of
\* the names that match the arguments.
ListUpdates ==
    /\ Running("main") /\ Top.at = "list"
    /\ Continue(Main("names", {n \in Names(Db) \intersect Names(Available) :
                                  request.args = {} \/ n \in request.args}))
    /\ Quiet /\ UNCHANGED Lists

ListUpdate ==
    /\ Running("main") /\ Top.at = "names"
    /\ \/ /\ \E n \in Top.todo : Call([Top EXCEPT !.todo = @ \ {n}], UpdateNames(FindPkgs(n), FALSE))
          /\ UNCHANGED result
       \/ Top.todo = {} /\ stack' = <<>> /\ result' = "listed"
    /\ Quiet /\ UNCHANGED <<erase_list, opkg_list, delay_obsolete, delay_obsolete_list>>

RunArg ==
    /\ Running("main") /\ Top.at = "args"
    /\ \E n \in Top.todo :
          Call([Top EXCEPT !.todo = @ \ {n}],
               CASE request.command = "install" ->
                       BestPkg("install", FindPkgs(n), Machine, FALSE, FALSE, TRUE, FALSE)
                 [] request.command = "update" -> UpdateNames(FindPkgs(n), TRUE)
                 [] OTHER -> Removal({p \in Installed : Name[p] = n}))
    /\ delay_obsolete' = TRUE
    /\ Quiet /\ UNCHANGED <<erase_list, opkg_list, delay_obsolete_list, result>>

EndArgs ==
    /\ Running("main") /\ Top.at = "args" /\ Top.todo = {}
    /\ delay_obsolete' = TRUE
    /\ IF request.command = "update"
       THEN Call(Main("selected", {}), HandleObsoletes(delay_obsolete_list))
       ELSE Continue(Main("turn", {}))
    /\ Quiet /\ UNCHANGED <<erase_list, opkg_list, delay_obsolete_list, result>>

Selected ==
    /\ Running("main") /\ Top.at = "selected"
    /\ delay_obsolete' = FALSE /\ delay_obsolete_list' = <<>>
    /\ Continue(Main("turn", {}))
    /\ Quiet /\ UNCHANGED <<erase_list, opkg_list, result>>

\* One turn of __runDepResolution().
Phases == <<"turn", "obsoletes", "conflicts", "obsoleteConflicts", "turned">>
TurnStep ==
    /\ Running("main")
    /\ \E i \in 1 .. 4 :
          /\ Top.at = Phases[i]
          /\ Call([Top EXCEPT !.at = Phases[i + 1]],
                  CASE i = 1 -> UnresolvedDeps
                    [] i = 2 -> HandleObsoletes(delay_obsolete_list)
                    [] i = 3 -> HandleConflicts("conflict", FALSE, FALSE)
                    [] i = 4 -> ObsoleteConflicts)
    /\ delay_obsolete' = TRUE
    /\ Quiet /\ UNCHANGED <<erase_list, opkg_list, delay_obsolete_list, result>>

\* Mutant: `working` is not set back to 0 before a turn.
Mut_AgainAlways(frame) == TRUE
Again(frame) == frame.got

Turned ==
    /\ Running("main") /\ Top.at = "turned"
    /\ Continue(Main(IF Again(Top) THEN "turn" ELSE "end", {}))
    /\ delay_obsolete_list' = <<>>
    /\ Quiet /\ UNCHANGED <<erase_list, opkg_list, delay_obsolete, result>>

\* What is unresolved or in conflict now decides; runCommand() then warns of
\* the installed packages that were erased automatically.
Finish ==
    /\ Running("main") /\ Top.at = "end"
    /\ PruneChecks
    /\ result' = IF StillErased \union StillInstalled = {} /\ FileProblems = {}
                      /\ GetConflicts \union GetObsoleteConflicts = {} THEN "accepted" ELSE "refused"
    /\ erase_list' = IF result' = "accepted" THEN erase_list \intersect Installed ELSE erase_list
    /\ stack' = <<>>
    /\ UNCHANGED <<dbVars, opVars, last, opkg_list, delay_obsolete, delay_obsolete_list>>

YumStep ==
    \/ TryBest \/ EndBest \/ RemovePkgs \/ UpdateLanguage \/ ObsoletesOf
    \/ UpdateName \/ EndUpdate \/ UpdateArch \/ UpdatedArch \/ EndArchs
    \/ TryObsolete \/ EraseToReadd \/ Readd \/ EndObsoletes
    \/ PickDep \/ EndDeps \/ StepDep
    \/ KeepExcluded \/ EraseAutomatically \/ TakeBackUpdated
    \/ TryConflict \/ EndConflicts \/ EraseConflict \/ EraseObsoleting
    \/ UpdateAll \/ ListUpdates \/ ListUpdate \/ RunArg \/ EndArgs \/ Selected \/ TurnStep \/ Turned \/ Finish

YumNext == YumStep /\ UNCHANGED <<request, obsoleteslist, readd>>

-----------------------------------------------------------------------------
(* What the front end promises.                                            *)

\* Dependencies, obsoletes and conflicts undo one another's work: an added
\* package brings conflicts, an erased one dependencies.  The turns end.
Terminates == <>(result # "running")

\* A package autoerase has removed stays out: no later dependency, update,
\* obsolete or removal of another package brings it back in.
ErasedStays == result # "raised" => erase_list \intersect Db = {}

\* A transaction that is accepted breaks no dependency of the system: its
\* packages have what they need, and so have the installed ones unless they
\* lacked it before.
AcceptedBreaksNothing ==
    result = "accepted" =>
        \A u \in Unresolved(Db) :
            BrokenFromStart(u[1], u[2]) \/ u[2] \in IgnoredFileRequires

\* The names that take the place of n along a chain of obsoletes, and the packages
\* that may take that of p in the end, by updates and obsoletes.
TakesOver == {<<Name[a[2]], Name[a[1]]>> : a \in {b \in Obsoletes : Name[b[1]] # Name[b[2]]}}
Successors(n) ==
    LET names == {a[2] : a \in TakesOver}
    IN  {m \in names : \A A \in SUBSET names :
            (\A a \in TakesOver : a[1] \in A \union {n} => a[2] \in A) => m \in A}
Heirs(p) == {q \in Pkg : Name[q] = Name[p] \/ Name[q] \in Successors(Name[p])}

\* No name takes the place of another that takes its own in the end: a hypothesis of
\* proofs only, which the code does not see to.
ObsoletesEnd == \A n \in Names(Pkg) : n \notin Successors(n)

\* Without autoerase an installed package goes only in exchange: along a chain
\* of updates and obsoletes something that stays in the system replaces it.
NothingLost ==
    result = "accepted" /\ ~request.autoerase /\ request.command # "remove" =>
        \A p \in Installed \ Db : Heirs(p) \intersect Db # {}

\* No package is added that the repositories hold an obsoleting package for:
\* that one is in its place, or was erased again, or is refused.
ObsoletesApplied ==
    result = "accepted" =>
        \A i \in DOMAIN obsoleteslist : \A r \in installs :
            LET o == obsoleteslist[i]
            IN  <<o, r>> \in Obsoletes /\ Name[r] # Name[o] =>
                  \/ o \in opkg_list \union erase_list
                  \/ Refusals(o) \ {"ALREADY_ADDED"} # {}

-----------------------------------------------------------------------------
(* What a docstring says, and the code does not do.                        *)

\* __runDepResolution() resolves all dependencies, and reports those it could
\* not: in the system its operations leave, everything has what it needs.
System == (Installed \ erases) \union installs
AllResolved ==
    result = "accepted" =>
        \A p \in System : \A d \in Requires[p] :
            BrokenFromStart(p, d) \/ d \in IgnoredFileRequires \/ \E q \in System : d \in Owed(q)

=============================================================================
