------------------------------ MODULE Resolver ------------------------------
(***************************************************************************)
(* RpmResolver (pyrpm/resolver.py) on the database it works on: the        *)
(* packages a transaction adds and removes, the bookkeeping of which new   *)
(* package replaces which installed one, and the incremental dependency    *)
(* and conflict checks.                                                    *)
(*                                                                         *)
(* A package is an object (a member of Pkg); its header data are constant  *)
(* functions.  A dependency is a member of Dep; the range comparison of    *)
(* versioned dependencies is folded into Provides, Obsoletes and Conflicts.*)
(* The database is the one getMemoryCopy() returns: an RpmMemoryDB, or,    *)
(* with ShadowDB, an RpmShadowDB over an opened RpmDB.                     *)
(***************************************************************************)
EXTENDS Integers, FiniteSets

(* Definitions named Mut_... are bugs one could have written at that place. *)
(* No action uses them: they are put in for the definition that follows to  *)
(* see that a property notices.                                             *)

CONSTANTS
    Pkg, Installed,            \* package objects; those found in the database
    Name, Evr, Arch,           \* pkg["name"], rank of its EVR, pkg["arch"]
    ArchDuplicate, ArchCompat, \* pairs of architectures for which the functions are true
    NoArch,                    \* "noarch"
    Dep, FileDep,              \* dependency names; those that are file names
    Requires, Provides, Files, \* Pkg -> SUBSET Dep
    Obsoletes, Conflicts,      \* <<p, r>>: an Obsoletes: / Conflicts: of p matches r
    FileConflict,              \* <<p, r>>: _hasFileConflict() on some shared file
    ShadowDB,                  \* the database is an RpmShadowDB
    autoerase,                 \* the caller is yum's __doAutoerase() loop as well
    oldpackage, exactarch, checkinstalled, noconflicts, nofileconflicts

ASSUME PkgAssumption ==
    /\ Installed \subseteq Pkg
    /\ FileDep \subseteq Dep
    /\ Requires \in [Pkg -> SUBSET Dep]
    /\ Provides \in [Pkg -> SUBSET Dep]
    /\ Files \in [Pkg -> SUBSET FileDep]
ASSUME FlagAssumption ==
    /\ {ShadowDB, autoerase, oldpackage, exactarch} \subseteq BOOLEAN
    /\ {checkinstalled, noconflicts, nofileconflicts} \subseteq BOOLEAN

VARIABLES
    mem,       \* packages held in memory (RpmMemoryDB.pkgs)
    deleted,   \* RpmDiskShadowDB.deleted: hidden packages of the disk database
    installs, erases, updates, obsoletes,
    check_installs, check_erases, check_file_requires,
    readd,     \* __doAutoerase(): packages it still has to take back
    last       \* the last call: which, on what, and what it returned

dbVars == <<mem, deleted>>
opVars == <<installs, erases, updates, obsoletes>>
checkVars == <<check_installs, check_erases, check_file_requires>>
vars == <<mem, deleted, installs, erases, updates, obsoletes,
          check_installs, check_erases, check_file_requires, readd, last>>

Codes == {"OK", "ALREADY_INSTALLED", "OLD_PACKAGE", "NOT_INSTALLED",
          "ALREADY_ADDED", "ARCH_INCOMPAT", "UNRESOLVED", "CONFLICT",
          "FILE_CONFLICT", "AttributeError", "NotImplementedError"}
Calls == {"__init__", "install", "update", "freshen", "erase", "resolve"}

TypeOK ==
    /\ mem \subseteq Pkg
    /\ deleted \subseteq Installed
    /\ installs \subseteq Pkg
    /\ erases \subseteq Pkg
    /\ updates \in [Pkg -> SUBSET Pkg]
    /\ obsoletes \in [Pkg -> SUBSET Pkg]
    /\ check_installs \subseteq Pkg
    /\ check_erases \subseteq Pkg
    /\ check_file_requires \in BOOLEAN
    /\ readd \subseteq Installed
    /\ last \in [call : Calls, pkgs : SUBSET Pkg, ret : Codes]

-----------------------------------------------------------------------------
(* The database.                                                           *)

Disk == IF ShadowDB THEN Installed ELSE {}

\* What the searches of the database return, and __contains__ agrees with.
Db == mem \union (Disk \ deleted)

\* The database after addPkg(p) and then removePkg(r) for every r in R.  A
\* package of the disk database that is in `deleted` is looked up there and
\* entered again, so it stays hidden although addPkg returns OK.
DbPut(p, R) ==
    /\ mem' = (IF p \in deleted THEN mem ELSE mem \union {p}) \ R
    /\ deleted' = deleted \union ((R \ mem) \intersect Disk)

DbRemove(p) ==
    /\ mem' = mem \ {p}
    /\ deleted' = IF p \in mem THEN deleted ELSE deleted \union ({p} \intersect Disk)

SearchProvides(d) == {p \in Db : d \in Provides[p]}
SearchFilenames(d) == {p \in Db : d \in Files[p]}
SearchDependency(d) == SearchProvides(d) \union SearchFilenames(d)

Owed(p) == Provides[p] \union Files[p]

-----------------------------------------------------------------------------
(* Comparing a new package with those of its name.                         *)

Mut_IsInstalledForgetsErased(p) == p \notin installs /\ p \in Db

IsInstalled(p) == p \in erases \/ (p \notin installs /\ p \in Db)

SameName(p) == {r \in Db : Name[r] = Name[p]}
SameNevra(p, r) == p = r \/ (Name[p] = Name[r] /\ Evr[p] = Evr[r] /\ Arch[p] = Arch[r])
DupArch(p, r) == <<Arch[p], Arch[r]>> \in ArchDuplicate
CompatArch(p, r) == <<Arch[p], Arch[r]>> \in ArchCompat

Already(r) == IF IsInstalled(r) THEN "ALREADY_INSTALLED" ELSE "ALREADY_ADDED"

InstallCheck(p) == {Already(r) : r \in {q \in SameName(p) : SameNevra(q, p)}}

TooOld(p, r) == ~oldpackage /\ Evr[r] > Evr[p]
ArchIncompat(p, r) == exactarch /\ Arch[p] # Arch[r] /\ DupArch(p, r)
Covered(p, r) ==
    /\ Evr[p] = Evr[r]
    /\ SameNevra(p, r) \/ (DupArch(p, r) /\ CompatArch(p, r))

\* Every code the loop over the packages of the same name may return early
\* with: the order of that list is the database's.
Refusals(p) ==
    LET tooOld == {r \in SameName(p) : TooOld(p, r)}
        wrongArch == {r \in SameName(p) \ tooOld : ArchIncompat(p, r)}
        covered == {r \in SameName(p) \ (tooOld \union wrongArch) : Covered(p, r)}
    IN  {"OLD_PACKAGE" : r \in tooOld} \union {"ARCH_INCOMPAT" : r \in wrongArch}
          \union {Already(r) : r \in covered}

\* The packages the loop collects in pkg_updates when nothing is refused.
PkgUpdates(p) ==
    {r \in SameName(p) :
        \/ DupArch(p, r)
        \/ Evr[r] # Evr[p] /\ NoArch \in {Arch[p], Arch[r]}}

PkgObsoletes(p) ==
    {r \in Db : <<p, r>> \in Obsoletes /\ Name[r] # Name[p]}

-----------------------------------------------------------------------------
(* The operations.                                                         *)

Init ==
    /\ mem = Installed \ Disk
    /\ deleted = {}
    /\ installs = {}
    /\ erases = {}
    /\ updates = [p \in Pkg |-> {}]
    /\ obsoletes = [p \in Pkg |-> {}]
    /\ check_installs = IF checkinstalled THEN Installed ELSE {}
    /\ check_erases = {}
    /\ check_file_requires = FALSE
    /\ readd = {}
    /\ last = [call |-> "__init__", pkgs |-> {}, ret |-> "OK"]

Return(call, P, ret) == last' = [call |-> call, pkgs |-> P, ret |-> ret]

\* installed_unresolved_file_requires, computed once by __init__.
IgnoredFileRequires ==
    IF checkinstalled THEN {}
    ELSE {d \in FileDep :
            /\ \E p \in Installed : d \in Requires[p]
            /\ \A p \in Installed : d \notin Owed(p)}

Refuse(call, p, codes) ==
    /\ \E c \in codes : Return(call, {p}, c)
    /\ UNCHANGED <<dbVars, opVars, checkVars>>

\* What packages of the transaction, replaced in their turn, had replaced.
Mut_InheritedNothing(f, R) == {}
Inherited(f, R) == UNION {f[r] : r \in R}

\* install() followed by _pkgUpdate() of every r in U and _pkgObsolete() of
\* every r in O: what they replace is recorded under p, or inherited by p if
\* it was itself added by this transaction.
Place(call, p, U, O) ==
    LET gone == U \union O
        old == {r \in gone : IsInstalled(r)}
    IN  /\ DbPut(p, gone)
        /\ installs' = (IF IsInstalled(p) THEN installs ELSE installs \union {p}) \ gone
        /\ erases' = (erases \ {p}) \union old
        /\ updates' = [q \in Pkg |->
                CASE q = p -> updates[p] \union (U \intersect old) \union Inherited(updates, gone \ old)
                  [] q \in gone -> {}
                  [] OTHER -> updates[q]]
        /\ obsoletes' = [q \in Pkg |->
                CASE q = p -> obsoletes[p] \union (O \intersect old) \union Inherited(obsoletes, gone \ old)
                  [] q \in gone -> {}
                  [] OTHER -> obsoletes[q]]
        /\ check_installs' = (check_installs \union {p}) \ gone
        /\ check_erases' = check_erases \union gone
        /\ check_file_requires' = (check_file_requires \/ gone # {})
        /\ Return(call, {p}, "OK")

InstallPkg(p) ==
    \/ InstallCheck(p) # {} /\ Refuse("install", p, InstallCheck(p))
    \/ InstallCheck(p) = {} /\ Place("install", p, {}, {})

UpdatePkg(p) ==
    \/ Refusals(p) # {} /\ Refuse("update", p, Refusals(p))
    \/ Refusals(p) = {} /\ Place("update", p, PkgUpdates(p), PkgObsoletes(p))

\* The database class has no getPkgByName: the call raises before it does
\* anything.
FreshenPkg(p) == Refuse("freshen", p, {"AttributeError"})

Forget(f, p) == [f EXCEPT ![p] = {}]

ErasePkg(p) ==
    \/ p \notin Db /\ Refuse("erase", p, {"NOT_INSTALLED"})
    \/ /\ p \in Db
       /\ erases' = IF IsInstalled(p) THEN erases \union {p} ELSE erases
       /\ installs' = installs \ {p}
       /\ check_installs' = check_installs \ {p}
       /\ updates' = Forget(updates, p)
       /\ obsoletes' = Forget(obsoletes, p)
       /\ check_erases' = check_erases \union {p}
       /\ check_file_requires' = TRUE
       /\ DbRemove(p)
       /\ Return("erase", {p}, "OK")

-----------------------------------------------------------------------------
(* resolve(): dependencies, then conflicts, then file conflicts.           *)

Unresolved(P) == {u \in P \X Dep : u[2] \in Requires[u[1]] /\ SearchDependency(u[2]) = {}}

\* iterUnresolvedDependencies: only the changes done to the database.
EraseProblems(e) ==
    {u \in Db \X Dep :
        u[2] \in Requires[u[1]] \intersect Provides[e] /\ SearchProvides(u[2]) = {}}
FileProblems ==
    {u \in Unresolved(Db) :
        check_file_requires /\ u[2] \in FileDep \ IgnoredFileRequires}

Mut_StillErasedNone == {}
StillErased == {e \in check_erases : EraseProblems(e) # {}}
StillInstalled == {p \in check_installs : Unresolved({p}) # {}}

Mut_CheckDependenciesNoFiles ==
    IF StillErased = {} /\ StillInstalled = {} THEN "OK" ELSE "UNRESOLVED"

\* With checkinstalled every package is looked at, and reporting a missing
\* dependency calls the logger method log.erro, which does not exist.
CheckDependencies ==
    IF checkinstalled
    THEN IF Unresolved(Db) = {} THEN "OK" ELSE "AttributeError"
    ELSE IF StillErased = {} /\ StillInstalled = {} /\ FileProblems = {}
         THEN "OK" ELSE "UNRESOLVED"

PruneChecks ==
    IF checkinstalled THEN UNCHANGED checkVars
    ELSE /\ check_erases' = StillErased
         /\ check_installs' = StillInstalled
         /\ check_file_requires' =
                (check_file_requires /\ (FileProblems # {} \/ StillErased # {}))

SameNevr(p, r) == Name[p] = Name[r] /\ Evr[p] = Evr[r]
Checked == IF checkinstalled THEN Db ELSE installs

GetConflicts ==
    {c \in (Conflicts \union Obsoletes) \intersect (Checked \X Db) : ~SameNevr(c[1], c[2])}
GetObsoleteConflicts ==
    IF checkinstalled THEN {}
    ELSE Obsoletes \intersect ((Db \ installs) \X (installs \intersect Db))
GetFileConflicts ==
    {c \in FileConflict \intersect (Checked \X Db) : c[1] # c[2]}

CheckConflicts ==
    IF noconflicts \/ GetConflicts \union GetObsoleteConflicts = {} THEN "OK" ELSE "CONFLICT"
\* A joint database has no getFileDuplicates, which checkinstalled asks for.
CheckFileConflicts ==
    IF ~nofileconflicts /\ checkinstalled /\ ShadowDB THEN "NotImplementedError"
    ELSE IF nofileconflicts \/ GetFileConflicts = {} THEN "OK" ELSE "FILE_CONFLICT"

\* The first check that fails decides what resolve() returns.
ResolveResult ==
    IF CheckDependencies # "OK" THEN CheckDependencies
    ELSE IF CheckConflicts # "OK" THEN CheckConflicts
    ELSE CheckFileConflicts

Resolve ==
    /\ PruneChecks
    /\ Return("resolve", {}, ResolveResult)
    /\ UNCHANGED <<dbVars, opVars>>

-----------------------------------------------------------------------------
(* The callers: packages to add were just read and are not installed, any  *)
(* package may be erased.  __doAutoerase() erases one package and then     *)
(* takes back, by update(), the installed packages that one had replaced.  *)

Idle == readd = {} /\ UNCHANGED readd

Install(p) == Idle /\ p \notin Installed /\ InstallPkg(p)
Update(p) == Idle /\ p \notin Installed /\ UpdatePkg(p)
Freshen(p) == Idle /\ p \notin Installed /\ FreshenPkg(p)
Erase(p) == Idle /\ ErasePkg(p)
Check == Idle /\ Resolve

Autoerase(p) ==
    /\ autoerase /\ readd = {} /\ p \in Db
    /\ ErasePkg(p)
    /\ readd' = updates[p] \intersect Installed

TakeBack(p) ==
    /\ p \in readd
    /\ UpdatePkg(p)
    /\ readd' = readd \ {p}

Next ==
    \/ \E p \in Pkg : Install(p) \/ Update(p) \/ Freshen(p) \/ Erase(p)
    \/ \E p \in Pkg : Autoerase(p) \/ TakeBack(p)
    \/ Check

Spec == Init /\ [][Next]_vars

-----------------------------------------------------------------------------
(* What the resolver promises.                                             *)

\* The database the checks run on is the system as the collected operations
\* will leave it: what was installed and is not erased, and what is added.
\* Only then does "dependencies are resolved" say anything about the system.
DatabaseMatchesOperations ==
    /\ Db = (Installed \ erases) \union installs
    /\ installs \intersect Installed = {}
    /\ erases \subseteq Installed

\* Every installed package is replaced by at most one new package, which is
\* in the transaction, and what a new package is said to replace is erased:
\* across chains of updates and obsoletes nothing is inherited twice, kept by
\* a package that left the transaction, or listed while it stays installed.
ReplacedOnce ==
    \A p \in Pkg :
        LET old == updates[p] \union obsoletes[p]
        IN  /\ old \subseteq erases
            /\ old # {} => p \in installs
            /\ updates[p] \intersect obsoletes[p] = {}
            /\ \A q \in Pkg \ {p} : old \intersect (updates[q] \union obsoletes[q]) = {}

\* An update never loses track of an installed package: whatever some package
\* of the transaction replaces before the step, one replaces after it.
Replaced == UNION {updates[p] \union obsoletes[p] : p \in Pkg}
ReplacementsInherited == [][last'.call = "update" => Replaced \subseteq Replaced']_vars

BrokenFromStart(p, d) == p \in Installed /\ \A q \in Installed : d \notin Owed(q)

\* The sets of pending checks never forget a change: a dependency that is
\* unresolved now, and was not so before the transaction, is found by the
\* incremental checks, except for the file names __init__ found missing.
ChangesRemembered ==
    ~checkinstalled =>
        \A p \in Db : \A d \in Requires[p] :
            SearchDependency(d) = {} =>
                \/ p \in check_installs
                \/ \E e \in check_erases : d \in Provides[e]
                \/ d \in FileDep /\ check_file_requires
                \/ d \in IgnoredFileRequires
                \/ BrokenFromStart(p, d)

\* A transaction resolve() accepts breaks no dependency that was satisfied
\* before it: everything unresolved was so from the start, or is a file name
\* that was missing from the start.
ResolvedBreaksNothing ==
    last.call = "resolve" /\ last.ret = "OK" =>
        \A u \in Unresolved(Db) :
            BrokenFromStart(u[1], u[2]) \/ u[2] \in IgnoredFileRequires

=============================================================================
