------------------------------- MODULE Repos --------------------------------
(***************************************************************************)
(* The repositories in a transaction of pyrpmyum: JointDB of SqliteRepoDB  *)
(* and RpmRepoDB (pyrpm/database/), and the database of the packages to be *)
(* installed, an RpmExternalSearchDB, that asks them.                      *)
(*                                                                         *)
(* RpmExternalSearchDB is an RpmMemoryDB: the variables of MemoryDB are    *)
(* its packages and indexes.  Searches for files it sends to the           *)
(* repositories and keeps the answers, and the repositories know only a    *)
(* part of the files until their complete lists have been imported, which  *)
(* YumControl does when a requirement calls for it.  How the lists are     *)
(* fetched is in RepoFiles; here an import is done or it failed.           *)
(***************************************************************************)
EXTENDS MemoryDB, FiniteSets

CONSTANTS
    Repo,         \* the repositories of the configuration
    Sqlite,       \* those read into sqlite databases; the others are parsed
    MemoryRepo,   \* the repository of the packages given as files
    From,         \* the repository a package is in
    Excluded,     \* the packages the configuration excludes
    File,
    InPrimary,    \* the files that primary.xml lists: bin/, /etc, sendmail
    Owns,         \* the files of a package
    FileRequires, \* the files a package requires
    Required,     \* the files the installed packages require
    NotCached

ASSUME ReposAssumption ==
    /\ Sqlite \subseteq Repo /\ MemoryRepo \notin Repo
    /\ From \in [Pkg -> Repo \union {MemoryRepo}] /\ Excluded \subseteq Pkg
    /\ InPrimary \subseteq File /\ Required \subseteq File
    /\ Owns \in [Pkg -> SUBSET File] /\ "none" \notin File
    /\ FileRequires \in [Pkg -> SUBSET File]
    /\ \A S \in SUBSET Pkg : NotCached # S

VARIABLES
    dbs,          \* JointDB.dbs
    imported,     \* the repositories whose complete lists are there
    index,        \* filenames_list of a parsed repository: none, primary or full
    filecache,    \* of the RpmExternalSearchDB: the packages that own a file
    filerequires, \* and the packages whose file requirements it knows
    filereqs,     \* the requirements the lists were imported for
    failed,       \* history: <<r, f>> if the lists of r could not be had for f
    early,        \* history: files whose answers are kept from before the arguments
    phase,        \* of YumControl
    dep, outcome  \* the file requirement at hand, what became of the last one

searchVars == <<dbs, imported, index, filecache, filerequires, filereqs, failed, early>>
reposVars == <<vars, searchVars, phase, dep, outcome>>

NoOutcome == <<"none", "none">>
AnyRepo == Repo \union {MemoryRepo}

NewJointDB == dbs = Repo
NewExternalSearchDB ==
    filecache = [f \in File |-> NotCached] /\ filerequires = NotCached

ReposInit ==
    /\ Init
    /\ NewJointDB /\ NewExternalSearchDB
    /\ imported = {}
    /\ index = [r \in AnyRepo |-> "none"]
    /\ filereqs = {} /\ failed = {} /\ early = {}
    /\ phase = "prepare" /\ dep = "none" /\ outcome = NoOutcome

-----------------------------------------------------------------------------
(* Searching the repositories.                                             *)

\* _isExcluded() keeps a package from being added, or from being found by key.
PkgsOf(r) == {p \in Pkg \ Excluded : From[p] = r}
Owners(r, f) == {p \in PkgsOf(r) : f \in Owns[p]}
Available == UNION {PkgsOf(r) : r \in dbs}

\* Packages given as files come with all their files.
Complete(r) == r \in imported \/ r = MemoryRepo

\* A parsed repository answers from the index of the files it had when that was
\* built; the sqlite databases are always those of the moment.
IndexAfter(r) ==
    IF r \in Sqlite \/ r \notin dbs \/ index[r] # "none" THEN index[r]
    ELSE IF Complete(r) THEN "full" ELSE "primary"

SearchRepo(r, f) ==
    IF f \in InPrimary \/ (IF r \in Sqlite THEN Complete(r) ELSE IndexAfter(r) = "full")
    THEN Owners(r, f) ELSE {}

SearchRepos(f) == UNION {SearchRepo(r, f) : r \in dbs}
IndexesUsed == index' = [r \in AnyRepo |-> IndexAfter(r)]

\* RpmExternalSearchDB.searchFilenames(): the first answer is kept.
Answer(f) == IF filecache[f] = NotCached THEN SearchRepos(f) ELSE filecache[f]
SearchFiles(F) ==
    /\ filecache' = [f \in File |-> IF f \in F THEN Answer(f) ELSE filecache[f]]
    /\ IF F = {} THEN UNCHANGED index ELSE IndexesUsed

Found(f) == Answer(f) \intersect pkgs

\* getFileRequires(): nothing is asked for while there are no packages.
RequiresKnown ==
    IF pkgs # {} /\ filerequires = NotCached THEN Available ELSE filerequires

FilesRequired(known) ==
    UNION {FileRequires[p] : p \in IF known = NotCached THEN {} ELSE pkgs \intersect known}

\* getUnresolvedFileRequires() of the resolver.
CheckFileRequires ==
    /\ filerequires' = RequiresKnown
    /\ SearchFiles(Required \union FilesRequired(filerequires'))
    /\ UNCHANGED <<dbs, imported, filereqs, failed>>

-----------------------------------------------------------------------------
(* YumControl.                                                             *)

\* prepareTransaction(): the resolver looks for what is missing already.
PrepareTransaction ==
    /\ phase = "prepare" /\ phase' = "args"
    /\ CheckFileRequires
    /\ early' = {f \in File : filecache'[f] # NotCached}
    /\ UNCHANGED <<vars, dep, outcome>>

AddDB(r) == dbs' = dbs \union {r}

\* runArgs(): arguments that are files or directories make up a repository.  The
\* answers that are kept by now do not know of it.
ReadArgs ==
    /\ phase = "args" /\ phase' = "resolve"
    /\ \/ AddDB(MemoryRepo) /\ PkgsOf(MemoryRepo) # {}
       \/ UNCHANGED dbs
    /\ UNCHANGED <<vars, imported, index, filecache, filerequires, filereqs, failed, early, dep, outcome>>

Resolving == phase = "resolve" /\ Running /\ UNCHANGED phase

Check ==
    /\ Resolving /\ dep = "none"
    /\ CheckFileRequires
    /\ UNCHANGED <<vars, early, dep, outcome>>

\* Packages come and go by name, by obsoletes and by other requirements.
Change ==
    /\ Resolving /\ dep = "none"
    /\ \/ \E p \in Available : AddPkg(p)
       \/ \E p \in Pkg : RemovePkg(p)
       \/ \E t \in Tag : Use(t)
    /\ outcome' = NoOutcome
    /\ UNCHANGED <<searchVars, dep>>

\* __resolveDep(): for a file that primary.xml does not list, the complete
\* lists of all repositories are imported, once for every such requirement.
Mut_ImportOnce(f) ==
    IF filereqs # {} \/ f \in InPrimary THEN {} ELSE dbs \ imported

ToImport(f) == IF f \in filereqs \/ f \in InPrimary THEN {} ELSE dbs \ imported

\* reloadDependencies() of the repositories and of the transaction.
Mut_ReloadKeepsFiles(F) == ReloadDependencies /\ UNCHANGED filecache

Reload(F) == ReloadDependencies /\ filecache' = [f \in File |-> NotCached]

Wanted == Required \union UNION {FileRequires[p] : p \in pkgs}

\* Their reloadDependencies() drops the index.
ReloadRepos(asked) ==
    index' = [r \in AnyRepo |-> IF r \in asked THEN "none" ELSE index[r]]

\* The complete lists of the repositories that were asked, of those that could
\* be had.
ImportFilelist(asked, f) ==
    \E got \in SUBSET (asked \ {MemoryRepo}) :
        /\ imported' = imported \union got
        /\ failed' = failed \union ((asked \ got) \X {f})
        /\ ReloadRepos(asked)

ResolveDep(f) ==
    /\ Resolving /\ dep = "none"
    /\ f \in Wanted /\ filecache[f] # NotCached /\ Found(f) = {}
    /\ dep' = f /\ outcome' = NoOutcome
    /\ filereqs' = filereqs \union {f}
    /\ LET asked == ToImport(f)
       IN  /\ ImportFilelist(asked, f)
           /\ IF asked = {} THEN UNCHANGED <<vars, filecache, early>>
              ELSE Reload(asked) /\ early' = {}
    /\ UNCHANGED <<dbs, filerequires>>

Ended(result) == dep' = "none" /\ outcome' = <<result, dep>>

\* What ends a requirement searches for its file once more.
LastSearch(result) ==
    /\ SearchFiles({dep}) /\ Ended(result)
    /\ UNCHANGED <<dbs, imported, filerequires, filereqs, failed, early>>

\* After an import a package of the transaction may turn out to own the file.
FoundAfterImport ==
    /\ Resolving /\ dep # "none" /\ filecache[dep] = NotCached
    /\ Found(dep) # {}
    /\ LastSearch("resolved") /\ UNCHANGED vars

\* __handleBestPkg passes over what is in the transaction already.
Candidates == SearchRepos(dep) \ pkgs

Searching == Resolving /\ dep # "none" /\ Found(dep) = {}

AddOwner ==
    /\ Searching
    /\ \E p \in Candidates : AddPkg(p)
    /\ LastSearch("resolved")

\* The user wants none of them, or the resolver does not take them.
OwnersRefused ==
    /\ Searching /\ Candidates # {}
    /\ LastSearch("refused") /\ UNCHANGED vars

NoOwner ==
    /\ Searching /\ Candidates = {}
    /\ LastSearch("missing") /\ UNCHANGED vars

ReposNext ==
    \/ PrepareTransaction \/ ReadArgs \/ Check \/ Change
    \/ \E f \in File : ResolveDep(f)
    \/ FoundAfterImport \/ AddOwner \/ OwnersRefused \/ NoOwner

ReposSpec == ReposInit /\ [][ReposNext]_reposVars

-----------------------------------------------------------------------------
(* What the resolver may rely on.                                          *)

\* A file that a package of the transaction is known to own is found to be
\* owned by it, whatever was searched for before the lists were imported.  Those
\* that came as files are passed over where the answer is older than they are.
IsKnown(p, f) == f \in Owns[p] /\ (f \in InPrimary \/ Complete(From[p]))
Outdated(r, f) == r = MemoryRepo /\ f \in early

KnownIsFound ==
    \A p \in pkgs, f \in File :
        IsKnown(p, f) /\ ~Outdated(From[p], f) => p \in Found(f)

\* The file requirements of every package of the transaction are checked, also
\* of those that came into the repositories after the first check.
RequirementsKnown ==
    filerequires # NotCached => pkgs \subseteq filerequires

\* A check of the transaction sees all files and all requirements of its packages,
\* but for files that packages given as files own and that were searched for before
\* these were read.
NothingOverlooked == KnownIsFound /\ RequirementsKnown

\* A file is said to be missing only if no repository has it but those whose
\* lists could not be had when they were asked for because of it, or if a package
\* of the transaction is overlooked, with the same exception.
MissingIsMissing ==
    \A f \in File : outcome = <<"missing", f>> =>
        \A r \in dbs : Owners(r, f) # {} =>
            \/ ~Complete(r) /\ <<r, f>> \in failed
            \/ Outdated(r, f) /\ Owners(r, f) \subseteq pkgs

=============================================================================
