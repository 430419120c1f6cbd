----------------------------- MODULE ReposProofs -----------------------------
(***************************************************************************)
(* Proofs about RpmMemoryDB, and about the repositories of a transaction   *)
(* and the database that asks them.  The state of an RpmMemoryDB stays     *)
(* within its types whatever the headers say; its indexes agree with the   *)
(* packages if the headers provide the package names.                      *)
(*                                                                         *)
(* The database of a transaction is an RpmMemoryDB, so all this is true of *)
(* it.  What it adds is a cache of answers and a set of packages whose     *)
(* requirements were read.  The latter is right because nothing asks for   *)
(* requirements before the packages are all there; the answers are, but    *)
(* for those given before the packages that came as files, because file    *)
(* lists change only where every answer is dropped.                        *)
(***************************************************************************)
EXTENDS Repos, TLAPS

-----------------------------------------------------------------------------
(* RpmMemoryDB.                                                            *)

LEMMA BuiltType == ASSUME TypeOK PROVE Built \subseteq Tag
BY DEF TypeOK, Built

LEMMA InsertRemoveType ==
    ASSUME NEW f \in [Key -> SUBSET Pkg], NEW K, NEW p \in Pkg
    PROVE  Insert(f, K, p) \in [Key -> SUBSET Pkg] /\ Remove(f, K, p) \in [Key -> SUBSET Pkg]
BY DEF Insert, Remove

LEMMA RemovedFromType ==
    ASSUME TypeOK, NEW t \in Tag, NEW p \in Pkg
    PROVE  RemovedFrom(t, p) \in [Key -> SUBSET Pkg]
<1> DEFINE rest == Remove(hash[Provides], Entries(Provides, p), p)
<1>1. rest \in [Key -> SUBSET Pkg] /\ Remove(hash[t], Entries(t, p), p) \in [Key -> SUBSET Pkg]
  BY InsertRemoveType, MemoryDBAssumption DEF TypeOK
<1>2. ProvidesAfter(p) \in {rest, [rest EXCEPT ![Last[p]] = {}]}
  BY DEF ProvidesAfter
<1> HIDE DEF rest
<1> QED
  BY <1>1, <1>2 DEF RemovedFrom

\* The types of every variable hold in every state, for any packages and
\* indexes (RpmMemoryDB.__init__ and its operations).
THEOREM TypeCorrect == Spec => []TypeOK
<1>1. Init => TypeOK
  BY DEF Init, TypeOK, NoEntries
<1>2. TypeOK /\ [Next]_vars => TypeOK'
  <2> SUFFICES ASSUME TypeOK, [Next]_vars PROVE TypeOK'
    OBVIOUS
  <2> USE MemoryDBAssumption
  <2>1. ASSUME NEW p \in Pkg, AddPkg(p) PROVE TypeOK'
    <3>1. \A t \in Tag : Insert(hash[t], Entries(t, p), p) \in [Key -> SUBSET Pkg]
      BY InsertRemoveType DEF TypeOK
    <3>2. Insert(names, {Name[p]}, p) \in [Key -> SUBSET Pkg]
      BY InsertRemoveType DEF TypeOK
    <3>3. CASE p \in names[Name[p]]
      BY <2>1, <3>3 DEF AddPkg, TypeOK
    <3>4. CASE p \notin names[Name[p]]
      <4> DEFINE after(t) ==
            IF t \in Built THEN Insert(hash[t], Entries(t, p), p) ELSE hash[t]
      <4>1. \A t \in Tag : after(t) \in [Key -> SUBSET Pkg]
        BY <3>1 DEF TypeOK
      <4>2. hash' = [t \in Tag |-> after(t)]
        BY <2>1, <3>4 DEF AddPkg
      <4> HIDE DEF after
      <4>3. hash' \in [Tag -> [Key -> SUBSET Pkg]]
        BY <4>1, <4>2
      <4>4. UNCHANGED lists /\ ret' = "OK" /\ names' = Insert(names, {Name[p]}, p)
            /\ pkgs' = pkgs \union {p}
        BY <2>1, <3>4 DEF AddPkg
      <4> QED
        BY <3>2, <4>3, <4>4 DEF TypeOK
    <3> QED
      BY <3>3, <3>4
  <2>2. ASSUME NEW p \in Pkg, RemovePkg(p) PROVE TypeOK'
    <3>1. CASE p \notin names[Name[p]]
      BY <2>2, <3>1 DEF RemovePkg, TypeOK
    <3>2. CASE p \in names[Name[p]]
      <4> DEFINE after(t) == IF Reached(t, p) THEN RemovedFrom(t, p) ELSE hash[t]
      <4>1. \A t \in Tag : after(t) \in [Key -> SUBSET Pkg]
        BY RemovedFromType DEF TypeOK
      <4>2. hash' = [t \in Tag |-> after(t)]
        BY <2>2, <3>2 DEF RemovePkg
      <4> HIDE DEF after
      <4>3. hash' \in [Tag -> [Key -> SUBSET Pkg]]
        BY <4>1, <4>2
      <4>4. names' \in [Key -> SUBSET Pkg]
        <5>1. names' = Remove(names, {Name[p]}, p)
          BY <2>2, <3>2 DEF RemovePkg
        <5> QED
          BY <5>1, InsertRemoveType DEF TypeOK
      <4>5. UNCHANGED lists /\ ret' \in {"OK", "raised"} /\ pkgs' = pkgs \ {p}
        <5> DEFINE raises == Provides \in Built /\ RaisesKeyError(p)
        <5>1. /\ UNCHANGED lists /\ pkgs' = pkgs \ {p}
              /\ ret' = IF raises THEN "raised" ELSE "OK"
          BY <2>2, <3>2 DEF RemovePkg
        <5> HIDE DEF raises
        <5> QED
          BY <5>1
      <4> QED
        BY <4>3, <4>4, <4>5 DEF TypeOK
    <3> QED
      BY <3>1, <3>2
  <2>3. ASSUME NEW t \in Tag, Use(t) PROVE TypeOK'
    <3>1. FromPkgs(t) \in [Key -> SUBSET Pkg]
      BY DEF FromPkgs, TypeOK
    <3> QED
      BY <2>3, <3>1 DEF Use, TypeOK
  <2>4. ASSUME ReloadDependencies PROVE TypeOK'
    BY <2>4 DEF ReloadDependencies, TypeOK, NoEntries
  <2>5. ASSUME Clear PROVE TypeOK'
    BY <2>5 DEF Clear, TypeOK, NoEntries
  <2>6. ASSUME UNCHANGED vars PROVE TypeOK'
    BY <2>6 DEF vars, TypeOK
  <2> QED
    BY <2>1, <2>2, <2>3, <2>4, <2>5, <2>6 DEF Next
<1> QED
  BY <1>1, <1>2, PTL DEF Spec

-----------------------------------------------------------------------------
(* Removing a package from an index that agrees with the packages.         *)

\* While the indexes agree, ProvidesList.removePkg finds every entry it looks
\* for.
LEMMA NeverRaises ==
    ASSUME SelfProvided, TypeOK, IndexesAgree, Provides \in Built,
           NEW p \in pkgs
    PROVE  ~RaisesKeyError(p)
<1>1. p \in Pkg /\ Name[p] \in Keys[Provides][p] /\ (p \in Named \/ Last[p] = Name[p])
  BY DEF TypeOK, SelfProvided
<1>2. \A k \in Keys[Provides][p] : p \in hash[Provides][k]
  <2>1. hash[Provides] = [k \in Key |-> {q \in pkgs : k \in Entries(Provides, q)}]
    BY DEF IndexesAgree, FromPkgs
  <2>2. Keys[Provides][p] \subseteq Key /\ Keys[Provides][p] \subseteq Entries(Provides, p)
    BY <1>1, MemoryDBAssumption DEF Entries
  <2> QED
    BY <2>1, <2>2
<1>3. Name[p] \in Keys[Provides][p] /\ \A k \in Keys[Provides][p] : hash[Provides][k] # {}
  BY <1>1, <1>2
<1>4. OnlyByList(p) => Last[p] = Name[p]
  BY <1>1 DEF OnlyByList
<1> QED
  BY <1>3, <1>4 DEF RaisesKeyError

\* The key it deletes in the end is empty already.
LEMMA ProvidesAfterRemoves ==
    ASSUME SelfProvided, TypeOK, NEW p \in Pkg
    PROVE  ProvidesAfter(p) = Remove(hash[Provides], Entries(Provides, p), p)
<1> DEFINE rest == Remove(hash[Provides], Entries(Provides, p), p)
<1>1. CASE OnlyByList(p)
  <2>1. Last[p] = Name[p] /\ Name[p] \in Key /\ Name[p] \in Entries(Provides, p)
    BY <1>1, MemoryDBAssumption DEF SelfProvided, OnlyByList, Entries
  <2>2. rest[Name[p]] = {}
    BY <1>1, <2>1 DEF OnlyByList, Remove
  <2>3. [rest EXCEPT ![Last[p]] = {}] = rest
    BY <2>1, <2>2 DEF Remove
  <2> QED
    BY <1>1, <2>3 DEF ProvidesAfter
<1>2. CASE ~OnlyByList(p)
  BY <1>2 DEF ProvidesAfter
<1> QED
  BY <1>1, <1>2

LEMMA StillAgree ==
    ASSUME IndexesAgree, UNCHANGED <<pkgs, names, lists, hash>>
    PROVE  IndexesAgree'
<1>1. NamesAgree' /\ Built' = Built /\ \A t \in Built : FromPkgs(t)' = FromPkgs(t)
  BY DEF IndexesAgree, NamesAgree, Built, FromPkgs
<1> QED
  BY <1>1 DEF IndexesAgree

\* If every package provides its own name, each index in use and the names
\* agree with the packages after any calls of addPkg, removePkg, searches that
\* build an index, reloadDependencies and clear.
THEOREM IndexesAgreeHolds == ASSUME SelfProvided PROVE Spec => []IndexesAgree
<1>1. Init => IndexesAgree
  BY DEF Init, IndexesAgree, NamesAgree, Built, NoEntries
<1>2. TypeOK /\ IndexesAgree /\ [Next]_vars => IndexesAgree'
  <2> SUFFICES ASSUME TypeOK, IndexesAgree, [Next]_vars PROVE IndexesAgree'
    OBVIOUS
  <2> USE MemoryDBAssumption
  <2>1. ASSUME NEW p \in Pkg, AddPkg(p) PROVE IndexesAgree'
    <3>1. CASE p \in names[Name[p]]
      BY <2>1, <3>1, StillAgree DEF AddPkg
    <3>2. CASE p \notin names[Name[p]]
      <4>1. NamesAgree'
        <5>1. pkgs' = pkgs \union {p} /\ names' = Insert(names, {Name[p]}, p)
          BY <2>1, <3>2 DEF AddPkg
        <5> QED
          BY <5>1 DEF IndexesAgree, NamesAgree, Insert, TypeOK
      <4>2. Built' = Built /\ Built \subseteq Tag
        BY <2>1, <3>2, BuiltType DEF AddPkg, Built
      <4>3. ASSUME NEW t \in Built PROVE hash'[t] = FromPkgs(t)'
        <5>1. hash'[t] = Insert(FromPkgs(t), Entries(t, p), p)
          BY <2>1, <3>2, <4>2 DEF AddPkg, IndexesAgree
        <5>2. pkgs' = pkgs \union {p}
          BY <2>1, <3>2 DEF AddPkg
        <5> QED
          BY <5>1, <5>2 DEF Insert, FromPkgs
      <4> QED
        BY <4>1, <4>2, <4>3 DEF IndexesAgree
    <3> QED
      BY <3>1, <3>2
  <2>2. ASSUME NEW p \in Pkg, RemovePkg(p) PROVE IndexesAgree'
    <3>1. CASE p \notin names[Name[p]]
      BY <2>2, <3>1, StillAgree DEF RemovePkg
    <3>2. CASE p \in names[Name[p]]
      <4>1. p \in pkgs
        BY <3>2 DEF IndexesAgree, NamesAgree
      <4>2. NamesAgree'
        <5>1. pkgs' = pkgs \ {p} /\ names' = Remove(names, {Name[p]}, p)
          BY <2>2, <3>2 DEF RemovePkg
        <5> QED
          BY <5>1 DEF IndexesAgree, NamesAgree, Remove, TypeOK
      <4>3. Built' = Built /\ Built \subseteq Tag
        BY <2>2, <3>2, BuiltType DEF RemovePkg, Built
      <4>4. ASSUME NEW t \in Built PROVE hash'[t] = FromPkgs(t)'
        <5>1. Reached(t, p)
          BY <4>1, NeverRaises DEF Reached
        <5>2. RemovedFrom(t, p) = Remove(FromPkgs(t), Entries(t, p), p)
          BY ProvidesAfterRemoves DEF RemovedFrom, IndexesAgree
        <5>3. hash'[t] = Remove(FromPkgs(t), Entries(t, p), p) /\ pkgs' = pkgs \ {p}
          BY <2>2, <3>2, <4>3, <5>1, <5>2 DEF RemovePkg
        <5> QED
          BY <5>3 DEF Remove, FromPkgs
      <4> QED
        BY <4>2, <4>3, <4>4 DEF IndexesAgree
    <3> QED
      BY <3>1, <3>2
  <2>3. ASSUME NEW t \in Tag, Use(t) PROVE IndexesAgree'
    <3>1. Built' = Built \union {t}
      <4>1. lists' = Append(lists, t) /\ lists \in Seq(Tag)
        BY <2>3 DEF Use, TypeOK
      <4> QED
        <5>1. DOMAIN lists' = DOMAIN lists \union {Len(lists) + 1}
          BY <4>1
        <5>2. lists'[Len(lists) + 1] = t /\ \A i \in DOMAIN lists : lists'[i] = lists[i]
          BY <4>1
        <5> QED
          BY <5>1, <5>2 DEF Built
    <3>2. \A u \in Tag : FromPkgs(u)' = FromPkgs(u)
      BY <2>3 DEF Use, FromPkgs
    <3>3. \A u \in Built' : hash'[u] = FromPkgs(u)'
      BY <2>3, <3>1, <3>2, BuiltType DEF Use, IndexesAgree, TypeOK
    <3> QED
      BY <2>3, <3>3 DEF Use, IndexesAgree, NamesAgree
  <2>4. ASSUME ReloadDependencies PROVE IndexesAgree'
    BY <2>4 DEF ReloadDependencies, IndexesAgree, NamesAgree, Built
  <2>5. ASSUME Clear PROVE IndexesAgree'
    BY <2>5 DEF Clear, IndexesAgree, NamesAgree, Built, NoEntries
  <2>6. ASSUME UNCHANGED vars PROVE IndexesAgree'
    BY <2>6, StillAgree DEF vars
  <2> QED
    BY <2>1, <2>2, <2>3, <2>4, <2>5, <2>6 DEF Next
<1> QED
  BY <1>1, <1>2, TypeCorrect, PTL DEF Spec

-----------------------------------------------------------------------------
(* The database of a transaction.                                          *)

\* The changes of the database of the transaction are those of an RpmMemoryDB.
\* A package that is added comes from a repository.
LEMMA ActionsOfMemoryDB ==
    ASSUME ReposNext
    PROVE  \/ Running /\ \E p \in Available : AddPkg(p)
           \/ Running /\ \E p \in Pkg : RemovePkg(p)
           \/ Running /\ \E t \in Tag : Use(t)
           \/ Running /\ ReloadDependencies
           \/ UNCHANGED vars
<1>1. CASE Change
  BY <1>1 DEF Change, Resolving
<1>2. ASSUME NEW f \in File, ResolveDep(f)
      PROVE  Running /\ (ReloadDependencies \/ UNCHANGED vars)
  BY <1>2 DEF ResolveDep, Resolving, Reload
<1>3. CASE AddOwner
  <2>1. \A r : SearchRepo(r, dep) \subseteq PkgsOf(r)
    BY DEF SearchRepo, Owners
  <2>2. SearchRepos(dep) \subseteq Available
    BY <2>1 DEF SearchRepos, Available
  <2> QED
    BY <1>3, <2>2 DEF AddOwner, Candidates, Searching, Resolving
<1>4. ASSUME PrepareTransaction \/ ReadArgs \/ Check \/ FoundAfterImport \/ OwnersRefused \/ NoOwner
      PROVE  UNCHANGED vars
  BY <1>4 DEF PrepareTransaction, ReadArgs, Check, FoundAfterImport, OwnersRefused, NoOwner
<1> QED
  BY <1>1, <1>2, <1>3, <1>4 DEF ReposNext

\* So the indexes of the database of a transaction agree with its packages, as
\* those of every RpmMemoryDB do whose packages provide their names, whatever it
\* keeps of the answers of the repositories (rpmexternalsearchdb.py).
THEOREM TransactionIndexesAgree == ASSUME SelfProvided PROVE ReposSpec => []IndexesAgree
<1>1. ReposInit => Init
  BY DEF ReposInit
<1>2. [ReposNext]_reposVars => [Next]_vars
  <2>1. Available \subseteq Pkg
    BY DEF Available, PkgsOf
  <2>2. ReposNext => [Next]_vars
    BY <2>1, ActionsOfMemoryDB DEF Next
  <2>3. UNCHANGED reposVars => UNCHANGED vars
    BY DEF reposVars
  <2> QED
    BY <2>2, <2>3
<1>3. Spec => []IndexesAgree
  BY IndexesAgreeHolds
<1> QED
  BY <1>1, <1>2, <1>3, PTL DEF ReposSpec, Spec

-----------------------------------------------------------------------------
(* The inductive invariant.                                                *)

\* The types of what Repos adds to MemoryDB.
SearchTypeOK ==
    /\ pkgs \subseteq Pkg
    /\ Repo \subseteq dbs /\ dbs \subseteq AnyRepo
    /\ imported \subseteq Repo
    /\ index \in [AnyRepo -> {"none", "primary", "full"}]
    /\ filecache \in [File -> (SUBSET Pkg) \union {NotCached}]
    /\ filereqs \subseteq File /\ early \subseteq File
    /\ phase \in {"prepare", "args", "resolve"}
    /\ dep \in File \union {"none"}

\* Packages come from the repositories, once these are all there; answers that
\* are kept by then are early.
FromRepositories ==
    /\ pkgs \subseteq Available
    /\ phase # "resolve" => pkgs = {} /\ filereqs = {} /\ outcome = NoOutcome
    /\ phase = "prepare" => filecache = [f \in File |-> NotCached] /\ early = {}
    /\ phase = "args" => \A f \in File : filecache[f] # NotCached => f \in early

\* The requirements that are known are those of all repositories.
AllRequirements ==
    filerequires # NotCached => phase = "resolve" /\ filerequires = Available

\* No index is older than the complete lists, and none pretends to be complete.
IndexesUpToDate ==
    \A r \in AnyRepo :
        /\ Complete(r) => index[r] # "primary"
        /\ index[r] = "full" => Complete(r)

\* A kept answer has all owners the repositories know of that were there.
AnswersUpToDate ==
    \A f \in File, r \in dbs :
        filecache[f] # NotCached /\ (f \in InPrimary \/ Complete(r)) /\ ~Outdated(r, f) =>
            Owners(r, f) \subseteq filecache[f]

\* The complete lists were asked for because of every requirement that called
\* for them.
AskedForAll ==
    /\ dep # "none" => dep \in filereqs
    /\ \A f \in filereqs \ InPrimary, r \in dbs : Complete(r) \/ <<r, f>> \in failed

SearchInv ==
    /\ SearchTypeOK
    /\ FromRepositories
    /\ AllRequirements
    /\ IndexesUpToDate
    /\ AnswersUpToDate
    /\ AskedForAll
    /\ MissingIsMissing

-----------------------------------------------------------------------------
(* Searching.                                                              *)

\* A search finds the owners of a file in a repository exactly if primary.xml
\* lists the file or the complete lists are there.
LEMMA SearchRepoFinds ==
    ASSUME SearchTypeOK, IndexesUpToDate, NEW r \in dbs, NEW f \in File
    PROVE  SearchRepo(r, f) = IF f \in InPrimary \/ Complete(r) THEN Owners(r, f) ELSE {}
<1>1. r \notin Sqlite => (IndexAfter(r) = "full" <=> Complete(r))
  <2>1. r \in AnyRepo /\ index[r] \in {"none", "primary", "full"}
    BY DEF SearchTypeOK
  <2>2. (Complete(r) => index[r] # "primary") /\ (index[r] = "full" => Complete(r))
    BY <2>1 DEF IndexesUpToDate
  <2> QED
    BY <2>1, <2>2 DEF IndexAfter
<1> QED
  BY <1>1 DEF SearchRepo

LEMMA OwnersArePkgs == \A r, f : SearchRepo(r, f) \subseteq Owners(r, f) /\ Owners(r, f) \subseteq Pkg
BY DEF SearchRepo, Owners, PkgsOf

\* An answer, kept or not, has all owners that the repositories know of.
LEMMA AnswersComplete ==
    ASSUME SearchTypeOK, IndexesUpToDate, AnswersUpToDate, NEW f \in File
    PROVE  /\ Answer(f) \in SUBSET Pkg
           /\ \A r \in dbs : (f \in InPrimary \/ Complete(r)) /\ ~Outdated(r, f) =>
                Owners(r, f) \subseteq Answer(f)
<1>1. CASE filecache[f] = NotCached
  <2>1. Answer(f) = SearchRepos(f)
    BY <1>1 DEF Answer
  <2>2. \A r \in dbs : SearchRepo(r, f) \subseteq SearchRepos(f)
    BY DEF SearchRepos
  <2>3. SearchRepos(f) \subseteq Pkg
    BY OwnersArePkgs DEF SearchRepos
  <2> QED
    BY <2>1, <2>2, <2>3, SearchRepoFinds DEF SearchTypeOK
<1>2. CASE filecache[f] # NotCached
  BY <1>2 DEF Answer, SearchTypeOK, AnswersUpToDate
<1> QED
  BY <1>1, <1>2

LEMMA NotCachedIsNoAnswer == \A S \in SUBSET Pkg : S # NotCached
BY ReposAssumption

\* searchFilenames() keeps the indexes and the answers as good as they were.
LEMMA SearchKeeps ==
    ASSUME SearchTypeOK, IndexesUpToDate, AnswersUpToDate,
           NEW F, SearchFiles(F), UNCHANGED <<dbs, imported>>, early \subseteq early'
    PROVE  /\ index' \in [AnyRepo -> {"none", "primary", "full"}]
           /\ filecache' \in [File -> (SUBSET Pkg) \union {NotCached}]
           /\ IndexesUpToDate' /\ AnswersUpToDate'
<1>1. \A r \in AnyRepo :
        /\ IndexAfter(r) \in {"none", "primary", "full"}
        /\ Complete(r) => IndexAfter(r) # "primary"
        /\ IndexAfter(r) = "full" => Complete(r)
  BY DEF IndexAfter, SearchTypeOK, IndexesUpToDate
<1>2. \A r : Complete(r)' <=> Complete(r)
  BY DEF Complete
<1>3. index' \in [AnyRepo -> {"none", "primary", "full"}] /\ IndexesUpToDate'
  <2>1. CASE F = {}
    BY <2>1, <1>2 DEF SearchFiles, SearchTypeOK, IndexesUpToDate
  <2>2. CASE F # {}
    <3>1. index' = [r \in AnyRepo |-> IndexAfter(r)]
      BY <2>2 DEF SearchFiles, IndexesUsed
    <3> QED
      BY <3>1, <1>1, <1>2 DEF IndexesUpToDate
  <2> QED
    BY <2>1, <2>2
<1>4. filecache' = [f \in File |-> IF f \in F THEN Answer(f) ELSE filecache[f]]
  BY DEF SearchFiles
<1>5. filecache' \in [File -> (SUBSET Pkg) \union {NotCached}]
  BY <1>4, AnswersComplete DEF SearchTypeOK
<1>6. AnswersUpToDate'
  <2> SUFFICES ASSUME NEW f \in File, NEW r \in dbs, filecache'[f] # NotCached,
                      f \in InPrimary \/ Complete(r), ~Outdated(r, f)
               PROVE  Owners(r, f) \subseteq filecache'[f]
    BY <1>2 DEF AnswersUpToDate, Owners, Outdated
  <2>1. CASE f \in F
    BY <2>1, <1>4, AnswersComplete
  <2>2. CASE f \notin F
    BY <2>2, <1>4 DEF AnswersUpToDate
  <2> QED
    BY <2>1, <2>2
<1> QED
  BY <1>3, <1>5, <1>6

\* The packages of the transaction are its own or those of a repository.
LEMMA PkgsComeFromRepositories ==
    ASSUME [ReposNext]_reposVars
    PROVE  pkgs' \subseteq pkgs \union Available
<1>1. \A p : AddPkg(p) => pkgs' \subseteq pkgs \union {p}
  BY DEF AddPkg
<1>2. \A p : RemovePkg(p) => pkgs' \subseteq pkgs
  BY DEF RemovePkg
<1>3. \A t : Use(t) \/ ReloadDependencies \/ UNCHANGED vars => pkgs' = pkgs
  BY DEF Use, ReloadDependencies, vars
<1>4. UNCHANGED reposVars => UNCHANGED vars
  BY DEF reposVars
<1> QED
  BY <1>1, <1>2, <1>3, <1>4, ActionsOfMemoryDB

-----------------------------------------------------------------------------
(* The invariant is kept.                                                  *)

\* A step that only searches, once the repositories are all there.
LEMMA SearchStep ==
    ASSUME SearchInv, phase = "resolve", NEW F, SearchFiles(F),
           filerequires' \in {filerequires, Available},
           pkgs' \subseteq pkgs \union Available,
           dep' \in {dep, "none"}, UNCHANGED <<dbs, imported, filereqs, failed, early, phase>>,
           MissingIsMissing'
    PROVE  SearchInv'
<1>1. Available' = Available /\ \A r : Complete(r)' = Complete(r)
  BY DEF Available, Complete
<1>2. SearchTypeOK' /\ IndexesUpToDate' /\ AnswersUpToDate'
  <2>1. Available \subseteq Pkg
    BY DEF Available, PkgsOf
  <2> QED
    BY <2>1, SearchKeeps DEF SearchInv, SearchTypeOK
<1>3. FromRepositories' /\ AllRequirements'
  BY <1>1 DEF SearchInv, FromRepositories, AllRequirements
<1>4. AskedForAll'
  BY <1>1 DEF SearchInv, AskedForAll
<1> QED
  BY <1>2, <1>3, <1>4 DEF SearchInv

\* What was said to be missing still is, while the repositories stay as they are.
LEMMA StillMissing ==
    ASSUME MissingIsMissing, UNCHANGED <<dbs, imported, failed, pkgs, outcome>>, early \subseteq early'
    PROVE  MissingIsMissing'
BY DEF MissingIsMissing, Complete, Owners, Outdated

LEMMA InitSearchInv == ReposInit => SearchInv
<1> SUFFICES ASSUME ReposInit PROVE SearchInv
  OBVIOUS
<1> USE ReposAssumption
<1>1. SearchTypeOK
  BY DEF ReposInit, Init, NewJointDB, NewExternalSearchDB, SearchTypeOK, AnyRepo
<1>2. FromRepositories /\ AllRequirements
  BY DEF ReposInit, Init, NewExternalSearchDB, FromRepositories, AllRequirements
<1>3. IndexesUpToDate /\ AnswersUpToDate
  BY DEF ReposInit, NewExternalSearchDB, IndexesUpToDate, AnswersUpToDate
<1>4. AskedForAll /\ MissingIsMissing
  BY DEF ReposInit, AskedForAll, MissingIsMissing, NoOutcome
<1> QED
  BY <1>1, <1>2, <1>3, <1>4 DEF SearchInv

\* The imports: every repository that was asked has its lists or is on record
\* for the file, and nothing found before is kept.
LEMMA ResolveDepKeeps ==
    ASSUME SearchInv, NEW f \in File, ResolveDep(f)
    PROVE  SearchInv'
<1> DEFINE asked == ToImport(f)
<1> USE ReposAssumption
<1>1. /\ phase = "resolve" /\ UNCHANGED <<phase, dbs, filerequires>>
      /\ dep' = f /\ outcome' = NoOutcome /\ filereqs' = filereqs \union {f}
      /\ ImportFilelist(asked, f)
      /\ IF asked = {} THEN UNCHANGED <<vars, filecache, early>> ELSE Reload(asked) /\ early' = {}
  BY DEF ResolveDep, Resolving
<1>2. PICK got \in SUBSET (asked \ {MemoryRepo}) :
        /\ imported' = imported \union got
        /\ failed' = failed \union ((asked \ got) \X {f})
        /\ index' = [r \in AnyRepo |-> IF r \in asked THEN "none" ELSE index[r]]
  BY <1>1 DEF ImportFilelist, ReloadRepos
<1>3. asked = IF f \in filereqs \/ f \in InPrimary THEN {} ELSE dbs \ imported
  BY DEF ToImport
<1>4. asked \subseteq AnyRepo /\ pkgs' = pkgs
  BY <1>1, <1>3 DEF SearchInv, SearchTypeOK, vars, Reload, ReloadDependencies
<1>5. /\ filecache' = IF asked = {} THEN filecache ELSE [g \in File |-> NotCached]
      /\ early' = IF asked = {} THEN early ELSE {}
  BY <1>1 DEF Reload
<1> HIDE DEF asked
<1>6. \A r : Complete(r)' <=> Complete(r) \/ r \in got
  BY <1>2 DEF Complete
<1>7. SearchTypeOK'
  <2>1. imported' \subseteq Repo
    BY <1>2, <1>4 DEF SearchInv, SearchTypeOK, AnyRepo
  <2>2. index' \in [AnyRepo -> {"none", "primary", "full"}]
    BY <1>2 DEF SearchInv, SearchTypeOK
  <2>3. filecache' \in [File -> (SUBSET Pkg) \union {NotCached}]
    BY <1>5 DEF SearchInv, SearchTypeOK
  <2> QED
    BY <2>1, <2>2, <2>3, <1>1, <1>4 DEF SearchInv, SearchTypeOK
<1>8. FromRepositories' /\ AllRequirements'
  <2>1. Available' = Available
    BY <1>1 DEF Available
  <2> QED
    BY <2>1, <1>1, <1>4 DEF SearchInv, FromRepositories, AllRequirements
<1>9. IndexesUpToDate'
  <2> SUFFICES ASSUME NEW r \in AnyRepo
               PROVE  /\ Complete(r)' => index'[r] # "primary"
                      /\ index'[r] = "full" => Complete(r)'
    BY DEF IndexesUpToDate
  <2>1. (Complete(r) => index[r] # "primary") /\ (index[r] = "full" => Complete(r))
    BY DEF SearchInv, IndexesUpToDate
  <2>2. index'[r] = IF r \in asked THEN "none" ELSE index[r]
    BY <1>2
  <2>3. r \in got => r \in asked
    BY <1>2
  <2> QED
    BY <2>1, <2>2, <2>3, <1>6
<1>10. AnswersUpToDate'
  <2>1. CASE asked = {}
    <3>1. filecache' = filecache /\ early' = early /\ \A r : Complete(r)' <=> Complete(r)
      BY <2>1, <1>2, <1>5, <1>6
    <3> QED
      BY <1>1, <3>1 DEF SearchInv, AnswersUpToDate, Owners, Outdated
  <2>2. CASE asked # {}
    BY <2>2, <1>5 DEF AnswersUpToDate
  <2> QED
    BY <2>1, <2>2
<1>11. AskedForAll'
  <2> SUFFICES ASSUME NEW g \in filereqs' \ InPrimary, NEW r \in dbs
               PROVE  Complete(r)' \/ <<r, g>> \in failed'
    BY <1>1 DEF AskedForAll
  <2>1. CASE g \in filereqs
    <3>1. Complete(r) \/ <<r, g>> \in failed
      BY <2>1 DEF SearchInv, AskedForAll
    <3> QED
      BY <3>1, <1>2, <1>6
  <2>2. CASE g \notin filereqs
    <3>1. g = f /\ asked = dbs \ imported
      BY <2>2, <1>1, <1>3
    <3>2. r \in imported \/ r \in got \/ r \in asked \ got
      BY <3>1
    <3> QED
      BY <3>1, <3>2, <1>2, <1>6 DEF Complete
  <2> QED
    BY <2>1, <2>2
<1>12. MissingIsMissing'
  BY <1>1 DEF MissingIsMissing, NoOutcome
<1> QED
  BY <1>7, <1>8, <1>9, <1>10, <1>11, <1>12 DEF SearchInv

\* A repository that could have told of an owner that is not in the transaction,
\* and did not, does not have its complete lists, and was asked for them.
LEMMA NoOwnerMeansMissing ==
    ASSUME SearchInv, NEW f \in File, f = dep, Candidates = {}, Found(f) = {},
           NEW r \in dbs, Owners(r, f) # {}
    PROVE  \/ ~Complete(r) /\ <<r, f>> \in failed
           \/ Outdated(r, f) /\ Owners(r, f) \subseteq pkgs
<1>1. SearchRepo(r, f) \subseteq pkgs
  BY DEF SearchRepos, Candidates
<1>2. f \in filereqs
  BY ReposAssumption DEF SearchInv, AskedForAll
<1>3. CASE ~(f \in InPrimary \/ Complete(r))
  BY <1>2, <1>3 DEF SearchInv, AskedForAll
<1>4. CASE f \in InPrimary \/ Complete(r)
  <2>1. Owners(r, f) \subseteq pkgs
    BY <1>1, <1>4, SearchRepoFinds DEF SearchInv
  <2>2. ~Outdated(r, f) => Owners(r, f) \subseteq Answer(f)
    BY <1>4, AnswersComplete DEF SearchInv
  <2> QED
    BY <2>1, <2>2 DEF Found
<1> QED
  BY <1>3, <1>4

LEMMA CheckKeeps ==
    ASSUME SearchInv, CheckFileRequires, UNCHANGED <<vars, dep, outcome>>,
           \/ phase = "resolve" /\ UNCHANGED <<phase, early>>
           \/ phase = "prepare" /\ phase' = "args" /\ early' = {f \in File : filecache'[f] # NotCached}
    PROVE  SearchInv'
<1> DEFINE F == Required \union FilesRequired(filerequires')
<1>1. /\ SearchFiles(F) /\ filerequires' = RequiresKnown
      /\ UNCHANGED <<dbs, imported, filereqs, failed>>
  BY DEF CheckFileRequires
<1>2. MissingIsMissing' /\ early \subseteq early'
  <2>1. early \subseteq early'
    BY DEF SearchInv, FromRepositories
  <2> QED
    BY <1>1, <2>1, StillMissing DEF SearchInv, vars
<1>3. CASE phase = "resolve"
  <2>1. filerequires' \in {filerequires, Available} /\ pkgs' = pkgs /\ UNCHANGED <<phase, early>>
    BY <1>1, <1>3 DEF RequiresKnown, vars
  <2> HIDE DEF F
  <2> QED
    BY <1>1, <1>2, <1>3, <2>1, SearchStep
<1>4. CASE phase = "prepare"
  <2>1. pkgs' = {} /\ filerequires = NotCached /\ filerequires' = NotCached /\ phase' = "args"
    BY <1>1, <1>4 DEF RequiresKnown, vars, SearchInv, FromRepositories, AllRequirements
  <2>2. SearchTypeOK' /\ IndexesUpToDate' /\ AnswersUpToDate'
    <3> HIDE DEF F
    <3> QED
      BY <1>1, <1>2, <1>4, <2>1, SearchKeeps DEF SearchInv, SearchTypeOK
  <2>3. FromRepositories' /\ AllRequirements'
    BY <1>1, <1>4, <2>1 DEF SearchInv, FromRepositories, AllRequirements
  <2>4. AskedForAll'
    BY <1>1 DEF SearchInv, AskedForAll, Complete
  <2> QED
    BY <1>2, <2>2, <2>3, <2>4 DEF SearchInv
<1> QED
  BY <1>3, <1>4

\* The repository of the arguments comes before the first package.
LEMMA ReadArgsKeeps == ASSUME SearchInv, ReadArgs PROVE SearchInv'
<1>1. /\ phase = "args" /\ phase' = "resolve"
      /\ dbs \subseteq dbs' /\ dbs' \subseteq dbs \union {MemoryRepo}
      /\ UNCHANGED <<vars, imported, index, filecache, filerequires, filereqs, failed, early, dep,
                     outcome>>
  BY DEF ReadArgs, AddDB
<1>2. \A r : Complete(r)' <=> Complete(r)
  BY <1>1 DEF Complete
<1>3. SearchTypeOK'
  BY <1>1 DEF SearchInv, SearchTypeOK, vars, AnyRepo
<1>4. pkgs' = {} /\ filereqs' = {} /\ outcome' = NoOutcome /\ filerequires' = NotCached
  BY <1>1 DEF SearchInv, FromRepositories, AllRequirements, vars
<1>5. FromRepositories' /\ AllRequirements'
  BY <1>1, <1>4 DEF FromRepositories, AllRequirements
<1>6. IndexesUpToDate' /\ AnswersUpToDate'
  <2>1. IndexesUpToDate'
    BY <1>1, <1>2 DEF SearchInv, IndexesUpToDate
  <2>2. ASSUME NEW f \in File, NEW r \in dbs', filecache[f] # NotCached,
               f \in InPrimary \/ Complete(r), ~Outdated(r, f)
        PROVE  Owners(r, f) \subseteq filecache[f]
    <3>1. f \in early
      BY <1>1, <2>2 DEF SearchInv, FromRepositories
    <3>2. r \in dbs
      BY <1>1, <2>2, <3>1 DEF Outdated
    <3> QED
      BY <2>2, <3>2 DEF SearchInv, AnswersUpToDate
  <2> QED
    BY <1>1, <1>2, <2>1, <2>2 DEF AnswersUpToDate, Owners, Outdated
<1>7. AskedForAll'
  BY <1>1, <1>4 DEF SearchInv, AskedForAll
<1>8. MissingIsMissing'
  BY <1>4 DEF MissingIsMissing, NoOutcome
<1> QED
  BY <1>3, <1>5, <1>6, <1>7, <1>8 DEF SearchInv

LEMMA ChangeKeeps == ASSUME SearchInv, Change PROVE SearchInv'
<1>1. phase = "resolve" /\ UNCHANGED <<searchVars, phase, dep>> /\ outcome' = NoOutcome
  BY DEF Change, Resolving
<1>2. Available' = Available /\ \A r : Complete(r)' <=> Complete(r)
  BY <1>1 DEF Available, Complete, searchVars
<1>3. pkgs' \subseteq Available
  BY PkgsComeFromRepositories DEF ReposNext, SearchInv, FromRepositories
<1>4. SearchTypeOK'
  <2>1. Available \subseteq Pkg
    BY DEF Available, PkgsOf
  <2> QED
    BY <1>1, <1>3, <2>1 DEF SearchInv, SearchTypeOK, searchVars
<1>5. FromRepositories' /\ AllRequirements'
  BY <1>1, <1>2, <1>3 DEF SearchInv, FromRepositories, AllRequirements, searchVars
<1>6. IndexesUpToDate' /\ AnswersUpToDate' /\ AskedForAll'
  BY <1>1, <1>2 DEF SearchInv, IndexesUpToDate, AnswersUpToDate, AskedForAll, Owners, Outdated, searchVars
<1>7. MissingIsMissing'
  BY <1>1 DEF MissingIsMissing, NoOutcome
<1> QED
  BY <1>4, <1>5, <1>6, <1>7 DEF SearchInv

\* The ways to end a requirement search for its file once more.
LEMMA EndKeeps ==
    ASSUME SearchInv, FoundAfterImport \/ AddOwner \/ OwnersRefused \/ NoOwner
    PROVE  SearchInv'
<1>1. /\ phase = "resolve" /\ dep # "none" /\ SearchFiles({dep}) /\ dep' = "none"
      /\ UNCHANGED <<phase, dbs, imported, filerequires, filereqs, failed, early>>
  BY DEF FoundAfterImport, AddOwner, OwnersRefused, NoOwner, LastSearch, Searching, Ended, Resolving
<1>2. pkgs' \subseteq pkgs \union Available
  BY PkgsComeFromRepositories DEF ReposNext
<1>3. MissingIsMissing'
  <2>1. CASE FoundAfterImport \/ AddOwner \/ OwnersRefused
    <3>1. outcome' \in {<<"resolved", dep>>, <<"refused", dep>>}
      BY <2>1 DEF FoundAfterImport, AddOwner, OwnersRefused, LastSearch, Ended
    <3> QED
      BY <3>1 DEF MissingIsMissing
  <2>2. CASE NoOwner
    <3>1. /\ Candidates = {} /\ Found(dep) = {} /\ outcome' = <<"missing", dep>> /\ dep \in File
          /\ pkgs' = pkgs
      BY <2>2, <1>1 DEF NoOwner, Searching, LastSearch, Ended, SearchInv, SearchTypeOK, vars
    <3>2. \A r \in dbs : Owners(r, dep) # {} =>
            \/ ~Complete(r) /\ <<r, dep>> \in failed
            \/ Outdated(r, dep) /\ Owners(r, dep) \subseteq pkgs
      BY <3>1, NoOwnerMeansMissing
    <3> QED
      BY <1>1, <3>1, <3>2 DEF MissingIsMissing, Complete, Owners, Outdated
  <2> QED
    BY <2>1, <2>2
<1> QED
  BY <1>1, <1>2, <1>3, SearchStep

LEMMA SearchInvHolds == ReposSpec => []SearchInv
<1>1. SearchInv /\ [ReposNext]_reposVars => SearchInv'
  <2> SUFFICES ASSUME SearchInv, [ReposNext]_reposVars PROVE SearchInv'
    OBVIOUS
  <2>1. CASE PrepareTransaction
    BY <2>1, CheckKeeps DEF PrepareTransaction
  <2>2. CASE ReadArgs
    BY <2>2, ReadArgsKeeps
  <2>3. CASE Check
    BY <2>3, CheckKeeps DEF Check, Resolving
  <2>4. CASE Change
    BY <2>4, ChangeKeeps
  <2>5. ASSUME NEW f \in File, ResolveDep(f) PROVE SearchInv'
    BY <2>5, ResolveDepKeeps
  <2>6. CASE FoundAfterImport \/ AddOwner \/ OwnersRefused \/ NoOwner
    BY <2>6, EndKeeps
  <2>7. CASE UNCHANGED reposVars
    <3>1. UNCHANGED <<pkgs, dbs, imported, index, filecache, filerequires, filereqs, failed,
                      early, phase, dep, outcome>>
      BY <2>7 DEF reposVars, vars, searchVars
    <3>2. Available' = Available /\ \A r : Complete(r)' <=> Complete(r)
      BY <3>1 DEF Available, Complete
    <3>3. SearchTypeOK' /\ FromRepositories' /\ AllRequirements'
      BY <3>1, <3>2 DEF SearchInv, SearchTypeOK, FromRepositories, AllRequirements
    <3>4. IndexesUpToDate' /\ AnswersUpToDate' /\ AskedForAll'
      BY <3>1, <3>2 DEF SearchInv, IndexesUpToDate, AnswersUpToDate, AskedForAll, Owners, Outdated
    <3> QED
      BY <3>1, <3>3, <3>4, StillMissing DEF SearchInv
  <2> QED
    BY <2>1, <2>2, <2>3, <2>4, <2>5, <2>6, <2>7 DEF ReposNext
<1> QED
  BY InitSearchInv, <1>1, PTL DEF ReposSpec

\* Whatever is searched for, imported, added and removed, and in whatever order:
\* a file that a package of the transaction is known to own is found to be its
\* own, unless the package came as a file and the answer is from before it was
\* read; and the requirements of all packages are known once any are
\* (searchFilenames and getFileRequires of RpmExternalSearchDB).
THEOREM NothingOverlookedHolds == ReposSpec => []NothingOverlooked
<1>1. SearchInv => NothingOverlooked
  <2> SUFFICES ASSUME SearchInv PROVE KnownIsFound /\ RequirementsKnown
    BY DEF NothingOverlooked
  <2>1. RequirementsKnown
    BY DEF SearchInv, AllRequirements, FromRepositories, RequirementsKnown
  <2>2. ASSUME NEW p \in pkgs, NEW f \in File, IsKnown(p, f), ~Outdated(From[p], f)
        PROVE  p \in Found(f)
    <3>1. \E r \in dbs : p \in PkgsOf(r)
      BY DEF SearchInv, FromRepositories, Available
    <3>2. p \in Owners(From[p], f) /\ From[p] \in dbs
      BY <3>1, <2>2, ReposAssumption DEF PkgsOf, Owners, IsKnown
    <3>3. Owners(From[p], f) \subseteq Answer(f)
      BY <3>2, <2>2, AnswersComplete DEF SearchInv, IsKnown
    <3> QED
      BY <3>2, <3>3 DEF Found
  <2> QED
    BY <2>1, <2>2 DEF KnownIsFound
<1> QED
  BY <1>1, SearchInvHolds, PTL

\* A file requirement is given up only if no repository has an owner for it
\* but those whose complete lists were asked for because of it and could not
\* be had, or if packages that came as files own it, are all in the transaction,
\* and are overlooked (importFilelist and __resolveDep of YumControl).
THEOREM MissingIsMissingHolds == ReposSpec => []MissingIsMissing
<1>1. SearchInv => MissingIsMissing
  BY DEF SearchInv
<1> QED
  BY <1>1, SearchInvHolds, PTL

=============================================================================
