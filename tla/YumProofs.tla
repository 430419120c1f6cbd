------------------------------ MODULE YumProofs ------------------------------
(***************************************************************************)
(* First, what RpmResolver guarantees for every set of packages,           *)
(* dependencies and configuration flags.                                   *)
(*                                                                         *)
(* Then, what a call of pyrpmyum guarantees for every database,            *)
(* repositories and request.  The calls that are under way hold packages   *)
(* in their hands while others add and erase: which they may hold, and     *)
(* which calls may be under which, comes first; then what each step does   *)
(* to the operations, and what follows for the transaction; last, that no  *)
(* step loses what is there or was asked for.                              *)
(***************************************************************************)
EXTENDS YumCommand, SequenceTheorems, FiniteSetTheorems, WellFoundedInduction, TLAPS

-----------------------------------------------------------------------------
(* Facts about the database.                                               *)

\* Putting p in and taking R out adds nothing but p and loses nothing but R.
LEMMA DbPutBounds ==
    ASSUME NEW p, NEW R, DbPut(p, R)
    PROVE  Db' \subseteq Db \union {p} /\ Db \ R \subseteq Db'
  BY PkgAssumption DEF DbPut, Db, Disk

\* Taking p out adds nothing and loses nothing but p.
LEMMA DbRemoveBounds ==
    ASSUME NEW p, DbRemove(p)
    PROVE  Db' \subseteq Db /\ Db \ {p} \subseteq Db'
  BY PkgAssumption DEF DbRemove, Db, Disk

\* The database holds packages only.
LEMMA DbPkg == TypeOK => Db \subseteq Pkg
  BY PkgAssumption DEF TypeOK, Db, Disk

\* A package that is in the database is refused by install() and update().
LEMMA PresentIsRefused ==
    ASSUME NEW p \in Db
    PROVE  InstallCheck(p) # {} /\ Refusals(p) # {}
  <1>1. p \in SameName(p) /\ SameNevra(p, p)
    BY DEF SameName, SameNevra
  <1>2. InstallCheck(p) # {}
    BY <1>1 DEF InstallCheck
  <1>3. Refusals(p) # {}
    <2>1. Covered(p, p)
      BY <1>1 DEF Covered
    <2>2. CASE TooOld(p, p)
      BY <1>1, <2>2 DEF Refusals
    <2>3. CASE ArchIncompat(p, p)
      BY <2>3 DEF ArchIncompat
    <2>4. CASE ~TooOld(p, p) /\ ~ArchIncompat(p, p)
      BY <1>1, <2>1, <2>4 DEF Refusals
    <2>5. QED
      BY <2>2, <2>3, <2>4
  <1>4. QED
    BY <1>2, <1>3

\* What update() replaces was in the database and is not the new package.
LEMMA ReplacedInDb ==
    ASSUME NEW p, p \notin Db
    PROVE  /\ PkgUpdates(p) \subseteq Db
           /\ PkgObsoletes(p) \subseteq Db
           /\ PkgUpdates(p) \intersect PkgObsoletes(p) = {}
  BY DEF PkgUpdates, PkgObsoletes, SameName

-----------------------------------------------------------------------------
(* Type correctness.                                                       *)

\* The codes a call can be refused with.
LEMMA RefusalCodes ==
    ASSUME NEW p
    PROVE  InstallCheck(p) \subseteq Codes /\ Refusals(p) \subseteq Codes
  BY DEF InstallCheck, Refusals, Already, Codes

LEMMA RefuseType ==
    ASSUME TypeOK, NEW p \in Pkg, NEW call \in Calls, NEW codes \in SUBSET Codes,
           Refuse(call, p, codes), readd' \subseteq Installed
    PROVE  TypeOK'
  BY DEF TypeOK, Refuse, Return, dbVars, opVars, checkVars

LEMMA PlaceType ==
    ASSUME TypeOK, NEW p \in Pkg, NEW call \in Calls,
           NEW U \in SUBSET Pkg, NEW O \in SUBSET Pkg,
           Place(call, p, U, O), readd' \subseteq Installed
    PROVE  TypeOK'
  <1> DEFINE gone == U \union O
             old == {r \in gone : IsInstalled(r)}
  <1>1. mem' \subseteq Pkg /\ deleted' \subseteq Installed
    BY PkgAssumption DEF Place, DbPut, TypeOK, Disk
  <1>2. installs' \subseteq Pkg /\ erases' \subseteq Pkg
    BY DEF Place, TypeOK
  <1>3. /\ Inherited(updates, gone \ old) \subseteq Pkg
        /\ Inherited(obsoletes, gone \ old) \subseteq Pkg
    BY DEF Inherited, TypeOK
  <1>4. updates' \in [Pkg -> SUBSET Pkg]
    BY <1>3 DEF Place, TypeOK
  <1>5. obsoletes' \in [Pkg -> SUBSET Pkg]
    BY <1>3 DEF Place, TypeOK
  <1>6. /\ check_installs' \subseteq Pkg
        /\ check_erases' \subseteq Pkg
        /\ check_file_requires' \in BOOLEAN
    BY DEF Place, TypeOK
  <1>7. last' \in [call : Calls, pkgs : SUBSET Pkg, ret : Codes]
    BY DEF Place, Return, Codes
  <1>8. QED
    BY <1>1, <1>2, <1>4, <1>5, <1>6, <1>7 DEF TypeOK

LEMMA InstallPkgType ==
    ASSUME TypeOK, NEW p \in Pkg, InstallPkg(p), readd' \subseteq Installed
    PROVE  TypeOK'
  <1>1. CASE Refuse("install", p, InstallCheck(p))
    BY <1>1, RefusalCodes, RefuseType DEF Calls
  <1>2. CASE Place("install", p, {}, {})
    BY <1>2, PlaceType DEF Calls
  <1>3. QED
    BY <1>1, <1>2 DEF InstallPkg

LEMMA UpdatePkgType ==
    ASSUME TypeOK, NEW p \in Pkg, UpdatePkg(p), readd' \subseteq Installed
    PROVE  TypeOK'
  <1>1. CASE Refuse("update", p, Refusals(p))
    BY <1>1, RefusalCodes, RefuseType DEF Calls
  <1>2. CASE Place("update", p, PkgUpdates(p), PkgObsoletes(p))
    <2>1. PkgUpdates(p) \in SUBSET Pkg /\ PkgObsoletes(p) \in SUBSET Pkg
      BY DbPkg DEF PkgUpdates, PkgObsoletes, SameName
    <2>2. QED
      BY <1>2, <2>1, PlaceType DEF Calls
  <1>3. QED
    BY <1>1, <1>2 DEF UpdatePkg

LEMMA ErasePkgType ==
    ASSUME TypeOK, NEW p \in Pkg, ErasePkg(p), readd' \subseteq Installed
    PROVE  TypeOK'
  <1>1. CASE Refuse("erase", p, {"NOT_INSTALLED"})
    BY <1>1, RefuseType DEF Calls, Codes
  <1>2. CASE p \in Db /\ ~Refuse("erase", p, {"NOT_INSTALLED"})
    <2>1. mem' \subseteq Pkg /\ deleted' \subseteq Installed
      BY <1>2, PkgAssumption DEF ErasePkg, DbRemove, TypeOK, Disk
    <2>2. updates' \in [Pkg -> SUBSET Pkg] /\ obsoletes' \in [Pkg -> SUBSET Pkg]
      BY <1>2 DEF ErasePkg, Forget, TypeOK
    <2>3. /\ installs' \subseteq Pkg /\ erases' \subseteq Pkg
          /\ check_installs' \subseteq Pkg /\ check_erases' \subseteq Pkg
          /\ check_file_requires' \in BOOLEAN
      BY <1>2 DEF ErasePkg, TypeOK
    <2>4. last' \in [call : Calls, pkgs : SUBSET Pkg, ret : Codes]
      BY <1>2 DEF ErasePkg, Return, Calls, Codes
    <2>5. QED
      BY <2>1, <2>2, <2>3, <2>4 DEF TypeOK
  <1>3. QED
    BY <1>1, <1>2 DEF ErasePkg

LEMMA ResolveType == ASSUME TypeOK, Check PROVE TypeOK'
  <1>1. StillErased \subseteq Pkg /\ StillInstalled \subseteq Pkg
    BY DEF StillErased, StillInstalled, TypeOK
  <1>2. /\ check_installs' \subseteq Pkg /\ check_erases' \subseteq Pkg
        /\ check_file_requires' \in BOOLEAN
    BY <1>1 DEF Check, Resolve, PruneChecks, checkVars, TypeOK
  <1>3. ResolveResult \in Codes
    BY DEF ResolveResult, CheckDependencies, CheckConflicts, CheckFileConflicts, Codes
  <1>4. last' \in [call : Calls, pkgs : SUBSET Pkg, ret : Codes]
    BY <1>3 DEF Check, Resolve, Return, Calls
  <1>5. QED
    BY <1>2, <1>4 DEF Check, Idle, Resolve, dbVars, opVars, TypeOK

LEMMA TypeInit == Init => TypeOK
  <1> SUFFICES ASSUME Init PROVE TypeOK
    OBVIOUS
  <1>1. mem \subseteq Pkg /\ check_installs \subseteq Pkg
    BY PkgAssumption DEF Init
  <1>2. last \in [call : Calls, pkgs : SUBSET Pkg, ret : Codes]
    BY DEF Init, Calls, Codes
  <1>3. QED
    BY <1>1, <1>2 DEF Init, TypeOK

\* Every reachable state is well typed.
THEOREM TypeCorrect == Spec => []TypeOK
  <1>1. Init => TypeOK
    BY TypeInit
  <1>2. TypeOK /\ [Next]_vars => TypeOK'
    <2> SUFFICES ASSUME TypeOK, [Next]_vars PROVE TypeOK'
      OBVIOUS
    <2>1. ASSUME NEW p \in Pkg, Freshen(p) PROVE TypeOK'
      BY <2>1, RefuseType DEF Freshen, FreshenPkg, Idle, Calls, Codes, TypeOK
    <2>2. ASSUME NEW p \in Pkg, Erase(p) PROVE TypeOK'
      BY <2>2, ErasePkgType DEF Erase, Idle, TypeOK
    <2>3. ASSUME NEW p \in Pkg, Autoerase(p) PROVE TypeOK'
      BY <2>3, ErasePkgType DEF Autoerase
    <2>4. ASSUME NEW p \in Pkg, TakeBack(p) PROVE TypeOK'
      BY <2>4, UpdatePkgType DEF TakeBack, TypeOK
    <2>5. CASE Check
      BY <2>5, ResolveType
    <2>6. CASE UNCHANGED vars
      BY <2>6 DEF vars, TypeOK
    <2>7. ASSUME NEW p \in Pkg, Install(p) PROVE TypeOK'
      BY <2>7, InstallPkgType DEF Install, Idle, TypeOK
    <2>8. ASSUME NEW p \in Pkg, Update(p) PROVE TypeOK'
      BY <2>8, UpdatePkgType DEF Update, Idle, TypeOK
    <2>9. QED
      BY <2>1, <2>2, <2>3, <2>4, <2>5, <2>6, <2>7, <2>8 DEF Next
  <1>3. QED
    BY <1>1, <1>2, PTL DEF Spec

-----------------------------------------------------------------------------
(* The two halves of a shadow database never hold the same package, so     *)
(* taking a package out of one of them takes it out of the database.       *)

Disjoint == mem \intersect Disk = {}

LEMMA PutDisjoint ==
    ASSUME Disjoint, NEW p, p \notin Db, NEW R, p \notin R, DbPut(p, R)
    PROVE  Disjoint' /\ R \intersect Db' = {}
  BY PkgAssumption DEF Disjoint, DbPut, Db, Disk

LEMMA RemoveDisjoint ==
    ASSUME Disjoint, NEW p, DbRemove(p)
    PROVE  Disjoint' /\ p \notin Db'
  BY DEF Disjoint, DbRemove, Db, Disk

\* Steps of one kind: the whole effect of an accepted install() or update().
LEMMA NextCases ==
    ASSUME [Next]_vars
    PROVE  \/ \E p \in Pkg, call \in Calls, U \in SUBSET Db, O \in SUBSET Db :
                 /\ p \notin Db
                 /\ U \intersect O = {}
                 /\ p \in Installed => p \in readd
                 /\ Place(call, p, U, O)
                 /\ readd' \subseteq readd
                 /\ call # "resolve"
           \/ \E p \in Pkg :
                 /\ p \in Db
                 /\ ErasePkg(p)
                 /\ readd' = readd \/ (autoerase /\ readd' = updates[p] \intersect Installed)
           \/ Check
           \/ /\ UNCHANGED <<dbVars, opVars, checkVars>>
              /\ readd' \subseteq readd
              /\ last' = last \/ last'.call # "resolve"
  <1> USE DEF Calls
  <1> DEFINE Refused == /\ UNCHANGED <<dbVars, opVars, checkVars>>
                        /\ readd' \subseteq readd
                        /\ last' = last \/ last'.call # "resolve"
             Placed(p, call, U, O) ==
                 /\ p \notin Db
                 /\ U \intersect O = {}
                 /\ p \in Installed => p \in readd
                 /\ Place(call, p, U, O)
                 /\ readd' \subseteq readd
                 /\ call # "resolve"
             Erased(p) == /\ p \in Db
                          /\ ErasePkg(p)
                          /\ \/ readd' = readd
                             \/ autoerase /\ readd' = updates[p] \intersect Installed
  <1>1. ASSUME NEW p \in Pkg, NEW call \in Calls \ {"resolve"}, NEW codes,
               Refuse(call, p, codes), readd' \subseteq readd
        PROVE  Refused
    BY <1>1 DEF Refuse, Return
  <1>2. ASSUME NEW p \in Pkg, InstallPkg(p), readd' \subseteq readd,
               p \in Installed => p \in readd
        PROVE  Refused \/ \E call \in Calls, U \in SUBSET Db, O \in SUBSET Db : Placed(p, call, U, O)
    <2>1. CASE Refuse("install", p, InstallCheck(p))
      BY <1>1, <1>2, <2>1
    <2>2. CASE InstallCheck(p) = {} /\ Place("install", p, {}, {})
      <3>1. p \notin Db
        BY <2>2, PresentIsRefused
      <3>2. Placed(p, "install", {}, {})
        BY <1>2, <2>2, <3>1
      <3>3. QED
        BY <3>2
    <2>3. QED
      BY <1>2, <2>1, <2>2 DEF InstallPkg
  <1>3. ASSUME NEW p \in Pkg, UpdatePkg(p), readd' \subseteq readd,
               p \in Installed => p \in readd
        PROVE  Refused \/ \E call \in Calls, U \in SUBSET Db, O \in SUBSET Db : Placed(p, call, U, O)
    <2>1. CASE Refuse("update", p, Refusals(p))
      BY <1>1, <1>3, <2>1
    <2>2. CASE Refusals(p) = {} /\ Place("update", p, PkgUpdates(p), PkgObsoletes(p))
      <3>1. p \notin Db
        BY <2>2, PresentIsRefused
      <3>2. Placed(p, "update", PkgUpdates(p), PkgObsoletes(p))
        BY <1>3, <2>2, <3>1, ReplacedInDb
      <3>3. PkgUpdates(p) \in SUBSET Db /\ PkgObsoletes(p) \in SUBSET Db
        BY <3>1, ReplacedInDb
      <3>4. QED
        BY <3>2, <3>3
    <2>3. QED
      BY <1>3, <2>1, <2>2 DEF UpdatePkg
  <1>4. ASSUME NEW p \in Pkg, Install(p) \/ Update(p) \/ TakeBack(p)
        PROVE  Refused \/ \E call \in Calls, U \in SUBSET Db, O \in SUBSET Db : Placed(p, call, U, O)
    BY <1>2, <1>3, <1>4 DEF Install, Update, TakeBack, Idle
  <1>5. ASSUME NEW p \in Pkg, Freshen(p) PROVE Refused
    BY <1>1, <1>5 DEF Freshen, FreshenPkg, Idle
  <1>6. ASSUME NEW p \in Pkg, Erase(p) PROVE Refused \/ Erased(p)
    BY <1>1, <1>6 DEF Erase, ErasePkg, Idle
  <1>7. ASSUME NEW p \in Pkg, Autoerase(p) PROVE Erased(p)
    BY <1>7 DEF Autoerase
  <1>8. CASE UNCHANGED vars
    BY <1>8 DEF vars, dbVars, opVars, checkVars
  <1>9. QED
    BY <1>4, <1>5, <1>6, <1>7, <1>8 DEF Next

-----------------------------------------------------------------------------
(* The pending checks forget nothing.                                      *)

\* A step that puts P in, takes R out and notes both forgets nothing.
LEMMA ChangeIsRemembered ==
    ASSUME TypeOK, ChangesRemembered, NEW P, NEW R \in SUBSET Db,
           Db' \subseteq Db \union P, Db \ R \subseteq Db', R \intersect Db' = {},
           P \subseteq check_installs',
           check_installs \ R \subseteq check_installs',
           R \subseteq check_erases', check_erases \subseteq check_erases',
           check_file_requires' = (check_file_requires \/ R # {})
    PROVE  ChangesRemembered'
  <1> SUFFICES ASSUME ~checkinstalled, NEW p \in Db', NEW d \in Requires[p],
                      SearchDependency(d)' = {}
               PROVE  \/ p \in check_installs'
                      \/ \E e \in check_erases' : d \in Provides[e]
                      \/ d \in FileDep /\ check_file_requires'
                      \/ d \in IgnoredFileRequires
                      \/ BrokenFromStart(p, d)
    BY DEF ChangesRemembered, IgnoredFileRequires, BrokenFromStart, Owed
  <1>1. CASE p \in P
    BY <1>1
  <1>2. CASE p \in Db /\ SearchDependency(d) = {}
    BY <1>2 DEF ChangesRemembered, TypeOK
  <1>3. CASE SearchDependency(d) # {}
    <2>1. PICK q \in Db : d \in Provides[q] \/ d \in Files[q]
      BY <1>3 DEF SearchDependency, SearchProvides, SearchFilenames
    <2>2. q \in R
      BY <2>1 DEF SearchDependency, SearchProvides, SearchFilenames
    <2>3. CASE d \in Provides[q]
      BY <2>2, <2>3
    <2>4. CASE d \in Files[q]
      <3>1. q \in Pkg
        BY DbPkg
      <3>2. d \in FileDep
        BY <2>4, <3>1, PkgAssumption
      <3>3. QED
        BY <2>2, <3>2
    <2>5. QED
      BY <2>1, <2>3, <2>4
  <1>4. QED
    BY <1>1, <1>2, <1>3

\* Dropping pending checks that found nothing forgets nothing.
LEMMA DroppingIsSafe ==
    ASSUME TypeOK, ChangesRemembered, UNCHANGED dbVars,
           StillErased \subseteq check_erases', StillInstalled \subseteq check_installs',
           FileProblems # {} => check_file_requires'
    PROVE  ChangesRemembered'
  <1>1. Db' = Db
    BY DEF dbVars, Db
  <1> SUFFICES ASSUME ~checkinstalled, NEW p \in Db, NEW d \in Requires[p],
                      SearchDependency(d) = {}
               PROVE  \/ p \in check_installs'
                      \/ \E e \in check_erases' : d \in Provides[e]
                      \/ d \in FileDep /\ check_file_requires'
                      \/ d \in IgnoredFileRequires
                      \/ BrokenFromStart(p, d)
    BY <1>1 DEF ChangesRemembered, SearchDependency, SearchProvides, SearchFilenames,
                IgnoredFileRequires, BrokenFromStart, Owed
  <1>2. p \in Pkg /\ d \in Dep
    BY DbPkg, PkgAssumption
  <1>3. <<p, d>> \in Unresolved({p}) /\ <<p, d>> \in Unresolved(Db)
    BY <1>2 DEF Unresolved
  <1>4. CASE p \in check_installs
    BY <1>3, <1>4 DEF StillInstalled
  <1>5. CASE \E e \in check_erases : d \in Provides[e]
    <2>1. PICK e \in check_erases : d \in Provides[e]
      BY <1>5
    <2>2. <<p, d>> \in EraseProblems(e)
      BY <1>2, <2>1 DEF EraseProblems, SearchDependency
    <2>3. QED
      BY <2>1, <2>2 DEF StillErased
  <1>6. CASE d \in FileDep /\ check_file_requires /\ d \notin IgnoredFileRequires
    <2>1. <<p, d>> \in FileProblems
      BY <1>3, <1>6 DEF FileProblems
    <2>2. QED
      BY <1>6, <2>1
  <1>7. QED
    BY <1>4, <1>5, <1>6 DEF ChangesRemembered

LEMMA PruneIsSafe ==
    ASSUME TypeOK, ChangesRemembered, UNCHANGED dbVars, PruneChecks
    PROVE  ChangesRemembered'
  <1>1. CASE checkinstalled
    BY <1>1 DEF ChangesRemembered
  <1>2. CASE ~checkinstalled
    <2>1. /\ check_erases' = StillErased
          /\ check_installs' = StillInstalled
          /\ check_file_requires' = (check_file_requires /\ (FileProblems # {} \/ StillErased # {}))
      BY <1>2 DEF PruneChecks
    <2>2. FileProblems # {} => check_file_requires
      BY DEF FileProblems
    <2>3. QED
      BY <2>1, <2>2, DroppingIsSafe
  <1>3. QED
    BY <1>1, <1>2

\* An accepted install() or update() enters what it did in the pending checks.
LEMMA PlaceRemembers ==
    ASSUME TypeOK, Disjoint, ChangesRemembered,
           NEW p \in Pkg, NEW call, NEW U \in SUBSET Db, NEW O \in SUBSET Db,
           p \notin Db, Place(call, p, U, O)
    PROVE  Disjoint' /\ ChangesRemembered'
  <1>1. DbPut(p, U \union O)
    BY DEF Place
  <1>2. Disjoint' /\ (U \union O) \intersect Db' = {}
    BY <1>1, PutDisjoint
  <1>3. Db' \subseteq Db \union {p} /\ Db \ (U \union O) \subseteq Db'
    BY <1>1, DbPutBounds
  <1>4. /\ {p} \subseteq check_installs'
        /\ check_installs \ (U \union O) \subseteq check_installs'
        /\ U \union O \subseteq check_erases' /\ check_erases \subseteq check_erases'
        /\ check_file_requires' = (check_file_requires \/ U \union O # {})
    BY DEF Place
  <1>5. ChangesRemembered'
    BY <1>2, <1>3, <1>4, ChangeIsRemembered
  <1>6. QED
    BY <1>2, <1>5

\* And so does an accepted erase().
LEMMA EraseRemembers ==
    ASSUME TypeOK, Disjoint, ChangesRemembered, NEW p \in Db, ErasePkg(p)
    PROVE  Disjoint' /\ ChangesRemembered'
  <1>1. /\ DbRemove(p)
        /\ check_installs' = check_installs \ {p}
        /\ check_erases' = check_erases \union {p}
        /\ check_file_requires' = TRUE
    BY DEF ErasePkg
  <1>2. Disjoint' /\ p \notin Db'
    BY <1>1, RemoveDisjoint
  <1>3. Db' \subseteq Db /\ Db \ {p} \subseteq Db'
    BY <1>1, DbRemoveBounds
  <1>4. check_file_requires' = (check_file_requires \/ {p} # {})
    BY <1>1
  <1>5. ChangesRemembered'
    BY <1>1, <1>2, <1>3, <1>4, ChangeIsRemembered
  <1>6. QED
    BY <1>2, <1>5

LEMMA ChangesRememberedStep ==
    ASSUME TypeOK, Disjoint, ChangesRemembered, [Next]_vars
    PROVE  Disjoint' /\ ChangesRemembered'
  <1>1. ASSUME NEW p \in Pkg, NEW call, NEW U \in SUBSET Db, NEW O \in SUBSET Db,
               p \notin Db, Place(call, p, U, O)
        PROVE  Disjoint' /\ ChangesRemembered'
    BY <1>1, PlaceRemembers
  <1>2. ASSUME NEW p \in Db, ErasePkg(p)
        PROVE  Disjoint' /\ ChangesRemembered'
    BY <1>2, EraseRemembers
  <1>3. CASE Check
    <2>1. UNCHANGED dbVars /\ PruneChecks
      BY <1>3 DEF Check, Resolve
    <2>2. QED
      BY <2>1, PruneIsSafe DEF Disjoint, Disk, dbVars
  <1>4. CASE UNCHANGED <<dbVars, opVars, checkVars>>
    BY <1>4 DEF dbVars, opVars, checkVars, Disjoint, Disk, ChangesRemembered,
                SearchDependency, SearchProvides, SearchFilenames, Db
  <1>5. QED
    BY <1>1, <1>2, <1>3, <1>4, NextCases

LEMMA RememberedInit == Init => Disjoint /\ ChangesRemembered
  <1> SUFFICES ASSUME Init PROVE Disjoint /\ ChangesRemembered
    OBVIOUS
  <1>1. Disjoint
    BY DEF Init, Disjoint, Disk
  <1>2. Db = Installed
    BY PkgAssumption DEF Init, Db, Disk
  <1>3. ChangesRemembered
    BY <1>2 DEF ChangesRemembered, BrokenFromStart, SearchDependency, SearchProvides,
                SearchFilenames, Owed
  <1>4. QED
    BY <1>1, <1>3

\* In every reachable state, for any packages and dependencies, a dependency
\* the transaction broke is one the incremental checks will still look at.
THEOREM ChangesAreRemembered == Spec => [](Disjoint /\ ChangesRemembered)
  <1>1. Init => Disjoint /\ ChangesRemembered
    BY RememberedInit
  <1>2. TypeOK /\ Disjoint /\ ChangesRemembered /\ [Next]_vars => (Disjoint /\ ChangesRemembered)'
    BY ChangesRememberedStep
  <1>3. QED
    BY <1>1, <1>2, TypeCorrect, PTL DEF Spec

-----------------------------------------------------------------------------
(* Accepted transactions break nothing.                                    *)

\* An accepting check means no pending check found anything, so that what is
\* unresolved was so from the start or is an ignored file name.
LEMMA ChecksFoundNothing ==
    ASSUME TypeOK, ChangesRemembered, CheckDependencies = "OK"
    PROVE  \A u \in Unresolved(Db) :
               BrokenFromStart(u[1], u[2]) \/ u[2] \in IgnoredFileRequires
  <1> SUFFICES ASSUME NEW u \in Unresolved(Db), u[2] \notin IgnoredFileRequires
               PROVE  BrokenFromStart(u[1], u[2])
    OBVIOUS
  <1>1. CASE checkinstalled
    BY <1>1 DEF CheckDependencies
  <1>2. CASE ~checkinstalled
    <2> DEFINE p == u[1]
               d == u[2]
    <2>1. /\ p \in Db /\ d \in Requires[p] /\ SearchDependency(d) = {}
          /\ u = <<p, d>> /\ d \in Dep
      BY DEF Unresolved
    <2>2. StillErased = {} /\ StillInstalled = {} /\ FileProblems = {}
      BY <1>2 DEF CheckDependencies
    <2>3. p \notin check_installs
      BY <2>1, <2>2 DEF StillInstalled, Unresolved
    <2>4. ~ \E e \in check_erases : d \in Provides[e]
      <3> SUFFICES ASSUME NEW e \in check_erases, d \in Provides[e] PROVE FALSE
        OBVIOUS
      <3>1. u \in EraseProblems(e)
        BY <2>1 DEF EraseProblems, SearchDependency
      <3>2. QED
        BY <2>2, <3>1 DEF StillErased
    <2>5. ~(d \in FileDep /\ check_file_requires)
      BY <2>1, <2>2 DEF FileProblems
    <2>6. QED
      BY <1>2, <2>1, <2>3, <2>4, <2>5 DEF ChangesRemembered
  <1>3. QED
    BY <1>1, <1>2

\* Whenever resolve() has just accepted the transaction, every dependency that
\* is unresolved was so before it, or is a file nobody owned at the start.
THEOREM ResolvedIsSound == Spec => []ResolvedBreaksNothing
  <1>1. Init => ResolvedBreaksNothing
    BY DEF Init, ResolvedBreaksNothing
  <1>2. TypeOK /\ ChangesRemembered /\ ResolvedBreaksNothing /\ [Next]_vars
          => ResolvedBreaksNothing'
    <2> SUFFICES ASSUME TypeOK, ChangesRemembered, ResolvedBreaksNothing, [Next]_vars
                 PROVE  ResolvedBreaksNothing'
      OBVIOUS
    <2>1. CASE Check
      <3>1. Db' = Db /\ Unresolved(Db)' = Unresolved(Db)
        BY <2>1 DEF Check, Resolve, dbVars, Db, Unresolved, SearchDependency,
                    SearchProvides, SearchFilenames
      <3>2. last'.ret = "OK" => CheckDependencies = "OK"
        BY <2>1 DEF Check, Resolve, Return, ResolveResult
      <3>3. QED
        BY <3>1, <3>2, ChecksFoundNothing
           DEF ResolvedBreaksNothing, BrokenFromStart, IgnoredFileRequires, Owed
    <2>2. CASE last'.call # "resolve"
      BY <2>2 DEF ResolvedBreaksNothing
    <2>3. CASE UNCHANGED <<mem, deleted, last>>
      BY <2>3 DEF ResolvedBreaksNothing, Unresolved, Db, SearchDependency, SearchProvides,
                  SearchFilenames, BrokenFromStart, IgnoredFileRequires, Owed
    <2>4. ASSUME NEW p, ErasePkg(p) PROVE last'.call # "resolve"
      BY <2>4 DEF ErasePkg, Refuse, Return
    <2>5. ASSUME NEW call \in Calls, NEW p, NEW U, NEW O, Place(call, p, U, O)
          PROVE  last'.call = call
      BY <2>5 DEF Place, Return
    <2>6. QED
      BY <2>1, <2>2, <2>3, <2>4, <2>5, NextCases DEF dbVars
  <1>3. QED
    BY <1>1, <1>2, TypeCorrect, ChangesAreRemembered, PTL DEF Spec

-----------------------------------------------------------------------------
(* The database and the operations agree.                                  *)

\* With an RpmMemoryDB, or with an RpmShadowDB none of whose erased packages
\* is ever taken back, every deleted package is one that is being erased.
Agreement ==
    /\ DatabaseMatchesOperations
    /\ Disjoint
    /\ deleted \subseteq erases
    /\ ~ShadowDB => deleted = {}

\* Only the autoerase loop takes packages back.
NothingTakenBack == ~autoerase => readd = {}

\* What is in the database was installed before exactly if it is not an added
\* package, which is how isInstalled() is meant to be read.
LEMMA InstalledIsOriginal ==
    ASSUME DatabaseMatchesOperations
    PROVE  /\ \A r \in Db : IsInstalled(r) <=> r \in Installed
           /\ \A r \in Db : ~IsInstalled(r) <=> r \in installs
           /\ \A r \in Pkg \ Db : IsInstalled(r) <=> r \in Installed
  BY DEF DatabaseMatchesOperations, IsInstalled

LEMMA AgreementPlace ==
    ASSUME Agreement, NEW p \in Pkg, NEW call,
           NEW U \in SUBSET Db, NEW O \in SUBSET Db, p \notin Db, p \notin deleted,
           Place(call, p, U, O)
    PROVE  Agreement'
  <1> DEFINE gone == U \union O
  <1>1. DbPut(p, gone) /\ p \notin gone
    BY DEF Place
  <1>2. Disjoint' /\ gone \intersect Db' = {}
    BY <1>1, PutDisjoint DEF Agreement
  <1>3. Db' \subseteq Db \union {p} /\ Db \ gone \subseteq Db'
    BY <1>1, DbPutBounds
  <1>4. p \in Db'
    BY <1>1 DEF DbPut, Db
  <1>5. Db' = (Db \union {p}) \ gone
    BY <1>1, <1>2, <1>3, <1>4
  <1>6. /\ installs' = (IF p \in Installed THEN installs ELSE installs \union {p}) \ gone
        /\ erases' = (erases \ {p}) \union (gone \intersect Installed)
    BY InstalledIsOriginal DEF Place, Agreement
  <1>7. DatabaseMatchesOperations'
    BY <1>1, <1>5, <1>6 DEF Agreement, DatabaseMatchesOperations
  <1>8. deleted' \subseteq erases' /\ (~ShadowDB => deleted' = {})
    BY <1>1, <1>6 DEF DbPut, Agreement, Disk
  <1>9. QED
    BY <1>2, <1>7, <1>8 DEF Agreement

LEMMA AgreementErase ==
    ASSUME Agreement, NEW p \in Db, ErasePkg(p)
    PROVE  Agreement'
  <1>1. /\ DbRemove(p)
        /\ erases' = IF IsInstalled(p) THEN erases \union {p} ELSE erases
        /\ installs' = installs \ {p}
    BY DEF ErasePkg
  <1>2. Disjoint' /\ p \notin Db'
    BY <1>1, RemoveDisjoint DEF Agreement
  <1>3. Db' = Db \ {p}
    BY <1>1, <1>2, DbRemoveBounds
  <1>4. IsInstalled(p) <=> p \in Installed
    BY InstalledIsOriginal DEF Agreement
  <1>5. DatabaseMatchesOperations'
    BY <1>1, <1>3, <1>4 DEF Agreement, DatabaseMatchesOperations
  <1>6. deleted' \subseteq erases' /\ (~ShadowDB => deleted' = {})
    BY <1>1, <1>4 DEF DbRemove, Agreement, Disk
  <1>7. QED
    BY <1>2, <1>5, <1>6 DEF Agreement

LEMMA AgreementStep ==
    ASSUME Agreement, NothingTakenBack, ~(ShadowDB /\ autoerase), [Next]_vars
    PROVE  Agreement' /\ NothingTakenBack'
  <1>1. ASSUME NEW p \in Pkg, NEW call, NEW U \in SUBSET Db, NEW O \in SUBSET Db,
               p \notin Db, p \in Installed => p \in readd,
               Place(call, p, U, O), readd' \subseteq readd
        PROVE  Agreement' /\ NothingTakenBack'
    <2>1. p \notin deleted
      BY <1>1 DEF Agreement, NothingTakenBack, DatabaseMatchesOperations
    <2>2. QED
      BY <1>1, <2>1, AgreementPlace DEF NothingTakenBack
  <1>2. ASSUME NEW p \in Db, ErasePkg(p), readd' = readd \/ autoerase
        PROVE  Agreement' /\ NothingTakenBack'
    BY <1>2, AgreementErase DEF NothingTakenBack
  <1>3. CASE Check
    BY <1>3 DEF Check, Idle, Resolve, dbVars, opVars, Agreement, DatabaseMatchesOperations,
                Disjoint, Db, Disk, NothingTakenBack
  <1>4. CASE UNCHANGED <<dbVars, opVars, checkVars>> /\ readd' \subseteq readd
    BY <1>4 DEF dbVars, opVars, Agreement, DatabaseMatchesOperations, Disjoint, Db, Disk,
                NothingTakenBack
  <1>5. QED
    BY <1>1, <1>2, <1>3, <1>4, NextCases

LEMMA AgreementInit == Init => Agreement /\ NothingTakenBack
  BY PkgAssumption
     DEF Init, Agreement, NothingTakenBack, DatabaseMatchesOperations, Disjoint, Db, Disk

LEMMA AgreementHolds ==
    ASSUME ~(ShadowDB /\ autoerase)
    PROVE  Spec => [](Agreement /\ NothingTakenBack)
  <1>1. Agreement /\ NothingTakenBack /\ [Next]_vars => (Agreement /\ NothingTakenBack)'
    BY AgreementStep
  <1>2. QED
    BY <1>1, AgreementInit, PTL DEF Spec

\* The database the checks run on is what the operations will leave behind, for
\* every caller except an autoerase loop over an RpmShadowDB.
THEOREM DatabaseAgrees ==
    ASSUME ~(ShadowDB /\ autoerase)
    PROVE  Spec => []DatabaseMatchesOperations
  <1>1. Agreement => DatabaseMatchesOperations
    BY DEF Agreement
  <1>2. QED
    BY <1>1, AgreementHolds, PTL

-----------------------------------------------------------------------------
(* Every installed package is replaced once.                               *)

Owned(p) == updates[p] \union obsoletes[p]

LEMMA ReplacedOncePlace ==
    ASSUME TypeOK, Agreement, ReplacedOnce, NEW p \in Pkg \ Installed, p \notin Db,
           NEW call, NEW U \in SUBSET Db, NEW O \in SUBSET Db, U \intersect O = {},
           Place(call, p, U, O)
    PROVE  ReplacedOnce'
  <1> DEFINE gone == U \union O
             old == {r \in gone : IsInstalled(r)}
             new == gone \ old
             inhU == Inherited(updates, new)
             inhO == Inherited(obsoletes, new)
  <1>1. gone \subseteq Pkg /\ p \notin gone
    BY DbPkg
  <1>2. old = gone \intersect Installed /\ old \intersect erases = {} /\ new \subseteq installs
    BY InstalledIsOriginal DEF Agreement, DatabaseMatchesOperations
  <1>3. Owned(p) = {}
    BY DEF ReplacedOnce, Agreement, DatabaseMatchesOperations, Owned
  <1>4. /\ inhU \subseteq erases /\ inhO \subseteq erases /\ inhU \intersect inhO = {}
        /\ \A q \in Pkg \ gone : Owned(q) \intersect (inhU \union inhO) = {}
    BY <1>1 DEF ReplacedOnce, Inherited, Owned
  <1>5. /\ updates'[p] = (U \intersect old) \union inhU
        /\ obsoletes'[p] = (O \intersect old) \union inhO
        /\ \A q \in Pkg \ {p} : Owned(q)' = IF q \in gone THEN {} ELSE Owned(q)
    BY <1>1, <1>3 DEF Place, Owned
  <1>6. erases' = erases \union old /\ installs' = (installs \union {p}) \ gone
    <2>1. ~IsInstalled(p) /\ p \notin erases
      BY InstalledIsOriginal DEF Agreement, DatabaseMatchesOperations
    <2>2. QED
      BY <2>1 DEF Place
  <1>7. Owned(p)' = old \union inhU \union inhO
    BY <1>5 DEF Owned
  <1>8. \A q \in Pkg : Owned(q)' \subseteq erases'
    BY <1>4, <1>5, <1>6, <1>7 DEF ReplacedOnce, Owned
  <1>9. \A q \in Pkg : Owned(q)' # {} => q \in installs'
    BY <1>1, <1>5, <1>6 DEF ReplacedOnce, Owned
  <1>10. \A q \in Pkg : updates'[q] \intersect obsoletes'[q] = {}
    <2>1. updates'[p] \intersect obsoletes'[p] = {}
      BY <1>2, <1>4, <1>5
    <2>2. ASSUME NEW q \in Pkg \ {p} PROVE updates'[q] \intersect obsoletes'[q] = {}
      BY <2>2, <1>1 DEF Place, ReplacedOnce
    <2>3. QED
      BY <2>1, <2>2
  <1>11. \A q \in Pkg \ {p} : Owned(q)' \intersect Owned(p)' = {}
    <2> SUFFICES ASSUME NEW q \in Pkg \ {p}, q \notin gone
                 PROVE  Owned(q) \intersect Owned(p)' = {}
      BY <1>5
    <2>1. Owned(q) \intersect old = {}
      BY <1>2 DEF ReplacedOnce, Owned
    <2>2. QED
      BY <1>4, <1>7, <2>1
  <1>12. \A q, r \in Pkg : q # r => Owned(q)' \intersect Owned(r)' = {}
    <2>1. ASSUME NEW q \in Pkg \ {p}, NEW r \in Pkg \ {p}, q # r
          PROVE  Owned(q)' \intersect Owned(r)' = {}
      BY <1>5, <2>1 DEF ReplacedOnce, Owned
    <2>2. QED
      BY <1>11, <2>1
  <1>13. QED
    BY <1>8, <1>9, <1>10, <1>12 DEF ReplacedOnce, Owned

LEMMA ReplacedOnceErase ==
    ASSUME TypeOK, ReplacedOnce, NEW p \in Db, ErasePkg(p)
    PROVE  ReplacedOnce'
  <1>1. p \in Pkg
    BY DbPkg
  <1>2. /\ \A q \in Pkg : updates'[q] = IF q = p THEN {} ELSE updates[q]
        /\ \A q \in Pkg : obsoletes'[q] = IF q = p THEN {} ELSE obsoletes[q]
    BY <1>1 DEF ErasePkg, Forget, TypeOK
  <1>3. erases \subseteq erases' /\ installs' = installs \ {p}
    BY DEF ErasePkg
  <1>4. QED
    BY <1>2, <1>3 DEF ReplacedOnce

\* Without an autoerase loop, whatever is installed, updated, obsoleted and
\* erased, in whatever order, no replaced package is listed twice, survives, or
\* is listed under a package that is no longer added.
THEOREM ReplacedOnceHolds ==
    ASSUME ~autoerase
    PROVE  Spec => []ReplacedOnce
  <1>1. Init => ReplacedOnce
    BY DEF Init, ReplacedOnce
  <1>2. TypeOK /\ Agreement /\ NothingTakenBack /\ ReplacedOnce /\ [Next]_vars
          => Agreement' /\ NothingTakenBack' /\ ReplacedOnce'
    <2> SUFFICES ASSUME TypeOK, Agreement, NothingTakenBack, ReplacedOnce, [Next]_vars
                 PROVE  Agreement' /\ NothingTakenBack' /\ ReplacedOnce'
      OBVIOUS
    <2>1. Agreement' /\ NothingTakenBack'
      BY AgreementStep
    <2>2. ASSUME NEW p \in Pkg, NEW call, NEW U \in SUBSET Db, NEW O \in SUBSET Db,
                 p \notin Db, U \intersect O = {}, p \in Installed => p \in readd,
                 Place(call, p, U, O)
          PROVE  ReplacedOnce'
      <3>1. p \notin Installed
        BY <2>2 DEF NothingTakenBack
      <3>2. QED
        BY <2>2, <3>1, ReplacedOncePlace
    <2>3. ASSUME NEW p \in Db, ErasePkg(p) PROVE ReplacedOnce'
      BY <2>3, ReplacedOnceErase
    <2>4. ASSUME Check \/ UNCHANGED <<dbVars, opVars, checkVars>> PROVE ReplacedOnce'
      BY <2>4 DEF Check, Resolve, opVars, ReplacedOnce
    <2>5. ReplacedOnce'
      BY <2>2, <2>3, <2>4, NextCases
    <2>6. QED
      BY <2>1, <2>5
  <1>3. QED
    BY <1>1, <1>2, AgreementInit, TypeCorrect, PTL DEF Spec

\* What RpmOrderer is handed: no package comes and goes, and each that is replaced is
\* replaced by one package, in one way, and goes.
OnceHandedOver ==
    /\ installs \intersect erases = {}
    /\ \A p \in installs :
          /\ updates[p] \union obsoletes[p] \subseteq erases
          /\ updates[p] \intersect obsoletes[p] = {}
          /\ \A q \in installs \ {p} :
                (updates[p] \union obsoletes[p]) \intersect (updates[q] \union obsoletes[q]) = {}

\* Without an autoerase loop, whatever was collected, the lists a controller or the yum
\* front end passes to RpmOrderer are such that its operations are given once: the
\* hypothesis HandedOverOnce of the proofs of Orderer.
THEOREM OnceHandedOverHolds ==
    ASSUME ~autoerase
    PROVE  Spec => []OnceHandedOver
  <1>1. TypeOK /\ DatabaseMatchesOperations /\ ReplacedOnce => OnceHandedOver
    BY DEF TypeOK, DatabaseMatchesOperations, ReplacedOnce, OnceHandedOver
  <1>2. Spec => []DatabaseMatchesOperations
    BY DatabaseAgrees
  <1>3. QED
    BY <1>1, <1>2, ReplacedOnceHolds, TypeCorrect, PTL

\* What was replaced before an accepted install() or update() is so afterwards:
\* only added packages replace, and those that are replaced in their turn are
\* inherited from.
LEMMA InheritedPlace ==
    ASSUME TypeOK, Agreement, ReplacedOnce, NEW p \in Pkg, p \notin Db, NEW call,
           NEW U \in SUBSET Db, NEW O \in SUBSET Db, Place(call, p, U, O)
    PROVE  Replaced \subseteq Replaced'
  <1> DEFINE gone == U \union O
             old == {r \in gone : IsInstalled(r)}
  <1> SUFFICES ASSUME NEW q \in Pkg, NEW r \in Owned(q)
               PROVE  \E s \in Pkg : r \in Owned(s)'
    BY DEF Replaced, Owned
  <1>1. \A s \in Pkg \ ({p} \union gone) : Owned(s)' = Owned(s)
    BY DEF Place, Owned
  <1>2. /\ Owned(p) \subseteq Owned(p)'
        /\ \A s \in gone \ old : Owned(s) \subseteq Owned(p)'
    BY DEF Place, Owned, Inherited
  <1>3. q \notin old
    <2>1. q \in installs
      BY DEF ReplacedOnce, Owned
    <2>2. QED
      BY <2>1, InstalledIsOriginal DEF Agreement, DatabaseMatchesOperations
  <1>4. QED
    BY <1>1, <1>2, <1>3

\* Without an autoerase loop no update loses track of an installed package that
\* some package of the transaction replaces, for any chain of updates and obsoletes.
THEOREM ReplacementsInheritedHolds ==
    ASSUME ~autoerase
    PROVE  Spec => ReplacementsInherited
  <1>1. TypeOK /\ Agreement /\ ReplacedOnce /\ [Next]_vars
          => [last'.call = "update" => Replaced \subseteq Replaced']_vars
    <2> SUFFICES ASSUME TypeOK, Agreement, ReplacedOnce, [Next]_vars, last'.call = "update"
                 PROVE  Replaced \subseteq Replaced'
      OBVIOUS
    <2>1. ASSUME NEW p \in Db, ErasePkg(p) PROVE FALSE
      BY <2>1 DEF ErasePkg, Return
    <2>2. ASSUME Check \/ UNCHANGED <<dbVars, opVars, checkVars>> PROVE Replaced' = Replaced
      BY <2>2 DEF Check, Resolve, opVars, Replaced
    <2>3. QED
      BY <2>1, <2>2, NextCases, InheritedPlace
  <1>2. QED
    BY <1>1, TypeCorrect, AgreementHolds, ReplacedOnceHolds, PTL DEF Spec, ReplacementsInherited


-----------------------------------------------------------------------------
(* The calls under way.                                                    *)

\* The fields of the frames.
Fields(kind) ==
    CASE kind = "best" -> {"f", "cmd", "todo", "arch", "do_obsolete", "single", "got"}
      [] kind = "remove" -> {"f", "todo", "got"}
      [] kind = "extras" -> {"f", "pkg", "todo", "do_obsolete", "got"}
      [] kind = "update" -> {"f", "todo", "do_obsolete", "got"}
      [] kind = "archs" -> {"f", "todo", "ipkg", "dict", "do_obsolete", "buckets", "res", "got"}
      [] kind = "obsoletes" -> {"f", "pkglist", "named", "next", "readd", "res", "got"}
      [] kind = "deps" -> {"f", "unresolvable", "dep", "res", "got"}
      [] kind = "dep" -> {"f", "pkg", "dep", "at", "got"}
      [] kind = "autoerase" -> {"f", "pkg", "started", "todo", "got"}
      [] kind = "conflicts" -> {"f", "kind", "todo", "names", "res", "left", "got"}
      [] kind = "conflictErase" -> {"f", "kind", "got"}
      [] kind = "obsoleteConflicts" -> {"f", "todo", "got"}
      [] kind = "main" -> {"f", "at", "todo", "got"}

\* The calls that may be under way below one of a kind.  Below the calls that
\* add packages none erases automatically, and the other way round.
Adding == {"best", "extras", "update", "archs", "obsoletes"}
Below(kind) ==
    CASE kind = "main" -> {}
      [] kind = "dep" -> {"deps", "main"}
      [] kind = "autoerase" -> {"dep", "deps", "conflictErase", "obsoleteConflicts", "main"}
      [] kind \in Adding -> Adding \union {"dep", "deps", "conflicts", "main"}
      [] kind \in {"remove", "deps", "conflicts", "conflictErase", "obsoleteConflicts"} -> {"main"}
CallKinds == Adding \union {"remove", "deps", "dep", "autoerase", "conflicts", "conflictErase",
                        "obsoleteConflicts", "main"}

\* The packages a call has in hand, when those of E have been erased
\* automatically: what it may still add comes from the repositories, or is
\* taken back, and was not erased.  Without autoerase nothing is taken back.
Holds(frame, E, auto) ==
    /\ frame.f = "best" => frame.todo \subseteq Available \ E
    /\ frame.f = "remove" => frame.todo \subseteq Pkg
    /\ frame.f = "extras" => frame.pkg \in Available
    /\ frame.f = "update" => frame.todo \subseteq Available
    /\ frame.f = "archs" =>
          /\ frame.todo \subseteq Pkg /\ frame.ipkg \subseteq Pkg
          /\ \A a \in DOMAIN frame.buckets : frame.buckets[a] \subseteq Available
    /\ frame.f = "obsoletes" => frame.next \in Nat \ {0}
    /\ frame.f = "obsoletes" /\ frame.readd # <<>> =>
              /\ DOMAIN frame.readd = 1 .. 3
              /\ frame.readd[1] \in Available \ E
    /\ frame.f \in {"dep", "autoerase"} => frame.pkg \in Pkg
    /\ frame.f = "dep" => frame.at \in {"best", "update", "autoerase", "end"}
    /\ frame.f = "autoerase" => frame.todo \subseteq Pkg \ E
    /\ frame.f = "obsoleteConflicts" => frame.todo \subseteq Pkg
    /\ ~auto => /\ frame.f \notin {"autoerase", "conflictErase"}
                /\ frame.f = "obsoleteConflicts" => frame.todo = {}
                /\ frame.f = "dep" => frame.at # "autoerase"

Frame(frame, E, auto) ==
    /\ frame.f \in CallKinds
    /\ DOMAIN frame = Fields(frame.f)
    /\ Holds(frame, E, auto)

IsSequence(s) == s \in Seq({s[i] : i \in DOMAIN s})

\* The innermost call is the first, runArgs() or runDepRes() is the last.
Nested(s) ==
    /\ \A i \in 1 .. Len(s) : \A j \in i + 1 .. Len(s) : s[j].f \in Below(s[i].f)
    /\ s # <<>> => s[Len(s)].f = "main"

CallsRight(s, E, auto) ==
    /\ IsSequence(s)
    /\ \A i \in 1 .. Len(s) : Frame(s[i], E, auto)
    /\ Nested(s)

-----------------------------------------------------------------------------
(* The transaction.                                                        *)

\* A package is said to replace others only while it is in the system.
KeptReplace ==
    /\ erases \subseteq Installed
    /\ Db \subseteq Installed \union installs
    /\ \A p \in Pkg : Owned(p) # {} => p \in System

\* Without autoerase the database the checks run on is that system, and only
\* added packages replace.
NothingTaken == ~request.autoerase => Agreement /\ ReplacedOnce

-----------------------------------------------------------------------------
(* Calls, returns and steps of the innermost call.                         *)

LEMMA SequenceIs == ASSUME NEW S, NEW s \in Seq(S) PROVE IsSequence(s)
<1> DEFINE R == {s[i] : i \in DOMAIN s}
<1>1. Len(s) \in Nat /\ s \in [1 .. Len(s) -> R]
  OBVIOUS
<1> HIDE DEF R
<1>2. s \in Seq(R)
  BY <1>1, SeqDef
<1> QED
  BY <1>2 DEF IsSequence, R

LEMMA OfSequence ==
    ASSUME NEW s, IsSequence(s), s # <<>>
    PROVE  /\ Len(s) \in Nat /\ Len(s) >= 1 /\ DOMAIN s = 1 .. Len(s)
           /\ Head(s) = s[1]
BY DEF IsSequence

\* The stacks after a call, a step of the innermost call, and a return to frame.
Called(s, callee, caller) == <<callee, caller>> \o Tail(s)
Continued(s, frame) == <<frame>> \o Tail(s)
Returned(s, frame) == <<frame>> \o SubSeq(s, 3, Len(s))

LEMMA CallSequence ==
    ASSUME NEW s, IsSequence(s), s # <<>>, NEW caller, NEW callee, NEW t,
           t = Called(s, callee, caller)
    PROVE  /\ IsSequence(t) /\ Len(t) = Len(s) + 1 /\ t[1] = callee /\ t[2] = caller
           /\ \A i \in 3 .. Len(t) : t[i] = s[i - 1]
<1> USE DEF Called
<1> DEFINE S == {s[i] : i \in DOMAIN s} \union {callee, caller}
<1>1. s \in Seq(S)
  BY DEF IsSequence
<1> HIDE DEF S
<1>2. /\ Tail(s) \in Seq(S) /\ Len(Tail(s)) = Len(s) - 1
      /\ \A i \in 1 .. Len(s) - 1 : Tail(s)[i] = s[i + 1]
  BY <1>1
<1>3. <<callee, caller>> \in Seq(S)
  BY DEF S
<1>4. t \in Seq(S)
  BY <1>2, <1>3
<1>5. IsSequence(t)
  BY <1>4, SequenceIs
<1>6. /\ Len(t) = Len(s) + 1 /\ t[1] = callee /\ t[2] = caller
      /\ \A i \in 3 .. Len(t) : t[i] = s[i - 1]
  BY <1>1, <1>2, <1>3
<1> QED
  BY <1>5, <1>6

LEMMA ContinueSequence ==
    ASSUME NEW s, IsSequence(s), s # <<>>, NEW frame, NEW t, t = Continued(s, frame)
    PROVE  /\ IsSequence(t) /\ Len(t) = Len(s) /\ t[1] = frame
           /\ \A i \in 2 .. Len(t) : t[i] = s[i]
<1> USE DEF Continued
<1> DEFINE S == {s[i] : i \in DOMAIN s} \union {frame}
<1>1. s \in Seq(S)
  BY DEF IsSequence
<1> HIDE DEF S
<1>2. /\ Tail(s) \in Seq(S) /\ Len(Tail(s)) = Len(s) - 1
      /\ \A i \in 1 .. Len(s) - 1 : Tail(s)[i] = s[i + 1]
  BY <1>1
<1>3. <<frame>> \in Seq(S)
  BY DEF S
<1>4. t \in Seq(S)
  BY <1>2, <1>3
<1>5. IsSequence(t)
  BY <1>4, SequenceIs
<1>6. Len(t) = Len(s) /\ t[1] = frame /\ \A i \in 2 .. Len(t) : t[i] = s[i]
  BY <1>1, <1>2, <1>3
<1> QED
  BY <1>5, <1>6

LEMMA RestOfSequence ==
    ASSUME NEW S, NEW s \in Seq(S), Len(s) >= 2
    PROVE  /\ SubSeq(s, 3, Len(s)) \in Seq(S)
           /\ Len(SubSeq(s, 3, Len(s))) = Len(s) - 2
           /\ \A i \in 1 .. Len(s) - 2 : SubSeq(s, 3, Len(s))[i] = s[i + 2]
<1> DEFINE n == Len(s)
<1>1. n \in Nat /\ n >= 2 /\ \A i \in 3 .. n : s[i] \in S
  OBVIOUS
<1> HIDE DEF n
<1>2. /\ SubSeq(s, 3, n) \in Seq(S)
      /\ Len(SubSeq(s, 3, n)) = IF 3 <= n THEN n - 3 + 1 ELSE 0
      /\ \A i \in 1 .. n - 3 + 1 : SubSeq(s, 3, n)[i] = s[3 + i - 1]
  <2>1. n \in Int /\ 3 \in Int
    BY <1>1
  <2> QED
    BY <1>1, <2>1, SubSeqProperties
<1>3. Len(SubSeq(s, 3, n)) = n - 2
  BY <1>1, <1>2
<1>4. \A i \in 1 .. n - 2 : i \in 1 .. n - 3 + 1 /\ 3 + i - 1 = i + 2
  BY <1>1
<1>5. \A i \in 1 .. n - 2 : SubSeq(s, 3, n)[i] = s[i + 2]
  BY <1>2, <1>4
<1> QED
  BY <1>2, <1>3, <1>5 DEF n

LEMMA ReplySequence ==
    ASSUME NEW s, IsSequence(s), Len(s) >= 2, NEW frame, NEW t,
           t = Returned(s, frame)
    PROVE  /\ IsSequence(t) /\ Len(t) = Len(s) - 1 /\ t[1] = frame
           /\ \A i \in 2 .. Len(t) : t[i] = s[i + 1]
<1> USE DEF Returned
<1> DEFINE S == {s[i] : i \in DOMAIN s} \union {frame}
           rest == SubSeq(s, 3, Len(s))
<1>1. s \in Seq(S)
  BY DEF IsSequence
<1> HIDE DEF S
<1>2. /\ rest \in Seq(S) /\ Len(rest) = Len(s) - 2
      /\ \A i \in 1 .. Len(s) - 2 : rest[i] = s[i + 2]
  BY <1>1, RestOfSequence
<1>3. <<frame>> \in Seq(S)
  BY DEF S
<1> HIDE DEF rest
<1>4. t \in Seq(S)
  BY <1>2, <1>3 DEF rest
<1>5. IsSequence(t)
  BY <1>4, SequenceIs
<1>6. Len(t) = Len(s) - 1 /\ t[1] = frame /\ \A i \in 2 .. Len(t) : t[i] = s[i + 1]
  BY <1>1, <1>2, <1>3 DEF rest
<1> QED
  BY <1>5, <1>6

\* What a call did is added to its caller, which has the same packages in hand.
LEMMA FrameGot ==
    ASSUME NEW E, NEW auto, NEW frame, Frame(frame, E, auto), NEW b
    PROVE  Frame([frame EXCEPT !.got = b], E, auto) /\ [frame EXCEPT !.got = b].f = frame.f
<1> DEFINE g == [frame EXCEPT !.got = b]
<1>1. frame.f \in CallKinds /\ DOMAIN frame = Fields(frame.f) /\ Holds(frame, E, auto)
  BY DEF Frame
<1>2. "got" \in Fields(frame.f) /\ "f" \in Fields(frame.f)
  BY <1>1 DEF Fields, CallKinds, Adding
<1>3. /\ DOMAIN g = Fields(frame.f)
      /\ \A x \in Fields(frame.f) \ {"got"} : g[x] = frame[x]
  BY <1>1
<1>4. g.f = frame.f
  BY <1>2, <1>3
<1> HIDE DEF g
<1>5. Holds(g, E, auto)
  BY <1>1, <1>3, <1>4 DEF Holds, Fields
<1>6. Frame(g, E, auto)
  BY <1>1, <1>3, <1>4, <1>5 DEF Frame
<1> QED
  BY <1>4, <1>6 DEF g

LEMMA CallKeepsCalls ==
    ASSUME NEW E, NEW auto, NEW s, CallsRight(s, E, auto), s # <<>>,
           NEW caller, Frame(caller, E, auto), caller.f = s[1].f,
           NEW callee, Frame(callee, E, auto), callee.f # "main",
           {s[1].f} \union Below(s[1].f) \subseteq Below(callee.f),
           NEW t, t = Called(s, callee, caller)
    PROVE  CallsRight(t, E, auto)
<1>1. /\ IsSequence(t) /\ Len(t) = Len(s) + 1 /\ t[1] = callee /\ t[2] = caller
      /\ \A i \in 3 .. Len(t) : t[i] = s[i - 1]
  <2>1. IsSequence(s)
    BY DEF CallsRight
  <2> QED
    BY <2>1, CallSequence
<1>2. Len(s) \in Nat /\ Len(s) >= 1
  BY OfSequence DEF CallsRight
<1>3. \A i \in 1 .. Len(t) : Frame(t[i], E, auto)
  BY <1>1, <1>2 DEF CallsRight
<1>4. \A i \in 2 .. Len(t) : t[i].f = s[i - 1].f
  BY <1>1, <1>2
<1>5. ASSUME NEW i \in 1 .. Len(t), NEW j \in i + 1 .. Len(t) PROVE t[j].f \in Below(t[i].f)
  <2>1. t[j].f = s[j - 1].f /\ j - 1 \in 1 .. Len(s)
    BY <1>1, <1>2, <1>4
  <2>2. CASE i = 1
    <3>1. s[j - 1].f \in {s[1].f} \union Below(s[1].f)
      BY <1>2, <2>1 DEF CallsRight, Nested
    <3> QED
      BY <1>1, <2>1, <2>2, <3>1
  <2>3. CASE i # 1
    <3>1. i - 1 \in 1 .. Len(s) /\ j - 1 \in (i - 1) + 1 .. Len(s) /\ t[i].f = s[i - 1].f
      BY <1>1, <1>2, <1>4, <2>3
    <3> QED
      BY <2>1, <3>1 DEF CallsRight, Nested
  <2> QED
    BY <2>2, <2>3
<1>6. t # <<>> /\ t[Len(t)].f = "main"
  BY <1>1, <1>2, <1>4 DEF CallsRight, Nested
<1> QED
  BY <1>1, <1>3, <1>5, <1>6 DEF CallsRight, Nested

LEMMA ContinueKeepsCalls ==
    ASSUME NEW E, NEW F, NEW auto, NEW s, CallsRight(s, E, auto), s # <<>>,
           NEW frame, Frame(frame, F, auto), frame.f = "main" <=> s[1].f = "main",
           Below(s[1].f) \subseteq Below(frame.f),
           \A i \in 2 .. Len(s) : Frame(s[i], F, auto),
           NEW t, t = Continued(s, frame)
    PROVE  CallsRight(t, F, auto)
<1>1. /\ IsSequence(t) /\ Len(t) = Len(s) /\ t[1] = frame
      /\ \A i \in 2 .. Len(t) : t[i] = s[i]
  <2>1. IsSequence(s)
    BY DEF CallsRight
  <2> QED
    BY <2>1, ContinueSequence
<1>2. Len(s) \in Nat /\ Len(s) >= 1
  BY OfSequence DEF CallsRight
<1>3. \A i \in 1 .. Len(t) : Frame(t[i], F, auto)
  BY <1>1, <1>2
<1>4. ASSUME NEW i \in 1 .. Len(t), NEW j \in i + 1 .. Len(t) PROVE t[j].f \in Below(t[i].f)
  <2>1. j \in 2 .. Len(t) /\ j \in i + 1 .. Len(s) /\ i \in 1 .. Len(s)
    BY <1>1, <1>2
  <2>2. s[j].f \in Below(s[i].f)
    BY <2>1 DEF CallsRight, Nested
  <2>3. CASE i = 1
    BY <1>1, <2>1, <2>2, <2>3
  <2>4. CASE i # 1
    BY <1>1, <2>1, <2>2, <2>4
  <2> QED
    BY <2>3, <2>4
<1>5. t # <<>> /\ t[Len(t)].f = "main"
  <2>1. s[Len(s)].f = "main"
    BY DEF CallsRight, Nested
  <2>2. CASE Len(s) = 1
    <3>1. t[Len(t)] = frame /\ s[1].f = "main"
      BY <1>1, <2>1, <2>2
    <3>2. t[Len(t)].f = "main"
      BY <3>1
    <3>3. t # <<>>
      BY <1>1, <2>2
    <3> QED
      BY <3>2, <3>3
  <2>3. CASE Len(s) # 1
    BY <1>1, <1>2, <2>1, <2>3
  <2> QED
    BY <2>2, <2>3
<1> QED
  BY <1>1, <1>3, <1>4, <1>5 DEF CallsRight, Nested

LEMMA ReplyKeepsCalls ==
    ASSUME NEW E, NEW auto, NEW s, CallsRight(s, E, auto), s # <<>>, s[1].f # "main",
           NEW b, NEW t, t = Returned(s, [s[2] EXCEPT !.got = b])
    PROVE  CallsRight(t, E, auto)
<1>1. Len(s) \in Nat /\ Len(s) >= 2
  BY OfSequence DEF CallsRight, Nested
<1>2. Frame(s[2], E, auto)
  BY <1>1 DEF CallsRight
<1> DEFINE g == [s[2] EXCEPT !.got = b]
<1> HIDE DEF g
<1>3. Frame(g, E, auto) /\ g.f = s[2].f
  <2>1. Frame([s[2] EXCEPT !.got = b], E, auto) /\ [s[2] EXCEPT !.got = b].f = s[2].f
    BY <1>2, FrameGot
  <2> QED
    BY <2>1 DEF g
<1>4. /\ IsSequence(t) /\ Len(t) = Len(s) - 1 /\ t[1] = g
      /\ \A i \in 2 .. Len(t) : t[i] = s[i + 1]
  <2>1. IsSequence(s) /\ t = Returned(s, g)
    BY DEF CallsRight, g
  <2> QED
    BY <1>1, <2>1, ReplySequence
<1>5. ASSUME NEW i \in 1 .. Len(t) PROVE Frame(t[i], E, auto) /\ t[i].f = s[i + 1].f
  <2>1. CASE i = 1
    BY <1>3, <1>4, <2>1
  <2>2. CASE i # 1
    <3>1. t[i] = s[i + 1] /\ i + 1 \in 1 .. Len(s)
      BY <1>1, <1>4, <2>2
    <3> QED
      BY <3>1 DEF CallsRight
  <2> QED
    BY <2>1, <2>2
<1>6. ASSUME NEW i \in 1 .. Len(t), NEW j \in i + 1 .. Len(t) PROVE t[j].f \in Below(t[i].f)
  <2>1. i + 1 \in 1 .. Len(s) /\ j + 1 \in (i + 1) + 1 .. Len(s) /\ j \in 1 .. Len(t)
    BY <1>1, <1>4
  <2> QED
    BY <1>5, <2>1 DEF CallsRight, Nested
<1>7. t # <<>> /\ t[Len(t)].f = "main"
  BY <1>1, <1>4, <1>5 DEF CallsRight, Nested
<1> QED
  BY <1>4, <1>5, <1>6, <1>7 DEF CallsRight, Nested

-----------------------------------------------------------------------------
(* The calls that are made have the right packages in hand.                *)

LEMMA CandidatesHeld ==
    ASSUME NEW P \in SUBSET Available, NEW arch, NEW exact, NEW filereq
    PROVE  Candidates(P, arch, exact, filereq) \subseteq Available \ erase_list
BY DEF Candidates

LEMMA BestPkgFrame ==
    ASSUME NEW cmd, NEW P \in SUBSET Available, NEW arch, NEW exact, NEW filereq,
           NEW do_obsolete, NEW single, NEW auto
    PROVE  LET callee == BestPkg(cmd, P, arch, exact, filereq, do_obsolete, single)
           IN  Frame(callee, erase_list, auto) /\ callee.f = "best"
<1> DEFINE T == Candidates(P, arch, exact, filereq)
<1>1. T \subseteq Available \ erase_list
  BY CandidatesHeld
<1> HIDE DEF T
<1> QED
  BY <1>1 DEF BestPkg, Frame, Holds, Fields, CallKinds, Adding, T

LEMMA PackageFrames ==
    ASSUME NEW E, NEW auto, NEW do_obsolete
    PROVE  /\ \A p \in Available : Frame(Extras(p, do_obsolete), E, auto)
           /\ \A P \in SUBSET Available : Frame(UpdateNames(P, do_obsolete), E, auto)
           /\ \A P \in SUBSET Available, R \in SUBSET Pkg : Frame(PerArch(P, R, do_obsolete), E, auto)
           /\ \A R \in SUBSET Pkg : Frame(Removal(R), E, auto)
<1>1. ASSUME NEW p \in Available PROVE Frame(Extras(p, do_obsolete), E, auto)
  BY DEF Extras, Frame, Holds, Fields, CallKinds, Adding
<1>2. ASSUME NEW P \in SUBSET Available PROVE Frame(UpdateNames(P, do_obsolete), E, auto)
  BY DEF UpdateNames, Frame, Holds, Fields, CallKinds, Adding
<1>3. ASSUME NEW P \in SUBSET Available, NEW R \in SUBSET Pkg
      PROVE  Frame(PerArch(P, R, do_obsolete), E, auto)
  BY DEF PerArch, Frame, Holds, Fields, CallKinds, Adding
<1>4. ASSUME NEW R \in SUBSET Pkg PROVE Frame(Removal(R), E, auto)
  BY DEF Removal, Frame, Holds, Fields, CallKinds, Adding
<1> QED
  BY <1>1, <1>2, <1>3, <1>4

\* update() of the packages of a name in the repositories.
LEMMA NamedUpdate ==
    ASSUME NEW E, NEW auto, NEW n, NEW do_obsolete
    PROVE  LET callee == UpdateNames(FindPkgs(n), do_obsolete)
           IN  Frame(callee, E, auto) /\ callee.f = "update"
<1>1. FindPkgs(n) \in SUBSET Available
  BY DEF FindPkgs
<1>2. Frame(UpdateNames(FindPkgs(n), do_obsolete), E, auto)
  BY <1>1, PackageFrames
<1> QED
  BY <1>2 DEF UpdateNames

LEMMA PlainFrames ==
    ASSUME NEW E, NEW auto
    PROVE  /\ \A list : Frame(HandleObsoletes(list), E, auto)
           /\ Frame(UnresolvedDeps, E, auto)
           /\ \A p \in Pkg : \A d : Frame(ResolveDep(p, d), E, auto)
           /\ \A kind, res, more : Frame(HandleConflicts(kind, res, more), E, auto)
           /\ \A at, todo : Frame(Main(at, todo), E, auto)
<1>1. ASSUME NEW list PROVE Frame(HandleObsoletes(list), E, auto)
  BY DEF HandleObsoletes, Frame, Holds, Fields, CallKinds, Adding
<1>2. Frame(UnresolvedDeps, E, auto)
  BY DEF UnresolvedDeps, Frame, Holds, Fields, CallKinds, Adding
<1>3. ASSUME NEW p \in Pkg, NEW d PROVE Frame(ResolveDep(p, d), E, auto)
  BY DEF ResolveDep, Frame, Holds, Fields, CallKinds, Adding
<1>4. ASSUME NEW kind, NEW res, NEW more PROVE Frame(HandleConflicts(kind, res, more), E, auto)
  BY DEF HandleConflicts, Frame, Holds, Fields, CallKinds, Adding
<1>5. ASSUME NEW at, NEW todo PROVE Frame(Main(at, todo), E, auto)
  BY DEF Main, Frame, Holds, Fields, CallKinds, Adding
<1> QED
  BY <1>1, <1>2, <1>3, <1>4, <1>5

LEMMA ErasingFrames ==
    ASSUME NEW E, NEW auto
    PROVE  /\ auto => \A p \in Pkg : Frame(DoAutoerase(p), E, auto)
           /\ auto => \A kind : Frame(ConflictErases(kind), E, auto)
           /\ TypeOK => Frame(ObsoleteConflicts, E, request.autoerase)
<1>1. ASSUME auto, NEW p \in Pkg PROVE Frame(DoAutoerase(p), E, auto)
  BY <1>1 DEF DoAutoerase, Frame, Holds, Fields, CallKinds, Adding
<1>2. ASSUME auto, NEW kind PROVE Frame(ConflictErases(kind), E, auto)
  BY <1>2 DEF ConflictErases, Frame, Holds, Fields, CallKinds, Adding
<1>3. ASSUME TypeOK PROVE Frame(ObsoleteConflicts, E, request.autoerase)
  <2> DEFINE T == IF request.autoerase THEN {c[2] : c \in GetObsoleteConflicts} ELSE {}
  <2>1. T \subseteq Pkg
    BY <1>3, DbPkg DEF GetObsoleteConflicts
  <2>2. ~request.autoerase => T = {}
    OBVIOUS
  <2> HIDE DEF T
  <2> QED
    BY <2>1, <2>2 DEF ObsoleteConflicts, Frame, Holds, Fields, CallKinds, Adding, T
<1> QED
  BY <1>1, <1>2, <1>3

-----------------------------------------------------------------------------
(* Every step keeps the calls right.                                       *)

Right == CallsRight(stack, erase_list, request.autoerase)

\* The innermost call.
LEMMA TopRight ==
    ASSUME Right, stack # <<>>
    PROVE  /\ Top = stack[1]
           /\ Frame(Top, erase_list, request.autoerase)
<1>1. Len(stack) >= 1 /\ Head(stack) = stack[1] /\ Len(stack) \in Nat
  BY OfSequence DEF Right, CallsRight
<1> QED
  BY <1>1 DEF Right, CallsRight, Top

LEMMA CallRight ==
    ASSUME Right, stack # <<>>, UNCHANGED <<request, erase_list>>,
           NEW caller, Frame(caller, erase_list, request.autoerase), caller.f = Top.f,
           NEW callee, Frame(callee, erase_list, request.autoerase), callee.f # "main",
           {Top.f} \union Below(Top.f) \subseteq Below(callee.f),
           Call(caller, callee)
    PROVE  Right'
<1>1. Top = stack[1]
  BY TopRight
<1>2. stack' = Called(stack, callee, caller)
  BY DEF Call, Called
<1>3. CallsRight(stack', erase_list, request.autoerase)
  BY <1>1, <1>2, CallKeepsCalls DEF Right
<1> QED
  BY <1>3 DEF Right

LEMMA ContinueRight ==
    ASSUME Right, stack # <<>>, UNCHANGED <<request, erase_list>>,
           NEW frame, Frame(frame, erase_list, request.autoerase),
           frame.f = "main" <=> Top.f = "main", Below(Top.f) \subseteq Below(frame.f),
           Continue(frame)
    PROVE  Right'
<1>1. Top = stack[1]
  BY TopRight
<1>2. stack' = Continued(stack, frame)
  BY DEF Continue, Continued
<1>3. \A i \in 2 .. Len(stack) : Frame(stack[i], erase_list, request.autoerase)
  <2>1. Len(stack) \in Nat
    BY OfSequence DEF Right, CallsRight
  <2> QED
    BY <2>1 DEF Right, CallsRight
<1>4. CallsRight(stack', erase_list, request.autoerase)
  BY <1>1, <1>2, <1>3, ContinueKeepsCalls DEF Right
<1> QED
  BY <1>4 DEF Right

LEMMA ReplyRight ==
    ASSUME Right, stack # <<>>, UNCHANGED <<request, erase_list>>, Top.f # "main",
           NEW b, Reply(b)
    PROVE  Right'
<1>1. Top = stack[1]
  BY TopRight
<1>2. stack' = Returned(stack, [stack[2] EXCEPT !.got = @ \/ b])
  BY DEF Reply, Returned
<1>3. CallsRight(stack', erase_list, request.autoerase)
  BY <1>1, <1>2, ReplyKeepsCalls DEF Right
<1> QED
  BY <1>3 DEF Right

LEMMA StopRight == stack' = <<>> => Right'
<1> SUFFICES ASSUME stack' = <<>> PROVE Right'
  OBVIOUS
<1>1. IsSequence(stack')
  BY DEF IsSequence
<1> QED
  BY <1>1 DEF Right, CallsRight, Nested

LEMMA TryBestRight == ASSUME Right, UNCHANGED request, TryBest PROVE Right'
<1>1. /\ stack # <<>> /\ Top.f = "best" /\ UNCHANGED erase_list
      /\ Frame(Top, erase_list, request.autoerase)
  BY TopRight DEF TryBest, Running, Lists
<1>2. /\ DOMAIN Top = Fields("best") /\ Top.todo \subseteq Available \ erase_list
  BY <1>1 DEF Frame, Holds
<1> DEFINE after(p, added) == [Top EXCEPT !.todo = Remaining(Top, p, added), !.got = @ \/ added]
<1>3. PICK p \in BestOf(Top) :
          IF last'.ret = "OK" THEN Call(after(p, TRUE), Extras(p, Top.do_obsolete))
                              ELSE Continue(after(p, FALSE))
  BY DEF TryBest
<1>4. p \in Available
  BY <1>2 DEF BestOf
<1>5. ASSUME NEW added PROVE Frame(after(p, added), erase_list, request.autoerase) /\ after(p, added).f = "best"
  <2>1. Remaining(Top, p, added) \subseteq Available \ erase_list
    BY <1>2 DEF Remaining
  <2> QED
    BY <1>1, <1>2, <2>1 DEF Frame, Holds, Fields, CallKinds, Adding
<1> HIDE DEF after
<1>6. CASE last'.ret = "OK"
  <2>1. Call(after(p, TRUE), Extras(p, Top.do_obsolete))
    BY <1>3, <1>6
  <2>2. Frame(Extras(p, Top.do_obsolete), erase_list, request.autoerase)
    BY <1>4, PackageFrames
  <2>3. Extras(p, Top.do_obsolete).f = "extras"
    BY DEF Extras
  <2>4. {"best"} \union Below("best") \subseteq Below("extras")
    BY DEF Below, Adding
  <2> QED
    BY <1>1, <1>5, <2>1, <2>2, <2>3, <2>4, CallRight
<1>7. CASE last'.ret # "OK"
  <2>1. Continue(after(p, FALSE))
    BY <1>3, <1>7
  <2> QED
    BY <1>1, <1>5, <2>1, ContinueRight
<1> QED
  BY <1>6, <1>7

LEMMA RemovePkgsRight == ASSUME Right, UNCHANGED request, RemovePkgs PROVE Right'
<1>1. /\ stack # <<>> /\ Top.f = "remove" /\ UNCHANGED erase_list
      /\ Frame(Top, erase_list, request.autoerase)
  BY TopRight DEF RemovePkgs, Running, Lists
<1>2. ASSUME NEW p \in Top.todo, Continue([Top EXCEPT !.todo = @ \ {p}]) PROVE Right'
  <2> DEFINE frame == [Top EXCEPT !.todo = @ \ {p}]
  <2>1. Frame(frame, erase_list, request.autoerase) /\ frame.f = "remove"
    BY <1>1 DEF Frame, Holds, Fields, CallKinds, Adding
  <2>2. Continue(frame)
    BY <1>2
  <2> HIDE DEF frame
  <2> QED
    BY <1>1, <2>1, <2>2, ContinueRight
<1>3. CASE Reply(TRUE)
  BY <1>1, <1>3, ReplyRight
<1> QED
  BY <1>2, <1>3 DEF RemovePkgs

LEMMA ExtrasRight == ASSUME Right, UNCHANGED request, UpdateLanguage \/ ObsoletesOf PROVE Right'
<1>1. /\ stack # <<>> /\ Top.f = "extras" /\ UNCHANGED erase_list
      /\ Frame(Top, erase_list, request.autoerase)
  BY TopRight DEF UpdateLanguage, ObsoletesOf, Running, Lists
<1>2. ASSUME NEW n, Call([Top EXCEPT !.todo = @ \ {n}], UpdateNames(FindPkgs(n), TRUE)) PROVE Right'
  <2> DEFINE frame == [Top EXCEPT !.todo = @ \ {n}]
             callee == UpdateNames(FindPkgs(n), TRUE)
  <2>1. Frame(frame, erase_list, request.autoerase) /\ frame.f = "extras"
    BY <1>1 DEF Frame, Holds, Fields, CallKinds, Adding
  <2>2. Frame(callee, erase_list, request.autoerase) /\ callee.f = "update"
    BY NamedUpdate
  <2>3. Call(frame, callee)
    BY <1>2
  <2>4. {"extras"} \union Below("extras") \subseteq Below("update")
    BY DEF Below, Adding
  <2> HIDE DEF frame, callee
  <2> QED
    BY <1>1, <2>1, <2>2, <2>3, <2>4, CallRight
<1>3. CASE Continue(HandleObsoletes(<<Top.pkg>>))
  <2>1. Frame(HandleObsoletes(<<Top.pkg>>), erase_list, request.autoerase)
    BY PlainFrames
  <2>2. HandleObsoletes(<<Top.pkg>>).f = "obsoletes"
    BY DEF HandleObsoletes
  <2>3. Below("extras") \subseteq Below("obsoletes")
    BY DEF Below, Adding
  <2> QED
    BY <1>1, <1>3, <2>1, <2>2, <2>3, ContinueRight
<1>4. CASE Reply(FALSE)
  BY <1>1, <1>4, ReplyRight
<1> QED
  BY <1>2, <1>3, <1>4 DEF UpdateLanguage, ObsoletesOf

\* What ends with a return.
LEMMA ReturnsRight ==
    ASSUME Right, UNCHANGED request,
           EndBest \/ EndUpdate \/ EndArchs \/ EndObsoletes \/ EndDeps
    PROVE  Right'
<1>1. stack # <<>> /\ Top.f # "main" /\ UNCHANGED erase_list
  BY DEF EndBest, EndUpdate, EndArchs, EndObsoletes, EndDeps, Running, Lists
<1>2. \E b : Reply(b)
  BY DEF EndBest, EndUpdate, EndArchs, EndObsoletes, EndDeps
<1> QED
  BY <1>1, <1>2, ReplyRight

LEMMA UpdateNameRight == ASSUME TypeOK, Right, UNCHANGED request, UpdateName PROVE Right'
<1>1. /\ stack # <<>> /\ Top.f = "update" /\ UNCHANGED erase_list
      /\ Frame(Top, erase_list, request.autoerase)
  BY TopRight DEF UpdateName, Running, Lists
<1> DEFINE P(n) == {p \in Top.todo : Name[p] = n}
           best(Q, arch) == BestPkg("update", Q, arch, FALSE, FALSE, Top.do_obsolete, FALSE)
           rest(n) == [Top EXCEPT !.todo = @ \ P(n)]
<1>2. PICK n \in Names(Top.todo) :
          \/ Call(rest(n), best(P(n), Machine))
          \/ \E r \in DbNamed(n) : Call(rest(n), best(Newer(Newest(DbNamed(n)), P(n)), Arch[r]))
          \/ Call(rest(n), PerArch(P(n), DbNamed(n), Top.do_obsolete))
  BY DEF UpdateName
<1>3. Top.todo \subseteq Available
  BY <1>1 DEF Frame, Holds
<1>4. P(n) \in SUBSET Available /\ \A r : Newer(r, P(n)) \in SUBSET Available
  BY <1>3 DEF Newer
<1>5. Frame(rest(n), erase_list, request.autoerase) /\ rest(n).f = "update"
  BY <1>1, <1>3 DEF Frame, Holds, Fields, CallKinds, Adding
<1>6. ASSUME NEW Q \in SUBSET Available, NEW arch
      PROVE  Frame(best(Q, arch), erase_list, request.autoerase) /\ best(Q, arch).f = "best"
  BY BestPkgFrame
<1>7. DbNamed(n) \in SUBSET Pkg
  BY DbPkg DEF DbNamed
<1>8. /\ Frame(PerArch(P(n), DbNamed(n), Top.do_obsolete), erase_list, request.autoerase)
      /\ PerArch(P(n), DbNamed(n), Top.do_obsolete).f = "archs"
  <2>1. Frame(PerArch(P(n), DbNamed(n), Top.do_obsolete), erase_list, request.autoerase)
    BY <1>4, <1>7, PackageFrames
  <2> QED
    BY <2>1 DEF PerArch
<1>9. {"update"} \union Below("update") \subseteq Below("best") \intersect Below("archs")
  BY DEF Below, Adding
<1>10. ASSUME NEW callee, Frame(callee, erase_list, request.autoerase), callee.f \in {"best", "archs"},
              Call(rest(n), callee)
       PROVE  Right'
  <2> HIDE DEF rest
  <2>1. {Top.f} \union Below(Top.f) \subseteq Below(callee.f) /\ callee.f # "main" /\ rest(n).f = Top.f
    BY <1>1, <1>5, <1>9, <1>10
  <2> QED
    BY <1>1, <1>5, <1>10, <2>1, CallRight
<1> HIDE DEF best, rest, P
<1>11. CASE Call(rest(n), best(P(n), Machine))
  BY <1>4, <1>6, <1>10, <1>11
<1>12. CASE \E r \in DbNamed(n) : Call(rest(n), best(Newer(Newest(DbNamed(n)), P(n)), Arch[r]))
  BY <1>4, <1>6, <1>10, <1>12
<1>13. CASE Call(rest(n), PerArch(P(n), DbNamed(n), Top.do_obsolete))
  BY <1>8, <1>10, <1>13
<1> QED
  BY <1>2, <1>11, <1>12, <1>13

LEMMA UpdateArchRight == ASSUME Right, UNCHANGED request, UpdateArch PROVE Right'
<1>1. /\ stack # <<>> /\ Top.f = "archs" /\ UNCHANGED erase_list
      /\ Frame(Top, erase_list, request.autoerase)
  BY TopRight DEF UpdateArch, Running, Lists, Raise
<1>2. CASE stack' = <<>>
  BY <1>2, StopRight
<1> DEFINE
      from(r) == IF Arch[r] = NoArch THEN UNION {Top.buckets[b] : b \in DOMAIN Top.buckets}
                 ELSE Get(Top.buckets, Bucket(r)) \union Get(Top.buckets, NoArch)
      march(r) == IF exactarch /\ Arch[r] # NoArch THEN Arch[r] ELSE Machine
      after(r) == [Top EXCEPT
                    !.todo = @ \ {r},
                    !.dict = @ \/ (~(Arch[r] = NoArch) /\ NoArch \notin DOMAIN Top.buckets),
                    !.buckets = [b \in DOMAIN Top.buckets \union {Bucket(r)} |->
                                    IF b = Bucket(r) THEN {} ELSE Top.buckets[b]]]
      best(r) == BestPkg("update", Newer(r, from(r)), march(r), exactarch, FALSE, Top.do_obsolete, FALSE)
<1>3. CASE stack' # <<>>
  <2>1. PICK r \in Top.todo : \/ Continue(after(r))
                              \/ Call([after(r) EXCEPT !.ipkg = {r}], best(r))
    BY <1>3 DEF UpdateArch, Raise
  <2>2. /\ Top.todo \subseteq Pkg /\ Top.ipkg \subseteq Pkg
        /\ \A b \in DOMAIN Top.buckets : Top.buckets[b] \subseteq Available
    BY <1>1 DEF Frame, Holds
  <2>3. Newer(r, from(r)) \in SUBSET Available
    BY <2>2 DEF Newer, Get
  <2> HIDE DEF from, march
  <2>4. Frame(best(r), erase_list, request.autoerase) /\ best(r).f = "best"
    BY <2>3, BestPkgFrame
  <2>5. /\ DOMAIN after(r) = Fields("archs") /\ after(r).f = "archs"
        /\ after(r).todo \subseteq Pkg /\ after(r).ipkg \subseteq Pkg
        /\ \A b \in DOMAIN after(r).buckets : after(r).buckets[b] \subseteq Available
    BY <1>1, <2>2 DEF Frame, Fields
  <2> HIDE DEF after, best
  <2>6. Frame(after(r), erase_list, request.autoerase)
    BY <2>5 DEF Frame, Holds, CallKinds, Adding
  <2>7. /\ Frame([after(r) EXCEPT !.ipkg = {r}], erase_list, request.autoerase)
        /\ [after(r) EXCEPT !.ipkg = {r}].f = "archs"
    BY <2>2, <2>5 DEF Frame, Holds, CallKinds, Adding, Fields
  <2>8. {"archs"} \union Below("archs") \subseteq Below("best")
    BY DEF Below, Adding
  <2>9. CASE Continue(after(r))
    BY <1>1, <2>5, <2>6, <2>9, ContinueRight
  <2>10. CASE Call([after(r) EXCEPT !.ipkg = {r}], best(r))
    <3> DEFINE caller == [after(r) EXCEPT !.ipkg = {r}]
    <3>1. Frame(caller, erase_list, request.autoerase) /\ caller.f = "archs" /\ Call(caller, best(r))
      BY <2>7, <2>10
    <3> HIDE DEF caller
    <3> QED
      BY <1>1, <2>4, <2>8, <3>1, CallRight
  <2> QED
    BY <2>1, <2>9, <2>10
<1> QED
  BY <1>2, <1>3

LEMMA UpdatedArchRight == ASSUME Right, UNCHANGED request, UpdatedArch PROVE Right'
<1>1. /\ stack # <<>> /\ Top.f = "archs" /\ UNCHANGED erase_list
      /\ Frame(Top, erase_list, request.autoerase)
  BY TopRight DEF UpdatedArch, Running, Lists
<1> DEFINE frame == [Top EXCEPT !.ipkg = {}, !.res = @ \/ Top.got, !.got = FALSE]
<1>2. Continue(frame)
  BY DEF UpdatedArch
<1>3. Frame(frame, erase_list, request.autoerase) /\ frame.f = "archs"
  BY <1>1 DEF Frame, Holds, Fields, CallKinds, Adding
<1> HIDE DEF frame
<1> QED
  BY <1>1, <1>2, <1>3, ContinueRight

\* The obsoleting packages come from the repositories.
LEMMA ObsoletingAvailable ==
    ASSUME obsoleteslist \in ObsoletesLists
    PROVE  /\ Len(obsoleteslist) \in Nat
           /\ \A j \in 1 .. Len(obsoleteslist) : obsoleteslist[j] \in Available
<1> DEFINE best == {p \in Obsoleting :
                       \A q \in Obsoleting : Name[q] = Name[p] => ~Better(q, p, Machine)}
<1>1. best \subseteq Available
  BY DEF Obsoleting
<1>2. obsoleteslist \in SetToSeqs(best)
  BY DEF ObsoletesLists
<1> HIDE DEF best
<1>3. IsFiniteSet(best)
  BY <1>1, YumAssumption, FS_Subset
<1>4. Cardinality(best) \in Nat
  BY <1>3, FS_CardinalityType
<1>5. obsoleteslist \in [1 .. Cardinality(best) -> best]
  BY <1>2 DEF SetToSeqs
<1>6. Len(obsoleteslist) = Cardinality(best)
  BY <1>4, <1>5
<1> QED
  BY <1>1, <1>4, <1>5, <1>6

LEMMA TryObsoleteRight ==
    ASSUME Right, obsoleteslist \in ObsoletesLists, UNCHANGED request, TryObsolete
    PROVE  Right'
<1>1. /\ stack # <<>> /\ Top.f = "obsoletes" /\ UNCHANGED erase_list
      /\ Frame(Top, erase_list, request.autoerase) /\ Top.readd = <<>>
  BY TopRight DEF TryObsolete, Running
<1>2. Top.next \in Nat \ {0} /\ DOMAIN Top = Fields("obsoletes")
  BY <1>1 DEF Frame, Holds
<1> DEFINE o(j) == obsoleteslist[j]
           list(j) == IF Top.pkglist = <<>> THEN Top.pkglist
                      ELSE FoldLeft(LAMBDA s, p : IF p \in Wanted(Top, o(j)) THEN s ELSE Append(s, p),
                                    <<>>, Top.pkglist) \o <<o(j)>>
           took(j) == [Top EXCEPT !.res = TRUE, !.next = 1, !.readd = <<>>, !.pkglist = list(j)]
           readding(j) == [Top EXCEPT !.next = j + 1, !.readd = <<o(j), Wanted(Top, o(j)), "erase">>]
           passed(j) == [Top EXCEPT !.next = j + 1]
<1>3. PICK j \in Top.next .. Len(obsoleteslist) :
          MayTry(Top, o(j)) /\ (Continue(took(j)) \/ Continue(readding(j)) \/ Continue(passed(j)))
  BY DEF TryObsolete, Obsoleted
<1>4. j \in Nat \ {0} /\ o(j) \in Available
  <2>1. j \in Top.next .. Len(obsoleteslist)
    OBVIOUS
  <2>2. /\ Len(obsoleteslist) \in Nat
        /\ \A k \in 1 .. Len(obsoleteslist) : obsoleteslist[k] \in Available
    BY ObsoletingAvailable
  <2>3. j \in 1 .. Len(obsoleteslist)
    BY <1>2, <2>1, <2>2
  <2> QED
    BY <2>2, <2>3
<1>5. o(j) \notin erase_list
  BY <1>3 DEF MayTry, Blocked, Considered
<1> HIDE DEF o, list
<1>6. Frame(took(j), erase_list, request.autoerase) /\ took(j).f = "obsoletes"
  BY <1>1, <1>2 DEF Frame, Holds, Fields, CallKinds, Adding
<1>7. Frame(readding(j), erase_list, request.autoerase) /\ readding(j).f = "obsoletes"
  BY <1>1, <1>2, <1>4, <1>5 DEF Frame, Holds, Fields, CallKinds, Adding
<1>8. Frame(passed(j), erase_list, request.autoerase) /\ passed(j).f = "obsoletes"
  BY <1>1, <1>2, <1>4 DEF Frame, Holds, Fields, CallKinds, Adding
<1> HIDE DEF took, readding, passed
<1> QED
  BY <1>1, <1>3, <1>6, <1>7, <1>8, ContinueRight

LEMMA ReaddRight == ASSUME Right, UNCHANGED request, EraseToReadd \/ Readd PROVE Right'
<1>1. /\ stack # <<>> /\ Top.f = "obsoletes" /\ UNCHANGED erase_list
      /\ Frame(Top, erase_list, request.autoerase) /\ Top.readd # <<>>
  BY TopRight DEF EraseToReadd, Readd, Running, Lists
<1>2. /\ Top.next \in Nat \ {0} /\ DOMAIN Top = Fields("obsoletes")
      /\ DOMAIN Top.readd = 1 .. 3 /\ Top.readd[1] \in Available \ erase_list
  BY <1>1 DEF Frame, Holds
<1> DEFINE list(o, P) == IF Top.pkglist = <<>> THEN Top.pkglist
                         ELSE FoldLeft(LAMBDA s, p : IF p \in P THEN s ELSE Append(s, p),
                                       <<>>, Top.pkglist) \o <<o>>
           took(o, P) == [Top EXCEPT !.res = TRUE, !.next = 1, !.readd = <<>>, !.pkglist = list(o, P)]
           erased == [Top EXCEPT !.readd[3] = "update"]
           passed == [Top EXCEPT !.readd = <<>>]
<1>3. Continue(took(Top.readd[1], Top.readd[2])) \/ Continue(erased) \/ Continue(passed)
  BY DEF EraseToReadd, Readd, Obsoleted
<1> HIDE DEF list
<1>4. ASSUME NEW o, NEW P
      PROVE  Frame(took(o, P), erase_list, request.autoerase) /\ took(o, P).f = "obsoletes"
  BY <1>1, <1>2 DEF Frame, Holds, Fields, CallKinds, Adding
<1>5. Frame(erased, erase_list, request.autoerase) /\ erased.f = "obsoletes"
  BY <1>1, <1>2 DEF Frame, Holds, Fields, CallKinds, Adding
<1>6. Frame(passed, erase_list, request.autoerase) /\ passed.f = "obsoletes"
  BY <1>1, <1>2 DEF Frame, Holds, Fields, CallKinds, Adding
<1> HIDE DEF took, erased, passed
<1> QED
  BY <1>1, <1>3, <1>4, <1>5, <1>6, ContinueRight

LessThan == {ss \in Nat \X Nat : ss[1] < ss[2]}

LEMMA Least == ASSUME NEW H \in SUBSET Nat, H # {} PROVE \E x \in H : \A y \in H : x <= y
<1>1. IsWellFoundedOn(LessThan, Nat)
  BY ONLY NatLessThanWellFounded DEF OpToRel, LessThan
<1>2. PICK x \in H : \A y \in H : <<y, x>> \notin LessThan
  BY <1>1, WFMin
<1>3. ASSUME NEW y \in H PROVE x <= y
  <2>1. y < x => <<y, x>> \in LessThan
    BY DEF LessThan
  <2> QED
    BY <1>2, <2>1
<1> QED
  BY <1>3

\* The first of some packages is one of them: Hash ranks them.
LEMMA FirstIsOne == ASSUME NEW P \in SUBSET Pkg, P # {} PROVE First(P) \in P
<1> DEFINE H == {Hash[p] : p \in P}
<1>1. H \in SUBSET Nat /\ H # {}
  BY YumAssumption
<1>2. PICK x \in H : \A y \in H : x <= y
  BY <1>1, Least
<1>3. PICK p \in P : x = Hash[p]
  BY <1>2
<1>4. \A q \in P : Hash[p] <= Hash[q]
  BY <1>2, <1>3
<1> QED
  BY <1>3, <1>4 DEF First

LEMMA NextDepsPkg == ASSUME TypeOK, NEW frame, NEW u \in NextDeps(frame) PROVE u[1] \in Pkg
<1> DEFINE E == EraseOpening(frame)
           I == InstallOpening(frame)
<1>1. CASE E # {}
  BY <1>1, DbPkg DEF NextDeps, EraseProblems
<1>2. CASE E = {} /\ I # {}
  <2>1. I \subseteq check_installs
    BY DEF InstallOpening, Opening
  <2>2. First(I) \in Pkg
    BY <1>2, <2>1, FirstIsOne DEF TypeOK
  <2> HIDE DEF E, I
  <2>3. u \in Missing(First(I))
    BY <1>2 DEF NextDeps, E, I
  <2> QED
    BY <2>2, <2>3 DEF Missing, Unresolved
<1>3. CASE E = {} /\ I = {}
  BY <1>3, DbPkg DEF NextDeps, FileProblems, Unresolved
<1> QED
  BY <1>1, <1>2, <1>3

LEMMA PickDepRight == ASSUME TypeOK, Right, UNCHANGED request, PickDep PROVE Right'
<1>1. /\ stack # <<>> /\ Top.f = "deps" /\ UNCHANGED erase_list
      /\ Frame(Top, erase_list, request.autoerase)
  BY TopRight DEF PickDep, Running, Lists
<1> DEFINE frame == Settled(Top)
           done == [frame EXCEPT !.res = TRUE]
           asking(d) == [frame EXCEPT !.dep = {d}]
<1>2. PICK u \in NextDeps(frame) :
          Continue(done) \/ Call(asking(u[2]), ResolveDep(u[1], u[2]))
  BY DEF PickDep
<1>3. u[1] \in Pkg
  BY NextDepsPkg
<1>4. DOMAIN frame = Fields("deps") /\ frame.f = "deps"
  BY <1>1 DEF Settled, Frame, Fields
<1> HIDE DEF frame
<1>5. Frame(done, erase_list, request.autoerase) /\ done.f = "deps"
  BY <1>4 DEF Frame, Holds, Fields, CallKinds, Adding
<1>6. ASSUME NEW d PROVE Frame(asking(d), erase_list, request.autoerase) /\ asking(d).f = "deps"
  BY <1>4 DEF Frame, Holds, Fields, CallKinds, Adding
<1>7. Frame(ResolveDep(u[1], u[2]), erase_list, request.autoerase)
  BY <1>3, PlainFrames
<1>8. ResolveDep(u[1], u[2]).f = "dep"
  BY DEF ResolveDep
<1>9. {"deps"} \union Below("deps") \subseteq Below("dep")
  BY DEF Below, Adding
<1> HIDE DEF done, asking
<1>10. CASE Continue(done)
  BY <1>1, <1>5, <1>10, ContinueRight
<1>11. CASE Call(asking(u[2]), ResolveDep(u[1], u[2]))
  <2> DEFINE callee == ResolveDep(u[1], u[2])
             caller == asking(u[2])
  <2>1. /\ Frame(caller, erase_list, request.autoerase) /\ caller.f = "deps"
        /\ Frame(callee, erase_list, request.autoerase) /\ callee.f = "dep"
        /\ Call(caller, callee)
    BY <1>6, <1>7, <1>8, <1>11
  <2> HIDE DEF caller, callee
  <2> QED
    BY <1>1, <1>9, <2>1, CallRight
<1> QED
  BY <1>2, <1>10, <1>11

LEMMA StepDepRight == ASSUME Right, UNCHANGED request, StepDep PROVE Right'
<1>1. /\ stack # <<>> /\ Top.f = "dep" /\ UNCHANGED erase_list
      /\ Frame(Top, erase_list, request.autoerase)
  BY TopRight DEF StepDep, Running, Lists
<1>2. /\ DOMAIN Top = Fields("dep") /\ Top.pkg \in Pkg
      /\ Top.at \in {"best", "update", "autoerase", "end"}
      /\ ~request.autoerase => Top.at # "autoerase"
  BY <1>1 DEF Frame, Holds
<1>3. ASSUME NEW at \in {"update", "autoerase", "end"}, at = "autoerase" => request.autoerase
      PROVE  /\ Frame([Top EXCEPT !.at = at], erase_list, request.autoerase)
             /\ [Top EXCEPT !.at = at].f = "dep"
  BY <1>1, <1>2, <1>3 DEF Frame, Holds, Fields, CallKinds, Adding
<1>4. {"dep"} \union Below("dep") \subseteq Below("best") \intersect Below("update") \intersect Below("autoerase")
  BY DEF Below, Adding
<1>5. ASSUME NEW at \in {"update", "autoerase", "end"}, at = "autoerase" => request.autoerase,
             NEW callee, Frame(callee, erase_list, request.autoerase),
             callee.f \in {"best", "update", "autoerase"}, Call([Top EXCEPT !.at = at], callee)
      PROVE  Right'
  <2> DEFINE caller == [Top EXCEPT !.at = at]
  <2>1. Frame(caller, erase_list, request.autoerase) /\ caller.f = "dep" /\ Call(caller, callee)
    BY <1>3, <1>5
  <2>2. {"dep"} \union Below("dep") \subseteq Below(callee.f) /\ callee.f # "main"
    BY <1>4, <1>5
  <2> HIDE DEF caller
  <2> QED
    BY <1>1, <1>5, <2>1, <2>2, CallRight
<1> DEFINE providers == {p \in Available : Top.dep \in Owed(p)}
           best == BestPkg("update", providers, Machine, FALSE, Top.dep \in FileDep, TRUE, TRUE)
           named == UpdateNames(FindPkgs(Name[Top.pkg]), TRUE)
           erasing == DoAutoerase(Top.pkg)
<1>6. Frame(best, erase_list, request.autoerase) /\ best.f = "best"
  BY BestPkgFrame
<1>7. Frame(named, erase_list, request.autoerase) /\ named.f = "update"
  BY NamedUpdate
<1>8. request.autoerase => Frame(erasing, erase_list, request.autoerase) /\ erasing.f = "autoerase"
  <2>1. request.autoerase => Frame(DoAutoerase(Top.pkg), erase_list, request.autoerase)
    BY <1>2, ErasingFrames
  <2> QED
    BY <2>1 DEF DoAutoerase
<1>9. \/ Reply(Top.got)
      \/ Call([Top EXCEPT !.at = "update"], best)
      \/ Call([Top EXCEPT !.at = IF request.autoerase THEN "autoerase" ELSE "end"], named)
      \/ Top.at \notin {"end", "best", "update"} /\ Call([Top EXCEPT !.at = "end"], erasing)
  BY DEF StepDep, ResolvedDep
<1> HIDE DEF best, named, erasing
<1>10. CASE Reply(Top.got)
  BY <1>1, <1>10, ReplyRight
<1>11. CASE Call([Top EXCEPT !.at = "update"], best)
  BY <1>5, <1>6, <1>11
<1>12. CASE Call([Top EXCEPT !.at = IF request.autoerase THEN "autoerase" ELSE "end"], named)
  BY <1>5, <1>7, <1>12
<1>13. CASE Top.at \notin {"end", "best", "update"} /\ Call([Top EXCEPT !.at = "end"], erasing)
  BY <1>2, <1>5, <1>8, <1>13
<1> QED
  BY <1>9, <1>10, <1>11, <1>12, <1>13

\* An erase() that returns OK erased a package of the database.
LEMMA ErasedOK ==
    ASSUME NEW p, ErasePkg(p), last'.ret = "OK"
    PROVE  p \in Db /\ updates' = Forget(updates, p) /\ DbRemove(p)
<1>1. ~Refuse("erase", p, {"NOT_INSTALLED"})
  BY DEF Refuse, Return
<1> QED
  BY <1>1 DEF ErasePkg

\* Below an automatic erase no call is under way that has packages to add.
LEMMA ErasingKeepsFrame ==
    ASSUME NEW E, NEW F, NEW auto, NEW frame, Frame(frame, E, auto), frame.f \in Below("autoerase")
    PROVE  Frame(frame, F, auto)
<1>1. frame.f \in {"dep", "deps", "conflictErase", "obsoleteConflicts", "main"}
  BY DEF Below, Adding
<1> QED
  BY <1>1 DEF Frame, Holds

LEMMA EraseAutomaticallyRight ==
    ASSUME TypeOK, Right, UNCHANGED request, EraseAutomatically
    PROVE  Right'
<1>1. /\ stack # <<>> /\ Top.f = "autoerase"
      /\ Frame(Top, erase_list, request.autoerase) /\ Top = stack[1]
  BY TopRight DEF EraseAutomatically, Running
<1>2. CASE last'.ret # "OK"
  BY <1>1, <1>2, ReplyRight DEF EraseAutomatically
<1>3. CASE last'.ret = "OK"
  <2> DEFINE F == erase_list \union {Top.pkg}
             U == updates[Top.pkg] \ F
             frame == [Top EXCEPT !.started = TRUE, !.todo = U]
  <2>1. erase_list' = F /\ Continue(frame)
    BY <1>3 DEF EraseAutomatically
  <2>2. Top.pkg \in Pkg /\ DOMAIN Top = Fields("autoerase") /\ request.autoerase
    BY <1>1 DEF Frame, Holds
  <2>3. U \subseteq Pkg \ F
    BY <2>2 DEF TypeOK
  <2> HIDE DEF U, F
  <2>4. Frame(frame, F, request.autoerase) /\ frame.f = "autoerase"
    BY <1>1, <2>2, <2>3 DEF Frame, Holds, Fields, CallKinds, Adding
  <2> HIDE DEF frame
  <2>5. ASSUME NEW i \in 2 .. Len(stack) PROVE Frame(stack[i], F, request.autoerase)
    <3>1. Len(stack) \in Nat
      BY <1>1, OfSequence DEF Right, CallsRight
    <3>2. 1 \in 1 .. Len(stack) /\ i \in 1 + 1 .. Len(stack) /\ i \in 1 .. Len(stack)
      BY <3>1
    <3>3. stack[i].f \in Below("autoerase") /\ Frame(stack[i], erase_list, request.autoerase)
      BY <1>1, <3>2 DEF Right, CallsRight, Nested
    <3> QED
      BY <3>3, ErasingKeepsFrame
  <2>6. stack' = Continued(stack, frame)
    BY <2>1 DEF Continue, Continued
  <2>7. CallsRight(stack', F, request.autoerase)
    BY <1>1, <2>4, <2>5, <2>6, ContinueKeepsCalls DEF Right
  <2> QED
    BY <2>1, <2>7 DEF Right
<1> QED
  BY <1>2, <1>3

LEMMA TakeBackUpdatedRight == ASSUME Right, UNCHANGED request, TakeBackUpdated PROVE Right'
<1>1. /\ stack # <<>> /\ Top.f = "autoerase" /\ UNCHANGED erase_list
      /\ Frame(Top, erase_list, request.autoerase)
  BY TopRight DEF TakeBackUpdated, Running, Lists
<1>2. ASSUME NEW p, Continue([Top EXCEPT !.todo = @ \ {p}]) PROVE Right'
  <2> DEFINE frame == [Top EXCEPT !.todo = @ \ {p}]
  <2>1. Continue(frame)
    BY <1>2
  <2>2. Frame(frame, erase_list, request.autoerase) /\ frame.f = "autoerase"
    BY <1>1 DEF Frame, Holds, Fields, CallKinds, Adding
  <2> HIDE DEF frame
  <2> QED
    BY <1>1, <2>1, <2>2, ContinueRight
<1>3. CASE Reply(TRUE)
  BY <1>1, <1>3, ReplyRight
<1> QED
  BY <1>2, <1>3 DEF TakeBackUpdated

LEMMA TryConflictRight == ASSUME Right, UNCHANGED request, TryConflict PROVE Right'
<1>1. /\ stack # <<>> /\ Top.f = "conflicts" /\ UNCHANGED erase_list
      /\ Frame(Top, erase_list, request.autoerase)
  BY TopRight DEF TryConflict, Running, Lists
<1> DEFINE asking == [Top EXCEPT !.names = Tail(@)]
           named == UpdateNames(FindPkgs(Head(Top.names)), TRUE)
           again == HandleConflicts(Top.kind, TRUE, Top.left)
           names(c) == [i \in DOMAIN Parties(Top.kind, c) |-> Name[Parties(Top.kind, c)[i]]]
           next(c) == [Top EXCEPT !.todo = @ \ {c}, !.names = names(c)]
<1>2. Continue(again) \/ Call(asking, named) \/ \E c \in Top.todo : Continue(next(c))
  BY DEF TryConflict
<1>3. Frame(again, erase_list, request.autoerase) /\ again.f = "conflicts"
  <2>1. again.f = "conflicts"
    BY DEF HandleConflicts
  <2> QED
    BY <2>1, PlainFrames
<1>4. Frame(asking, erase_list, request.autoerase) /\ asking.f = "conflicts"
  BY <1>1 DEF Frame, Holds, Fields, CallKinds, Adding
<1>5. Frame(named, erase_list, request.autoerase) /\ named.f = "update"
  BY NamedUpdate
<1> HIDE DEF names
<1>6. ASSUME NEW c PROVE Frame(next(c), erase_list, request.autoerase) /\ next(c).f = "conflicts"
  BY <1>1 DEF Frame, Holds, Fields, CallKinds, Adding
<1>7. {"conflicts"} \union Below("conflicts") \subseteq Below("update")
  BY DEF Below, Adding
<1> HIDE DEF again, asking, named, next
<1>8. CASE Continue(again)
  BY <1>1, <1>3, <1>8, ContinueRight
<1>9. CASE Call(asking, named)
  BY <1>1, <1>4, <1>5, <1>7, <1>9, CallRight
<1>10. CASE \E c \in Top.todo : Continue(next(c))
  BY <1>1, <1>6, <1>10, ContinueRight
<1> QED
  BY <1>2, <1>8, <1>9, <1>10

LEMMA EndConflictsRight == ASSUME Right, UNCHANGED request, EndConflicts PROVE Right'
<1>1. /\ stack # <<>> /\ Top.f = "conflicts" /\ UNCHANGED erase_list
      /\ Frame(Top, erase_list, request.autoerase)
  BY TopRight DEF EndConflicts, Running, Lists
<1> DEFINE more == Top.left \/ ConflictsOf(Top.kind) # {}
           files == HandleConflicts("file", Top.res, more)
           erasing == ConflictErases("conflict")
<1>2. Continue(files) \/ (request.autoerase /\ Continue(erasing)) \/ Reply(Top.res)
  BY DEF EndConflicts
<1>3. Frame(files, erase_list, request.autoerase) /\ files.f = "conflicts"
  <2>1. files.f = "conflicts"
    BY DEF HandleConflicts
  <2> QED
    BY <2>1, PlainFrames
<1>4. request.autoerase => Frame(erasing, erase_list, request.autoerase)
  BY ErasingFrames
<1>5. erasing.f = "conflictErase" /\ Below("conflicts") \subseteq Below("conflictErase")
  BY DEF ConflictErases, Below, Adding
<1> HIDE DEF files, erasing
<1>6. CASE Continue(files)
  BY <1>1, <1>3, <1>6, ContinueRight
<1>7. CASE request.autoerase /\ Continue(erasing)
  BY <1>1, <1>4, <1>5, <1>7, ContinueRight
<1>8. CASE Reply(Top.res)
  BY <1>1, <1>8, ReplyRight
<1> QED
  BY <1>2, <1>6, <1>7, <1>8

LEMMA ConflictsPkg ==
    ASSUME TypeOK, NEW kind, NEW c \in ConflictsOf(kind)
    PROVE  Victim(c[1], c[2]) \subseteq Pkg
<1>1. Db \subseteq Pkg /\ Checked \subseteq Pkg
  BY DbPkg DEF Checked, TypeOK
<1>2. c[1] \in Pkg /\ c[2] \in Pkg
  BY <1>1 DEF ConflictsOf, GetConflicts, GetFileConflicts
<1> QED
  BY <1>2 DEF Victim

LEMMA EraseConflictRight ==
    ASSUME TypeOK, Right, UNCHANGED request, EraseConflict
    PROVE  Right'
<1>1. /\ stack # <<>> /\ Top.f = "conflictErase" /\ UNCHANGED erase_list
      /\ Frame(Top, erase_list, request.autoerase)
  BY TopRight DEF EraseConflict, Running, Lists
<1>2. request.autoerase
  BY <1>1 DEF Frame, Holds
<1> DEFINE files == [Top EXCEPT !.kind = "file"]
<1>3. Frame(files, erase_list, request.autoerase) /\ files.f = "conflictErase"
  BY <1>1 DEF Frame, Holds, Fields, CallKinds, Adding
<1>4. ASSUME NEW p \in Pkg, Call(Top, DoAutoerase(p)) PROVE Right'
  <2>1. Frame(DoAutoerase(p), erase_list, request.autoerase)
    BY <1>2, ErasingFrames
  <2>2. DoAutoerase(p).f = "autoerase"
    BY DEF DoAutoerase
  <2>3. {"conflictErase"} \union Below("conflictErase") \subseteq Below("autoerase")
    BY DEF Below, Adding
  <2> QED
    BY <1>1, <1>4, <2>1, <2>2, <2>3, CallRight
<1>5. \/ \E c \in ConflictsOf(Top.kind) : \E p \in Victim(c[1], c[2]) : Call(Top, DoAutoerase(p))
      \/ Continue(files)
      \/ Reply(Top.got)
  BY DEF EraseConflict
<1> HIDE DEF files
<1>6. CASE Continue(files)
  BY <1>1, <1>3, <1>6, ContinueRight
<1>7. CASE Reply(Top.got)
  BY <1>1, <1>7, ReplyRight
<1> QED
  BY <1>4, <1>5, <1>6, <1>7, ConflictsPkg

LEMMA EraseObsoletingRight == ASSUME Right, UNCHANGED request, EraseObsoleting PROVE Right'
<1>1. /\ stack # <<>> /\ Top.f = "obsoleteConflicts" /\ UNCHANGED erase_list
      /\ Frame(Top, erase_list, request.autoerase)
  BY TopRight DEF EraseObsoleting, Running, Lists
<1>2. /\ Top.todo \subseteq Pkg
      /\ ~request.autoerase => Top.todo = {}
  BY <1>1 DEF Frame, Holds
<1>3. ASSUME NEW p \in Top.todo, Call([Top EXCEPT !.todo = @ \ {p}], DoAutoerase(p)) PROVE Right'
  <2> DEFINE caller == [Top EXCEPT !.todo = @ \ {p}]
             callee == DoAutoerase(p)
  <2>1. request.autoerase
    BY <1>2
  <2>2. Frame(caller, erase_list, request.autoerase) /\ caller.f = "obsoleteConflicts"
    BY <1>1 DEF Frame, Holds, Fields, CallKinds, Adding
  <2>3. Frame(callee, erase_list, request.autoerase)
    BY <1>2, <2>1, ErasingFrames
  <2>4. callee.f = "autoerase"
    BY DEF DoAutoerase
  <2>5. {"obsoleteConflicts"} \union Below("obsoleteConflicts") \subseteq Below("autoerase")
    BY DEF Below, Adding
  <2>6. Call(caller, callee)
    BY <1>3
  <2> HIDE DEF caller, callee
  <2> QED
    BY <1>1, <2>2, <2>3, <2>4, <2>5, <2>6, CallRight
<1>4. CASE Reply(Top.got)
  BY <1>1, <1>4, ReplyRight
<1> QED
  BY <1>3, <1>4 DEF EraseObsoleting

\* runArgs() and runDepRes() may make any call, and go from one phase to another.
LEMMA MainCallRight ==
    ASSUME Right, stack # <<>>, Top.f = "main", UNCHANGED <<request, erase_list>>,
           NEW caller, Frame(caller, erase_list, request.autoerase), caller.f = "main",
           NEW callee, Frame(callee, erase_list, request.autoerase),
           callee.f \in CallKinds \ {"main", "autoerase", "dep"}, Call(caller, callee)
    PROVE  Right'
<1>1. {"main"} \union Below("main") \subseteq Below(callee.f)
  BY DEF Below, CallKinds, Adding
<1> QED
  BY <1>1, CallRight

LEMMA MainContinueRight ==
    ASSUME Right, stack # <<>>, Top.f = "main", UNCHANGED <<request, erase_list>>,
           NEW at, NEW todo, Continue(Main(at, todo))
    PROVE  Right'
<1>1. Frame(Main(at, todo), erase_list, request.autoerase)
  BY PlainFrames
<1>2. Main(at, todo).f = "main"
  BY DEF Main
<1> QED
  BY <1>1, <1>2, ContinueRight

LEMMA MainFrames ==
    ASSUME Right, stack # <<>>, Top.f = "main"
    PROVE  /\ \A n : /\ Frame([Top EXCEPT !.todo = @ \ {n}], erase_list, request.autoerase)
                     /\ [Top EXCEPT !.todo = @ \ {n}].f = "main"
           /\ \A at : /\ Frame([Top EXCEPT !.at = at], erase_list, request.autoerase)
                      /\ [Top EXCEPT !.at = at].f = "main"
<1>1. Frame(Top, erase_list, request.autoerase)
  BY TopRight
<1>2. ASSUME NEW n
      PROVE  /\ Frame([Top EXCEPT !.todo = @ \ {n}], erase_list, request.autoerase)
             /\ [Top EXCEPT !.todo = @ \ {n}].f = "main"
  BY <1>1 DEF Frame, Holds, Fields, CallKinds, Adding
<1>3. ASSUME NEW at
      PROVE  /\ Frame([Top EXCEPT !.at = at], erase_list, request.autoerase)
             /\ [Top EXCEPT !.at = at].f = "main"
  BY <1>1 DEF Frame, Holds, Fields, CallKinds, Adding
<1> QED
  BY <1>2, <1>3

\* Going through names.
LEMMA NameStepRight ==
    ASSUME Right, stack # <<>>, Top.f = "main", UNCHANGED <<request, erase_list>>, NEW n,
           Call([Top EXCEPT !.todo = @ \ {n}], UpdateNames(FindPkgs(n), FALSE))
    PROVE  Right'
<1> DEFINE caller == [Top EXCEPT !.todo = @ \ {n}]
           callee == UpdateNames(FindPkgs(n), FALSE)
<1>1. Frame(caller, erase_list, request.autoerase) /\ caller.f = "main"
  BY MainFrames
<1>2. Frame(callee, erase_list, request.autoerase) /\ callee.f = "update"
  BY NamedUpdate
<1>3. callee.f \in CallKinds \ {"main", "autoerase", "dep"} /\ Call(caller, callee)
  BY <1>2 DEF CallKinds, Adding
<1> HIDE DEF caller, callee
<1> QED
  BY <1>1, <1>2, <1>3, MainCallRight

LEMMA NamesRight ==
    ASSUME Right, UNCHANGED request, UpdateAll \/ ListUpdates \/ ListUpdate
    PROVE  Right'
<1>1. stack # <<>> /\ Top.f = "main" /\ UNCHANGED erase_list
  BY DEF UpdateAll, ListUpdates, ListUpdate, Running, Lists
<1>2. \/ \E n : Call([Top EXCEPT !.todo = @ \ {n}], UpdateNames(FindPkgs(n), FALSE))
      \/ \E at, todo : Continue(Main(at, todo))
      \/ stack' = <<>>
  BY DEF UpdateAll, ListUpdates, ListUpdate
<1> QED
  BY <1>1, <1>2, NameStepRight, MainContinueRight, StopRight

LEMMA RunArgRight == ASSUME Right, UNCHANGED request, RunArg PROVE Right'
<1>1. stack # <<>> /\ Top.f = "main" /\ UNCHANGED erase_list
  BY DEF RunArg, Running
<1> DEFINE caller(n) == [Top EXCEPT !.todo = @ \ {n}]
           best(n) == BestPkg("install", FindPkgs(n), Machine, FALSE, FALSE, TRUE, FALSE)
           named(n) == UpdateNames(FindPkgs(n), TRUE)
           removal(n) == Removal({p \in Installed : Name[p] = n})
<1>2. PICK n \in Top.todo : \/ Call(caller(n), best(n))
                            \/ Call(caller(n), named(n))
                            \/ Call(caller(n), removal(n))
  BY DEF RunArg
<1>3. Frame(caller(n), erase_list, request.autoerase) /\ caller(n).f = "main"
  BY <1>1, MainFrames
<1>4. Frame(best(n), erase_list, request.autoerase) /\ best(n).f = "best"
  <2>1. FindPkgs(n) \in SUBSET Available
    BY DEF FindPkgs
  <2> QED
    BY <2>1, BestPkgFrame
<1>5. Frame(named(n), erase_list, request.autoerase) /\ named(n).f = "update"
  BY NamedUpdate
<1>6. Frame(removal(n), erase_list, request.autoerase) /\ removal(n).f = "remove"
  <2>1. {p \in Installed : Name[p] = n} \in SUBSET Pkg
    BY PkgAssumption
  <2>2. Frame(removal(n), erase_list, request.autoerase)
    BY <2>1, PackageFrames
  <2> QED
    BY <2>2 DEF Removal
<1> HIDE DEF caller, best, named, removal
<1>7. {"best", "update", "remove"} \subseteq CallKinds \ {"main", "autoerase", "dep"}
  BY DEF CallKinds, Adding
<1> QED
  BY <1>1, <1>2, <1>3, <1>4, <1>5, <1>6, <1>7, MainCallRight

LEMMA EndArgsRight == ASSUME Right, UNCHANGED request, EndArgs PROVE Right'
<1>1. stack # <<>> /\ Top.f = "main" /\ UNCHANGED erase_list
  BY DEF EndArgs, Running
<1> DEFINE caller == Main("selected", {})
           callee == HandleObsoletes(delay_obsolete_list)
<1>2. CASE Call(caller, callee)
  <2>1. Frame(caller, erase_list, request.autoerase) /\ Frame(callee, erase_list, request.autoerase)
    BY PlainFrames
  <2>2. caller.f = "main" /\ callee.f = "obsoletes"
    BY DEF Main, HandleObsoletes
  <2>3. callee.f \in CallKinds \ {"main", "autoerase", "dep"}
    BY <2>2 DEF CallKinds, Adding
  <2> HIDE DEF caller, callee
  <2> QED
    BY <1>1, <1>2, <2>1, <2>2, <2>3, MainCallRight
<1>3. CASE Continue(Main("turn", {}))
  BY <1>1, <1>3, MainContinueRight
<1> QED
  BY <1>2, <1>3 DEF EndArgs

LEMMA TurnStepRight == ASSUME TypeOK, Right, UNCHANGED request, TurnStep PROVE Right'
<1>1. stack # <<>> /\ Top.f = "main" /\ UNCHANGED erase_list
  BY DEF TurnStep, Running
<1> DEFINE caller(at) == [Top EXCEPT !.at = at]
<1>2. PICK at : \/ Call(caller(at), UnresolvedDeps)
                \/ Call(caller(at), HandleObsoletes(delay_obsolete_list))
                \/ Call(caller(at), HandleConflicts("conflict", FALSE, FALSE))
                \/ Call(caller(at), ObsoleteConflicts)
  <2>1. PICK i \in 1 .. 4 :
            Call(caller(Phases[i + 1]),
                 CASE i = 1 -> UnresolvedDeps
                   [] i = 2 -> HandleObsoletes(delay_obsolete_list)
                   [] i = 3 -> HandleConflicts("conflict", FALSE, FALSE)
                   [] i = 4 -> ObsoleteConflicts)
    BY DEF TurnStep
  <2>2. i = 1 \/ i = 2 \/ i = 3 \/ i = 4
    OBVIOUS
  <2> DEFINE at == Phases[i + 1]
  <2> HIDE DEF at, caller
  <2> QED
    BY <2>1, <2>2 DEF at
<1>3. Frame(caller(at), erase_list, request.autoerase) /\ caller(at).f = "main"
  BY <1>1, MainFrames
<1> DEFINE deps == UnresolvedDeps
           obs == HandleObsoletes(delay_obsolete_list)
           conf == HandleConflicts("conflict", FALSE, FALSE)
           obc == ObsoleteConflicts
<1>4. /\ Frame(deps, erase_list, request.autoerase)
      /\ Frame(obs, erase_list, request.autoerase)
      /\ Frame(conf, erase_list, request.autoerase)
      /\ Frame(obc, erase_list, request.autoerase)
  BY PlainFrames, ErasingFrames
<1>5. {deps.f, obs.f, conf.f, obc.f} \subseteq CallKinds \ {"main", "autoerase", "dep"}
  BY DEF UnresolvedDeps, HandleObsoletes, HandleConflicts, ObsoleteConflicts, CallKinds, Adding
<1>6. Call(caller(at), deps) \/ Call(caller(at), obs) \/ Call(caller(at), conf) \/ Call(caller(at), obc)
  BY <1>2
<1> HIDE DEF caller, deps, obs, conf, obc
<1> QED
  BY <1>1, <1>3, <1>4, <1>5, <1>6, MainCallRight

LEMMA TurnsRight ==
    ASSUME Right, UNCHANGED request, Selected \/ Turned \/ Finish \/ KeepExcluded
    PROVE  Right'
<1>1. CASE Selected \/ Turned
  <2>1. stack # <<>> /\ Top.f = "main" /\ UNCHANGED erase_list
    BY <1>1 DEF Selected, Turned, Running
  <2>2. \E at, todo : Continue(Main(at, todo))
    BY <1>1 DEF Selected, Turned
  <2> QED
    BY <2>1, <2>2, MainContinueRight
<1>2. CASE Finish \/ KeepExcluded
  BY <1>2, StopRight DEF Finish, KeepExcluded
<1> QED
  BY <1>1, <1>2

\* Whatever runs, calls are nested as they should be and have the right packages in hand.
LEMMA StepRight ==
    ASSUME TypeOK, obsoleteslist \in ObsoletesLists, Right, UNCHANGED request, YumStep
    PROVE  Right'
BY TryBestRight, RemovePkgsRight, ExtrasRight, ReturnsRight, UpdateNameRight, UpdateArchRight,
   UpdatedArchRight, TryObsoleteRight, ReaddRight, PickDepRight, StepDepRight,
   EraseAutomaticallyRight, TakeBackUpdatedRight, TryConflictRight, EndConflictsRight,
   EraseConflictRight, EraseObsoletingRight, NamesRight, RunArgRight, EndArgsRight,
   TurnStepRight, TurnsRight
   DEF YumStep

-----------------------------------------------------------------------------
(* What a step does to the operations: it adds a package, erases one, or   *)
(* only drops checks that found nothing.                                   *)

Adds ==
    /\ \E p \in Pkg \ erase_list :
           /\ p \in Available \/ request.autoerase
           /\ InstallPkg(p) \/ UpdatePkg(p)
    /\ UNCHANGED <<erase_list, result>>
Erases ==
    /\ \E p \in Pkg : /\ ErasePkg(p)
                      /\ erase_list' # erase_list =>
                             last'.ret = "OK" /\ erase_list' = erase_list \union {p}
    /\ UNCHANGED result
Drops ==
    /\ UNCHANGED <<dbVars, opVars, last>>
    /\ StillErased \subseteq check_erases' /\ check_erases' \subseteq check_erases
    /\ StillInstalled \subseteq check_installs' /\ check_installs' \subseteq check_installs
    /\ FileProblems # {} => check_file_requires'
    /\ check_file_requires' \in BOOLEAN
    /\ erase_list' \subseteq erase_list \/ result' = "raised"
    /\ result' = "accepted" => result = "accepted" \/ CheckDependencies = "OK"

LEMMA QuietDrops ==
    ASSUME TypeOK, Quiet, erase_list' \subseteq erase_list \/ result' = "raised",
           result' \in {result, "listed", "raised"}
    PROVE  Drops
BY DEF Quiet, resolverVars, dbVars, opVars, checkVars, Drops, StillErased, StillInstalled,
       FileProblems, TypeOK

\* What has been looked at and found in order is dropped.
LEMMA PassedDrops ==
    ASSUME TypeOK, NEW frame, Passed(frame), UNCHANGED <<dbVars, opVars, last, erase_list, result>>
    PROVE  Drops
<1>1. StillErased \subseteq check_erases /\ StillInstalled \subseteq check_installs
  BY DEF StillErased, StillInstalled
<1>2. FileProblems # {} => check_file_requires
  BY DEF FileProblems
<1> QED
  BY <1>1, <1>2 DEF Passed, Drops, TypeOK

LEMMA PruneDrops ==
    ASSUME TypeOK, PruneChecks, UNCHANGED <<dbVars, opVars, last>>,
           erase_list' \subseteq erase_list,
           result' = "accepted" => result = "accepted" \/ CheckDependencies = "OK"
    PROVE  Drops
<1>1. /\ check_erases' = StillErased
      /\ check_installs' = StillInstalled
      /\ check_file_requires' = (check_file_requires /\ (FileProblems # {} \/ StillErased # {}))
  BY YumAssumption DEF PruneChecks
<1>2. StillErased \subseteq check_erases /\ StillInstalled \subseteq check_installs
  BY DEF StillErased, StillInstalled
<1>3. FileProblems # {} => check_file_requires
  BY DEF FileProblems
<1> QED
  BY <1>1, <1>2, <1>3 DEF Drops, TypeOK

\* Calls are under way while the command runs, and only then.
LEMMA StepRuns ==
    ASSUME YumStep
    PROVE  stack # <<>> /\ (result' # result => stack' = <<>>)
<1>1. stack # <<>>
  BY DEF YumStep, TryBest, EndBest, RemovePkgs, UpdateLanguage, ObsoletesOf, UpdateName,
         EndUpdate, UpdateArch, UpdatedArch, EndArchs, TryObsolete, EraseToReadd, Readd,
         EndObsoletes, PickDep, EndDeps, StepDep, KeepExcluded, EraseAutomatically,
         TakeBackUpdated, TryConflict, EndConflicts, EraseConflict, EraseObsoleting, UpdateAll,
         ListUpdates, ListUpdate, RunArg, EndArgs, Selected, TurnStep, Turned, Finish, Running
<1>2. result' # result => stack' = <<>>
  BY DEF YumStep, TryBest, EndBest, RemovePkgs, UpdateLanguage, ObsoletesOf, UpdateName,
         EndUpdate, UpdateArch, UpdatedArch, EndArchs, TryObsolete, EraseToReadd, Readd,
         EndObsoletes, PickDep, EndDeps, StepDep, KeepExcluded, EraseAutomatically,
         TakeBackUpdated, TryConflict, EndConflicts, EraseConflict, EraseObsoleting, UpdateAll,
         ListUpdates, ListUpdate, RunArg, EndArgs, Selected, TurnStep, Turned, Finish, Raise, Lists
<1> QED
  BY <1>1, <1>2

LEMMA StepEffect ==
    ASSUME TypeOK, obsoleteslist \in ObsoletesLists, Right, YumStep
    PROVE  Adds \/ Erases \/ Drops
<1>1. stack # <<>>
  BY StepRuns
<1>2. Frame(Top, erase_list, request.autoerase)
  BY <1>1, TopRight
<1>3. Available \subseteq Pkg
  BY YumAssumption
<1>4. CASE TryBest
  <2>1. Top.todo \subseteq Available \ erase_list
    BY <1>2, <1>4 DEF TryBest, Running, Frame, Holds
  <2>2. \E p \in Top.todo : InstallPkg(p) \/ UpdatePkg(p)
    BY <1>4 DEF TryBest, AddPkg, BestOf
  <2> QED
    BY <1>3, <1>4, <2>1, <2>2 DEF TryBest, Lists, Adds
<1>5. CASE RemovePkgs
  <2>1. Top.todo \subseteq Pkg
    BY <1>2, <1>5 DEF RemovePkgs, Running, Frame, Holds
  <2> QED
    BY <1>5, <2>1, QuietDrops DEF RemovePkgs, Lists, Erases
<1>6. CASE UpdatedArch
  <2>1. Top.ipkg \subseteq Pkg
    BY <1>2, <1>6 DEF UpdatedArch, Running, Frame, Holds
  <2> QED
    BY <1>6, <2>1, QuietDrops DEF UpdatedArch, Lists, Erases
<1>7. CASE TryObsolete
  <2>1. Top.next \in Nat \ {0}
    BY <1>2, <1>7 DEF TryObsolete, Running, Frame, Holds
  <2>2. PICK j \in Top.next .. Len(obsoleteslist) :
            MayTry(Top, obsoleteslist[j]) /\ UpdatePkg(obsoleteslist[j])
    BY <1>7 DEF TryObsolete
  <2>3. obsoleteslist[j] \in Available
    <3>1. j \in Top.next .. Len(obsoleteslist)
      OBVIOUS
    <3>2. /\ Len(obsoleteslist) \in Nat
          /\ \A k \in 1 .. Len(obsoleteslist) : obsoleteslist[k] \in Available
      BY ObsoletingAvailable
    <3>3. j \in 1 .. Len(obsoleteslist)
      BY <2>1, <3>1, <3>2
    <3> QED
      BY <3>2, <3>3
  <2>4. obsoleteslist[j] \notin erase_list
    BY <2>2 DEF MayTry, Blocked, Considered
  <2> QED
    BY <1>3, <1>7, <2>2, <2>3, <2>4 DEF TryObsolete, Adds
<1>8. CASE EraseToReadd \/ Readd
  <2>1. Top.readd[1] \in Available \ erase_list
    BY <1>2, <1>8 DEF EraseToReadd, Readd, Running, Frame, Holds
  <2> QED
    BY <1>3, <1>8, <2>1 DEF EraseToReadd, Readd, Lists, Adds, Erases
<1>9. CASE PickDep
  BY <1>9, NextDepsPkg, PassedDrops DEF PickDep, Lists, Erases
<1>10. CASE EndDeps
  BY <1>10, PruneDrops DEF EndDeps
<1>11. CASE EraseAutomatically
  <2>1. Top.pkg \in Pkg
    BY <1>2, <1>11 DEF EraseAutomatically, Running, Frame, Holds
  <2> QED
    BY <1>11, <2>1 DEF EraseAutomatically, Erases
<1>12. CASE TakeBackUpdated
  <2>1. Top.todo \subseteq Pkg \ erase_list /\ request.autoerase
    BY <1>2, <1>12 DEF TakeBackUpdated, Running, Frame, Holds
  <2> QED
    BY <1>12, <2>1, QuietDrops DEF TakeBackUpdated, Lists, Adds
<1>13. CASE Finish
  <2>1. result' = "accepted" => CheckDependencies = "OK"
    BY <1>13, YumAssumption DEF Finish, CheckDependencies
  <2>2. erase_list' \subseteq erase_list
    BY <1>13 DEF Finish
  <2> QED
    BY <1>13, <2>1, <2>2, PruneDrops DEF Finish
<1>14. CASE KeepExcluded \/ UpdateArch
  <2>1. /\ Quiet
        /\ erase_list' \subseteq erase_list \/ result' = "raised"
        /\ result' \in {result, "raised"}
    BY <1>14 DEF KeepExcluded, UpdateArch, Raise, Lists
  <2> QED
    BY <2>1, QuietDrops
<1>15. CASE \/ EndBest \/ UpdateLanguage \/ ObsoletesOf \/ UpdateName \/ EndUpdate \/ EndArchs
            \/ EndObsoletes \/ StepDep \/ TryConflict \/ EndConflicts \/ EraseConflict
            \/ EraseObsoleting \/ UpdateAll \/ ListUpdates \/ ListUpdate \/ RunArg \/ EndArgs
            \/ Selected \/ TurnStep \/ Turned
  <2>1. Quiet /\ UNCHANGED erase_list /\ result' \in {result, "listed"}
    BY <1>15 DEF EndBest, UpdateLanguage, ObsoletesOf, UpdateName, EndUpdate, EndArchs,
         EndObsoletes, StepDep, TryConflict, EndConflicts, EraseConflict, EraseObsoleting,
         UpdateAll, ListUpdates, ListUpdate, RunArg, EndArgs, Selected, TurnStep, Turned, Lists
  <2> QED
    BY <2>1, QuietDrops
<1> QED
  BY <1>4, <1>5, <1>6, <1>7, <1>8, <1>9, <1>10, <1>11, <1>12, <1>13, <1>14, <1>15 DEF YumStep

-----------------------------------------------------------------------------
(* What holds in every state of a call of pyrpmyum.                        *)

Operations ==
    /\ TypeOK /\ readd = {}
    /\ Disjoint /\ ChangesRemembered
    /\ ErasedStays
    /\ KeptReplace
    /\ NothingTaken

YumInv ==
    /\ request \in Requests
    /\ obsoleteslist \in ObsoletesLists
    /\ Operations
    /\ Right
    /\ result # "running" => stack = <<>>
    /\ AcceptedBreaksNothing

\* install() and update() refuse the package or put it in.
LEMMA AddingCases ==
    ASSUME NEW p \in Pkg, InstallPkg(p) \/ UpdatePkg(p)
    PROVE  \/ UNCHANGED <<dbVars, opVars, checkVars>>
           \/ /\ p \notin Db
              /\ \E call \in {"install", "update"}, U \in SUBSET Db, O \in SUBSET Db :
                     U \intersect O = {} /\ Place(call, p, U, O)
<1>1. CASE Refuse("install", p, InstallCheck(p)) \/ Refuse("update", p, Refusals(p))
  BY <1>1 DEF Refuse
<1>2. CASE InstallCheck(p) = {} /\ Place("install", p, {}, {})
  BY <1>2, PresentIsRefused
<1>3. CASE Refusals(p) = {} /\ Place("update", p, PkgUpdates(p), PkgObsoletes(p))
  <2>1. p \notin Db
    BY <1>3, PresentIsRefused
  <2>2. /\ PkgUpdates(p) \in SUBSET Db /\ PkgObsoletes(p) \in SUBSET Db
        /\ PkgUpdates(p) \intersect PkgObsoletes(p) = {}
    BY <2>1, ReplacedInDb
  <2> QED
    BY <1>3, <2>1, <2>2
<1> QED
  BY <1>1, <1>2, <1>3 DEF InstallPkg, UpdatePkg

LEMMA KeptReplacePlace ==
    ASSUME TypeOK, Disjoint, KeptReplace, NEW p \in Pkg, p \notin Db, NEW call,
           NEW U \in SUBSET Db, NEW O \in SUBSET Db, Place(call, p, U, O)
    PROVE  KeptReplace'
<1> DEFINE gone == U \union O
           old == {r \in gone : IsInstalled(r)}
<1>1. DbPut(p, gone) /\ p \notin gone /\ gone \subseteq Db
  BY DEF Place
<1>2. Db' \subseteq (Db \union {p}) \ gone
  BY <1>1, PutDisjoint, DbPutBounds
<1>3. old \subseteq Installed /\ (IsInstalled(p) => p \in Installed)
  BY DEF KeptReplace, IsInstalled
<1>4. /\ installs' = (IF IsInstalled(p) THEN installs ELSE installs \union {p}) \ gone
      /\ erases' = (erases \ {p}) \union old
  BY DEF Place
<1>5. erases' \subseteq Installed
  BY <1>3, <1>4 DEF KeptReplace
<1>6. Db' \subseteq Installed \union installs'
  BY <1>2, <1>3, <1>4 DEF KeptReplace
<1>7. p \in System'
  BY <1>1, <1>3, <1>4 DEF System
<1>8. \A q \in System \ gone : q \in System'
  BY <1>4 DEF System
<1>9. \A q \in Pkg \ {p} : Owned(q)' = IF q \in gone THEN {} ELSE Owned(q)
  BY DEF Place, Owned
<1>10. \A q \in Pkg : Owned(q)' # {} => q \in System'
  BY <1>7, <1>8, <1>9 DEF KeptReplace
<1> QED
  BY <1>5, <1>6, <1>10 DEF KeptReplace

LEMMA KeptReplaceErase ==
    ASSUME TypeOK, Disjoint, KeptReplace, NEW p \in Db, ErasePkg(p)
    PROVE  KeptReplace'
<1>1. /\ DbRemove(p)
      /\ erases' = IF IsInstalled(p) THEN erases \union {p} ELSE erases
      /\ installs' = installs \ {p}
      /\ updates' = Forget(updates, p) /\ obsoletes' = Forget(obsoletes, p)
  BY DEF ErasePkg
<1>2. p \notin Db' /\ Db' \subseteq Db
  BY <1>1, RemoveDisjoint, DbRemoveBounds
<1>3. IsInstalled(p) => p \in Installed
  BY DEF KeptReplace, IsInstalled
<1>4. \A q \in System \ {p} : q \in System'
  BY <1>1 DEF System
<1>5. \A q \in Pkg : Owned(q)' = IF q = p THEN {} ELSE Owned(q)
  BY <1>1 DEF Forget, Owned, TypeOK
<1>6. \A q \in Pkg : Owned(q)' # {} => q \in System'
  BY <1>4, <1>5 DEF KeptReplace
<1> QED
  BY <1>1, <1>2, <1>3, <1>6 DEF KeptReplace

\* Nothing but the pending checks and what is returned has changed.
LEMMA SameOperations ==
    ASSUME UNCHANGED <<dbVars, opVars, request>>
    PROVE  /\ Db' = Db
           /\ Disjoint => Disjoint'
           /\ KeptReplace => KeptReplace'
           /\ NothingTaken => NothingTaken'
<1>1. Db' = Db /\ (Disjoint => Disjoint')
  BY DEF dbVars, Db, Disk, Disjoint
<1>2. KeptReplace => KeptReplace'
  BY <1>1 DEF opVars, KeptReplace, System, Owned
<1>3. NothingTaken => NothingTaken'
  BY <1>1 DEF dbVars, opVars, NothingTaken, Agreement, DatabaseMatchesOperations, Disjoint, Disk,
              ReplacedOnce
<1> QED
  BY <1>1, <1>2, <1>3

LEMMA AddsKeeps ==
    ASSUME Operations, UNCHANGED <<readd, request>>, Adds
    PROVE  Operations'
<1>1. PICK p \in Pkg \ erase_list :
          (p \in Available \/ request.autoerase) /\ (InstallPkg(p) \/ UpdatePkg(p))
  BY DEF Adds
<1>2. TypeOK' /\ readd' = {}
  BY <1>1, InstallPkgType, UpdatePkgType DEF Operations
<1>3. CASE UNCHANGED <<dbVars, opVars, checkVars>>
  <2>1. /\ Db' = Db /\ Disjoint' /\ KeptReplace' /\ NothingTaken'
    BY <1>3, SameOperations DEF Operations
  <2>2. ErasedStays'
    BY <2>1 DEF Operations, ErasedStays, Adds
  <2>3. ChangesRemembered'
    BY <1>3, <2>1 DEF Operations, checkVars, ChangesRemembered, SearchDependency, SearchProvides,
                      SearchFilenames
  <2> QED
    BY <1>2, <2>1, <2>2, <2>3 DEF Operations
<1>4. ASSUME p \notin Db, NEW call, NEW U \in SUBSET Db, NEW O \in SUBSET Db,
             U \intersect O = {}, Place(call, p, U, O)
      PROVE  Operations'
  <2>1. Disjoint' /\ ChangesRemembered'
    BY <1>4, PlaceRemembers DEF Operations
  <2>2. KeptReplace'
    BY <1>4, KeptReplacePlace DEF Operations
  <2>3. ErasedStays'
    <3>1. Db' \subseteq Db \union {p}
      BY <1>4, DbPutBounds DEF Place
    <3> QED
      BY <1>1, <3>1 DEF Operations, ErasedStays, Adds
  <2>4. NothingTaken'
    <3> SUFFICES ASSUME ~request.autoerase PROVE Agreement' /\ ReplacedOnce'
      BY DEF NothingTaken
    <3>1. Agreement /\ ReplacedOnce /\ p \in Pkg \ Installed
      BY <1>1, YumAssumption DEF Operations, NothingTaken
    <3>2. p \notin deleted
      BY <3>1 DEF Agreement, DatabaseMatchesOperations
    <3>3. Agreement'
      BY <1>4, <3>1, <3>2, AgreementPlace
    <3>4. ReplacedOnce'
      BY <1>4, <3>1, ReplacedOncePlace DEF Operations
    <3> QED
      BY <3>3, <3>4
  <2> QED
    BY <1>2, <2>1, <2>2, <2>3, <2>4 DEF Operations
<1> QED
  BY <1>1, <1>3, <1>4, AddingCases

LEMMA ErasesKeeps ==
    ASSUME Operations, UNCHANGED <<readd, request>>, Erases
    PROVE  Operations'
<1>1. PICK p \in Pkg : /\ ErasePkg(p)
                       /\ erase_list' # erase_list =>
                              last'.ret = "OK" /\ erase_list' = erase_list \union {p}
  BY DEF Erases
<1>2. TypeOK' /\ readd' = {}
  BY <1>1, ErasePkgType DEF Operations
<1>3. CASE p \notin Db
  <2>1. UNCHANGED <<dbVars, opVars, checkVars>> /\ last'.ret # "OK"
    BY <1>1, <1>3 DEF ErasePkg, Refuse, Return
  <2>2. /\ Db' = Db /\ Disjoint' /\ KeptReplace' /\ NothingTaken'
    BY <2>1, SameOperations DEF Operations
  <2>3. ErasedStays'
    BY <1>1, <2>1, <2>2 DEF Operations, ErasedStays, Erases
  <2>4. ChangesRemembered'
    BY <2>1, <2>2 DEF Operations, checkVars, ChangesRemembered, SearchDependency, SearchProvides,
                      SearchFilenames
  <2> QED
    BY <1>2, <2>2, <2>3, <2>4 DEF Operations
<1>4. CASE p \in Db
  <2>1. DbRemove(p)
    BY <1>1, <1>4, ErasedOK DEF ErasePkg, Refuse, Return
  <2>2. p \notin Db' /\ Db' \subseteq Db
    BY <2>1, RemoveDisjoint, DbRemoveBounds DEF Operations
  <2>3. Disjoint' /\ ChangesRemembered'
    BY <1>1, <1>4, EraseRemembers DEF Operations
  <2>4. KeptReplace'
    BY <1>1, <1>4, KeptReplaceErase DEF Operations
  <2>5. ErasedStays'
    BY <1>1, <2>2 DEF Operations, ErasedStays, Erases
  <2>6. NothingTaken'
    BY <1>1, <1>4, AgreementErase, ReplacedOnceErase DEF Operations, NothingTaken
  <2> QED
    BY <1>2, <2>3, <2>4, <2>5, <2>6 DEF Operations
<1> QED
  BY <1>3, <1>4

LEMMA DropsKeeps ==
    ASSUME Operations, UNCHANGED <<readd, request>>, result = "running", Drops
    PROVE  Operations'
<1>1. TypeOK'
  BY DEF Drops, Operations, TypeOK, dbVars, opVars
<1>2. /\ Db' = Db /\ Disjoint' /\ KeptReplace' /\ NothingTaken'
  BY SameOperations DEF Operations, Drops
<1>3. ChangesRemembered'
  BY DroppingIsSafe DEF Operations, Drops
<1>4. ErasedStays'
  BY <1>2 DEF Operations, Drops, ErasedStays
<1> QED
  BY <1>1, <1>2, <1>3, <1>4 DEF Operations

LEMMA RightInit == YumInit => Right
<1> SUFFICES ASSUME YumInit PROVE Right
  OBVIOUS
<1> DEFINE listing == HandleObsoletes(<<>>)
<1>1. Frame(listing, erase_list, request.autoerase) /\ listing.f = "obsoletes"
  <2>1. listing.f = "obsoletes"
    BY DEF HandleObsoletes
  <2> QED
    BY <2>1, PlainFrames
<1>2. ASSUME NEW at, NEW todo
      PROVE  Frame(Main(at, todo), erase_list, request.autoerase) /\ Main(at, todo).f = "main"
  <2>1. Main(at, todo).f = "main"
    BY DEF Main
  <2> QED
    BY <2>1, PlainFrames
<1> HIDE DEF listing
<1>3. ASSUME NEW frame, Frame(frame, erase_list, request.autoerase), frame.f = "main",
             stack = <<frame>>
      PROVE  Right
  <2>1. IsSequence(<<frame>>)
    <3>1. <<frame>> \in Seq({frame})
      OBVIOUS
    <3> QED
      BY <3>1, SequenceIs
  <2> QED
    BY <1>3, <2>1 DEF Right, CallsRight, Nested
<1>4. ASSUME NEW frame, Frame(frame, erase_list, request.autoerase), frame.f = "main",
             stack = <<listing, frame>>
      PROVE  Right
  <2>1. IsSequence(<<listing, frame>>)
    <3>1. <<listing, frame>> \in Seq({listing, frame})
      OBVIOUS
    <3> QED
      BY <3>1, SequenceIs
  <2>2. "main" \in Below("obsoletes")
    BY DEF Below, Adding
  <2>3. Len(<<listing, frame>>) = 2 /\ <<listing, frame>>[1] = listing /\ <<listing, frame>>[2] = frame
    OBVIOUS
  <2>4. \A i \in 1 .. 2 : \A j \in i + 1 .. 2 : i = 1 /\ j = 2
    OBVIOUS
  <2>5. Nested(<<listing, frame>>)
    BY <1>1, <1>4, <2>2, <2>3, <2>4 DEF Nested
  <2>6. \A i \in 1 .. 2 : Frame(<<listing, frame>>[i], erase_list, request.autoerase)
    BY <1>1, <1>4, <2>3
  <2> QED
    BY <1>4, <2>1, <2>3, <2>5, <2>6 DEF Right, CallsRight
<1>5. \/ \E at, todo : stack = <<listing, Main(at, todo)>>
      \/ \E at, todo : stack = <<Main(at, todo)>>
  BY DEF YumInit, listing
<1> QED
  BY <1>2, <1>3, <1>4, <1>5

LEMMA YumInvInit == YumInit => YumInv
<1> SUFFICES ASSUME YumInit PROVE YumInv
  OBVIOUS
<1>1. Init /\ Db = Installed
  BY PkgAssumption DEF YumInit, Init, Db, Disk
<1>2. TypeOK /\ Disjoint /\ ChangesRemembered /\ Agreement
  BY <1>1, TypeInit, RememberedInit, AgreementInit
<1>3. \A p \in Pkg : updates[p] = {} /\ obsoletes[p] = {}
  BY <1>1 DEF Init
<1>4. KeptReplace /\ ReplacedOnce
  BY <1>1, <1>3 DEF Init, KeptReplace, ReplacedOnce, Owned
<1>5. Operations
  BY <1>1, <1>2, <1>4 DEF YumInit, Init, Operations, ErasedStays, NothingTaken
<1> QED
  BY <1>5, RightInit DEF YumInit, YumInv, AcceptedBreaksNothing

LEMMA YumInvStep == YumInv /\ YumNext => YumInv'
<1> SUFFICES ASSUME YumInv, YumStep, UNCHANGED <<request, obsoleteslist, readd>> PROVE YumInv'
  BY DEF YumNext
<1>1. TypeOK /\ Operations /\ Right /\ obsoleteslist \in ObsoletesLists
  BY DEF YumInv, Operations
<1>2. result = "running" /\ (result' # result => stack' = <<>>)
  BY StepRuns DEF YumInv
<1>3. Adds \/ Erases \/ Drops
  BY <1>1, StepEffect
<1>4. Operations'
  BY <1>1, <1>2, <1>3, AddsKeeps, ErasesKeeps, DropsKeeps
<1>5. Right'
  BY <1>1, StepRight
<1>6. AcceptedBreaksNothing'
  <2> SUFFICES ASSUME result' = "accepted" PROVE AcceptedBreaksNothing'
    BY DEF AcceptedBreaksNothing
  <2>1. UNCHANGED dbVars /\ CheckDependencies = "OK"
    BY <1>2, <1>3 DEF Adds, Erases, Drops
  <2>2. \A u \in Unresolved(Db) : BrokenFromStart(u[1], u[2]) \/ u[2] \in IgnoredFileRequires
    BY <1>1, <2>1, ChecksFoundNothing DEF Operations
  <2>3. Unresolved(Db)' = Unresolved(Db)
    BY <2>1 DEF dbVars, Db, Unresolved, SearchDependency, SearchProvides, SearchFilenames
  <2> QED
    BY <2>2, <2>3 DEF AcceptedBreaksNothing, BrokenFromStart, IgnoredFileRequires, Owed
<1> QED
  BY <1>2, <1>4, <1>5, <1>6 DEF YumInv

LEMMA YumInvStutter == YumInv /\ UNCHANGED yvars => YumInv'
<1> SUFFICES ASSUME YumInv, UNCHANGED yvars PROVE YumInv'
  OBVIOUS
<1>1. /\ UNCHANGED <<dbVars, opVars, checkVars, last, readd>>
      /\ UNCHANGED <<request, stack, erase_list, result, obsoleteslist>>
  BY DEF yvars, vars, yumVars, dbVars, opVars, checkVars
<1>2. /\ Db' = Db /\ Disjoint' /\ KeptReplace' /\ NothingTaken'
  BY <1>1, SameOperations DEF YumInv, Operations
<1>3. TypeOK'
  BY <1>1 DEF YumInv, Operations, TypeOK, dbVars, opVars, checkVars
<1>4. ChangesRemembered' /\ AcceptedBreaksNothing'
  BY <1>1, <1>2 DEF YumInv, Operations, ChangesRemembered, AcceptedBreaksNothing, Unresolved,
     SearchDependency, SearchProvides, SearchFilenames, BrokenFromStart, IgnoredFileRequires,
     Owed, checkVars
<1>5. ErasedStays' /\ Right'
  BY <1>1, <1>2 DEF YumInv, Operations, ErasedStays, Right
<1> QED
  BY <1>1, <1>2, <1>3, <1>4, <1>5 DEF YumInv, Operations

LEMMA CommandStep ==
    ASSUME [CommandNext]_cvars
    PROVE  YumNext \/ UNCHANGED yvars
BY DEF CommandNext, Select, Show, IsThisOk, GetOperations, EndRun, RunOperation, cvars

\* The inductive invariant of the front end: in every state of every call of
\* pyrpmyum the calls under way hold packages they may still add, nothing of the
\* transaction is lost, and the database agrees with it unless autoerase is on.
THEOREM YumInvHolds == CommandSpec => []YumInv
<1>1. CommandInit => YumInv
  BY YumInvInit DEF CommandInit
<1>2. YumInv /\ [CommandNext]_cvars => YumInv'
  BY CommandStep, YumInvStep, YumInvStutter
<1> QED
  BY <1>1, <1>2, PTL DEF CommandSpec

\* A transaction pyrpmyum accepts breaks no dependency of the system, for any
\* repositories and request, with and without autoerase.
THEOREM AcceptedBreaksNothingHolds == CommandSpec => []AcceptedBreaksNothing
<1>1. YumInv => AcceptedBreaksNothing
  BY DEF YumInv
<1> QED
  BY <1>1, YumInvHolds, PTL

\* What autoerase has removed is not in the database again, whichever calls were
\* under way with packages to add when it was removed.
THEOREM ErasedStaysHolds == CommandSpec => []ErasedStays
<1>1. YumInv => ErasedStays
  BY DEF YumInv, Operations
<1> QED
  BY <1>1, YumInvHolds, PTL

\* What the docstring of __runDepResolution() says is true of every request that
\* does not ask for autoerase: only what autoerase takes back can break it.
THEOREM AllResolvedWithoutAutoerase == CommandSpec => [](~request.autoerase => AllResolved)
<1>1. YumInv => (~request.autoerase => AllResolved)
  <2> SUFFICES ASSUME YumInv, ~request.autoerase, result = "accepted",
                      NEW p \in System, NEW d \in Requires[p]
               PROVE  \/ BrokenFromStart(p, d) \/ d \in IgnoredFileRequires
                      \/ \E q \in System : d \in Owed(q)
    BY DEF AllResolved
  <2>1. Db = System /\ TypeOK
    BY DEF YumInv, Operations, NothingTaken, Agreement, DatabaseMatchesOperations, System
  <2>2. p \in Pkg /\ d \in Dep
    BY <2>1, DbPkg, PkgAssumption
  <2>3. CASE SearchDependency(d) = {}
    <3>1. <<p, d>> \in Unresolved(Db)
      BY <2>1, <2>2, <2>3 DEF Unresolved
    <3> QED
      BY <3>1 DEF YumInv, AcceptedBreaksNothing
  <2>4. CASE SearchDependency(d) # {}
    BY <2>1, <2>4 DEF SearchDependency, SearchProvides, SearchFilenames, Owed
  <2> QED
    BY <2>3, <2>4
<1> QED
  BY <1>1, YumInvHolds, PTL

\* Whatever is asked for, found and answered in a call without autoerase, what
\* runCommand() hands to RpmOrderer has no package twice.
THEOREM CommandHandsOverOnce == CommandSpec => [](~request.autoerase => OnceHandedOver)
<1>1. YumInv => (~request.autoerase => OnceHandedOver)
  BY DEF YumInv, Operations, NothingTaken, Agreement, TypeOK, DatabaseMatchesOperations,
         ReplacedOnce, OnceHandedOver
<1> QED
  BY <1>1, YumInvHolds, PTL

\* Every update() of a call without autoerase hands on what was replaced before.
THEOREM CommandInherits ==
    CommandSpec =>
        [][~request.autoerase /\ last'.call = "update" => Replaced \subseteq Replaced']_vars
<1>1. YumInv /\ [CommandNext]_cvars
        => [~request.autoerase /\ last'.call = "update" => Replaced \subseteq Replaced']_vars
  <2> SUFFICES ASSUME YumInv, [CommandNext]_cvars, ~request.autoerase, last'.call = "update",
                      ~ UNCHANGED vars
               PROVE  Replaced \subseteq Replaced'
    OBVIOUS
  <2>1. YumStep
    BY CommandStep DEF YumNext, yvars, vars
  <2>2. /\ TypeOK /\ Agreement /\ ReplacedOnce /\ Right /\ obsoleteslist \in ObsoletesLists
    BY DEF YumInv, Operations, NothingTaken
  <2>3. Adds \/ Erases \/ Drops
    BY <2>1, <2>2, StepEffect
  <2>4. UNCHANGED opVars => Replaced' = Replaced
    BY DEF opVars, Replaced
  <2>5. CASE Adds
    <3>1. PICK p \in Pkg : InstallPkg(p) \/ UpdatePkg(p)
      BY <2>5 DEF Adds
    <3>2. ASSUME p \notin Db, NEW call, NEW U \in SUBSET Db, NEW O \in SUBSET Db, Place(call, p, U, O)
          PROVE  Replaced \subseteq Replaced'
      BY <2>2, <3>2, InheritedPlace
    <3> QED
      BY <2>4, <3>1, <3>2, AddingCases
  <2>6. CASE Erases
    <3>1. PICK p \in Pkg : ErasePkg(p)
      BY <2>6 DEF Erases
    <3>2. last'.call = "erase"
      BY <3>1 DEF ErasePkg, Refuse, Return
    <3> QED
      BY <3>2
  <2>7. CASE Drops
    BY <2>4, <2>7 DEF Drops
  <2> QED
    BY <2>3, <2>5, <2>6, <2>7
<1> QED
  BY <1>1, YumInvHolds, PTL DEF CommandSpec

-----------------------------------------------------------------------------
(* What is shown.                                                          *)

\* The summary leaves nothing out: what is replaced now is part of a line of its
\* own or of a replacement that is shown.
LEMMA SummaryShowsAll ==
    ASSUME TypeOK
    PROVE  /\ installs \subseteq Summary["install"] \union Summary["update"] \union Summary["obsolete"]
           /\ \A r \in erases \ Summary["erase"] :
                  \E p \in Pkg \intersect (Summary["update"] \union Summary["obsolete"]) : r \in Owned(p)
<1> DEFINE now == GenerateTransactionState
           replacing == {p \in Pkg : Owned(p) # {}}
           replaced == UNION {Owned(p) : p \in Pkg}
<1>1. /\ now.installs = installs \ replacing /\ now.erases = erases \ replaced
      /\ now.updates = updates /\ now.obsoletes = obsoletes
  BY DEF GenerateTransactionState, Owned
<1> HIDE DEF now
<1>2. /\ Summary["install"] = before.installs \union (now.installs \ before.installs)
      /\ Summary["update"] = Replacing(before.updates) \union AddedBy(now.updates, before.updates)
      /\ Summary["obsolete"] = Replacing(before.obsoletes) \union AddedBy(now.obsoletes, before.obsoletes)
      /\ Summary["erase"] = before.erases \union (now.erases \ before.erases)
  BY DEF Summary, Groups, now
<1>3. \A p \in Pkg : updates[p] # {} => p \in Summary["update"]
  BY <1>1, <1>2 DEF Replacing, AddedBy
<1>4. \A p \in Pkg : obsoletes[p] # {} => p \in Summary["obsolete"]
  BY <1>1, <1>2 DEF Replacing, AddedBy
<1>5. replacing \subseteq Summary["update"] \union Summary["obsolete"]
  BY <1>3, <1>4 DEF Owned
<1>6. installs \ replacing \subseteq Summary["install"] /\ erases \ replaced \subseteq Summary["erase"]
  BY <1>1, <1>2
<1> QED
  BY <1>5, <1>6

ShownInv == Confirming => result = "accepted" /\ DoneIsShown

LEMMA ShowInv ==
    ASSUME YumInv, Show
    PROVE  ShownInv'
<1> SUFFICES ASSUME Confirming' PROVE result' = "accepted" /\ DoneIsShown'
  BY DEF ShownInv
<1>1. /\ result = "accepted" /\ shown' = Summary /\ UNCHANGED yvars
  BY DEF Show, Confirming
<1>2. /\ UNCHANGED <<opVars, request, result>> /\ System' = System
      /\ \A p : Owned(p)' = Owned(p)
  BY <1>1 DEF yvars, vars, yumVars, opVars, System, Owned
<1>3. TypeOK /\ KeptReplace /\ NothingTaken
  BY DEF YumInv, Operations
<1>4. installs' \subseteq Added'
  BY <1>1, <1>2, <1>3, SummaryShowsAll DEF Added, opVars
<1>5. ASSUME NEW r \in erases' \ shown'["erase"]
      PROVE  \E p \in System' \intersect (shown'["update"] \union shown'["obsolete"]) :
                 r \in Owned(p)' /\ (~request'.autoerase => p \in installs')
  <2>1. PICK p \in Pkg \intersect (Summary["update"] \union Summary["obsolete"]) : r \in Owned(p)
    BY <1>1, <1>2, <1>3, SummaryShowsAll DEF opVars
  <2>2. p \in System
    BY <1>3, <2>1 DEF KeptReplace
  <2>3. ~request.autoerase => p \in installs
    BY <1>3, <2>1 DEF NothingTaken, ReplacedOnce, Owned
  <2> QED
    BY <1>1, <1>2, <2>1, <2>2, <2>3 DEF opVars
<1> QED
  BY <1>1, <1>2, <1>4, <1>5 DEF DoneIsShown, Owned

\* Whatever the resolution of dependencies made of the request, what the user is
\* asked to confirm has a line for every package that goes in, and accounts for
\* every one that goes out.
THEOREM DoneIsShownHolds == CommandSpec => []DoneIsShown
<1>1. CommandInit => ShownInv
  BY DEF CommandInit, ShownInv, Confirming
<1>2. YumInv /\ ShownInv /\ [CommandNext]_cvars => ShownInv'
  <2> SUFFICES ASSUME YumInv, ShownInv, [CommandNext]_cvars PROVE ShownInv'
    OBVIOUS
  <2>1. CASE Select
    <3>1. YumStep /\ UNCHANGED shown /\ (stage' = stage \/ stage' = "resolve")
      BY <2>1 DEF Select, YumNext
    <3>2. result = "running"
      BY <3>1, StepRuns DEF YumInv
    <3>3. ~Confirming'
      BY <3>1, <3>2 DEF ShownInv, Confirming
    <3> QED
      BY <3>3 DEF ShownInv
  <2>2. CASE Show
    BY <2>2, ShowInv
  <2>3. CASE UNCHANGED <<yvars, shown>> /\ (Confirming' => Confirming)
    <3>1. UNCHANGED <<opVars, request, result>> /\ System' = System
      BY <2>3 DEF yvars, vars, yumVars, opVars, System
    <3> QED
      BY <2>3, <3>1 DEF ShownInv, DoneIsShown, Added, opVars
  <2>4. CASE IsThisOk \/ GetOperations \/ EndRun \/ UNCHANGED cvars
             \/ \E o \in left : RunOperation(o)
    <3>1. UNCHANGED <<yvars, shown>> /\ (Confirming' => Confirming)
      BY <2>4 DEF IsThisOk, GetOperations, EndRun, RunOperation, cvars, commandVars, Confirming
    <3> QED
      BY <2>3, <3>1
  <2> QED
    BY <2>1, <2>2, <2>4 DEF CommandNext
<1>3. ShownInv => DoneIsShown
  BY DEF ShownInv, DoneIsShown
<1> QED
  BY <1>1, <1>2, <1>3, YumInvHolds, PTL DEF CommandSpec

-----------------------------------------------------------------------------
(* What stays of a package: something that has its name, or a name that    *)
(* takes the place of it.                                                  *)

LEMMA SuccessorsFirst ==
    ASSUME NEW n, NEW m, <<n, m>> \in TakesOver
    PROVE  m \in Successors(n)
BY DEF Successors

LEMMA SuccessorsOn ==
    ASSUME NEW n, NEW m \in Successors(n), NEW k, <<m, k>> \in TakesOver
    PROVE  k \in Successors(n)
BY DEF Successors

LEMMA SuccessorsJoin ==
    ASSUME NEW n, NEW m \in Successors(n), NEW k \in Successors(m)
    PROVE  k \in Successors(n)
BY DEF Successors

\* The heirs of an heir are heirs.
LEMMA HeirsJoin ==
    ASSUME NEW p, NEW q \in Heirs(p), NEW r \in Heirs(q)
    PROVE  r \in Heirs(p)
<1>1. /\ Name[q] = Name[p] \/ Name[q] \in Successors(Name[p])
      /\ r \in Pkg /\ (Name[r] = Name[q] \/ Name[r] \in Successors(Name[q]))
  BY DEF Heirs
<1>2. Name[r] = Name[p] \/ Name[r] \in Successors(Name[p])
  BY <1>1, SuccessorsJoin
<1> QED
  BY <1>1, <1>2 DEF Heirs

\* update() of p is refused because of x, if that has its name.
Refuses(p, x) == TooOld(p, x) \/ ArchIncompat(p, x) \/ Covered(p, x)

\* The packages with an heir in the database D or in P, a package that has been
\* erased in order to be added again.
Living(D, P) == {r \in Pkg : Heirs(r) \intersect (D \union P) # {}}

\* Those that may be erased themselves: a package of a name that takes the place of
\* theirs is there, or newer ones that nothing but one of them keeps out.
NewerOf(r, H) == {q \in H : Name[q] = Name[r] /\ Evr[q] > Evr[r]}
KeepsOut(G, D) == \A q \in G : \A x \in D : Name[x] = Name[q] /\ Refuses(q, x) => x \in G
Outlived(r, D, P) ==
    \/ \E q \in D \union P : Name[q] \in Successors(Name[r])
    \/ \E G \in SUBSET NewerOf(r, D \union P) : G # {} /\ KeepsOut(G, D)
Spare(D, P) == {r \in Pkg : Name[r] \notin AlwaysInstall /\ Outlived(r, D, P)}

\* A database E after p was put in D, for U of its name and O that it obsoletes.
Changed(D, P, E, p, U, O) ==
    /\ p \in Pkg /\ P \subseteq {p} /\ p \in E
    /\ E \subseteq D \union {p} /\ D \ (U \union O) \subseteq E
    /\ U \subseteq {x \in D : Name[x] = Name[p]}
    /\ \A x \in O : x \in D /\ <<Name[x], Name[p]>> \in TakesOver

LEMMA LivingChanged ==
    ASSUME NEW D \in SUBSET Pkg, NEW P, NEW E, NEW p, NEW U, NEW O, Changed(D, P, E, p, U, O)
    PROVE  Living(D, P) \subseteq Living(E, {})
<1> SUFFICES ASSUME NEW r \in Pkg, NEW q \in Heirs(r), q \in D \union P
             PROVE  \E z \in E : z \in Heirs(r)
  BY DEF Living
<1>1. CASE q \in E
  BY <1>1
<1>2. CASE q \in U \union O
  <2>1. Name[p] = Name[q] \/ Name[p] \in Successors(Name[q])
    BY <1>2, SuccessorsFirst DEF Changed
  <2>2. p \in Heirs(q) /\ p \in E
    BY <2>1 DEF Changed, Heirs
  <2> QED
    BY <2>2, HeirsJoin
<1> QED
  BY <1>1, <1>2 DEF Changed

\* A package that is put in beside those of its name, none of which refuses it,
\* or one of another name, leaves what is spare spare.
LEMMA OutlivedChanged ==
    ASSUME ~oldpackage, NEW D \in SUBSET Pkg, NEW P, NEW E, NEW p, NEW U, NEW O,
           Changed(D, P, E, p, U, O), NEW r \in Pkg, Outlived(r, D, P),
           Name[p] = Name[r] => \A x \in D : Name[x] = Name[p] => ~Refuses(p, x)
    PROVE  Outlived(r, E, {})
<1>1. CASE \E q \in D \union P : Name[q] \in Successors(Name[r])
  <2>1. PICK q \in D \union P : Name[q] \in Successors(Name[r])
    BY <1>1
  <2>2. CASE q \in E
    BY <2>1, <2>2 DEF Outlived
  <2>3. CASE q \in U \union O
    <3>1. Name[p] = Name[q] \/ <<Name[q], Name[p]>> \in TakesOver
      BY <2>3 DEF Changed
    <3>2. Name[p] \in Successors(Name[r]) /\ p \in E
      BY <2>1, <3>1, SuccessorsOn DEF Changed
    <3> QED
      BY <3>2 DEF Outlived
  <2> QED
    BY <2>2, <2>3 DEF Changed
<1>2. ASSUME NEW G \in SUBSET NewerOf(r, D \union P), G # {}, KeepsOut(G, D)
      PROVE  Outlived(r, E, {})
  <2>1. \A q \in G : q \in D \union {p} /\ Name[q] = Name[r] /\ Evr[q] > Evr[r]
    BY DEF NewerOf, Changed
  <2>2. CASE Name[p] = Name[r]
    <3> DEFINE F == (G \intersect E) \union {p}
    <3>1. Evr[p] > Evr[r]
      <4>1. PICK q \in G : TRUE
        BY <1>2
      <4>2. CASE q \in D
        <5>1. ~(Evr[q] > Evr[p]) /\ Evr[q] > Evr[r]
          BY <2>1, <2>2, <4>2 DEF Refuses, TooOld
        <5>2. Evr[q] \in Nat /\ Evr[p] \in Nat /\ Evr[r] \in Nat
          BY <4>2, YumAssumption DEF Changed
        <5> QED
          BY <5>1, <5>2
      <4> QED
        BY <2>1, <4>2
    <3>2. F \in SUBSET NewerOf(r, E \union {})
      BY <2>1, <2>2, <3>1 DEF NewerOf, Changed
    <3>3. ASSUME NEW q \in F, NEW x \in E, Name[x] = Name[q], Refuses(q, x) PROVE x \in F
      <4>1. x = p \/ x \in D
        BY DEF Changed
      <4>2. CASE x \in D
        <5>1. q # p
          BY <2>2, <3>3, <4>2
        <5> QED
          BY <1>2, <3>3, <4>2, <5>1 DEF KeepsOut
      <4> QED
        BY <4>1, <4>2
    <3>4. KeepsOut(F, E)
      BY <3>3 DEF KeepsOut
    <3> HIDE DEF F
    <3>5. F # {}
      BY DEF F
    <3> QED
      BY <3>2, <3>4, <3>5 DEF Outlived
  <2>3. CASE Name[p] # Name[r] /\ G \intersect O # {}
    <3>1. PICK q \in G : q \in O
      BY <2>3
    <3>2. <<Name[r], Name[p]>> \in TakesOver /\ p \in E
      BY <2>1, <3>1 DEF Changed
    <3> QED
      BY <3>2, SuccessorsFirst DEF Outlived
  <2>4. CASE Name[p] # Name[r] /\ G \intersect O = {}
    <3>1. \A q \in G : q \in D /\ q \in E
      BY <2>1, <2>4 DEF Changed
    <3>2. G \in SUBSET NewerOf(r, E \union {})
      BY <2>1, <3>1 DEF NewerOf
    <3>3. ASSUME NEW q \in G, NEW x \in E, Name[x] = Name[q], Refuses(q, x) PROVE x \in G
      <4>1. x \in D
        BY <2>1, <2>4, <3>3 DEF Changed
      <4> QED
        BY <1>2, <3>3, <4>1 DEF KeepsOut
    <3> QED
      BY <1>2, <3>2, <3>3 DEF Outlived, KeepsOut
  <2> QED
    BY <2>2, <2>3, <2>4
<1> QED
  BY <1>1, <1>2 DEF Outlived

\* Where one that is spare is, there is something else to take its place.
LEMMA SpareHasHeir ==
    ASSUME ObsoletesEnd, NEW D \in SUBSET Pkg, NEW s \in Pkg, Outlived(s, D, {})
    PROVE  \E q \in D \ {s} : q \in Heirs(s)
<1>1. CASE \E q \in D : Name[q] \in Successors(Name[s])
  <2>1. PICK q \in D : Name[q] \in Successors(Name[s])
    BY <1>1
  <2>2. Name[s] \in Names(Pkg)
    BY DEF Names
  <2>3. q # s
    BY <2>1, <2>2 DEF ObsoletesEnd
  <2> QED
    BY <2>1, <2>3 DEF Heirs
<1>2. ASSUME NEW G \in SUBSET NewerOf(s, D \union {}), G # {} PROVE \E q \in D \ {s} : q \in Heirs(s)
  <2>1. PICK q \in G : q \in D /\ Name[q] = Name[s] /\ Evr[q] > Evr[s]
    BY <1>2 DEF NewerOf
  <2>2. Evr[s] \in Nat
    BY YumAssumption
  <2>3. q # s
    BY <2>1, <2>2
  <2> QED
    BY <2>1, <2>3 DEF Heirs
<1> QED
  BY <1>1, <1>2 DEF Outlived

LEMMA LivingErased ==
    ASSUME ObsoletesEnd, NEW D \in SUBSET Pkg, NEW s \in Pkg, Outlived(s, D, {}), NEW E, D \ {s} \subseteq E
    PROVE  Living(D, {}) \subseteq Living(E, {})
<1> SUFFICES ASSUME NEW r \in Pkg, NEW q \in Heirs(r), q \in D
             PROVE  \E z \in E : z \in Heirs(r)
  BY DEF Living
<1>1. CASE q # s
  BY <1>1
<1>2. CASE q = s
  BY <1>2, SpareHasHeir, HeirsJoin
<1> QED
  BY <1>1, <1>2

LEMMA OutlivedErased ==
    ASSUME ObsoletesEnd, NEW D \in SUBSET Pkg, NEW s \in Pkg, Outlived(s, D, {}),
           NEW E, D \ {s} \subseteq E, E \subseteq D, NEW r \in Pkg, Outlived(r, D, {})
    PROVE  Outlived(r, E, {})
<1>1. CASE \E q \in D : Name[q] \in Successors(Name[r])
  <2>1. PICK q \in D : Name[q] \in Successors(Name[r])
    BY <1>1
  <2>2. CASE q # s
    BY <2>1, <2>2 DEF Outlived
  <2>3. CASE q = s
    <3>1. PICK z \in D \ {s} : z \in Heirs(s)
      BY SpareHasHeir
    <3>2. Name[z] \in Successors(Name[r]) /\ z \in E
      BY <2>1, <2>3, <3>1, SuccessorsJoin DEF Heirs
    <3> QED
      BY <3>2 DEF Outlived
  <2> QED
    BY <2>2, <2>3
<1>2. ASSUME NEW G \in SUBSET NewerOf(r, D \union {}), G # {}, KeepsOut(G, D)
      PROVE  Outlived(r, E, {})
  <2>1. \A q \in G : q \in D /\ Name[q] = Name[r] /\ Evr[q] > Evr[r]
    BY DEF NewerOf
  <2>2. CASE s \notin G
    <3>1. G \in SUBSET NewerOf(r, E \union {}) /\ KeepsOut(G, E)
      BY <1>2, <2>1, <2>2 DEF NewerOf, KeepsOut
    <3> QED
      BY <1>2, <3>1 DEF Outlived
  <2>3. CASE s \in G
    <3>1. Name[s] = Name[r] /\ Evr[s] > Evr[r]
      BY <2>1, <2>3
    <3>2. CASE \E q \in D : Name[q] \in Successors(Name[s])
      <4>1. PICK q \in D : Name[q] \in Successors(Name[s])
        BY <3>2
      <4>2. q # s
        BY <4>1 DEF ObsoletesEnd, Names
      <4> QED
        BY <3>1, <4>1, <4>2 DEF Outlived
    <3>3. ASSUME NEW F \in SUBSET NewerOf(s, D \union {}), F # {}, KeepsOut(F, D)
          PROVE  Outlived(r, E, {})
      <4>1. ASSUME NEW q \in F PROVE q \in E /\ Name[q] = Name[r] /\ Evr[q] > Evr[r]
        <5>1. q \in D /\ Name[q] = Name[s] /\ Evr[q] > Evr[s]
          BY DEF NewerOf
        <5>2. Evr[q] \in Nat /\ Evr[s] \in Nat /\ Evr[r] \in Nat
          BY <5>1, YumAssumption
        <5>3. q # s /\ Evr[q] > Evr[r]
          BY <3>1, <5>1, <5>2
        <5> QED
          BY <3>1, <5>1, <5>3
      <4>2. F \in SUBSET NewerOf(r, E \union {}) /\ KeepsOut(F, E)
        BY <3>3, <4>1 DEF NewerOf, KeepsOut
      <4> QED
        BY <3>3, <4>2 DEF Outlived
    <3> QED
      BY <3>2, <3>3 DEF Outlived
  <2> QED
    BY <2>2, <2>3
<1> QED
  BY <1>1, <1>2 DEF Outlived

\* A package is erased in order to be added again.
LEMMA OutlivedPending ==
    ASSUME NEW D, NEW E, NEW p, D \ {p} \subseteq E, E \subseteq D
    PROVE  /\ Living(D, {}) \subseteq Living(E, {p})
           /\ \A r : Outlived(r, D, {}) => Outlived(r, E, {p})
<1>1. D \subseteq E \union {p}
  OBVIOUS
<1>2. Living(D, {}) \subseteq Living(E, {p})
  BY <1>1 DEF Living
<1>3. ASSUME NEW r, Outlived(r, D, {}) PROVE Outlived(r, E, {p})
  <2>1. CASE \E q \in D : Name[q] \in Successors(Name[r])
    BY <1>1, <2>1 DEF Outlived
  <2>2. ASSUME NEW G \in SUBSET NewerOf(r, D \union {}), G # {}, KeepsOut(G, D)
        PROVE  Outlived(r, E, {p})
    <3>1. G \in SUBSET NewerOf(r, E \union {p}) /\ KeepsOut(G, E)
      BY <1>1, <2>2 DEF NewerOf, KeepsOut
    <3> QED
      BY <2>2, <3>1 DEF Outlived
  <2> QED
    BY <1>3, <2>1, <2>2 DEF Outlived
<1> QED
  BY <1>2, <1>3

\* It is refused then, because of one of its name.
LEMMA OutlivedRefused ==
    ASSUME NEW D \in SUBSET Pkg, NEW p, NEW x \in D, Name[x] = Name[p], Refuses(p, x)
    PROVE  /\ Living(D, {p}) \subseteq Living(D, {})
           /\ \A r : Outlived(r, D, {p}) => Outlived(r, D, {})
<1>1. ASSUME NEW r \in Pkg, NEW q \in Heirs(r), q \in D \union {p}
      PROVE  \E z \in D : z \in Heirs(r)
  <2>1. CASE q = p
    BY <1>1, <2>1 DEF Heirs
  <2> QED
    BY <1>1, <2>1
<1>2. ASSUME NEW r, Outlived(r, D, {p}) PROVE Outlived(r, D, {})
  <2>1. CASE \E q \in D \union {p} : Name[q] \in Successors(Name[r])
    BY <2>1 DEF Outlived
  <2>2. ASSUME NEW G \in SUBSET NewerOf(r, D \union {p}), G # {}, KeepsOut(G, D)
        PROVE  Outlived(r, D, {})
    <3> DEFINE F == G \intersect D
    <3>1. F \in SUBSET NewerOf(r, D \union {}) /\ KeepsOut(F, D)
      BY <2>2 DEF NewerOf, KeepsOut
    <3>2. F # {}
      <4>1. PICK q \in G : q \in D \union {p}
        BY <2>2 DEF NewerOf
      <4>2. CASE q = p
        BY <2>2, <4>2 DEF KeepsOut
      <4> QED
        BY <4>1, <4>2
    <3> HIDE DEF F
    <3> QED
      BY <3>1, <3>2 DEF Outlived
  <2> QED
    BY <1>2, <2>1, <2>2 DEF Outlived
<1> QED
  BY <1>1, <1>2 DEF Living

-----------------------------------------------------------------------------
(* The calls under way of a command c that neither removes packages nor    *)
(* erases automatically, when those of K may go.                           *)

\* Only packages that are not always installed are updated architecture by
\* architecture; the one whose update was just done may go.
Sure(frame, K, c) ==
    /\ frame.f # "remove"
    /\ frame.f = "main" /\ c = "list" => frame.at \in {"list", "names"}
    /\ frame.f = "archs" =>
          /\ \A r \in frame.todo :
                /\ Name[r] \notin AlwaysInstall
                /\ \A a \in DOMAIN frame.buckets : \A p \in frame.buckets[a] : Name[p] = Name[r]
          /\ frame.got => frame.ipkg # {} /\ frame.ipkg \subseteq K

\* The call `upper` is under way for `lower`: a package that waits for its update
\* waits for newer ones of its name, and may go when one of them was added.
Waits(lower, upper, K) ==
    /\ lower.f # "obsoletes"
    /\ lower.f = "best" => lower.got
    /\ upper.f = "best" /\ upper.cmd # "update" => lower.f = "main"
    /\ lower.f = "archs" =>
          /\ upper.f = "best" /\ lower.ipkg # {}
          /\ \A r \in lower.ipkg :
                /\ r \in Pkg /\ Name[r] \notin AlwaysInstall
                /\ \A p \in upper.todo : Name[p] = Name[r] /\ Evr[p] > Evr[r]
          /\ upper.got => lower.ipkg \subseteq K

Linked(s, K, c) ==
    /\ \A i \in 1 .. Len(s) : Sure(s[i], K, c)
    /\ \A i \in 2 .. Len(s) : Waits(s[i], s[i - 1], K)

LEMMA MoreMayGo ==
    ASSUME NEW K, NEW L, K \subseteq L, NEW c
    PROVE  /\ \A frame : Sure(frame, K, c) => Sure(frame, L, c)
           /\ \A lower, upper : Waits(lower, upper, K) => Waits(lower, upper, L)
<1>1. ASSUME NEW frame, Sure(frame, K, c) PROVE Sure(frame, L, c)
  BY <1>1 DEF Sure
<1>2. ASSUME NEW lower, NEW upper, Waits(lower, upper, K) PROVE Waits(lower, upper, L)
  BY <1>2 DEF Waits
<1> QED
  BY <1>1, <1>2

LEMMA LinkedCall ==
    ASSUME NEW s, IsSequence(s), s # <<>>, NEW K, NEW L, K \subseteq L, NEW c, Linked(s, K, c),
           NEW caller, Sure(caller, L, c), NEW callee, Sure(callee, L, c),
           Waits(caller, callee, L), \A lower : Waits(lower, s[1], K) => Waits(lower, caller, L),
           NEW t, t = Called(s, callee, caller)
    PROVE  Linked(t, L, c)
<1>1. /\ Len(t) = Len(s) + 1 /\ t[1] = callee /\ t[2] = caller
      /\ \A i \in 3 .. Len(t) : t[i] = s[i - 1]
  BY CallSequence
<1>2. Len(s) \in Nat /\ Len(s) >= 1
  BY OfSequence
<1>3. ASSUME NEW i \in 1 .. Len(t) PROVE Sure(t[i], L, c)
  <2>1. CASE i \in 3 .. Len(t)
    <3>1. t[i] = s[i - 1] /\ i - 1 \in 1 .. Len(s)
      BY <1>1, <1>2, <2>1
    <3> QED
      BY <3>1, MoreMayGo DEF Linked
  <2>2. i = 1 \/ i = 2 \/ i \in 3 .. Len(t)
    BY <1>1, <1>2
  <2> QED
    BY <1>1, <2>1, <2>2
<1>4. ASSUME NEW i \in 2 .. Len(t) PROVE Waits(t[i], t[i - 1], L)
  <2>1. CASE i = 2
    BY <1>1, <2>1
  <2>2. CASE i = 3
    <3>1. t[3] = s[2] /\ t[2] = caller /\ 2 \in 2 .. Len(s)
      BY <1>1, <1>2, <2>2
    <3>2. Waits(s[2], s[2 - 1], K)
      BY <3>1 DEF Linked
    <3>3. Waits(s[2], s[1], K)
      BY <3>2
    <3> QED
      BY <2>2, <3>1, <3>3
  <2>3. CASE i \in 4 .. Len(t)
    <3>1. t[i] = s[i - 1] /\ t[i - 1] = s[i - 2] /\ i - 1 \in 2 .. Len(s) /\ (i - 1) - 1 = i - 2
      BY <1>1, <1>2, <2>3
    <3>2. Waits(s[i - 1], s[i - 2], K)
      BY <3>1 DEF Linked
    <3> QED
      BY <3>1, <3>2, MoreMayGo
  <2>4. i = 2 \/ i = 3 \/ i \in 4 .. Len(t)
    BY <1>1, <1>2
  <2> QED
    BY <2>1, <2>2, <2>3, <2>4
<1> QED
  BY <1>3, <1>4 DEF Linked

LEMMA LinkedContinue ==
    ASSUME NEW s, IsSequence(s), s # <<>>, NEW K, NEW L, K \subseteq L, NEW c, Linked(s, K, c),
           NEW frame, Sure(frame, L, c),
           \A lower : Waits(lower, s[1], K) => Waits(lower, frame, L),
           NEW t, t = Continued(s, frame)
    PROVE  Linked(t, L, c)
<1>1. Len(t) = Len(s) /\ t[1] = frame /\ \A i \in 2 .. Len(t) : t[i] = s[i]
  BY ContinueSequence
<1>2. Len(s) \in Nat /\ Len(s) >= 1
  BY OfSequence
<1>3. ASSUME NEW i \in 1 .. Len(t) PROVE Sure(t[i], L, c)
  <2>1. i = 1 \/ i \in 2 .. Len(t)
    BY <1>1, <1>2
  <2>2. CASE i \in 2 .. Len(t)
    BY <1>1, <2>2, MoreMayGo DEF Linked
  <2> QED
    BY <1>1, <2>1, <2>2
<1>4. ASSUME NEW i \in 2 .. Len(t) PROVE Waits(t[i], t[i - 1], L)
  <2>1. Waits(s[i], s[i - 1], K) /\ t[i] = s[i]
    BY <1>1 DEF Linked
  <2>2. CASE i = 2
    <3>1. s[i - 1] = s[1] /\ t[i - 1] = frame
      BY <1>1, <2>2
    <3> QED
      BY <2>1, <3>1
  <2>3. CASE i # 2
    <3>1. t[i - 1] = s[i - 1]
      BY <1>1, <1>2, <2>3
    <3> QED
      BY <2>1, <3>1, MoreMayGo
  <2> QED
    BY <2>2, <2>3
<1> QED
  BY <1>3, <1>4 DEF Linked

\* What a call did is added to its caller.
LEMMA LinkedReply ==
    ASSUME NEW E, NEW auto, NEW s, CallsRight(s, E, auto), s # <<>>, s[1].f # "main",
           NEW K, NEW c, Linked(s, K, c),
           NEW b, s[2].got => b, b => s[2].got \/ s[1].f # "best" \/ s[1].got,
           NEW t, t = Returned(s, [s[2] EXCEPT !.got = b])
    PROVE  Linked(t, K, c) /\ t # <<>> /\ t[1].f # "obsoletes"
<1>1. Len(s) \in Nat /\ Len(s) >= 2
  BY OfSequence DEF CallsRight, Nested
<1>2. Frame(s[2], E, auto)
  BY <1>1 DEF CallsRight
<1> DEFINE h == s[2]
           g == [h EXCEPT !.got = b]
<1>3. h.f \in CallKinds /\ DOMAIN h = Fields(h.f)
  BY <1>2 DEF Frame
<1>4. "got" \in Fields(h.f) /\ "f" \in Fields(h.f)
  BY <1>3 DEF Fields, CallKinds, Adding
<1>5. /\ \A x \in Fields(h.f) \ {"got"} : g[x] = h[x]
      /\ g.f = h.f /\ g.got = b
  BY <1>3, <1>4
<1> HIDE DEF g
<1>6. Waits(h, s[1], K)
  <2>1. 2 \in 2 .. Len(s) /\ 2 - 1 = 1
    BY <1>1
  <2>2. Waits(s[2], s[2 - 1], K)
    BY <2>1 DEF Linked
  <2> QED
    BY <2>1, <2>2
<1>7. Sure(h, K, c)
  BY <1>1 DEF Linked
<1> HIDE DEF h
<1>8. Sure(g, K, c)
  <2>1. CASE h.f = "archs"
    <3>1. g.todo = h.todo /\ g.ipkg = h.ipkg /\ g.buckets = h.buckets
      BY <1>5, <2>1 DEF Fields
    <3>2. b => h.ipkg # {} /\ h.ipkg \subseteq K
      BY <1>6, <1>7, <2>1 DEF Sure, Waits, h
    <3> QED
      BY <1>5, <1>7, <2>1, <3>1, <3>2 DEF Sure
  <2>2. CASE h.f = "main"
    BY <1>5, <1>7, <2>2 DEF Sure, Fields
  <2> QED
    BY <1>5, <1>7, <2>1, <2>2 DEF Sure
<1>9. ASSUME NEW lower, Waits(lower, h, K) PROVE Waits(lower, g, K)
  <2>1. CASE h.f = "best"
    <3>1. g.cmd = h.cmd /\ g.todo = h.todo /\ h.got
      BY <1>5, <1>6, <2>1 DEF Fields, Waits
    <3>2. g.got
      BY <1>5, <3>1 DEF h
    <3> QED
      BY <1>5, <1>9, <3>1, <3>2 DEF Waits
  <2> QED
    BY <1>5, <1>9, <2>1 DEF Waits
<1>10. /\ Len(t) = Len(s) - 1 /\ t[1] = g
       /\ \A i \in 2 .. Len(t) : t[i] = s[i + 1]
  <2>1. IsSequence(s) /\ t = Returned(s, g)
    BY DEF CallsRight, g, h
  <2> QED
    BY <1>1, <2>1, ReplySequence
<1>11. ASSUME NEW i \in 1 .. Len(t) PROVE Sure(t[i], K, c)
  <2>1. CASE i = 1
    BY <1>8, <1>10, <2>1
  <2>2. CASE i # 1
    <3>1. t[i] = s[i + 1] /\ i + 1 \in 1 .. Len(s)
      BY <1>1, <1>10, <2>2
    <3> QED
      BY <3>1 DEF Linked
  <2> QED
    BY <2>1, <2>2
<1>12. ASSUME NEW i \in 2 .. Len(t) PROVE Waits(t[i], t[i - 1], K)
  <2>1. t[i] = s[i + 1] /\ i + 1 \in 2 .. Len(s) /\ i \in Nat
    BY <1>1, <1>10
  <2>2. Waits(s[i + 1], s[i], K)
    <3>1. Waits(s[i + 1], s[(i + 1) - 1], K)
      BY <2>1 DEF Linked
    <3>2. (i + 1) - 1 = i
      BY <2>1
    <3> QED
      BY <3>1, <3>2
  <2>3. CASE i = 2
    <3>1. t[i - 1] = g /\ s[i] = h
      BY <1>10, <2>3 DEF h
    <3> QED
      BY <1>9, <2>1, <2>2, <3>1
  <2>4. CASE i # 2
    <3>1. t[i - 1] = s[i]
      BY <1>1, <1>10, <2>4
    <3> QED
      BY <2>1, <2>2, <3>1
  <2> QED
    BY <2>3, <2>4
<1>13. t # <<>> /\ t[1].f # "obsoletes"
  BY <1>1, <1>5, <1>6, <1>10 DEF Waits
<1> QED
  BY <1>11, <1>12, <1>13 DEF Linked

-----------------------------------------------------------------------------
(* What a step of such a command keeps.                                    *)

Staying == ~request.autoerase /\ request.command # "remove"

\* A package that was erased in order to be added again, and is not yet.
Pending ==
    IF stack # <<>> /\ Top.f = "obsoletes" /\ Top.readd # <<>> /\ Top.readd[3] = "update"
    THEN {Top.readd[1]} ELSE {}

Chained == Linked(stack, Spare(Db, Pending), request.command)

StepKeeps ==
    /\ Living(Db, Pending) \subseteq Living(Db', Pending')
    /\ Linked(stack', Spare(Db', Pending'), request.command)

\* The stack after a step of the innermost call.
LEMMA ChainedCall ==
    ASSUME Right, stack # <<>>, NEW K, NEW L, K \subseteq L, NEW c, Linked(stack, K, c),
           NEW caller, Sure(caller, L, c), NEW callee, Sure(callee, L, c),
           Waits(caller, callee, L), \A lower : Waits(lower, Top, K) => Waits(lower, caller, L),
           Call(caller, callee)
    PROVE  Linked(stack', L, c) /\ stack' # <<>> /\ Head(stack') = callee
<1>1. IsSequence(stack) /\ Top = stack[1]
  BY TopRight DEF Right, CallsRight
<1>2. stack' = Called(stack, callee, caller)
  BY DEF Call, Called
<1>3. Linked(stack', L, c)
  BY <1>1, <1>2, LinkedCall
<1>4. IsSequence(stack') /\ Len(stack') = Len(stack) + 1 /\ stack'[1] = callee /\ Len(stack) \in Nat
  BY <1>1, <1>2, CallSequence, OfSequence
<1>5. stack' # <<>>
  BY <1>4
<1> QED
  BY <1>3, <1>4, <1>5, OfSequence

LEMMA ChainedContinue ==
    ASSUME Right, stack # <<>>, NEW K, NEW L, K \subseteq L, NEW c, Linked(stack, K, c),
           NEW frame, Sure(frame, L, c),
           \A lower : Waits(lower, Top, K) => Waits(lower, frame, L),
           Continue(frame)
    PROVE  Linked(stack', L, c) /\ stack' # <<>> /\ Head(stack') = frame
<1>1. IsSequence(stack) /\ Top = stack[1]
  BY TopRight DEF Right, CallsRight
<1>2. stack' = Continued(stack, frame)
  BY DEF Continue, Continued
<1>3. Linked(stack', L, c)
  BY <1>1, <1>2, LinkedContinue
<1>4. IsSequence(stack') /\ Len(stack') = Len(stack) /\ stack'[1] = frame /\ Len(stack) \in Nat /\ Len(stack) >= 1
  BY <1>1, <1>2, ContinueSequence, OfSequence
<1>5. stack' # <<>>
  BY <1>4
<1> QED
  BY <1>3, <1>4, <1>5, OfSequence

LEMMA QuietKeeps ==
    ASSUME UNCHANGED dbVars, Pending = {}, Pending' = {},
           Linked(stack', Spare(Db, {}), request.command)
    PROVE  StepKeeps
<1>1. Db' = Db
  BY DEF dbVars, Db
<1> QED
  BY <1>1 DEF StepKeeps

\* Calls of others than update() and __handleBestPkg().
LEMMA QuietCall ==
    ASSUME Right, stack # <<>>, Chained, UNCHANGED dbVars,
           NEW caller, Sure(caller, {}, request.command), caller.f = Top.f,
           Top.f \notin {"best", "archs", "obsoletes"},
           NEW callee, Sure(callee, {}, request.command),
           callee.f = "best" /\ callee.cmd # "update" => Top.f = "main",
           callee.f = "obsoletes" => callee.readd = <<>>,
           Call(caller, callee)
    PROVE  StepKeeps
<1> DEFINE K == Spare(Db, {})
           c == request.command
<1>1. Pending = {}
  BY DEF Pending
<1>2. Linked(stack, K, c)
  BY <1>1 DEF Chained
<1> HIDE DEF K, c
<1>3. Sure(caller, K, c) /\ Sure(callee, K, c)
  BY MoreMayGo DEF c
<1>4. Waits(caller, callee, K) /\ \A lower : Waits(lower, Top, K) => Waits(lower, caller, K)
  BY DEF Waits
<1>5. Linked(stack', K, c) /\ stack' # <<>> /\ Head(stack') = callee
  BY <1>2, <1>3, <1>4, ChainedCall
<1>6. Pending' = {}
  BY <1>5 DEF Pending, Top
<1> QED
  BY <1>1, <1>5, <1>6, QuietKeeps DEF K, c

LEMMA QuietContinue ==
    ASSUME Right, stack # <<>>, Chained, UNCHANGED dbVars, Pending = {},
           Top.f # "best", NEW frame, frame.f # "best", Sure(frame, {}, request.command),
           frame.f = "obsoletes" => frame.readd = <<>> \/ frame.readd[3] # "update",
           Continue(frame)
    PROVE  StepKeeps
<1> DEFINE K == Spare(Db, {})
           c == request.command
<1>1. Linked(stack, K, c)
  BY DEF Chained
<1> HIDE DEF K, c
<1>2. Sure(frame, K, c)
  BY MoreMayGo DEF c
<1>3. \A lower : Waits(lower, Top, K) => Waits(lower, frame, K)
  BY DEF Waits
<1>4. Linked(stack', K, c) /\ stack' # <<>> /\ Head(stack') = frame
  BY <1>1, <1>2, <1>3, ChainedContinue
<1>5. Pending' = {}
  BY <1>4 DEF Pending, Top
<1> QED
  BY <1>4, <1>5, QuietKeeps DEF K, c

LEMMA QuietReply ==
    ASSUME Right, stack # <<>>, Chained, UNCHANGED dbVars, Pending = {}, Top.f # "main",
           NEW b, Top.f = "best" => (b => Top.got), Reply(b)
    PROVE  StepKeeps
<1> DEFINE K == Spare(Db, {})
           c == request.command
<1>1. Linked(stack, K, c) /\ Top = stack[1]
  BY TopRight DEF Chained
<1> HIDE DEF K, c
<1> DEFINE done == stack[2].got \/ b
<1>2. stack' = Returned(stack, [stack[2] EXCEPT !.got = done])
  BY DEF Reply, Returned
<1>3. (stack[2].got => done) /\ (done => stack[2].got \/ b)
  OBVIOUS
<1> HIDE DEF done
<1>4. Linked(stack', K, c) /\ stack' # <<>> /\ stack'[1].f # "obsoletes"
  <2>1. /\ CallsRight(stack, erase_list, request.autoerase)
        /\ stack[1].f # "main"
        /\ done => stack[2].got \/ stack[1].f # "best" \/ stack[1].got
    BY <1>3, <1>1 DEF Right
  <2> QED
    BY <1>3, <1>1, <1>2, <2>1, LinkedReply
<1>5. Head(stack') = stack'[1]
  <2>1. CallsRight(stack', erase_list, request.autoerase)
    BY <1>1, <1>2, ReplyKeepsCalls DEF Right
  <2> QED
    BY <1>4, <2>1, OfSequence DEF CallsRight
<1>6. Pending' = {}
  BY <1>4, <1>5 DEF Pending, Top
<1> QED
  BY <1>4, <1>6, QuietKeeps DEF K, c

LEMMA QuietStop ==
    ASSUME UNCHANGED dbVars, Pending = {}, stack' = <<>>
    PROVE  StepKeeps
<1>1. Pending' = {}
  BY DEF Pending
<1>2. Linked(stack', Spare(Db, {}), request.command)
  <2>1. Len(stack') = 0
    OBVIOUS
  <2> QED
    BY <2>1 DEF Linked
<1> QED
  BY <1>1, <1>2, QuietKeeps

-----------------------------------------------------------------------------
(* The steps that leave the database as it is.                             *)

\* A command of this kind is under way.
Going == TypeOK /\ Agreement /\ Right /\ Staying /\ Chained

LEMMA GoingTop ==
    ASSUME Going, stack # <<>>
    PROVE  /\ Right /\ Chained /\ Top = stack[1]
           /\ Frame(Top, erase_list, request.autoerase)
           /\ Sure(Top, Spare(Db, Pending), request.command)
<1>1. Right /\ Chained /\ Top = stack[1] /\ Frame(Top, erase_list, request.autoerase)
  BY TopRight DEF Going
<1>2. Len(stack) \in Nat /\ Len(stack) >= 1
  BY <1>1, OfSequence DEF Right, CallsRight
<1>3. Sure(stack[1], Spare(Db, Pending), request.command)
  BY <1>1, <1>2 DEF Chained, Linked
<1> QED
  BY <1>1, <1>3

LEMMA QuietIs == ASSUME Quiet PROVE UNCHANGED dbVars
BY DEF Quiet, resolverVars

\* What ends with a return.
LEMMA ReturnsKeep ==
    ASSUME Going, EndBest \/ EndUpdate \/ EndArchs \/ EndObsoletes \/ EndDeps
    PROVE  StepKeeps
<1>1. /\ stack # <<>> /\ Top.f # "main" /\ UNCHANGED dbVars
      /\ Top.f = "obsoletes" => Top.readd = <<>>
  BY DEF EndBest, EndUpdate, EndArchs, EndObsoletes, EndDeps, Running, Quiet, resolverVars
<1>2. \E b : Reply(b) /\ (Top.f = "best" => (b => Top.got))
  BY DEF EndBest, EndUpdate, EndArchs, EndObsoletes, EndDeps, Running
<1>3. Pending = {}
  BY <1>1 DEF Pending
<1> QED
  BY <1>1, <1>2, <1>3, GoingTop, QuietReply

\* Calls that hold nothing that matters here.
LEMMA PlainSure ==
    ASSUME NEW frame, frame.f \notin {"remove", "archs", "main"}, NEW c
    PROVE  Sure(frame, {}, c)
BY DEF Sure

LEMMA ExtrasKeep ==
    ASSUME Going, UpdateLanguage \/ ObsoletesOf
    PROVE  StepKeeps
<1>1. /\ stack # <<>> /\ Top.f = "extras" /\ UNCHANGED dbVars
      /\ Right /\ Chained /\ Frame(Top, erase_list, request.autoerase) /\ Pending = {}
  BY GoingTop, QuietIs DEF UpdateLanguage, ObsoletesOf, Running, Pending
<1>2. ASSUME NEW n, Call([Top EXCEPT !.todo = @ \ {n}], UpdateNames(FindPkgs(n), TRUE)) PROVE StepKeeps
  <2> DEFINE caller == [Top EXCEPT !.todo = @ \ {n}]
             callee == UpdateNames(FindPkgs(n), TRUE)
  <2>1. caller.f = "extras" /\ callee.f = "update" /\ Call(caller, callee)
    BY <1>1, <1>2 DEF Frame, Fields, UpdateNames
  <2> HIDE DEF caller, callee
  <2> QED
    BY <1>1, <2>1, PlainSure, QuietCall
<1>3. CASE Continue(HandleObsoletes(<<Top.pkg>>))
  <2>1. HandleObsoletes(<<Top.pkg>>).f = "obsoletes" /\ HandleObsoletes(<<Top.pkg>>).readd = <<>>
    BY DEF HandleObsoletes
  <2> QED
    BY <1>1, <1>3, <2>1, PlainSure, QuietContinue
<1>4. CASE Reply(FALSE)
  BY <1>1, <1>4, QuietReply
<1> QED
  BY <1>2, <1>3, <1>4 DEF UpdateLanguage, ObsoletesOf

LEMMA UpdateNameKeeps ==
    ASSUME Going, UpdateName
    PROVE  StepKeeps
<1>1. /\ stack # <<>> /\ Top.f = "update" /\ UNCHANGED dbVars
      /\ Right /\ Chained /\ Frame(Top, erase_list, request.autoerase)
  BY GoingTop, QuietIs DEF UpdateName, Running
<1> DEFINE P(n) == {p \in Top.todo : Name[p] = n}
           best(Q, arch) == BestPkg("update", Q, arch, FALSE, FALSE, Top.do_obsolete, FALSE)
           rest(n) == [Top EXCEPT !.todo = @ \ P(n)]
<1>2. PICK n \in Names(Top.todo) :
          \/ Call(rest(n), best(P(n), Machine))
          \/ \E r \in DbNamed(n) : Call(rest(n), best(Newer(Newest(DbNamed(n)), P(n)), Arch[r]))
          \/ n \notin AlwaysInstall /\ Call(rest(n), PerArch(P(n), DbNamed(n), Top.do_obsolete))
  BY DEF UpdateName
<1>3. rest(n).f = "update"
  BY <1>1 DEF Frame, Fields
<1>4. ASSUME NEW Q, NEW arch, Call(rest(n), best(Q, arch)) PROVE StepKeeps
  <2>1. best(Q, arch).f = "best" /\ best(Q, arch).cmd = "update"
    BY DEF BestPkg
  <2> HIDE DEF rest, best
  <2> QED
    BY <1>1, <1>3, <1>4, <2>1, PlainSure, QuietCall
<1>5. CASE n \notin AlwaysInstall /\ Call(rest(n), PerArch(P(n), DbNamed(n), Top.do_obsolete))
  <2> DEFINE callee == PerArch(P(n), DbNamed(n), Top.do_obsolete)
  <2>1. /\ callee.f = "archs" /\ callee.got = FALSE
        /\ callee.todo = {r \in Db : Name[r] = n}
        /\ \A a \in DOMAIN callee.buckets : callee.buckets[a] \subseteq {p \in Top.todo : Name[p] = n}
    BY DEF PerArch, DbNamed
  <2> HIDE DEF callee, rest
  <2>2. Sure(callee, {}, request.command)
    BY <1>5, <2>1 DEF Sure
  <2>3. Sure(rest(n), {}, request.command)
    BY <1>3, PlainSure
  <2> QED
    BY <1>1, <1>3, <1>5, <2>1, <2>2, <2>3, QuietCall DEF callee
<1> HIDE DEF rest, best, P
<1> QED
  BY <1>2, <1>4, <1>5

LEMMA UpdateArchKeeps ==
    ASSUME Going, UpdateArch
    PROVE  StepKeeps
<1>1. /\ stack # <<>> /\ Top.f = "archs" /\ Top.ipkg = {} /\ UNCHANGED dbVars
      /\ Right /\ Chained /\ Frame(Top, erase_list, request.autoerase) /\ Pending = {}
      /\ Sure(Top, Spare(Db, {}), request.command)
  <2>1. stack # <<>> /\ Top.f = "archs" /\ Top.ipkg = {} /\ UNCHANGED dbVars
    BY QuietIs DEF UpdateArch, Running, Raise
  <2>2. Pending = {}
    BY <2>1 DEF Pending
  <2>3. /\ Right /\ Chained /\ Frame(Top, erase_list, request.autoerase)
        /\ Sure(Top, Spare(Db, Pending), request.command)
    BY <2>1, GoingTop
  <2> QED
    BY <2>1, <2>2, <2>3
<1>2. CASE stack' = <<>>
  BY <1>1, <1>2, QuietStop
<1> DEFINE
      K == Spare(Db, {})
      from(r) == IF Arch[r] = NoArch THEN UNION {Top.buckets[b] : b \in DOMAIN Top.buckets}
                 ELSE Get(Top.buckets, Bucket(r)) \union Get(Top.buckets, NoArch)
      march(r) == IF exactarch /\ Arch[r] # NoArch THEN Arch[r] ELSE Machine
      after(r) == [Top EXCEPT
                    !.todo = @ \ {r},
                    !.dict = @ \/ (~(Arch[r] = NoArch) /\ NoArch \notin DOMAIN Top.buckets),
                    !.buckets = [b \in DOMAIN Top.buckets \union {Bucket(r)} |->
                                    IF b = Bucket(r) THEN {} ELSE Top.buckets[b]]]
      best(r) == BestPkg("update", Newer(r, from(r)), march(r), exactarch, FALSE, Top.do_obsolete, FALSE)
<1>3. CASE stack' # <<>>
  <2>1. PICK r \in Top.todo : \/ Continue(after(r))
                              \/ Call([after(r) EXCEPT !.ipkg = {r}], best(r))
    BY <1>3 DEF UpdateArch, Raise
  <2>2. /\ r \in Pkg /\ Name[r] \notin AlwaysInstall /\ ~Top.got
        /\ \A b \in DOMAIN Top.buckets : \A p \in Top.buckets[b] : Name[p] = Name[r]
    BY <1>1 DEF Frame, Holds, Sure
  <2>3. \A p \in from(r) : Name[p] = Name[r]
    BY <2>2 DEF Get
  <2> HIDE DEF from, march
  <2>4. /\ best(r).f = "best" /\ best(r).cmd = "update" /\ best(r).got = FALSE
        /\ best(r).todo \subseteq Newer(r, from(r))
    BY DEF BestPkg, Candidates
  <2>5. \A p \in best(r).todo : Name[p] = Name[r] /\ Evr[p] > Evr[r]
    BY <2>3, <2>4 DEF Newer
  <2>6. /\ DOMAIN after(r) = Fields("archs") /\ after(r).f = "archs"
        /\ after(r).todo \subseteq Top.todo /\ after(r).got = Top.got
        /\ \A b \in DOMAIN after(r).buckets : \A p \in after(r).buckets[b] :
              \E a \in DOMAIN Top.buckets : p \in Top.buckets[a]
    BY <1>1 DEF Frame, Fields
  <2> HIDE DEF after, best
  <2>7. \A q \in Top.todo : /\ Name[q] \notin AlwaysInstall
                            /\ \A a \in DOMAIN Top.buckets : \A p \in Top.buckets[a] : Name[p] = Name[q]
    BY <1>1 DEF Sure
  <2>8. CASE Continue(after(r))
    <3>1. Sure(after(r), {}, request.command)
      BY <2>2, <2>6, <2>7 DEF Sure
    <3> QED
      BY <1>1, <2>6, <2>8, <3>1, QuietContinue
  <2>9. CASE Call([after(r) EXCEPT !.ipkg = {r}], best(r))
    <3> DEFINE caller == [after(r) EXCEPT !.ipkg = {r}]
    <3>1. /\ caller.f = "archs" /\ caller.ipkg = {r} /\ caller.got = Top.got
          /\ caller.todo = after(r).todo /\ caller.buckets = after(r).buckets
      BY <2>6 DEF Fields
    <3>2. Call(caller, best(r))
      BY <2>9
    <3> HIDE DEF caller
    <3>3. Sure(caller, K, request.command) /\ Sure(best(r), K, request.command)
      BY <2>2, <2>4, <2>6, <2>7, <3>1 DEF Sure
    <3>4. Waits(caller, best(r), K)
      BY <2>2, <2>4, <2>5, <3>1 DEF Waits
    <3>5. \A lower : Waits(lower, Top, K) => Waits(lower, caller, K)
      BY <1>1, <3>1 DEF Waits
    <3>6. Linked(stack, K, request.command)
      BY <1>1 DEF Chained
    <3> HIDE DEF K
    <3>7. Linked(stack', K, request.command) /\ stack' # <<>> /\ Head(stack') = best(r)
      BY <1>1, <3>2, <3>3, <3>4, <3>5, <3>6, ChainedCall
    <3>8. Pending' = {}
      BY <2>4, <3>7 DEF Pending, Top
    <3> QED
      BY <1>1, <3>7, <3>8, QuietKeeps DEF K
  <2> QED
    BY <2>1, <2>8, <2>9
<1> QED
  BY <1>2, <1>3

\* Nothing is removed, and nothing is erased automatically.
LEMMA NeverRuns ==
    ASSUME Going
    PROVE  ~RemovePkgs /\ ~KeepExcluded /\ ~EraseAutomatically /\ ~TakeBackUpdated /\ ~EraseConflict
<1>1. ASSUME stack # <<>> PROVE Top.f \notin {"remove", "autoerase", "conflictErase"}
  <2>1. Sure(Top, Spare(Db, Pending), request.command) /\ Frame(Top, erase_list, request.autoerase)
    BY <1>1, GoingTop
  <2> QED
    BY <2>1 DEF Sure, Frame, Holds, Going, Staying
<1> QED
  BY <1>1 DEF RemovePkgs, KeepExcluded, EraseAutomatically, TakeBackUpdated, EraseConflict, Running

LEMMA PickDepKeeps ==
    ASSUME Going, PickDep
    PROVE  StepKeeps
<1>1. /\ stack # <<>> /\ Top.f = "deps" /\ request.command # "remove"
      /\ Right /\ Chained /\ Frame(Top, erase_list, request.autoerase)
  BY GoingTop DEF PickDep, Running, Going, Staying
<1> DEFINE base == Settled(Top)
<1>2. base.f = "deps" /\ DOMAIN base = Fields("deps")
  BY <1>1 DEF Settled, Frame, Fields
<1> HIDE DEF base
<1> DEFINE caller(d) == [base EXCEPT !.dep = {d}]
<1>3. PICK u \in NextDeps(base) : Call(caller(u[2]), ResolveDep(u[1], u[2])) /\ UNCHANGED dbVars
  BY <1>1 DEF PickDep, base
<1>4. caller(u[2]).f = "deps" /\ ResolveDep(u[1], u[2]).f = "dep"
  BY <1>2 DEF Fields, ResolveDep
<1> HIDE DEF caller
<1> QED
  BY <1>1, <1>3, <1>4, PlainSure, QuietCall

LEMMA StepDepKeeps ==
    ASSUME Going, StepDep
    PROVE  StepKeeps
<1>1. /\ stack # <<>> /\ Top.f = "dep" /\ UNCHANGED dbVars /\ Pending = {}
      /\ Right /\ Chained /\ Frame(Top, erase_list, request.autoerase) /\ ~request.autoerase
  BY GoingTop, QuietIs DEF StepDep, Running, Going, Staying, Pending
<1>2. Top.at \in {"best", "update", "end"} /\ DOMAIN Top = Fields("dep")
  BY <1>1 DEF Frame, Holds
<1> DEFINE caller(at) == [Top EXCEPT !.at = at]
<1>3. \A at : caller(at).f = "dep"
  BY <1>1, <1>2 DEF Fields
<1> HIDE DEF caller
<1>4. CASE Reply(Top.got)
  BY <1>1, <1>4, QuietReply
<1>5. ASSUME NEW at, NEW callee, callee.f \in {"best", "update"}, callee.f = "best" => callee.cmd = "update",
             Call(caller(at), callee)
      PROVE  StepKeeps
  BY <1>1, <1>3, <1>5, PlainSure, QuietCall
<1> DEFINE best(P) == BestPkg("update", P, Machine, FALSE, Top.dep \in FileDep, TRUE, TRUE)
           names(n) == UpdateNames(FindPkgs(n), TRUE)
<1>6. \/ Reply(Top.got)
      \/ \E at, P : Call(caller(at), best(P))
      \/ \E at, n : Call(caller(at), names(n))
  BY <1>2 DEF StepDep, ResolvedDep, caller
<1>7. /\ \A P : best(P).f = "best" /\ best(P).cmd = "update"
      /\ \A n : names(n).f = "update"
  BY DEF BestPkg, UpdateNames
<1> HIDE DEF best, names
<1> QED
  BY <1>4, <1>5, <1>6, <1>7

LEMMA ConflictsKeep ==
    ASSUME Going, TryConflict \/ EndConflicts \/ EraseObsoleting
    PROVE  StepKeeps
<1>1. /\ stack # <<>> /\ Top.f \in {"conflicts", "obsoleteConflicts"} /\ UNCHANGED dbVars
      /\ Pending = {} /\ Right /\ Chained /\ Frame(Top, erase_list, request.autoerase)
      /\ ~request.autoerase
  BY GoingTop, QuietIs
     DEF TryConflict, EndConflicts, EraseObsoleting, Running, Going, Staying, Pending
<1>2. ASSUME NEW frame, frame.f = "conflicts", Continue(frame) PROVE StepKeeps
  BY <1>1, <1>2, PlainSure, QuietContinue
<1>3. ASSUME NEW b, Reply(b) PROVE StepKeeps
  BY <1>1, <1>3, QuietReply
<1>4. \A kind, res, more : HandleConflicts(kind, res, more).f = "conflicts"
  BY DEF HandleConflicts
<1>5. CASE TryConflict
  <2>1. Top.f = "conflicts" /\ DOMAIN Top = Fields("conflicts")
    BY <1>1, <1>5 DEF TryConflict, Running, Frame
  <2> DEFINE rest == [Top EXCEPT !.names = Tail(@)]
             next(c) == [Top EXCEPT !.todo = @ \ {c},
                           !.names = [i \in DOMAIN Parties(Top.kind, c) |-> Name[Parties(Top.kind, c)[i]]]]
             callee == UpdateNames(FindPkgs(Head(Top.names)), TRUE)
  <2>2. rest.f = "conflicts" /\ callee.f = "update" /\ \A c : next(c).f = "conflicts"
    BY <2>1 DEF Fields, UpdateNames
  <2>3. \/ Continue(HandleConflicts(Top.kind, TRUE, Top.left))
        \/ Call(rest, callee)
        \/ \E c : Continue(next(c))
    BY <1>5 DEF TryConflict
  <2> HIDE DEF rest, next, callee
  <2>4. CASE Call(rest, callee)
    BY <1>1, <2>1, <2>2, <2>4, PlainSure, QuietCall
  <2> QED
    BY <1>2, <1>4, <2>2, <2>3, <2>4
<1>6. CASE EndConflicts
  BY <1>1, <1>2, <1>3, <1>4, <1>6 DEF EndConflicts
<1>7. CASE EraseObsoleting
  <2>1. Top.todo = {}
    BY <1>1, <1>7 DEF EraseObsoleting, Running, Frame, Holds
  <2> QED
    BY <1>3, <1>7, <2>1 DEF EraseObsoleting
<1> QED
  BY <1>5, <1>6, <1>7

\* runArgs() and runDepRes().
LEMMA MainKeeps ==
    ASSUME Going, request \in Requests,
           \/ UpdateAll \/ ListUpdates \/ ListUpdate \/ RunArg \/ EndArgs \/ Selected \/ TurnStep
           \/ Turned \/ Finish
    PROVE  StepKeeps
<1>1. /\ stack # <<>> /\ Top.f = "main" /\ UNCHANGED dbVars /\ Pending = {}
      /\ Right /\ Chained /\ Frame(Top, erase_list, request.autoerase)
      /\ Sure(Top, Spare(Db, Pending), request.command)
  <2>1. stack # <<>> /\ Top.f = "main" /\ UNCHANGED dbVars
    BY QuietIs DEF UpdateAll, ListUpdates, ListUpdate, RunArg, EndArgs, Selected, TurnStep, Turned,
                   Finish, Running
  <2> QED
    BY <2>1, GoingTop DEF Pending
<1>2. /\ request.command \in {"install", "update", "list"}
      /\ request.command = "list" => Top.at \in {"list", "names"}
      /\ DOMAIN Top = Fields("main")
  BY <1>1, YumAssumption DEF Going, Staying, Sure, Frame
<1> DEFINE rest(n) == [Top EXCEPT !.todo = @ \ {n}]
           at(x) == [Top EXCEPT !.at = x]
<1>3. /\ \A n : rest(n).f = "main" /\ rest(n).at = Top.at
      /\ \A x : at(x).f = "main" /\ at(x).at = x
      /\ \A x, todo : Main(x, todo).f = "main" /\ Main(x, todo).at = x
  BY <1>1, <1>2 DEF Fields, Main
<1> HIDE DEF rest, at
<1>4. ASSUME NEW caller, caller.f = "main", request.command = "list" => caller.at \in {"list", "names"},
             NEW callee, callee.f \notin {"remove", "archs", "main"},
             callee.f = "obsoletes" => callee.readd = <<>>, Call(caller, callee)
      PROVE  StepKeeps
  <2>1. Sure(caller, {}, request.command) /\ Sure(callee, {}, request.command)
    BY <1>4, PlainSure DEF Sure
  <2> QED
    BY <1>1, <1>4, <2>1, QuietCall
<1>5. ASSUME NEW x, NEW todo, request.command = "list" => x \in {"list", "names"}, Continue(Main(x, todo))
      PROVE  StepKeeps
  <2>1. Sure(Main(x, todo), {}, request.command)
    BY <1>3, <1>5 DEF Sure
  <2> QED
    BY <1>1, <1>3, <1>5, <2>1, QuietContinue
<1>6. /\ \A n, b : UpdateNames(FindPkgs(n), b).f = "update"
      /\ \A list : HandleObsoletes(list).f = "obsoletes" /\ HandleObsoletes(list).readd = <<>>
  BY DEF UpdateNames, HandleObsoletes
<1>7. CASE UpdateAll \/ ListUpdates \/ ListUpdate
  <2>1. \/ \E n : Call(rest(n), UpdateNames(FindPkgs(n), FALSE))
        \/ Top.at = "all" /\ Continue(Main("args", {}))
        \/ \E todo : Continue(Main("names", todo))
        \/ stack' = <<>>
    BY <1>7 DEF UpdateAll, ListUpdates, ListUpdate, rest
  <2>2. ASSUME NEW n, Call(rest(n), UpdateNames(FindPkgs(n), FALSE)) PROVE StepKeeps
    BY <1>2, <1>3, <1>4, <1>6, <2>2
  <2> QED
    BY <1>1, <1>2, <1>5, <2>1, <2>2, QuietStop
<1>8. CASE RunArg
  <2>1. request.command \in {"install", "update"}
    BY <1>2, <1>8 DEF RunArg
  <2>2. PICK n : \/ Call(rest(n), BestPkg("install", FindPkgs(n), Machine, FALSE, FALSE, TRUE, FALSE))
                 \/ Call(rest(n), UpdateNames(FindPkgs(n), TRUE))
    BY <1>8, <2>1 DEF RunArg, rest
  <2>3. BestPkg("install", FindPkgs(n), Machine, FALSE, FALSE, TRUE, FALSE).f = "best"
    BY DEF BestPkg
  <2> QED
    BY <1>2, <1>3, <1>4, <1>6, <2>2, <2>3
<1>9. CASE EndArgs
  <2>1. request.command # "list"
    BY <1>2, <1>9 DEF EndArgs
  <2>2. \/ Call(Main("selected", {}), HandleObsoletes(delay_obsolete_list))
        \/ Continue(Main("turn", {}))
    BY <1>9 DEF EndArgs
  <2> QED
    BY <1>3, <1>4, <1>5, <1>6, <2>1, <2>2
<1>10. CASE Selected \/ Turned
  <2>1. request.command # "list" /\ \E x : Continue(Main(x, {}))
    BY <1>2, <1>10 DEF Selected, Turned
  <2> QED
    BY <1>5, <2>1
<1>11. CASE TurnStep
  <2> DEFINE conflicts == HandleConflicts("conflict", FALSE, FALSE)
  <2>1. PICK i \in 1 .. 4 :
            /\ Top.at = Phases[i]
            /\ Call(at(Phases[i + 1]),
                    CASE i = 1 -> UnresolvedDeps
                      [] i = 2 -> HandleObsoletes(delay_obsolete_list)
                      [] i = 3 -> conflicts
                      [] i = 4 -> ObsoleteConflicts)
    BY <1>11 DEF TurnStep, at
  <2>2. request.command # "list"
    BY <1>2, <2>1 DEF Phases
  <2>3. /\ UnresolvedDeps.f = "deps" /\ ObsoleteConflicts.f = "obsoleteConflicts"
        /\ conflicts.f = "conflicts"
    BY DEF UnresolvedDeps, ObsoleteConflicts, HandleConflicts
  <2> HIDE DEF conflicts
  <2>4. PICK callee : /\ Call(at(Phases[i + 1]), callee)
                      /\ callee.f \in {"deps", "obsoletes", "conflicts", "obsoleteConflicts"}
                      /\ callee.f = "obsoletes" => callee.readd = <<>>
    <3>1. i \in {1, 2, 3, 4}
      OBVIOUS
    <3>2. CASE i = 1
      BY <2>1, <2>3, <3>2
    <3>3. CASE i = 2
      BY <1>6, <2>1, <3>3
    <3>4. CASE i = 3
      BY <2>1, <2>3, <3>4
    <3>5. CASE i = 4
      BY <2>1, <2>3, <3>5
    <3> QED
      BY <3>1, <3>2, <3>3, <3>4, <3>5
  <2> QED
    BY <1>3, <1>4, <2>2, <2>4
<1>12. CASE Finish
  BY <1>1, <1>12, QuietStop DEF Finish
<1> QED
  BY <1>7, <1>8, <1>9, <1>10, <1>11, <1>12

-----------------------------------------------------------------------------
(* The steps that change the database.                                     *)

\* A package of the repositories is in the database when it was put there: it was
\* not installed, and so is not hidden.
LEMMA PutAvailable ==
    ASSUME TypeOK, Agreement, NEW p \in Available, NEW R \in SUBSET Db, p \notin Db, DbPut(p, R)
    PROVE  p \in Db' /\ Db' \subseteq Db \union {p} /\ Db \ R \subseteq Db'
<1>1. p \notin deleted
  BY YumAssumption DEF Agreement, DatabaseMatchesOperations
<1>2. p \in mem'
  BY <1>1 DEF DbPut
<1> QED
  BY <1>2, DbPutBounds DEF Db

\* update() refuses p because of a package of its name, or of none.
LEMMA RefusedBecause ==
    ASSUME NEW p
    PROVE  Refusals(p) # {} <=> \E x \in Db : Name[x] = Name[p] /\ Refuses(p, x)
<1>1. ASSUME Refusals(p) # {} PROVE \E x \in Db : Name[x] = Name[p] /\ Refuses(p, x)
  BY <1>1 DEF Refusals, Refuses, SameName
<1>2. ASSUME NEW x \in Db, Name[x] = Name[p], Refuses(p, x) PROVE Refusals(p) # {}
  <2>1. x \in SameName(p)
    BY <1>2 DEF SameName
  <2>2. CASE TooOld(p, x)
    BY <2>1, <2>2 DEF Refusals
  <2>3. CASE ~TooOld(p, x) /\ ArchIncompat(p, x)
    BY <2>1, <2>3 DEF Refusals
  <2>4. CASE ~TooOld(p, x) /\ ~ArchIncompat(p, x) /\ Covered(p, x)
    BY <2>1, <2>4 DEF Refusals
  <2> QED
    BY <1>2, <2>2, <2>3, <2>4 DEF Refuses
<1> QED
  BY <1>1, <1>2

LEMMA UpdateDoes ==
    ASSUME TypeOK, Agreement, NEW p \in Available, UpdatePkg(p), NEW P \in SUBSET {p}
    PROVE  \/ /\ last'.ret = "OK"
              /\ Changed(Db, P, Db', p, PkgUpdates(p), PkgObsoletes(p))
              /\ \A x \in Db : Name[x] = Name[p] => ~Refuses(p, x)
           \/ /\ last'.ret # "OK" /\ UNCHANGED dbVars
              /\ \E x \in Db : Name[x] = Name[p] /\ Refuses(p, x)
<1>1. CASE Refusals(p) # {} /\ Refuse("update", p, Refusals(p))
  <2>1. "OK" \notin Refusals(p)
    BY DEF Refusals, Already
  <2>2. last'.ret \in Refusals(p) /\ UNCHANGED dbVars
    BY <1>1 DEF Refuse, Return
  <2> QED
    BY <1>1, <2>1, <2>2, RefusedBecause
<1>2. CASE Refusals(p) = {} /\ Place("update", p, PkgUpdates(p), PkgObsoletes(p))
  <2> DEFINE U == PkgUpdates(p)
             O == PkgObsoletes(p)
  <2>1. p \notin Db
    BY <1>2, PresentIsRefused
  <2>2. U \subseteq Db /\ O \subseteq Db
    BY <2>1, ReplacedInDb
  <2>3. last'.ret = "OK" /\ DbPut(p, U \union O)
    BY <1>2 DEF Place, Return
  <2>4. p \in Db' /\ Db' \subseteq Db \union {p} /\ Db \ (U \union O) \subseteq Db'
    BY <2>1, <2>2, <2>3, PutAvailable
  <2>5. U \subseteq {x \in Db : Name[x] = Name[p]}
    BY DEF PkgUpdates, SameName
  <2>6. \A x \in O : x \in Db /\ <<Name[x], Name[p]>> \in TakesOver
    <3> SUFFICES ASSUME NEW x \in O PROVE x \in Db /\ <<Name[x], Name[p]>> \in TakesOver
      OBVIOUS
    <3>1. x \in Db /\ <<p, x>> \in Obsoletes /\ Name[x] # Name[p]
      BY DEF PkgObsoletes
    <3>2. <<p, x>>[1] = p /\ <<p, x>>[2] = x
      OBVIOUS
    <3> QED
      BY <3>1, <3>2 DEF TakesOver
  <2>7. p \in Pkg
    BY YumAssumption
  <2>8. Changed(Db, P, Db', p, U, O)
    BY <2>4, <2>5, <2>6, <2>7 DEF Changed
  <2> QED
    BY <1>2, <2>3, <2>8, RefusedBecause
<1> QED
  BY <1>1, <1>2 DEF UpdatePkg

LEMMA InstallDoes ==
    ASSUME TypeOK, Agreement, NEW p \in Available, InstallPkg(p)
    PROVE  \/ last'.ret = "OK" /\ Changed(Db, {}, Db', p, {}, {})
           \/ last'.ret # "OK" /\ UNCHANGED dbVars
<1>1. CASE Refuse("install", p, InstallCheck(p))
  <2>1. "OK" \notin InstallCheck(p)
    BY DEF InstallCheck, Already
  <2> QED
    BY <1>1, <2>1 DEF Refuse, Return
<1>2. CASE InstallCheck(p) = {} /\ Place("install", p, {}, {})
  <2>1. p \notin Db /\ p \in Pkg
    BY <1>2, PresentIsRefused, YumAssumption
  <2>2. last'.ret = "OK" /\ DbPut(p, {})
    BY <1>2 DEF Place, Return
  <2>3. p \in Db' /\ Db' \subseteq Db \union {p} /\ Db \ {} \subseteq Db'
    BY <2>1, <2>2, PutAvailable
  <2> QED
    BY <2>1, <2>2, <2>3 DEF Changed
<1> QED
  BY <1>1, <1>2 DEF InstallPkg

\* What is spare after a package was put in, if of its name only by update().
LEMMA SpareChanged ==
    ASSUME ~oldpackage, TypeOK, NEW P, NEW p, NEW U, NEW O, Changed(Db, P, Db', p, U, O),
           \/ Name[p] \in AlwaysInstall
           \/ \A x \in Db : Name[x] = Name[p] => ~Refuses(p, x)
    PROVE  Spare(Db, P) \subseteq Spare(Db', {}) /\ Living(Db, P) \subseteq Living(Db', {})
<1>1. Db \in SUBSET Pkg
  BY DbPkg
<1>2. Living(Db, P) \subseteq Living(Db', {})
  BY <1>1, LivingChanged
<1>3. ASSUME NEW r \in Pkg, Name[r] \notin AlwaysInstall, Outlived(r, Db, P)
      PROVE  Outlived(r, Db', {})
  <2>1. Name[p] = Name[r] => \A x \in Db : Name[x] = Name[p] => ~Refuses(p, x)
    BY <1>3
  <2> QED
    BY <1>1, <1>3, <2>1, OutlivedChanged
<1> QED
  BY <1>2, <1>3 DEF Spare

\* __handleBestPkg() installs only what was asked for, right under runArgs().
LEMMA InstallingLinked ==
    ASSUME Right, stack # <<>>, Top.f = "best", Top.cmd # "update", NEW K, NEW c, Linked(stack, K, c)
    PROVE  Linked(stack, {}, c)
<1>1. Top = stack[1] /\ Len(stack) \in Nat /\ Len(stack) >= 1
  BY TopRight, OfSequence DEF Right, CallsRight
<1>2. Len(stack) # 1
  BY <1>1 DEF Right, CallsRight, Nested
<1> DEFINE n == Len(stack)
<1>3. n \in Nat /\ n >= 2
  <2>1. n \in Nat /\ n >= 1 /\ n # 1
    BY <1>1, <1>2
  <2> HIDE DEF n
  <2> QED
    BY <2>1
<1> HIDE DEF n
<1>4. Waits(stack[2], stack[1], K)
  <2>1. Waits(stack[2], stack[2 - 1], K)
    BY <1>3 DEF Linked, n
  <2> QED
    BY <2>1
<1>5. stack[2].f = "main"
  BY <1>1, <1>4 DEF Waits
<1>6. Len(stack) = 2
  <2>1. ASSUME n >= 3 PROVE FALSE
    <3>1. 2 \in 1 .. n /\ 3 \in 2 + 1 .. n
      BY <1>3, <2>1
    <3>2. stack[3].f \in Below(stack[2].f)
      BY <3>1 DEF Right, CallsRight, Nested, n
    <3>3. Below("main") = {}
      BY DEF Below, Adding
    <3> QED
      BY <1>5, <3>2, <3>3
  <2>2. n = 2
    BY <1>3, <2>1
  <2> QED
    BY <2>2 DEF n
<1>7. \A i \in 1 .. Len(stack) : Sure(stack[i], {}, c)
  <2>1. Sure(stack[1], K, c) /\ Sure(stack[2], K, c)
    BY <1>6 DEF Linked
  <2>2. Sure(stack[1], {}, c) /\ Sure(stack[2], {}, c)
    BY <1>1, <1>5, <2>1 DEF Sure
  <2>3. \A i \in 1 .. Len(stack) : i = 1 \/ i = 2
    BY <1>6
  <2> QED
    BY <2>2, <2>3
<1>8. \A i \in 2 .. Len(stack) : Waits(stack[i], stack[i - 1], {})
  <2>1. Waits(stack[2], stack[1], {})
    BY <1>4, <1>5 DEF Waits
  <2>2. \A i \in 2 .. Len(stack) : i = 2 /\ i - 1 = 1
    BY <1>6
  <2> QED
    BY <2>1, <2>2
<1> QED
  BY <1>7, <1>8 DEF Linked

LEMMA TryBestKeeps ==
    ASSUME ~oldpackage, Going, TryBest
    PROVE  StepKeeps
<1>1. /\ stack # <<>> /\ Top.f = "best" /\ TypeOK /\ Agreement
      /\ Right /\ Chained /\ Frame(Top, erase_list, request.autoerase) /\ Pending = {}
  BY GoingTop DEF TryBest, Running, Pending, Going
<1>2. DOMAIN Top = Fields("best") /\ Top.todo \subseteq Available
  BY <1>1 DEF Frame, Holds
<1> DEFINE after(p, added) == [Top EXCEPT !.todo = Remaining(Top, p, added), !.got = @ \/ added]
           c == request.command
           L == Spare(Db', {})
<1>3. PICK p \in Top.todo :
          /\ AddPkg(Top.cmd, p)
          /\ IF last'.ret = "OK" THEN Call(after(p, TRUE), Extras(p, Top.do_obsolete))
                                 ELSE Continue(after(p, FALSE))
  BY DEF TryBest, BestOf
<1>4. p \in Available
  BY <1>2
<1>5. ASSUME NEW added
      PROVE  /\ after(p, added).f = "best" /\ after(p, added).cmd = Top.cmd
             /\ after(p, added).todo \subseteq Top.todo
             /\ after(p, added).got <=> Top.got \/ added
  BY <1>1, <1>2 DEF Fields, Remaining
<1>6. Linked(stack, Spare(Db, {}), c)
  BY <1>1 DEF Chained
<1> HIDE DEF after, c, L
<1>7. ASSUME last'.ret # "OK", UNCHANGED dbVars
      PROVE  StepKeeps
  <2>1. Continue(after(p, FALSE))
    BY <1>3, <1>7
  <2>2. Sure(after(p, FALSE), Spare(Db, {}), c)
    BY <1>5 DEF Sure
  <2>3. \A lower : Waits(lower, Top, Spare(Db, {})) => Waits(lower, after(p, FALSE), Spare(Db, {}))
    BY <1>1, <1>5 DEF Waits
  <2>4. Linked(stack', Spare(Db, {}), c) /\ stack' # <<>> /\ Head(stack') = after(p, FALSE)
    BY <1>1, <1>6, <2>1, <2>2, <2>3, ChainedContinue
  <2>5. Pending' = {}
    BY <1>5, <2>4 DEF Pending, Top
  <2> QED
    BY <1>1, <1>7, <2>4, <2>5, QuietKeeps DEF c
<1>8. ASSUME last'.ret = "OK", Living(Db, {}) \subseteq Living(Db', {}),
             NEW K, Linked(stack, K, c), K \subseteq L,
             Top.cmd = "update" =>
                 \A r \in Pkg : Name[r] = Name[p] /\ Name[r] \notin AlwaysInstall /\ Evr[p] > Evr[r] => r \in L
      PROVE  StepKeeps
  <2>1. Call(after(p, TRUE), Extras(p, Top.do_obsolete))
    BY <1>3, <1>8
  <2>2. Extras(p, Top.do_obsolete).f = "extras"
    BY DEF Extras
  <2>3. Sure(after(p, TRUE), L, c) /\ Sure(Extras(p, Top.do_obsolete), L, c)
    BY <1>5, <2>2 DEF Sure
  <2>4. Waits(after(p, TRUE), Extras(p, Top.do_obsolete), L)
    BY <1>5, <2>2 DEF Waits
  <2>5. ASSUME NEW lower, Waits(lower, Top, K) PROVE Waits(lower, after(p, TRUE), L)
    <3>1. CASE lower.f = "archs"
      <4>1. Top.cmd = "update"
        BY <1>1, <2>5, <3>1 DEF Waits
      <4>2. \A r \in lower.ipkg : r \in L
        BY <1>8, <2>5, <3>1, <4>1 DEF Waits
      <4> QED
        BY <1>1, <1>5, <2>5, <3>1, <4>2 DEF Waits
    <3> QED
      BY <1>1, <1>5, <2>5, <3>1 DEF Waits
  <2>6. /\ Linked(stack', L, c) /\ stack' # <<>>
        /\ Head(stack') = Extras(p, Top.do_obsolete)
    BY <1>1, <1>8, <2>1, <2>3, <2>4, <2>5, ChainedCall
  <2>7. Pending' = {}
    BY <2>2, <2>6 DEF Pending, Top
  <2> QED
    BY <1>1, <1>8, <2>6, <2>7 DEF StepKeeps, L, c
<1>9. CASE UpdatePkg(p) /\ Name[p] \notin AlwaysInstall
  <2>1. CASE last'.ret # "OK"
    BY <1>1, <1>4, <1>7, <1>9, <2>1, UpdateDoes
  <2>2. CASE last'.ret = "OK"
    <3>1. /\ Changed(Db, {}, Db', p, PkgUpdates(p), PkgObsoletes(p))
          /\ \A x \in Db : Name[x] = Name[p] => ~Refuses(p, x)
      BY <1>1, <1>4, <1>9, <2>2, UpdateDoes
    <3>2. Spare(Db, {}) \subseteq L /\ Living(Db, {}) \subseteq Living(Db', {})
      BY <1>1, <3>1, SpareChanged DEF L
    <3>3. ASSUME NEW r \in Pkg, Name[r] = Name[p], Name[r] \notin AlwaysInstall, Evr[p] > Evr[r]
          PROVE  r \in L
      <4>1. {p} \in SUBSET NewerOf(r, Db' \union {})
        BY <3>1, <3>3 DEF NewerOf, Changed
      <4>2. KeepsOut({p}, Db')
        BY <3>1 DEF KeepsOut, Changed
      <4>3. Outlived(r, Db', {})
        BY <4>1, <4>2 DEF Outlived
      <4> QED
        BY <3>3, <4>3 DEF L, Spare
    <3> QED
      BY <1>6, <1>8, <2>2, <3>2, <3>3
  <2> QED
    BY <2>1, <2>2
<1>10. CASE InstallPkg(p) /\ (Name[p] \in AlwaysInstall \/ Top.cmd # "update")
  <2>1. CASE last'.ret # "OK"
    BY <1>1, <1>4, <1>7, <1>10, <2>1, InstallDoes
  <2>2. CASE last'.ret = "OK"
    <3>1. Changed(Db, {}, Db', p, {}, {})
      BY <1>1, <1>4, <1>10, <2>2, InstallDoes
    <3>2. CASE Name[p] \in AlwaysInstall
      <4>1. Spare(Db, {}) \subseteq L /\ Living(Db, {}) \subseteq Living(Db', {})
        BY <1>1, <3>1, <3>2, SpareChanged DEF L
      <4> QED
        BY <1>6, <1>8, <2>2, <3>2, <4>1
    <3>3. CASE Top.cmd # "update"
      <4>1. Living(Db, {}) \subseteq Living(Db', {})
        BY <1>1, <3>1, DbPkg, LivingChanged
      <4>2. Linked(stack, {}, c)
        BY <1>1, <1>6, <3>3, InstallingLinked
      <4> QED
        BY <1>8, <2>2, <3>3, <4>1, <4>2
    <3> QED
      BY <1>10, <3>2, <3>3
  <2> QED
    BY <2>1, <2>2
<1> QED
  BY <1>3, <1>9, <1>10 DEF AddPkg

LEMMA ErasePkgDoes ==
    ASSUME NEW p, ErasePkg(p)
    PROVE  Db \ {p} \subseteq Db' /\ Db' \subseteq Db
<1>1. CASE UNCHANGED dbVars
  BY <1>1 DEF dbVars, Db
<1>2. CASE DbRemove(p)
  BY <1>2, DbRemoveBounds
<1> QED
  BY <1>1, <1>2 DEF ErasePkg, Refuse

\* update() erases the package whose update was just done.
LEMMA UpdatedArchKeeps ==
    ASSUME ObsoletesEnd, Going, UpdatedArch
    PROVE  StepKeeps
<1>1. /\ stack # <<>> /\ Top.f = "archs" /\ TypeOK /\ Pending = {}
      /\ Right /\ Chained /\ Frame(Top, erase_list, request.autoerase)
      /\ Sure(Top, Spare(Db, {}), request.command)
  <2>1. stack # <<>> /\ Top.f = "archs"
    BY DEF UpdatedArch, Running
  <2>2. Pending = {}
    BY <2>1 DEF Pending
  <2> QED
    BY <2>1, <2>2, GoingTop DEF Going
<1> DEFINE after(b) == [Top EXCEPT !.ipkg = {}, !.res = b, !.got = FALSE]
           K == Spare(Db, {})
           L == Spare(Db', {})
           done == Top.res \/ Top.got
<1>2. PICK r \in Top.ipkg : (IF Top.got THEN ErasePkg(r) ELSE Quiet) /\ Continue(after(done))
  BY DEF UpdatedArch
<1> HIDE DEF done
<1>3. /\ after(done).f = "archs" /\ after(done).got = FALSE
      /\ after(done).todo = Top.todo /\ after(done).buckets = Top.buckets
  BY <1>1 DEF Frame, Fields
<1>4. Continue(after(done))
  BY <1>2
<1> HIDE DEF after
<1>5. Sure(after(done), L, request.command)
  BY <1>1, <1>3 DEF Sure
<1>6. \A lower : Waits(lower, Top, K) => Waits(lower, after(done), L)
  BY <1>1, <1>3 DEF Waits
<1>7. K \subseteq L /\ Living(Db, {}) \subseteq Living(Db', {})
  <2>1. CASE Top.got
    <3>1. r \in Pkg /\ Outlived(r, Db, {}) /\ Db \in SUBSET Pkg
      BY <1>1, <2>1, DbPkg DEF Sure, Spare
    <3>2. Db \ {r} \subseteq Db' /\ Db' \subseteq Db
      BY <1>2, <2>1, ErasePkgDoes
    <3>3. Living(Db, {}) \subseteq Living(Db', {})
      BY <3>1, <3>2, LivingErased
    <3>4. \A q \in Pkg : Outlived(q, Db, {}) => Outlived(q, Db', {})
      BY <3>1, <3>2, OutlivedErased
    <3> QED
      BY <3>3, <3>4 DEF K, L, Spare
  <2>2. CASE ~Top.got
    <3>1. Db' = Db
      BY <1>2, <2>2, QuietIs DEF dbVars, Db
    <3> QED
      BY <3>1 DEF K, L
  <2> QED
    BY <2>1, <2>2
<1>8. Linked(stack, K, request.command)
  BY <1>1 DEF Chained, K
<1> HIDE DEF K, L
<1>9. Linked(stack', L, request.command) /\ stack' # <<>> /\ Head(stack') = after(done)
  BY <1>1, <1>4, <1>5, <1>6, <1>7, <1>8, ChainedContinue
<1>10. Pending' = {}
  BY <1>3, <1>9 DEF Pending, Top
<1> QED
  BY <1>1, <1>7, <1>9, <1>10 DEF StepKeeps, L

\* __handleObsoletes() goes on.
LEMMA ObsoletesContinue ==
    ASSUME Right, stack # <<>>, Top.f = "obsoletes", NEW K, NEW L, K \subseteq L, NEW c,
           Linked(stack, K, c), NEW frame, frame.f = "obsoletes", Continue(frame)
    PROVE  Linked(stack', L, c) /\ stack' # <<>> /\ Head(stack') = frame
<1>1. Sure(frame, L, c)
  BY DEF Sure
<1>2. \A lower : Waits(lower, Top, K) => Waits(lower, frame, L)
  BY DEF Waits
<1> QED
  BY <1>1, <1>2, ChainedContinue

LEMMA TryObsoleteKeeps ==
    ASSUME ~oldpackage, Going, obsoleteslist \in ObsoletesLists, TryObsolete
    PROVE  StepKeeps
<1>1. /\ stack # <<>> /\ Top.f = "obsoletes" /\ Top.readd = <<>> /\ TypeOK /\ Agreement
      /\ Right /\ Chained /\ Frame(Top, erase_list, request.autoerase) /\ Pending = {}
  BY GoingTop DEF TryObsolete, Running, Going, Pending
<1>2. Top.next \in Nat \ {0} /\ DOMAIN Top = Fields("obsoletes")
  BY <1>1 DEF Frame, Holds
<1> DEFINE o(j) == obsoleteslist[j]
           list(j) == IF Top.pkglist = <<>> THEN Top.pkglist
                      ELSE FoldLeft(LAMBDA s, p : IF p \in Wanted(Top, o(j)) THEN s ELSE Append(s, p),
                                    <<>>, Top.pkglist) \o <<o(j)>>
           took(j) == [Top EXCEPT !.res = TRUE, !.next = 1, !.readd = <<>>, !.pkglist = list(j)]
           readding(j) == [Top EXCEPT !.next = j + 1, !.readd = <<o(j), Wanted(Top, o(j)), "erase">>]
           passed(j) == [Top EXCEPT !.next = j + 1]
<1>3. PICK j \in Top.next .. Len(obsoleteslist) :
          /\ UpdatePkg(o(j))
          /\ Continue(took(j)) \/ Continue(readding(j)) \/ Continue(passed(j))
  BY DEF TryObsolete, Obsoleted
<1>4. o(j) \in Available
  <2>1. j \in Top.next .. Len(obsoleteslist)
    OBVIOUS
  <2>2. /\ Len(obsoleteslist) \in Nat
        /\ \A k \in 1 .. Len(obsoleteslist) : obsoleteslist[k] \in Available
    BY ObsoletingAvailable
  <2>3. j \in 1 .. Len(obsoleteslist)
    BY <1>2, <2>1, <2>2
  <2> QED
    BY <2>2, <2>3
<1> HIDE DEF o, list
<1>5. /\ took(j).f = "obsoletes" /\ took(j).readd = <<>>
      /\ readding(j).f = "obsoletes" /\ readding(j).readd[3] = "erase"
      /\ passed(j).f = "obsoletes" /\ passed(j).readd = <<>>
  BY <1>1, <1>2 DEF Fields
<1> HIDE DEF took, readding, passed
<1>6. PICK frame : Continue(frame) /\ frame.f = "obsoletes" /\ (frame.readd = <<>> \/ frame.readd[3] = "erase")
  BY <1>3, <1>5
<1> DEFINE K == Spare(Db, {})
           L == Spare(Db', {})
<1>7. K \subseteq L /\ Living(Db, {}) \subseteq Living(Db', {})
  <2> DEFINE p == o(j)
  <2>1. p \in Available /\ UpdatePkg(p)
    BY <1>3, <1>4
  <2> HIDE DEF p
  <2>2. \/ /\ Changed(Db, {}, Db', p, PkgUpdates(p), PkgObsoletes(p))
           /\ \A x \in Db : Name[x] = Name[p] => ~Refuses(p, x)
        \/ UNCHANGED dbVars
    BY <1>1, <2>1, UpdateDoes
  <2>3. CASE UNCHANGED dbVars
    <3>1. Db' = Db
      BY <2>3 DEF dbVars, Db
    <3> QED
      BY <3>1
  <2> QED
    BY <1>1, <2>2, <2>3, SpareChanged
<1>8. Linked(stack, K, request.command)
  BY <1>1 DEF Chained
<1> HIDE DEF K, L
<1>9. Linked(stack', L, request.command) /\ stack' # <<>> /\ Head(stack') = frame
  BY <1>1, <1>6, <1>7, <1>8, ObsoletesContinue
<1>10. Pending' = {}
  BY <1>6, <1>9 DEF Pending, Top
<1> QED
  BY <1>1, <1>7, <1>9, <1>10 DEF StepKeeps, L

\* It erases an obsoleting package to add it again.
LEMMA EraseToReaddKeeps ==
    ASSUME Going, EraseToReadd
    PROVE  StepKeeps
<1>1. /\ stack # <<>> /\ Top.f = "obsoletes" /\ Top.readd # <<>> /\ Top.readd[3] = "erase"
      /\ Right /\ Chained /\ Frame(Top, erase_list, request.autoerase) /\ Pending = {}
  BY GoingTop DEF EraseToReadd, Running, Pending
<1>2. DOMAIN Top = Fields("obsoletes") /\ DOMAIN Top.readd = 1 .. 3
  BY <1>1 DEF Frame, Holds
<1> DEFINE frame == [Top EXCEPT !.readd[3] = "update"]
           p == Top.readd[1]
           K == Spare(Db, {})
           L == Spare(Db', {p})
<1>3. Continue(frame) /\ ErasePkg(p)
  BY DEF EraseToReadd
<1>4. /\ frame.f = "obsoletes" /\ frame.readd = [Top.readd EXCEPT ![3] = "update"]
  BY <1>1, <1>2 DEF Fields
<1>5. frame.readd[1] = p /\ frame.readd[3] = "update" /\ DOMAIN frame.readd = 1 .. 3
  BY <1>2, <1>4
<1>6. frame.readd # <<>>
  BY <1>5
<1>7. K \subseteq L /\ Living(Db, {}) \subseteq Living(Db', {p})
  <2>1. Db \ {p} \subseteq Db' /\ Db' \subseteq Db
    BY <1>3, ErasePkgDoes
  <2> HIDE DEF p
  <2>2. /\ Living(Db, {}) \subseteq Living(Db', {p})
        /\ \A r : Outlived(r, Db, {}) => Outlived(r, Db', {p})
    BY <2>1, OutlivedPending
  <2> QED
    BY <2>2 DEF Spare
<1>8. Linked(stack, K, request.command)
  BY <1>1 DEF Chained
<1> HIDE DEF K, L, frame, p
<1>9. Linked(stack', L, request.command) /\ stack' # <<>> /\ Head(stack') = frame
  BY <1>1, <1>3, <1>4, <1>7, <1>8, ObsoletesContinue
<1>10. Pending' = {p}
  BY <1>4, <1>5, <1>6, <1>9 DEF Pending, Top
<1> QED
  BY <1>1, <1>7, <1>9, <1>10 DEF StepKeeps, L

LEMMA ReaddKeeps ==
    ASSUME ~oldpackage, Going, Readd
    PROVE  StepKeeps
<1>1. /\ stack # <<>> /\ Top.f = "obsoletes" /\ Top.readd # <<>> /\ TypeOK /\ Agreement
      /\ Right /\ Chained /\ Frame(Top, erase_list, request.autoerase)
      /\ Pending = {Top.readd[1]}
  BY GoingTop DEF Readd, Running, Going, Pending
<1>2. DOMAIN Top = Fields("obsoletes") /\ Top.readd[1] \in Available
  BY <1>1 DEF Frame, Holds
<1> DEFINE p == Top.readd[1]
           list == IF Top.pkglist = <<>> THEN Top.pkglist
                   ELSE FoldLeft(LAMBDA s, q : IF q \in Top.readd[2] THEN s ELSE Append(s, q),
                                 <<>>, Top.pkglist) \o <<p>>
           took == [Top EXCEPT !.res = TRUE, !.next = 1, !.readd = <<>>, !.pkglist = list]
           passed == [Top EXCEPT !.readd = <<>>]
<1>3. UpdatePkg(p) /\ (Continue(took) \/ Continue(passed))
  BY DEF Readd, Obsoleted
<1> HIDE DEF list
<1>4. /\ took.f = "obsoletes" /\ took.readd = <<>>
      /\ passed.f = "obsoletes" /\ passed.readd = <<>>
  BY <1>1, <1>2 DEF Fields
<1> HIDE DEF took, passed
<1>5. PICK frame : Continue(frame) /\ frame.f = "obsoletes" /\ frame.readd = <<>>
  BY <1>3, <1>4
<1> DEFINE K == Spare(Db, {p})
           L == Spare(Db', {})
<1>6. p \in Available /\ UpdatePkg(p)
  BY <1>2, <1>3
<1>7. Linked(stack, K, request.command)
  BY <1>1 DEF Chained
<1>8. Pending = {p}
  BY <1>1
<1> HIDE DEF p
<1>9. K \subseteq L /\ Living(Db, {p}) \subseteq Living(Db', {})
  <2>1. \/ /\ Changed(Db, {p}, Db', p, PkgUpdates(p), PkgObsoletes(p))
           /\ \A x \in Db : Name[x] = Name[p] => ~Refuses(p, x)
        \/ /\ UNCHANGED dbVars
           /\ \E x \in Db : Name[x] = Name[p] /\ Refuses(p, x)
    BY <1>1, <1>6, UpdateDoes
  <2>2. ASSUME UNCHANGED dbVars, NEW x \in Db, Name[x] = Name[p], Refuses(p, x)
        PROVE  K \subseteq L /\ Living(Db, {p}) \subseteq Living(Db', {})
    <3>1. Db' = Db
      BY <2>2 DEF dbVars, Db
    <3>2. /\ Living(Db, {p}) \subseteq Living(Db, {})
          /\ \A r : Outlived(r, Db, {p}) => Outlived(r, Db, {})
      <4>1. Db \in SUBSET Pkg
        BY <1>1, DbPkg
      <4> QED
        BY <2>2, <4>1, OutlivedRefused
    <3> QED
      BY <3>1, <3>2 DEF Spare
  <2> QED
    BY <1>1, <2>1, <2>2, SpareChanged
<1> HIDE DEF K, L
<1>10. Linked(stack', L, request.command) /\ stack' # <<>> /\ Head(stack') = frame
  BY <1>1, <1>5, <1>7, <1>9, ObsoletesContinue
<1>11. Pending' = {}
  BY <1>5, <1>10 DEF Pending, Top
<1> QED
  BY <1>8, <1>9, <1>10, <1>11 DEF StepKeeps, L

\* Whatever a step does, nothing of what there is goes without an heir.
LEMMA StepsKeep ==
    ASSUME ~oldpackage, ObsoletesEnd, Going, request \in Requests, obsoleteslist \in ObsoletesLists,
           YumStep
    PROVE  StepKeeps
BY NeverRuns, ReturnsKeep, ExtrasKeep, UpdateNameKeeps, UpdateArchKeeps, PickDepKeeps,
     StepDepKeeps, ConflictsKeep, MainKeeps, TryBestKeeps, UpdatedArchKeeps, TryObsoleteKeeps,
     EraseToReaddKeeps, ReaddKeeps DEF YumStep

-----------------------------------------------------------------------------
(* What there is and what was asked for when runArgs() has ended.          *)

Was == before.installs \union Replacing(before.updates) \union Replacing(before.obsoletes)

KeepInv == Staying => Chained /\ Installed \union Was \subseteq Living(Db, Pending)

LEMMA Alive == ASSUME NEW D \in SUBSET Pkg, NEW P PROVE D \subseteq Living(D, P)
BY DEF Living, Heirs

LEMMA KeepInit == CommandInit => KeepInv
<1> SUFFICES ASSUME CommandInit, Staying PROVE Chained /\ Installed \union Was \subseteq Living(Db, Pending)
  BY DEF KeepInv
<1> DEFINE listing == HandleObsoletes(<<>>)
           c == request.command
<1>1. Db = Installed /\ Was = {}
  <2>1. Was = {}
    BY DEF CommandInit, Was, Nothing, Replacing
  <2> QED
    BY <2>1, PkgAssumption DEF CommandInit, YumInit, Init, Db, Disk
<1>2. Installed \union Was \subseteq Living(Db, Pending)
  BY <1>1, Alive, PkgAssumption
<1>3. \/ stack = <<listing, Main("list", {})>>
      \/ c # "list" /\ \E at, todo : stack = <<Main(at, todo)>>
  BY DEF CommandInit, YumInit
<1>4. \A at, todo, K : Sure(Main(at, todo), K, c) <=> (c = "list" => at \in {"list", "names"})
  BY DEF Sure, Main
<1>5. listing.f = "obsoletes" /\ \A K : Sure(listing, K, c) /\ Waits(Main("list", {}), listing, K)
  BY DEF HandleObsoletes, Sure, Waits, Main
<1> HIDE DEF listing, c
<1>6. ASSUME NEW K PROVE Linked(stack, K, c)
  <2>1. CASE stack = <<listing, Main("list", {})>>
    <3>1. Len(stack) = 2 /\ stack[1] = listing /\ stack[2] = Main("list", {})
      BY <2>1
    <3>2. \A i \in 1 .. 2 : i = 1 \/ i = 2
      OBVIOUS
    <3>3. \A i \in 2 .. 2 : i = 2 /\ i - 1 = 1
      OBVIOUS
    <3> QED
      BY <1>4, <1>5, <3>1, <3>2, <3>3 DEF Linked
  <2>2. ASSUME c # "list", NEW at, NEW todo, stack = <<Main(at, todo)>> PROVE Linked(stack, K, c)
    <3>1. Len(stack) = 1 /\ stack[1] = Main(at, todo)
      BY <2>2
    <3>2. (\A i \in 1 .. 1 : i = 1) /\ (\A i \in 2 .. 1 : FALSE)
      OBVIOUS
    <3> QED
      BY <1>4, <2>2, <3>1, <3>2 DEF Linked
  <2> QED
    BY <1>3, <2>1, <2>2
<1> QED
  BY <1>2, <1>6 DEF Chained, c

\* A step of runArgs() and runDepRes().
LEMMA KeepSelect ==
    ASSUME ~oldpackage, ObsoletesEnd, YumInv, KeepInv, Select
    PROVE  KeepInv'
<1>1. YumStep /\ YumNext /\ UNCHANGED <<request, obsoleteslist>>
  BY DEF Select, YumNext
<1>2. YumInv'
  BY <1>1, YumInvStep
<1> SUFFICES ASSUME Staying
             PROVE  Chained' /\ Installed \union Was' \subseteq Living(Db', Pending')
  BY <1>1 DEF KeepInv, Staying
<1>3. StepKeeps
  <2>1. Going /\ request \in Requests /\ obsoleteslist \in ObsoletesLists
    BY DEF Going, KeepInv, Staying, YumInv, Operations, NothingTaken
  <2> QED
    BY <1>1, <2>1, StepsKeep
<1>4. Installed \union Was \subseteq Living(Db', Pending')
  BY <1>3 DEF KeepInv, StepKeeps
<1>5. Chained'
  BY <1>1, <1>3 DEF StepKeeps, Chained
<1>6. CASE UNCHANGED before
  BY <1>4, <1>5, <1>6 DEF Was
<1>7. CASE before' = GenerateTransactionState'
  <2>1. /\ before'.installs \subseteq installs'
        /\ before'.updates = updates' /\ before'.obsoletes = obsoletes'
    BY <1>7 DEF GenerateTransactionState
  <2>2. /\ Db' = System' /\ Db' \subseteq Pkg
        /\ \A p \in Pkg : (updates'[p] \union obsoletes'[p]) # {} => p \in System'
    <3>1. (TypeOK /\ KeptReplace /\ Agreement)'
      BY <1>1, <1>2 DEF YumInv, Operations, NothingTaken, Staying
    <3>2. Db' = System'
      BY <3>1 DEF Agreement, DatabaseMatchesOperations, System
    <3>3. Db' \subseteq Pkg
      BY <3>1, PkgAssumption DEF TypeOK, Db, Disk
    <3>4. \A p \in Pkg : (updates'[p] \union obsoletes'[p]) # {} => p \in System'
      BY <3>1 DEF KeptReplace, Owned
    <3> QED
      BY <3>2, <3>3, <3>4
  <2>3. Was' \subseteq Db'
    BY <2>1, <2>2 DEF Was, Replacing, System
  <2>4. Db' \subseteq Living(Db', Pending')
    BY <2>2, Alive
  <2> QED
    BY <1>4, <1>5, <2>3, <2>4
<1> QED
  BY <1>6, <1>7 DEF Select

LEMMA KeepStep ==
    ASSUME ~oldpackage, ObsoletesEnd, YumInv, KeepInv, [CommandNext]_cvars
    PROVE  KeepInv'
<1>1. CASE Select
  BY <1>1, KeepSelect
<1>2. CASE UNCHANGED <<yvars, before>>
  BY <1>2 DEF yvars, vars, KeepInv, Staying, Chained, Was, Pending, Top, Db, Disk
<1> QED
  BY <1>1, <1>2 DEF CommandNext, Show, IsThisOk, GetOperations, EndRun, RunOperation, cvars, commandVars

-----------------------------------------------------------------------------
(* A command that removes packages has nothing else to remember.           *)

Removing(s) ==
    \A i \in 1 .. Len(s) : s[i].f \in {"main", "remove"} /\ (s[i].f = "main" => s[i].at = "args")

RemoveInv ==
    request.command = "remove" =>
        /\ Was = {}
        /\ stage = "select" =>
              Removing(stack) /\ installs = {} /\ \A p \in Pkg : Owned(p) = {}

LEMMA RemoveInit == CommandInit => RemoveInv
<1> SUFFICES ASSUME CommandInit, request.command = "remove" PROVE RemoveInv
  BY DEF RemoveInv
<1>1. Was = {}
  BY DEF CommandInit, Was, Nothing, Replacing
<1>2. installs = {} /\ \A p \in Pkg : Owned(p) = {}
  BY DEF CommandInit, YumInit, Init, Owned
<1>3. stack = <<Main("args", request.args)>>
  BY DEF CommandInit, YumInit
<1>4. Len(stack) = 1 /\ stack[1].f = "main" /\ stack[1].at = "args"
  BY <1>3 DEF Main
<1>5. Removing(stack)
  BY <1>4 DEF Removing
<1> QED
  BY <1>1, <1>2, <1>5 DEF RemoveInv

LEMMA RemoveSelect ==
    ASSUME YumInv, RemoveInv, Select, request.command = "remove", stage = "select"
    PROVE  /\ SelectionEnds \/ Removing(stack')
           /\ installs' = {} /\ \A p \in Pkg : Owned(p)' = {}
<1>1. /\ YumStep /\ stack # <<>> /\ Right /\ TypeOK
      /\ Removing(stack) /\ installs = {} /\ \A p \in Pkg : Owned(p) = {}
  BY StepRuns DEF Select, YumNext, YumInv, Operations, RemoveInv
<1>2. /\ Top = stack[1] /\ IsSequence(stack) /\ Len(stack) \in Nat /\ Len(stack) >= 1
      /\ Frame(Top, erase_list, request.autoerase)
  BY <1>1, TopRight, OfSequence DEF Right, CallsRight
<1>3. Top.f \in {"main", "remove"} /\ (Top.f = "main" => Top.at = "args")
  BY <1>1, <1>2 DEF Removing
<1>4. RemovePkgs \/ RunArg \/ EndArgs
  <2>1. \/ TryBest \/ EndBest \/ UpdateLanguage \/ ObsoletesOf \/ UpdateName \/ EndUpdate
        \/ UpdateArch \/ UpdatedArch \/ EndArchs \/ TryObsolete \/ EraseToReadd \/ Readd
        \/ EndObsoletes \/ PickDep \/ EndDeps \/ StepDep \/ KeepExcluded \/ EraseAutomatically
        \/ TakeBackUpdated \/ TryConflict \/ EndConflicts \/ EraseConflict \/ EraseObsoleting
        => Top.f \notin {"main", "remove"}
    BY DEF TryBest, EndBest, UpdateLanguage, ObsoletesOf, UpdateName, EndUpdate, UpdateArch,
       UpdatedArch, EndArchs, TryObsolete, EraseToReadd, Readd, EndObsoletes, PickDep, EndDeps,
       StepDep, KeepExcluded, EraseAutomatically, TakeBackUpdated, TryConflict, EndConflicts,
       EraseConflict, EraseObsoleting, Running
  <2>2. UpdateAll \/ ListUpdates \/ ListUpdate \/ Selected \/ Turned \/ Finish
        => Top.f = "main" /\ Top.at # "args"
    BY DEF UpdateAll, ListUpdates, ListUpdate, Selected, Turned, Finish, Running
  <2>3. TurnStep => Top.f = "main" /\ Top.at # "args"
    <3>1. \A i \in 1 .. 4 : Phases[i] # "args"
      BY DEF Phases
    <3> QED
      BY <3>1 DEF TurnStep, Running
  <2> QED
    BY <1>1, <1>3, <2>1, <2>2, <2>3 DEF YumStep
<1>5. UNCHANGED opVars => installs' = {} /\ \A p \in Pkg : Owned(p)' = {}
  BY <1>1 DEF opVars, Owned
<1>6. CASE RunArg
  <2> DEFINE caller(n) == [Top EXCEPT !.todo = @ \ {n}]
             callee(n) == Removal({p \in Installed : Name[p] = n})
  <2>1. PICK n : Call(caller(n), callee(n))
    BY <1>6 DEF RunArg
  <2>2. /\ caller(n).f = "main" /\ caller(n).at = "args" /\ callee(n).f = "remove"
    BY <1>2, <1>3, <1>6 DEF RunArg, Running, Frame, Fields, Removal
  <2> HIDE DEF caller, callee
  <2>3. stack' = Called(stack, callee(n), caller(n))
    BY <2>1 DEF Call, Called
  <2>4. /\ Len(stack') = Len(stack) + 1 /\ stack'[1] = callee(n) /\ stack'[2] = caller(n)
        /\ \A i \in 3 .. Len(stack') : stack'[i] = stack[i - 1]
    BY <1>1, <1>2, <2>3, CallSequence
  <2>5. ASSUME NEW i \in 1 .. Len(stack')
        PROVE  stack'[i].f \in {"main", "remove"} /\ (stack'[i].f = "main" => stack'[i].at = "args")
    <3>1. i = 1 \/ i = 2 \/ (i \in 3 .. Len(stack') /\ i - 1 \in 1 .. Len(stack))
      BY <1>2, <2>4
    <3> QED
      BY <1>1, <2>2, <2>4, <3>1 DEF Removing
  <2>6. UNCHANGED opVars
    BY <1>6 DEF RunArg, Quiet, resolverVars
  <2> QED
    BY <1>5, <2>5, <2>6 DEF Removing
<1>7. CASE EndArgs
  <2>1. stack' = Continued(stack, Main("turn", {}))
    BY <1>7 DEF EndArgs, Continue, Continued
  <2>2. IsSequence(stack') /\ Len(stack') = Len(stack) /\ stack'[1] = Main("turn", {})
    BY <1>1, <1>2, <2>1, ContinueSequence
  <2>3. stack' # <<>>
    BY <1>2, <2>2
  <2>4. Head(stack') = Main("turn", {})
    BY <2>2, <2>3, OfSequence
  <2>5. SelectionEnds
    BY <2>3, <2>4 DEF SelectionEnds, Main
  <2>6. UNCHANGED opVars
    BY <1>7 DEF EndArgs, Quiet, resolverVars
  <2> QED
    BY <1>5, <2>5, <2>6
<1>8. CASE RemovePkgs
  <2>1. Top.f = "remove" /\ DOMAIN Top = Fields("remove")
    BY <1>2, <1>8 DEF RemovePkgs, Running, Frame
  <2>2. ASSUME NEW p, ErasePkg(p), Continue([Top EXCEPT !.todo = @ \ {p}])
        PROVE  Removing(stack') /\ installs' = {} /\ \A q \in Pkg : Owned(q)' = {}
    <3> DEFINE frame == [Top EXCEPT !.todo = @ \ {p}]
    <3>1. frame.f = "remove" /\ stack' = Continued(stack, frame)
      BY <2>1, <2>2 DEF Fields, Continue, Continued
    <3> HIDE DEF frame
    <3>2. Len(stack') = Len(stack) /\ stack'[1] = frame /\ \A i \in 2 .. Len(stack') : stack'[i] = stack[i]
      BY <1>1, <1>2, <3>1, ContinueSequence
    <3>3. Removing(stack')
      BY <1>1, <1>2, <3>1, <3>2 DEF Removing
    <3>4. installs' = {} /\ \A q \in Pkg : Owned(q)' = {}
      BY <1>1, <2>2 DEF ErasePkg, Refuse, Forget, Owned, opVars, TypeOK
    <3> QED
      BY <3>3, <3>4
  <2>3. CASE Reply(TRUE) /\ Quiet
    <3> DEFINE done == stack[2].got \/ TRUE
               frame == [stack[2] EXCEPT !.got = done]
    <3>1. Len(stack) # 1
      BY <1>1, <1>2, <2>1 DEF Right, CallsRight, Nested
    <3>2. Len(stack) >= 2
      <4> DEFINE n == Len(stack)
      <4>1. n \in Nat /\ n >= 1 /\ n # 1
        BY <1>2, <3>1
      <4> HIDE DEF n
      <4>2. n >= 2
        BY <4>1
      <4> QED
        BY <4>2 DEF n
    <3>3. stack[2].f \in {"main", "remove"} /\ DOMAIN stack[2] = Fields(stack[2].f)
          /\ (stack[2].f = "main" => stack[2].at = "args")
      BY <1>1, <1>2, <3>2 DEF Right, CallsRight, Frame, Removing
    <3>4. stack' = Returned(stack, frame)
      BY <2>3 DEF Reply, Returned
    <3> HIDE DEF done
    <3>5. frame.f = stack[2].f /\ (frame.f = "main" => frame.at = "args")
      BY <3>3 DEF Fields
    <3> HIDE DEF frame
    <3>6. /\ Len(stack') = Len(stack) - 1 /\ stack'[1] = frame
          /\ \A i \in 2 .. Len(stack') : stack'[i] = stack[i + 1]
      BY <1>2, <3>2, <3>4, ReplySequence
    <3>7. ASSUME NEW i \in 1 .. Len(stack')
          PROVE  stack'[i].f \in {"main", "remove"} /\ (stack'[i].f = "main" => stack'[i].at = "args")
      <4>1. i = 1 \/ (i \in 2 .. Len(stack') /\ i + 1 \in 1 .. Len(stack))
        BY <1>2, <3>6
      <4> QED
        BY <1>1, <3>3, <3>5, <3>6, <4>1 DEF Removing
    <3>8. UNCHANGED opVars
      BY <2>3 DEF Quiet, resolverVars
    <3> QED
      BY <1>5, <3>7, <3>8 DEF Removing
  <2> QED
    BY <1>8, <2>2, <2>3 DEF RemovePkgs
<1> QED
  BY <1>4, <1>6, <1>7, <1>8

LEMMA RemoveStep ==
    ASSUME YumInv, RemoveInv, [CommandNext]_cvars
    PROVE  RemoveInv'
<1>1. UNCHANGED request
  BY DEF CommandNext, Select, YumNext, Show, IsThisOk, GetOperations, EndRun, RunOperation, cvars, yvars
<1> SUFFICES ASSUME request.command = "remove"
             PROVE  /\ Was' = {}
                    /\ stage' = "select" =>
                          Removing(stack') /\ installs' = {} /\ \A p \in Pkg : Owned(p)' = {}
  BY <1>1 DEF RemoveInv
<1>2. Was = {}
  BY DEF RemoveInv
<1>3. CASE Select /\ stage = "select"
  <2>1. /\ SelectionEnds \/ Removing(stack')
        /\ installs' = {} /\ \A p \in Pkg : Owned(p)' = {}
    BY <1>3, RemoveSelect
  <2>2. CASE ~SelectionEnds
    <3>1. UNCHANGED before
      BY <1>3, <2>2 DEF Select
    <3> QED
      BY <1>2, <2>1, <2>2, <3>1 DEF Was
  <2>3. CASE SelectionEnds
    <3>1. before' = GenerateTransactionState' /\ stage' = "resolve"
      BY <1>3, <2>3 DEF Select
    <3>2. /\ before'.installs \subseteq installs'
          /\ before'.updates = updates' /\ before'.obsoletes = obsoletes'
      BY <3>1 DEF GenerateTransactionState
    <3>3. Was' = {}
      BY <2>1, <3>2 DEF Was, Replacing, Owned
    <3> QED
      BY <3>1, <3>3
  <2> QED
    BY <2>2, <2>3
<1>4. CASE Select /\ stage # "select"
  <2>1. UNCHANGED <<before, stage>>
    BY <1>4 DEF Select
  <2> QED
    BY <1>2, <1>4, <2>1 DEF Was
<1>5. CASE UNCHANGED <<yvars, before>> /\ (stage' = "select" => stage = "select")
  <2>1. UNCHANGED <<stack, installs, updates, obsoletes>>
    BY <1>5 DEF yvars, vars
  <2> QED
    BY <1>2, <1>5, <2>1 DEF Was, RemoveInv, Owned
<1>6. CASE Show \/ IsThisOk \/ GetOperations \/ EndRun \/ (\E o \in left : RunOperation(o)) \/ UNCHANGED cvars
  <2>1. UNCHANGED <<yvars, before>> /\ (stage' = "select" => stage = "select")
    BY <1>6 DEF Show, IsThisOk, GetOperations, EndRun, RunOperation, cvars, commandVars
  <2> QED
    BY <1>5, <2>1
<1> QED
  BY <1>3, <1>4, <1>6 DEF CommandNext

-----------------------------------------------------------------------------
(* What was asked for lasts.                                               *)

LEMMA SummaryKept ==
    ASSUME YumInv, KeepInv, RemoveInv, ~request.autoerase, result = "accepted",
           NEW p \in Summary["install"] \union Summary["update"] \union Summary["obsolete"]
    PROVE  Heirs(p) \intersect System # {}
<1> DEFINE now == GenerateTransactionState
<1>1. /\ TypeOK /\ KeptReplace /\ Db = System /\ Pending = {}
  BY DEF YumInv, Operations, NothingTaken, Agreement, DatabaseMatchesOperations, System, Pending
<1>2. /\ now.installs \subseteq installs
      /\ now.updates = updates /\ now.obsoletes = obsoletes
  BY DEF GenerateTransactionState
<1> HIDE DEF now
<1>3. /\ Summary["install"] = before.installs \union (now.installs \ before.installs)
      /\ Summary["update"] = Replacing(before.updates) \union AddedBy(now.updates, before.updates)
      /\ Summary["obsolete"] = Replacing(before.obsoletes) \union AddedBy(now.obsoletes, before.obsoletes)
  BY DEF Summary, Groups, now
<1>4. \/ p \in Was
      \/ p \in installs
      \/ p \in Pkg /\ Owned(p) # {}
  BY <1>2, <1>3 DEF Was, AddedBy, Owned
<1>5. CASE p \in Was
  <2>1. Staying
    BY <1>5 DEF Staying, RemoveInv
  <2> QED
    BY <1>1, <1>5, <2>1 DEF KeepInv, Living
<1>6. CASE p \in installs \/ (p \in Pkg /\ Owned(p) # {})
  <2>1. p \in System /\ p \in Pkg
    BY <1>1, <1>6 DEF KeptReplace, System, TypeOK
  <2> QED
    BY <2>1 DEF Heirs
<1> QED
  BY <1>4, <1>5, <1>6

KeptInv == Confirming => result = "accepted" /\ ShownIsKept

\* Without autoerase, and if no package is to be replaced by an older one, what is
\* installed and what was asked for outlast the resolution of dependencies: whatever
\* it updates, obsoletes and erases in whatever order, for a package that is gone
\* there is one in the system that takes its place.  With autoerase, what it has erased
\* stays out.
THEOREM RequestKeptHolds ==
    ASSUME ~oldpackage, ObsoletesEnd
    PROVE  CommandSpec => []RequestKept
<1> DEFINE Kept == KeepInv /\ RemoveInv /\ KeptInv
<1>1. CommandInit => Kept
  BY KeepInit, RemoveInit DEF CommandInit, KeptInv, Confirming
<1>2. YumInv /\ Kept /\ [CommandNext]_cvars => Kept'
  <2> SUFFICES ASSUME YumInv, Kept, [CommandNext]_cvars PROVE KeptInv'
    BY KeepStep, RemoveStep
  <2>1. CASE Select
    <3>1. YumStep /\ UNCHANGED shown /\ (stage' = stage \/ stage' = "resolve")
      BY <2>1 DEF Select, YumNext
    <3>2. result = "running"
      BY <3>1, StepRuns DEF YumInv
    <3>3. ~Confirming'
      BY <3>1, <3>2 DEF KeptInv, Confirming
    <3> QED
      BY <3>3 DEF KeptInv
  <2>2. CASE Show
    <3> SUFFICES ASSUME Confirming' PROVE result' = "accepted" /\ ShownIsKept'
      BY DEF KeptInv
    <3>1. result = "accepted" /\ shown' = Summary /\ UNCHANGED yvars
      BY <2>2 DEF Show, Confirming
    <3>2. UNCHANGED <<request, result>> /\ System' = System
      BY <3>1 DEF yvars, vars, yumVars, System
    <3> QED
      BY <3>1, <3>2, SummaryKept DEF ShownIsKept, Added
  <2>3. CASE UNCHANGED <<yvars, shown>> /\ (Confirming' => Confirming)
    <3>1. UNCHANGED <<request, result>> /\ System' = System
      BY <2>3 DEF yvars, vars, yumVars, System
    <3> QED
      BY <2>3, <3>1 DEF KeptInv, ShownIsKept, Added
  <2>4. CASE IsThisOk \/ GetOperations \/ EndRun \/ UNCHANGED cvars
             \/ \E o \in left : RunOperation(o)
    <3>1. UNCHANGED <<yvars, shown>> /\ (Confirming' => Confirming)
      BY <2>4 DEF IsThisOk, GetOperations, EndRun, RunOperation, cvars, commandVars, Confirming
    <3> QED
      BY <2>3, <3>1
  <2> QED
    BY <2>1, <2>2, <2>4 DEF CommandNext
<1>3. YumInv /\ Kept => RequestKept
  <2> SUFFICES ASSUME YumInv, Kept PROVE ErasedStays /\ NothingLost /\ ShownIsKept
    BY DEF RequestKept
  <2>1. ErasedStays
    BY DEF YumInv, Operations
  <2>2. NothingLost
    <3> SUFFICES ASSUME result = "accepted", Staying, NEW p \in Installed
                 PROVE  Heirs(p) \intersect Db # {}
      BY DEF NothingLost, Staying
    <3>1. Pending = {}
      BY DEF YumInv, Pending
    <3>2. p \in Living(Db, {})
      BY <3>1 DEF KeepInv
    <3> QED
      BY <3>2 DEF Living
  <2>3. ShownIsKept
    BY DEF KeptInv, ShownIsKept
  <2> QED
    BY <2>1, <2>2, <2>3
<1> QED
  BY <1>1, <1>2, <1>3, YumInvHolds, PTL DEF CommandSpec

=============================================================================
