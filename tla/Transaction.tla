---------------------------- MODULE Transaction -----------------------------
(***************************************************************************)
(* RpmController.runOperations (pyrpm/control.py) with the installation    *)
(* and erasure of a package (pyrpm/package.py) and runScript               *)
(* (pyrpm/functions.py): what a transaction does to the files on disk, to  *)
(* the RPM database and to the linker cache, file by file and script by    *)
(* script, with errors and crashes in between.                             *)
(*                                                                         *)
(* A content is a number: 0 for no file, those up to MaxEdits for the      *)
(* user's edits, others for what packages have.  Directories, %ghost files *)
(* and source packages are left out; so are scripts that change files.     *)
(***************************************************************************)
EXTENDS Integers, FiniteSets

CONSTANTS
    Pkg, File,       \* files are numbers, in the order of packages' payloads
    Name, Evr,       \* pkg["name"] and base architecture, rank of its EVR
    Files,           \* the files of a package
    Content,         \* Content[p][f]: what package p has for f
    Config,          \* files with RPMFILE_CONFIG
    NoReplace,       \* files with RPMFILE_NOREPLACE as well
    Yields,          \* <<p, q>>: p is for an architecture lower than that of q
    Pre,             \* packages with %pre and %preun scripts
    Post,            \* the program of %post and %postun: NoProg, "/sbin/ldconfig" or another
    Triggering,      \* packages that set off triggers of others
    Pretrans,        \* packages with %pretrans scripts
    Posttrans,       \* packages with %posttrans scripts
    MaxEdits,        \* bound: edits of the user
    Fails, Crashes   \* steps may fail; the process may die

None == 0
NoProg == "no program"
Ldconfig == "/sbin/ldconfig"

\* That Yields is transitive is how arch_compats and buildarchtranslate are.
ASSUME TransactionAssumption ==
    /\ Pkg # {} /\ IsFiniteSet(Pkg)
    /\ File \subseteq Nat
    /\ Files \in [Pkg -> SUBSET File]
    /\ Content \in [Pkg -> [File -> Int \ 0..MaxEdits]]
    /\ NoReplace \subseteq Config
    /\ Config \subseteq File
    /\ \A p, q, r \in Pkg : {<<p, q>>, <<q, r>>} \subseteq Yields => <<p, r>> \in Yields
    /\ {Pre, Triggering, Pretrans, Posttrans} \subseteq SUBSET Pkg
    /\ MaxEdits \in Nat
    /\ {Fails, Crashes} \subseteq BOOLEAN

VARIABLES
    db,                \* the packages in the RPM database
    fs, save, new,     \* each file, its .rpmsave and its .rpmnew: contents
    edits, lastEdit,   \* edits so far, the last one of each file
    stage,             \* where runOperations is
    installs, erases,  \* what is left of the operations
    replaced,          \* erasures that come right after the installation in progress
    op, cur, left,     \* the operation in progress, its package, the files left
    posttrans,         \* packages whose %posttrans is to be run at the end
    delayed,           \* rpmconfig.delayldconfig
    owed,              \* history: packages whose ldconfig was put off since it ran
    ran,               \* history: flips whenever a script is run
    result,            \* what runOperations will return
    wanted,            \* history: the packages there will be if all goes well
    failed,            \* history: some step failed
    touched,           \* history: packages whose erasure was begun, or that left a file to one
    moved              \* history: files moved to .rpmsave that have not been written again

diskVars == <<fs, save, new>>
editVars == <<edits, lastEdit>>
opVars == <<installs, erases, replaced, op, cur, wanted>>
ldVars == <<delayed, owed, ran>>
vars == <<db, fs, save, new, edits, lastEdit, stage, installs, erases, replaced, op, cur, left,
          posttrans, delayed, owed, ran, result, wanted, failed, touched, moved>>

Stages == {"idle", "fetch", "next", "triggerun", "pre", "files", "post", "trigger", "db", "end", "raised"}
Contents == {Content[p][f] : p \in Pkg, f \in File} \union 0..MaxEdits

TypeOK ==
    /\ db \subseteq Pkg
    /\ {fs, save, new} \subseteq [File -> Contents]
    /\ edits \in 0..MaxEdits
    /\ lastEdit \in [File -> 0..MaxEdits]
    /\ stage \in Stages
    /\ {installs, erases, replaced, posttrans, owed, wanted, touched} \subseteq SUBSET Pkg
    /\ op \in {"install", "erase"}
    /\ cur \in Pkg
    /\ {left, moved} \subseteq SUBSET File
    /\ {delayed, ran, failed} \subseteq BOOLEAN
    /\ result \in {0, 1}

AnyPkg == CHOOSE p \in Pkg : TRUE

Init ==
    /\ db = {}
    /\ fs = [f \in File |-> None] /\ save = fs /\ new = fs
    /\ edits = 0 /\ lastEdit = [f \in File |-> 0]
    /\ stage = "idle"
    /\ installs = {} /\ erases = {} /\ replaced = {}
    /\ op = "install" /\ cur = AnyPkg /\ left = {}
    /\ posttrans = {}
    /\ delayed = FALSE /\ owed = {} /\ ran = FALSE
    /\ result = 1 /\ wanted = {} /\ failed = FALSE /\ touched = {} /\ moved = {}

Goto(s) == stage' = s

\* Back at the caller: what is local to runOperations is forgotten.
Leave ==
    /\ Goto("idle")
    /\ installs' = {} /\ erases' = {} /\ replaced' = {} /\ wanted' = {}
    /\ op' = "install" /\ cur' = AnyPkg /\ left' = {} /\ posttrans' = {}

Owners(f) == {p \in db : f \in Files[p]}

-----------------------------------------------------------------------------
(* The user                                                                *)

\* A configuration file of some package is edited.
Edit(f) ==
    /\ stage = "idle"
    /\ edits < MaxEdits
    /\ f \in Config /\ Owners(f) # {} /\ fs[f] # None
    /\ edits' = edits + 1
    /\ fs' = [fs EXCEPT ![f] = edits + 1]
    /\ lastEdit' = [lastEdit EXCEPT ![f] = edits + 1]
    /\ UNCHANGED <<db, save, new, stage, opVars, left, posttrans, ldVars, result, failed, touched, moved>>

Updates(p) == {q \in db : Name[q] = Name[p]}

Mut_FileConflictNotConfig(p, q) ==
    \E f \in Files[p] \intersect Files[q] :
        Content[p][f] # Content[q][f] /\ {<<p, q>>, <<q, p>>} \intersect Yields = {}

\* Two packages have a file that differs, unless they are one package for two
\* architectures and the file has a colour, which configuration files have not.
FileConflict(p, q) ==
    \E f \in Files[p] \intersect Files[q] :
        /\ Content[p][f] # Content[q][f]
        /\ f \in Config \/ {<<p, q>>, <<q, p>>} \intersect Yields = {}

\* The operations the resolver lets through: packages of different names, none
\* older than one that is installed, without file conflicts (nofileconflicts is
\* not set).  Those they update leave the erases.
Start(I, E) ==
    /\ stage = "idle"
    /\ I \union E # {}
    /\ \A p, q \in I : Name[p] = Name[q] => p = q
    /\ \A p \in I : \A q \in Updates(p) : Evr[p] > Evr[q]
    /\ installs' = I /\ erases' = E \ UNION {Updates(p) : p \in I}
    /\ replaced' = {} /\ posttrans' = {} /\ result' = 1
    /\ wanted' = (db \ (E \union UNION {Updates(p) : p \in I})) \union I
    /\ \A p \in I : \A q \in wanted' \ {p} : ~FileConflict(p, q)
    /\ Goto("fetch")
    /\ UNCHANGED <<db, diskVars, editVars, op, cur, left, ldVars, failed, touched, moved>>

-----------------------------------------------------------------------------
(* runScript                                                               *)

\* Nobody has to be told of the libraries any more.
RanLdconfig == delayed' = FALSE /\ owed' = {}

\* A script is run; before it an ldconfig that was put off.
Run ==
    /\ ran' = ~ran
    /\ IF delayed THEN RanLdconfig ELSE UNCHANGED <<delayed, owed>>

\* One of the two cannot be started: an ldconfig that was put off is forgotten
\* even if it is the one.
RunFails ==
    /\ Fails
    /\ delayed' = FALSE
    /\ owed' \in {owed} \union (IF delayed THEN {{}} ELSE {})
    /\ failed' = TRUE
    /\ UNCHANGED ran

\* A bare ldconfig is only noted.
PutOff == delayed' = TRUE /\ owed' = owed \union {cur} /\ UNCHANGED ran

NoScript == UNCHANGED ldVars

\* %pre and %preun.  In package.erase() an error leaves `rusage` unset, and its
\* first use raises.
PreScript ==
    /\ stage = "pre"
    /\ \/ cur \notin Pre /\ NoScript /\ Goto("files") /\ UNCHANGED failed
       \/ cur \in Pre /\ Run /\ Goto("files") /\ UNCHANGED failed
       \/ cur \in Pre /\ RunFails /\ Goto(IF op = "install" THEN "files" ELSE "raised")
    /\ left' = Files[cur]
    /\ touched' = IF op = "erase" THEN touched \union {cur} ELSE touched
    /\ UNCHANGED <<db, diskVars, editVars, opVars, posttrans, result, moved>>

\* %post and %postun; the latter raises like %preun unless that has set it.
PostScript ==
    /\ stage = "post"
    /\ \/ /\ Post[cur] = NoProg
          /\ NoScript /\ Goto("trigger") /\ UNCHANGED failed
       \/ /\ Post[cur] = Ldconfig
          /\ PutOff /\ Goto("trigger") /\ UNCHANGED failed
       \/ /\ Post[cur] \notin {NoProg, Ldconfig}
          /\ Run /\ Goto("trigger") /\ UNCHANGED failed
       \/ /\ Post[cur] \notin {NoProg, Ldconfig}
          /\ RunFails
          /\ Goto(IF op = "install" \/ cur \in Pre THEN "trigger" ELSE "raised")
    /\ UNCHANGED <<db, diskVars, editVars, opVars, left, posttrans, result, touched, moved>>

\* __runTrigger: errors are logged only.
RunTriggers(next) ==
    /\ \/ cur \notin Triggering /\ NoScript /\ UNCHANGED failed
       \/ cur \in Triggering /\ Run /\ UNCHANGED failed
       \/ cur \in Triggering /\ RunFails
    /\ Goto(next)
    /\ UNCHANGED <<db, diskVars, editVars, opVars, left, posttrans, result, touched, moved>>

TriggerUn == stage = "triggerun" /\ RunTriggers("pre")

\* __runTriggerIn and __runTriggerPostUn
Trigger == stage = "trigger" /\ RunTriggers("db")

-----------------------------------------------------------------------------
(* The files of a package                                                  *)

Write(f) == fs' = [fs EXCEPT ![f] = Content[cur][f]] /\ UNCHANGED <<save, new>>
WriteNew(f) == new' = [new EXCEPT ![f] = Content[cur][f]] /\ UNCHANGED <<fs, save>>

\* __verifyFileInstall for a file with RPMFILE_CONFIG: the owners are looked at
\* in the order of the database, and the first that decides is followed.
Unedited(f) == {q \in Owners(f) : Content[q][f] = fs[f]}
Changed(f) == {q \in Owners(f) : Content[q][f] \notin {fs[f], Content[cur][f]}}
Differs(f) == fs[f] \notin {None, Content[cur][f]}

InstallConfig(f) ==
    \/ /\ ~Differs(f) \/ Owners(f) = {} \/ Unedited(f) # {}
       /\ Write(f)
    \/ /\ Differs(f) /\ Changed(f) # {} /\ f \in NoReplace
       /\ WriteNew(f)
    \/ /\ Differs(f) /\ Owners(f) # {} /\ Changed(f) = {} /\ Unedited(f) = {}
       /\ UNCHANGED diskVars

YieldsTo(f) == {q \in Owners(f) : <<cur, q>> \in Yields}

\* The file of a package for a higher architecture is left, or left missing.
InstallPlain(f) == IF YieldsTo(f) # {} THEN UNCHANGED diskVars ELSE Write(f)

\* package.__extract
Extracting(f) ==
    /\ stage = "files" /\ op = "install"
    /\ f \in left /\ \A g \in left : f =< g

Mut_SaveEditedOverwrites(f) ==
    /\ Extracting(f)
    /\ f \in Config \ NoReplace /\ Differs(f) /\ Changed(f) # {}
    /\ fs' = [fs EXCEPT ![f] = None]
    /\ moved' = moved \union {f}
    /\ UNCHANGED <<db, save, new, editVars, stage, opVars, left, posttrans, ldVars, result, failed, touched>>

\* An edited file is moved to .rpmsave, over one that is there; until InstallFile
\* goes on to write the new one the path is missing.
SaveEdited(f) ==
    /\ Extracting(f)
    /\ f \in Config \ NoReplace /\ Differs(f) /\ Changed(f) # {}
    /\ save' = [save EXCEPT ![f] = fs[f]]
    /\ fs' = [fs EXCEPT ![f] = None]
    /\ moved' = moved \union {f}
    /\ UNCHANGED <<db, new, editVars, stage, opVars, left, posttrans, ldVars, result, failed, touched>>

\* What is written is a temporary file, renamed at the end.
InstallFile(f) ==
    /\ Extracting(f)
    /\ left' = left \ {f}
    /\ IF f \in Config THEN InstallConfig(f) ELSE InstallPlain(f)
    /\ moved' = {g \in moved : fs'[g] = None}
    /\ touched' = IF f \notin Config /\ YieldsTo(f) \intersect touched # {}
                  THEN touched \union {cur} ELSE touched
    /\ UNCHANGED <<db, editVars, stage, opVars, posttrans, ldVars, result, failed>>

Mut_StillOwnedNever(f) == FALSE

\* db.numFileDuplicates(f) > 1: a package other than this one has the file.
StillOwned(f) == Cardinality(Owners(f)) > 1

\* A configuration file that was edited is renamed, not removed; one that is gone
\* is left alone.
VerifyFileErase(f) ==
    /\ fs' = [fs EXCEPT ![f] = None]
    /\ save' = IF fs[f] \in {None, Content[cur][f]} THEN save ELSE [save EXCEPT ![f] = fs[f]]

\* The loop of package.erase, from the last file to the first.  A rename or unlink
\* that fails is logged only.
EraseFile(f) ==
    /\ stage = "files" /\ op = "erase"
    /\ f \in left /\ \A g \in left : f >= g
    /\ left' = left \ {f}
    /\ \/ StillOwned(f) /\ UNCHANGED <<diskVars, failed>>
       \/ ~StillOwned(f) /\ f \in Config /\ VerifyFileErase(f) /\ UNCHANGED <<new, failed>>
       \/ /\ ~StillOwned(f) /\ f \notin Config
          /\ fs' = [fs EXCEPT ![f] = None] /\ UNCHANGED <<save, new, failed>>
       \/ ~StillOwned(f) /\ Fails /\ failed' = TRUE /\ UNCHANGED diskVars
    /\ UNCHANGED <<db, editVars, stage, opVars, posttrans, ldVars, result, touched, moved>>

FilesDone ==
    /\ stage = "files" /\ left = {}
    /\ Goto("post")
    /\ UNCHANGED <<db, diskVars, editVars, opVars, left, posttrans, ldVars, result, failed, touched, moved>>

-----------------------------------------------------------------------------
(* runOperations                                                           *)

\* Of a package to be installed only config.nevratags are there when its %pretrans
\* is looked for, so only those of packages to be erased are run.
PretransScripts ==
    IF Pretrans \intersect (erases \union UNION {Updates(p) : p \in installs}) = {}
    THEN NoScript /\ UNCHANGED failed
    ELSE (Run /\ UNCHANGED failed) \/ RunFails

\* The packages are downloaded and verified.  One that cannot be read ends the
\* call, a wrong signature raises; %pretrans scripts that came before are run.
Fetch ==
    /\ stage = "fetch"
    /\ \/ Goto("next") /\ PretransScripts /\ UNCHANGED <<opVars, left, posttrans, result>>
       \/ /\ Fails /\ installs # {} /\ failed' = TRUE
          /\ \/ Leave /\ result' = 0
             \/ Goto("raised") /\ UNCHANGED <<opVars, left, posttrans, result>>
          /\ UNCHANGED <<delayed, owed>> /\ ran' \in {ran, ~ran}
    /\ UNCHANGED <<db, diskVars, editVars, touched, moved>>

Break == Goto("end") /\ result' = 0 /\ failed' = TRUE

\* pkg["posttransprog"] is looked for before the header of a package to be
\* installed is read again: only those from the RPM database have it.
HasPosttrans(o, p) == o = "erase" /\ p \in Posttrans

Begin(o, p) ==
    /\ op' = o /\ cur' = p
    /\ posttrans' = IF HasPosttrans(o, p) THEN posttrans \union {p} ELSE posttrans
    /\ UNCHANGED <<db, diskVars, editVars, left, ldVars, wanted>>

\* The package is opened and read once more, which may fail.
NextInstall(p) ==
    /\ stage = "next" /\ replaced = {}
    /\ p \in installs
    /\ installs' = installs \ {p} /\ replaced' = Updates(p)
    /\ Begin("install", p)
    /\ \/ Goto("pre") /\ UNCHANGED <<result, failed>>
       \/ Fails /\ Break
    /\ touched' = touched \ {p}
    /\ UNCHANGED <<erases, moved>>

\* The erasures an update brings come right after it, the others at the end.
NextErase(p) ==
    /\ stage = "next"
    /\ p \in IF replaced # {} THEN replaced ELSE IF installs = {} THEN erases ELSE {}
    /\ replaced' = replaced \ {p} /\ erases' = erases \ {p}
    /\ Begin("erase", p)
    /\ Goto("triggerun")
    /\ UNCHANGED <<installs, result, failed, touched, moved>>

\* An IOError or ValueError on opening the package or on its files ends the
\* loop; erase() also raises OSError when an emptied directory cannot be removed.
FilesFail ==
    /\ Fails
    /\ stage \in {"pre", "files"}
    /\ \/ Break
       \/ stage = "files" /\ op = "erase" /\ left = {} /\ Goto("raised") /\ failed' = TRUE /\ UNCHANGED result
    /\ UNCHANGED <<db, diskVars, editVars, opVars, left, posttrans, ldVars, touched, moved>>

\* __addPkgToDB and __erasePkgFromDB
Recorded == IF op = "install" THEN db \union {cur} ELSE db \ {cur}

UpdateDB ==
    /\ stage = "db"
    /\ \/ /\ db' = Recorded
          /\ touched' = IF op = "erase" THEN touched \ {cur} ELSE touched
          /\ Goto("next") /\ UNCHANGED <<result, failed>>
       \/ Fails /\ Break /\ UNCHANGED <<db, touched>>
    /\ UNCHANGED <<diskVars, editVars, opVars, left, posttrans, ldVars, moved>>

LoopDone ==
    /\ stage = "next"
    /\ installs = {} /\ replaced = {} /\ erases = {}
    /\ Goto("end")
    /\ UNCHANGED <<db, diskVars, editVars, opVars, left, posttrans, ldVars, result, failed, touched, moved>>

\* %posttrans of what was noted for operations that were begun.
PosttransScript(p) ==
    /\ stage = "end"
    /\ p \in posttrans
    /\ posttrans' = posttrans \ {p}
    /\ \/ Run /\ UNCHANGED failed
       \/ RunFails
    /\ UNCHANGED <<db, diskVars, editVars, stage, opVars, left, result, touched, moved>>

Mut_ReturnNoLdconfig ==
    /\ stage = "end" /\ posttrans = {}
    /\ Leave
    /\ UNCHANGED <<db, diskVars, editVars, ldVars, result, failed, touched, moved>>

\* ldconfig is run if it was put off, and the database closed.
Return ==
    /\ stage = "end" /\ posttrans = {}
    /\ Leave
    /\ \/ delayed /\ RanLdconfig /\ UNCHANGED failed
       \/ ~delayed /\ UNCHANGED <<delayed, owed, failed>>
       \/ delayed /\ Fails /\ delayed' = FALSE /\ failed' = TRUE /\ UNCHANGED owed
    /\ UNCHANGED <<db, diskVars, editVars, ran, result, touched, moved>>

\* The process dies, or an exception has ended it, and another one begins.
Crash ==
    /\ stage = "raised" \/ (Crashes /\ stage # "idle")
    /\ Leave
    /\ delayed' = FALSE /\ owed' = {} /\ failed' = TRUE
    /\ UNCHANGED <<db, diskVars, editVars, ran, result, touched, moved>>

Next ==
    \/ \E f \in File : Edit(f) \/ SaveEdited(f) \/ InstallFile(f) \/ EraseFile(f)
    \/ \E I \in SUBSET (Pkg \ db), E \in SUBSET db : Start(I, E)
    \/ Fetch
    \/ \E p \in Pkg : NextInstall(p) \/ NextErase(p) \/ PosttransScript(p)
    \/ PreScript
    \/ FilesDone
    \/ FilesFail
    \/ PostScript
    \/ TriggerUn
    \/ Trigger
    \/ UpdateDB
    \/ LoopDone
    \/ Return
    \/ Crash

Spec == Init /\ [][Next]_vars

-----------------------------------------------------------------------------
(* What a transaction promises.                                            *)

\* verify(): a file is missing or not what package p has, unless another package
\* is for a higher architecture.
VerifyFails(p, f) ==
    /\ \A q \in Owners(f) : <<p, q>> \notin Yields
    /\ fs[f] # Content[p][f]

\* The file in hand has been moved to .rpmsave, and InstallFile comes next.
BeingReplaced(f) == stage = "files" /\ op = "install" /\ f \in left

\* A package in the database has all its files on disk, in the middle of
\* transactions, after failed ones and after crashes.  The one that may be missing
\* is an edited configuration file that was moved to .rpmsave (and is there) for a
\* new one that has not been written: it is the next to be, unless the installation
\* failed or the process died right there.  Excepted are packages whose own erasure
\* was begun, and those that left a file to such a package.
RecordedFilesPresent ==
    \A p \in db \ touched : \A f \in Files[p] :
        fs[f] = None => f \in Config /\ f \in moved /\ save[f] # None /\ (failed \/ BeingReplaced(f))

\* Between transactions, if nothing ever failed, verify() finds the files of every
\* package as they should be, but for what the user has edited and for files of a
\* package for a higher architecture, which stay when that package goes; and a
\* file that nobody owns is gone.
DiskMatchesDatabase ==
    stage = "idle" /\ ~failed =>
        \A f \in File :
            /\ Owners(f) = {} => fs[f] = None
            /\ \A p \in Owners(f) :
                VerifyFails(p, f) =>
                    \/ fs[f] # None /\ fs[f] = lastEdit[f]
                    \/ \E q \in Pkg : <<p, q>> \in Yields /\ fs[f] = Content[q][f]

\* The last edit of a configuration file is not lost whatever is installed,
\* updated and erased: it is in place or in the .rpmsave.  (After a transaction
\* that was cut short it may be: the second file saved replaces the first.)
LastEditKept == ~failed => \A f \in File : lastEdit[f] # None => lastEdit[f] \in {fs[f], save[f]}

\* Every script finds the linker cache up to date for what was installed before
\* it, and so does whoever comes after the transaction.
LibrariesKnown == [][(ran' # ran \/ stage' = "idle") /\ ~failed' => owed' = {}]_vars

\* runOperations returns 1 only when every operation it was given is done and
\* recorded in the database, also the erasures that updates brought.
OneMeansDone == [][stage = "end" /\ stage' = "idle" /\ result = 1 => db = wanted]_vars

\* Nothing is left to do behind the back of the scripts and of the caller.
NothingOwed == LibrariesKnown /\ OneMeansDone

=============================================================================
