------------------------- MODULE TransactionProofs --------------------------
(***************************************************************************)
(* What a transaction promises, for any packages, files and scripts and    *)
(* wherever a step fails or the process dies: the properties of            *)
(* Transaction and the inductive invariant they rest on.                   *)
(*                                                                         *)
(* The invariant is about a transaction half way: packages stay or leave,  *)
(* and one that leaves may see its file replaced by one that stays.  That  *)
(* the edits of the user survive it needs the resolver's check for file    *)
(* conflicts: the first of two saves would be lost.  Between the move of   *)
(* an edited file to .rpmsave and the writing of the new one the path is   *)
(* missing: what is said of its content holds but for that file.           *)
(***************************************************************************)
EXTENDS Transaction, FiniteSetTheorems, TLAPS

Busy == {"triggerun", "pre", "files", "post", "trigger", "db"}

\* The files of the package have been looked at, but for those left.
Filing == {"files", "post", "trigger", "db"}

Installing == stage \in Busy /\ op = "install"
Erasing == stage \in Busy /\ op = "erase"

Bookkeeping ==
    /\ erases \subseteq db /\ replaced \subseteq db
    /\ installs \intersect db = {}
    /\ Erasing => cur \in db /\ cur \notin erases \union replaced
    /\ Installing => cur \notin db \union installs
    /\ stage = "idle" => installs = {} /\ erases = {} /\ replaced = {} /\ wanted = {}
    /\ stage = "files" => left \subseteq Files[cur]
    /\ stage \in Filing \ {"files"} => left = {}

Coming == {p \in Pkg : p \in installs \/ (Installing /\ p = cur)}
Going == {p \in db :
    \/ p \in erases \union replaced
    \/ \E q \in installs : Name[p] = Name[q]
    \/ Erasing /\ p = cur}

\* What is wanted is what the operations left make of the database.
Pending ==
    /\ \A p, q \in Coming : Name[p] = Name[q] => p = q
    /\ stage \in Busy \union {"fetch", "next"} /\ result = 1 => wanted = (db \ Going) \union Coming
    /\ stage = "end" /\ result = 1 => db = wanted
    /\ ~failed => result = 1 /\ stage # "raised"

LibrariesPending ==
    /\ ~failed /\ ~delayed => owed = {}
    /\ ~failed /\ stage = "idle" => ~delayed

\* The packages that have the file on disk.
Holders(f) ==
    {p \in Pkg :
        /\ f \in Files[p]
        /\ p \in db \/ (op = "install" /\ stage \in Filing /\ p = cur /\ f \notin left)}

\* Its files up to f are gone, or left to others.
Passed(p, f) == op = "erase" /\ stage \in Filing /\ p = cur /\ f \in Files[cur] \ left

\* RecordedFilesPresent with what it needs of the package in progress.
FilesPresent ==
    /\ RecordedFilesPresent
    /\ op = "erase" /\ stage \in Filing => cur \in touched
    /\ \A f \in File : cur \in Holders(f) \ (Owners(f) \union touched) => fs[f] # None
    /\ \A f \in File : ~failed /\ Passed(cur, f) /\ Owners(f) = {cur} => fs[f] = None

Staying == IF stage = "idle" THEN db ELSE wanted

NoConflicts(S) == \A p, q \in S : p # q => ~FileConflict(p, q)

Compatible == ~failed => NoConflicts(Staying) /\ NoConflicts(db \ wanted)

Edited(f) == lastEdit[f] # None /\ fs[f] = lastEdit[f]

NobodysFilesGone == ~failed => \A f \in File : Holders(f) = {} => fs[f] = None

\* In .rpmsave already, and not yet written.
Displaced(f) == fs[f] = None /\ BeingReplaced(f)

\* A configuration file is that of every package that stays, and of one that
\* leaves unless it has been replaced, or is what the user made of it, or has just
\* been moved away.
ConfigRight ==
    ~failed =>
        \A f \in Config : \A p \in Holders(f) :
            \/ Edited(f) \/ Displaced(f)
            \/ fs[f] = Content[p][f]
            \/ /\ p \notin Staying
               /\ Passed(p, f) \/ \E r \in Holders(f) \intersect Staying : fs[f] = Content[r][f]

EditsKept ==
    /\ LastEditKept
    /\ \A f \in File : lastEdit[f] # None => f \in Config

\* What a package may find in place of its file: that of a higher architecture.
Fits(p, f) == \E q \in Pkg : (q = p \/ <<p, q>> \in Yields) /\ fs[f] = Content[q][f]

\* A package that leaves finds its file replaced only by one that stays and does
\* not yield to it.
Replaced(p, f) ==
    /\ p \notin Staying
    /\ \E r \in Holders(f) \intersect Staying : fs[f] = Content[r][f] /\ <<r, p>> \notin Yields

PlainRight ==
    ~failed =>
        \A f \in File \ Config : \A p \in Holders(f) :
            Fits(p, f) \/ Replaced(p, f) \/ (p \notin Staying /\ Passed(p, f))

TxInv ==
    /\ TypeOK
    /\ Bookkeeping
    /\ Pending
    /\ LibrariesPending
    /\ FilesPresent
    /\ Compatible
    /\ NobodysFilesGone
    /\ ConfigRight
    /\ EditsKept
    /\ PlainRight

-----------------------------------------------------------------------------
(* Types and bookkeeping                                                   *)

\* No package has what is an edit of the user, or nothing, for a file.
LEMMA ContentIsNoEdit ==
    /\ 0..MaxEdits \subseteq Contents
    /\ None \in 0..MaxEdits
    /\ \A p \in Pkg, f \in File :
        /\ Content[p][f] \in Contents
        /\ Content[p][f] # None
        /\ \A e \in 0..MaxEdits : Content[p][f] # e
<1>1. None \in 0..MaxEdits
  BY TransactionAssumption DEF None
<1>2. \A p \in Pkg, f \in File : Content[p][f] \in Int \ 0..MaxEdits /\ Content[p][f] \in Contents
  BY TransactionAssumption DEF Contents
<1> QED
  BY <1>1, <1>2 DEF Contents

LEMMA SomePkg == AnyPkg \in Pkg
BY TransactionAssumption DEF AnyPkg

LEMMA TypeInit == Init => TypeOK
<1> SUFFICES ASSUME Init PROVE TypeOK
  OBVIOUS
<1>1. [f \in File |-> None] \in [File -> Contents] /\ [f \in File |-> 0] \in [File -> 0..MaxEdits]
  BY ContentIsNoEdit DEF None
<1>2. {fs, save, new} \subseteq [File -> Contents] /\ lastEdit \in [File -> 0..MaxEdits] /\ moved \subseteq File
  BY <1>1 DEF Init
<1>3. {delayed, ran, failed} \subseteq BOOLEAN
  BY DEF Init
<1>4. {installs, erases, replaced, posttrans, owed, wanted, touched} \subseteq SUBSET Pkg
  BY DEF Init
<1>5. /\ db \subseteq Pkg /\ edits \in 0..MaxEdits /\ stage \in Stages
      /\ op \in {"install", "erase"} /\ cur \in Pkg /\ left \subseteq File /\ result \in {0, 1}
  BY SomePkg, TransactionAssumption DEF Init, Stages
<1> QED
  BY <1>2, <1>3, <1>4, <1>5 DEF TypeOK

\* A step that leaves the disk alone has nothing to do with the types of the files.
LEMMA TypeStep == TypeOK /\ [Next]_vars => TypeOK'
<1> SUFFICES ASSUME TypeOK, [Next]_vars PROVE TypeOK'
  OBVIOUS
<1> USE ContentIsNoEdit, SomePkg DEF TypeOK, Stages, Goto
<1>1. ASSUME NEW f \in File, Edit(f) PROVE TypeOK'
  BY <1>1, TransactionAssumption DEF Edit, opVars, ldVars
<1>2. ASSUME NEW f \in File, InstallFile(f) PROVE TypeOK'
  BY <1>2 DEF InstallFile, Extracting, InstallConfig, InstallPlain, Write, WriteNew,
     diskVars, editVars, opVars, ldVars
<1>2a. ASSUME NEW f \in File, SaveEdited(f) PROVE TypeOK'
  BY <1>2a DEF SaveEdited, Extracting, editVars, opVars, ldVars
<1>3. ASSUME NEW f \in File, EraseFile(f) PROVE TypeOK'
  <2>1. /\ UNCHANGED <<db, new, editVars, stage, opVars, posttrans, ldVars, result, touched, moved>>
        /\ left' \subseteq File /\ failed' \in BOOLEAN
    BY <1>3 DEF EraseFile, diskVars
  <2>2. {fs', save'} \subseteq [File -> Contents]
    BY <1>3 DEF EraseFile, VerifyFileErase, diskVars
  <2> QED
    BY <2>1, <2>2 DEF editVars, opVars, ldVars
<1>4. ASSUME NEW I \in SUBSET (Pkg \ db), NEW E \in SUBSET db, Start(I, E) PROVE TypeOK'
  BY <1>4 DEF Start, Updates, diskVars, editVars, ldVars
<1>5. CASE Fetch
  <2>1. UNCHANGED <<db, diskVars, editVars, touched, moved>>
    BY <1>5 DEF Fetch
  <2>2. {delayed', ran', failed'} \subseteq BOOLEAN /\ owed' \subseteq Pkg
    BY <1>5 DEF Fetch, PretransScripts, Run, RunFails, RanLdconfig, NoScript, ldVars
  <2>3. stage' \in Stages /\ result' \in {0, 1}
    BY <1>5 DEF Fetch, Leave
  <2>4. UNCHANGED <<opVars, left, posttrans>> \/ Leave
    BY <1>5 DEF Fetch
  <2> QED
    BY <2>1, <2>2, <2>3, <2>4 DEF Leave, diskVars, editVars, opVars
<1>6. ASSUME NEW p \in Pkg, NextInstall(p) PROVE TypeOK'
  BY <1>6 DEF NextInstall, Begin, Break, HasPosttrans, Updates, diskVars, editVars, ldVars
<1>7. ASSUME NEW p \in Pkg, NextErase(p) PROVE TypeOK'
  BY <1>7 DEF NextErase, Begin, HasPosttrans, diskVars, editVars, ldVars
<1>8. ASSUME NEW p \in Pkg, PosttransScript(p) PROVE TypeOK'
  BY <1>8 DEF PosttransScript, Run, RunFails, RanLdconfig, diskVars, editVars, opVars
<1>9. CASE PreScript
  <2>1. UNCHANGED <<db, diskVars, editVars, opVars, posttrans, result, moved>> /\ stage' \in Stages
    BY <1>9 DEF PreScript
  <2>2. left' \subseteq File /\ touched' \subseteq Pkg
    BY <1>9, TransactionAssumption DEF PreScript
  <2>3. {delayed', ran', failed'} \subseteq BOOLEAN /\ owed' \subseteq Pkg
    BY <1>9 DEF PreScript, Run, RunFails, RanLdconfig, NoScript, ldVars
  <2> QED
    BY <2>1, <2>2, <2>3 DEF diskVars, editVars, opVars
<1>10. CASE FilesDone
  BY <1>10 DEF FilesDone, diskVars, editVars, opVars, ldVars
<1>11. CASE FilesFail
  BY <1>11 DEF FilesFail, Break, diskVars, editVars, opVars, ldVars
<1>12. CASE PostScript
  <2>1. UNCHANGED <<db, diskVars, editVars, opVars, left, posttrans, result, touched, moved>> /\ stage' \in Stages
    BY <1>12 DEF PostScript
  <2>2. {delayed', ran', failed'} \subseteq BOOLEAN /\ owed' \subseteq Pkg
    BY <1>12 DEF PostScript, Run, RunFails, RanLdconfig, NoScript, PutOff, ldVars
  <2> QED
    BY <2>1, <2>2 DEF diskVars, editVars, opVars
<1>13. CASE TriggerUn \/ Trigger
  BY <1>13 DEF TriggerUn, Trigger, RunTriggers, Run, RunFails, RanLdconfig, NoScript,
     diskVars, editVars, opVars, ldVars
<1>14. CASE UpdateDB
  BY <1>14 DEF UpdateDB, Recorded, Break, diskVars, editVars, opVars, ldVars
<1>15. CASE LoopDone
  BY <1>15 DEF LoopDone, diskVars, editVars, opVars, ldVars
<1>16. CASE Return
  BY <1>16 DEF Return, Leave, RanLdconfig, diskVars, editVars
<1>17. CASE Crash
  BY <1>17 DEF Crash, Leave, diskVars, editVars
<1>18. CASE UNCHANGED vars
  BY <1>18 DEF vars
<1> QED
  BY <1>1, <1>2, <1>2a, <1>3, <1>4, <1>5, <1>6, <1>7, <1>8, <1>9, <1>10, <1>11, <1>12, <1>13, <1>14,
     <1>15, <1>16, <1>17, <1>18 DEF Next

-----------------------------------------------------------------------------
(* The operations that are left                                            *)

LEMMA BookkeepingStep == TypeOK /\ Bookkeeping /\ [Next]_vars => Bookkeeping'
<1> SUFFICES ASSUME TypeOK, Bookkeeping, [Next]_vars PROVE Bookkeeping'
  OBVIOUS
<1> USE DEF Bookkeeping, Busy, Filing, Installing, Erasing, Goto
<1>1. ASSUME NEW f \in File, Edit(f) PROVE Bookkeeping'
  BY <1>1 DEF Edit, opVars, ldVars
<1>2. ASSUME NEW f \in File, InstallFile(f) PROVE Bookkeeping'
  BY <1>2 DEF InstallFile, Extracting, editVars, opVars, ldVars
<1>2a. ASSUME NEW f \in File, SaveEdited(f) PROVE Bookkeeping'
  BY <1>2a DEF SaveEdited, Extracting, editVars, opVars, ldVars
<1>3. ASSUME NEW f \in File, EraseFile(f) PROVE Bookkeeping'
  BY <1>3 DEF EraseFile, editVars, opVars, ldVars
<1>4. ASSUME NEW I \in SUBSET (Pkg \ db), NEW E \in SUBSET db, Start(I, E) PROVE Bookkeeping'
  BY <1>4 DEF Start, diskVars, editVars, ldVars
<1>5. CASE Fetch
  BY <1>5 DEF Fetch, Leave, diskVars, editVars, opVars, ldVars
<1>6. ASSUME NEW p \in Pkg, NextInstall(p) PROVE Bookkeeping'
  BY <1>6 DEF NextInstall, Begin, Break, diskVars, editVars, ldVars, Updates, TypeOK
<1>7. ASSUME NEW p \in Pkg, NextErase(p) PROVE Bookkeeping'
  BY <1>7 DEF NextErase, Begin, diskVars, editVars, ldVars, TypeOK
<1>8. ASSUME NEW p \in Pkg, PosttransScript(p) PROVE Bookkeeping'
  BY <1>8 DEF PosttransScript, diskVars, editVars, opVars
<1>9. CASE PreScript
  BY <1>9 DEF PreScript, diskVars, editVars, opVars
<1>10. CASE FilesDone
  BY <1>10 DEF FilesDone, diskVars, editVars, opVars, ldVars
<1>11. CASE FilesFail
  BY <1>11 DEF FilesFail, Break, diskVars, editVars, opVars, ldVars
<1>12. CASE PostScript
  BY <1>12 DEF PostScript, diskVars, editVars, opVars
<1>13. CASE TriggerUn \/ Trigger
  BY <1>13 DEF TriggerUn, Trigger, RunTriggers, diskVars, editVars, opVars
<1>14. CASE UpdateDB
  <2>1. CASE db' = db
    BY <1>14, <2>1 DEF UpdateDB, Break, opVars
  <2>2. CASE op = "install"
    BY <1>14, <2>2 DEF UpdateDB, Recorded, Break, opVars
  <2>3. CASE op # "install"
    BY <1>14, <2>3 DEF UpdateDB, Recorded, Break, opVars, TypeOK
  <2> QED
    BY <2>2, <2>3
<1>15. CASE LoopDone
  BY <1>15 DEF LoopDone, diskVars, editVars, opVars, ldVars
<1>16. CASE Return
  BY <1>16 DEF Return, Leave, diskVars, editVars
<1>17. CASE Crash
  BY <1>17 DEF Crash, Leave, diskVars, editVars
<1>18. CASE UNCHANGED vars
  BY <1>18 DEF vars
<1> QED
  BY <1>1, <1>2, <1>2a, <1>3, <1>4, <1>5, <1>6, <1>7, <1>8, <1>9, <1>10, <1>11, <1>12, <1>13, <1>14,
     <1>15, <1>16, <1>17, <1>18 DEF Next

\* The steps that begin no operation and end none.
Within ==
    \/ \E f \in File : Edit(f) \/ SaveEdited(f) \/ InstallFile(f) \/ EraseFile(f)
    \/ \E p \in Pkg : PosttransScript(p)
    \/ PreScript \/ FilesDone \/ PostScript \/ TriggerUn \/ Trigger
    \/ UNCHANGED vars

LEMMA WithinKeeps ==
    ASSUME TypeOK, Within
    PROVE  /\ UNCHANGED <<db, installs, erases, replaced, op, cur, wanted, result>>
           /\ failed => failed'
           /\ \/ stage' = stage
              \/ {stage, stage'} \subseteq Busy
              \/ stage' = "raised" /\ failed'
<1> USE DEF Goto, Busy
<1>1. ASSUME NEW f \in File, Edit(f) \/ SaveEdited(f) \/ InstallFile(f) \/ EraseFile(f)
      PROVE  /\ UNCHANGED <<db, installs, erases, replaced, op, cur, wanted, result, stage>>
             /\ failed => failed'
  BY <1>1 DEF Edit, SaveEdited, InstallFile, EraseFile, opVars
<1>2. ASSUME NEW p \in Pkg, PosttransScript(p)
      PROVE  UNCHANGED <<db, installs, erases, replaced, op, cur, wanted, result, stage>> /\ (failed => failed')
  BY <1>2 DEF PosttransScript, RunFails, opVars
<1>3. CASE PreScript
  BY <1>3 DEF PreScript, RunFails, opVars
<1>4. CASE FilesDone
  BY <1>4 DEF FilesDone, opVars
<1>5. CASE PostScript
  BY <1>5 DEF PostScript, RunFails, opVars
<1>6. CASE TriggerUn \/ Trigger
  BY <1>6 DEF TriggerUn, Trigger, RunTriggers, RunFails, opVars
<1>7. CASE UNCHANGED vars
  BY <1>7 DEF vars
<1> QED
  BY <1>1, <1>2, <1>3, <1>4, <1>5, <1>6, <1>7 DEF Within

LEMMA PendingStep == TypeOK /\ Bookkeeping /\ Pending /\ [Next]_vars => Pending'
<1> SUFFICES ASSUME TypeOK, Bookkeeping, Pending, [Next]_vars PROVE Pending'
  OBVIOUS
<1> USE DEF Goto
<1>1. CASE Within
  <2>1. /\ UNCHANGED <<db, installs, erases, replaced, op, cur, wanted, result>>
        /\ failed => failed'
        /\ stage' = stage \/ {stage, stage'} \subseteq Busy \/ (stage' = "raised" /\ failed')
    BY <1>1, WithinKeeps
  <2>2. Coming' \subseteq Coming /\ (stage' # "raised" => Coming' = Coming)
    BY <2>1 DEF Coming, Installing, Busy
  <2>3. stage' # "raised" => Going' = Going
    BY <2>1 DEF Going, Erasing, Busy
  <2> QED
    BY <2>1, <2>2, <2>3 DEF Pending, Busy
<1>2. ASSUME NEW I \in SUBSET (Pkg \ db), NEW E \in SUBSET db, Start(I, E) PROVE Pending'
  <2>1. Coming' = I
    <3>1. installs' = I /\ ~Installing' /\ I \subseteq Pkg
      BY <1>2 DEF Start, Installing, Busy
    <3> QED
      BY <3>1 DEF Coming
  <2>2. Going' = E \union UNION {Updates(p) : p \in I}
    BY <1>2 DEF Start, Going, Erasing, Busy, Updates
  <2> QED
    BY <1>2, <2>1, <2>2 DEF Start, Pending, Busy
<1>3. CASE Fetch
  <2>1. CASE stage' = "next"
    <3>1. /\ stage = "fetch" /\ UNCHANGED <<db, opVars, result>>
          /\ failed => failed'
      BY <1>3, <2>1 DEF Fetch, Leave, PretransScripts, RunFails
    <3>2. Coming' = Coming /\ Going' = Going
      BY <2>1, <3>1 DEF Coming, Going, Installing, Erasing, Busy, opVars
    <3> QED
      BY <2>1, <3>1, <3>2 DEF Pending, Busy, opVars
  <2>2. CASE stage' # "next"
    <3>1. failed' /\ stage' \in {"idle", "raised"} /\ Coming' \subseteq Coming
      BY <1>3, <2>2 DEF Fetch, Leave, Coming, Installing, Busy, opVars
    <3> QED
      BY <3>1 DEF Pending, Busy
  <2> QED
    BY <2>1, <2>2
<1>4. ASSUME NEW p \in Pkg, NextInstall(p) PROVE Pending'
  <2>1. Coming' \subseteq Coming /\ (stage' = "pre" => Coming' = Coming)
    <3>1. /\ installs' = installs \ {p} /\ p \in installs /\ cur' = p
          /\ ~Installing /\ (stage' = "pre" => Installing')
      BY <1>4 DEF NextInstall, Begin, Break, Installing, Busy
    <3> QED
      BY <3>1 DEF Coming
  <2>2. Going' = Going
    BY <1>4 DEF NextInstall, Begin, Break, Going, Erasing, Busy, Updates
  <2> QED
    BY <1>4, <2>1, <2>2 DEF NextInstall, Begin, Break, Pending, Busy
<1>5. ASSUME NEW p \in Pkg, NextErase(p) PROVE Pending'
  <2>1. Coming' = Coming
    <3>1. installs' = installs /\ ~Installing /\ ~Installing'
      BY <1>5 DEF NextErase, Begin, Installing, Busy
    <3> QED
      BY <3>1 DEF Coming
  <2>2. Going' = Going
    BY <1>5 DEF NextErase, Begin, Going, Erasing, Busy, Bookkeeping
  <2> QED
    BY <1>5, <2>1, <2>2 DEF NextErase, Begin, Pending, Busy
<1>6. CASE FilesFail
  <2>1. failed' /\ stage' \in {"end", "raised"} /\ (stage' = "end" => result' = 0) /\ Coming' \subseteq Coming
    BY <1>6 DEF FilesFail, Break, Coming, Installing, Busy, opVars
  <2> QED
    BY <2>1 DEF Pending, Busy
<1>7. CASE UpdateDB
  <2>1. CASE stage' = "next"
    <3>1. Coming' \subseteq Coming
      BY <1>7, <2>1 DEF UpdateDB, Break, Coming, Installing, Busy, opVars
    <3>2. (db \ Going) \union Coming = (db' \ Going') \union Coming'
      <4>1. /\ UNCHANGED <<installs, erases, replaced, cur>> /\ ~Installing' /\ ~Erasing'
            /\ db' = Recorded /\ cur \in Pkg /\ db \subseteq Pkg /\ op \in {"install", "erase"}
        BY <1>7, <2>1 DEF UpdateDB, Break, Installing, Erasing, Busy, opVars, TypeOK
      <4>2. /\ op = "install" => Installing /\ ~Erasing /\ cur \notin db
            /\ op = "erase" => Erasing /\ ~Installing /\ cur \in db
            /\ erases \union replaced \subseteq db /\ installs \intersect db = {}
        BY <1>7 DEF UpdateDB, Bookkeeping, Installing, Erasing, Busy
      <4>3. op = "install" => \A q \in installs : q # cur => Name[q] # Name[cur]
        BY <4>1, <4>2 DEF Coming, Pending, TypeOK
      <4>4. CASE op = "install"
        <5>1. cur \notin installs
          BY <1>7, <4>4 DEF UpdateDB, Bookkeeping, Installing, Busy
        <5>2. cur \in Coming /\ Coming = Coming' \union {cur}
          BY <4>1, <4>2, <4>4 DEF Coming
        <5>3. db' \ Going' = (db \ Going) \union {cur}
          BY <4>1, <4>2, <4>3, <4>4, <5>1 DEF Going, Recorded
        <5> QED
          BY <5>2, <5>3
      <4>5. CASE op = "erase"
        <5>1. Coming' = Coming
          BY <4>1, <4>2, <4>5 DEF Coming
        <5>2. db' \ Going' = db \ Going
          BY <4>1, <4>2, <4>5 DEF Going, Recorded
        <5> QED
          BY <5>1, <5>2
      <4> QED
        BY <4>1, <4>4, <4>5
    <3> QED
      BY <1>7, <2>1, <3>1, <3>2 DEF UpdateDB, Break, Pending, Busy, opVars
  <2>2. CASE stage' # "next"
    <3>1. failed' /\ stage' = "end" /\ result' = 0 /\ Coming' \subseteq Coming
      BY <1>7, <2>2 DEF UpdateDB, Break, Coming, Installing, Busy, opVars
    <3> QED
      BY <3>1 DEF Pending, Busy
  <2> QED
    BY <2>1, <2>2
<1>8. CASE LoopDone
  <2>1. Coming' = {} /\ Coming = {} /\ Going = {}
    BY <1>8 DEF LoopDone, Coming, Going, Installing, Erasing, Busy, opVars
  <2> QED
    BY <1>8, <2>1 DEF LoopDone, Pending, Busy, opVars
<1>9. CASE Return \/ Crash
  <2>1. stage' = "idle" /\ Coming' = {} /\ result' = result /\ (failed => failed') /\ (stage = "raised" => failed')
    BY <1>9 DEF Return, Crash, Leave, Coming, Installing, Busy
  <2> QED
    BY <2>1 DEF Pending, Busy
<1> QED
  BY <1>1, <1>2, <1>3, <1>4, <1>5, <1>6, <1>7, <1>8, <1>9 DEF Next, Within

-----------------------------------------------------------------------------
(* The linker cache and the result                                         *)

\* What is in step when a script is run or the caller goes on.
UpToDate == (ran' # ran \/ stage' = "idle") /\ ~failed' => owed' = {}

LEMMA LibrariesStep ==
    TypeOK /\ LibrariesPending /\ [Next]_vars => LibrariesPending' /\ (UpToDate \/ UNCHANGED vars)
<1> SUFFICES ASSUME TypeOK, LibrariesPending, [Next]_vars
             PROVE  LibrariesPending' /\ (UpToDate \/ UNCHANGED vars)
  OBVIOUS
<1> USE DEF LibrariesPending, UpToDate, TypeOK, Goto
<1>1. ASSUME NEW f \in File, Edit(f) PROVE LibrariesPending' /\ UpToDate
  BY <1>1 DEF Edit, opVars, ldVars
<1>2. ASSUME NEW f \in File, InstallFile(f) PROVE LibrariesPending' /\ UpToDate
  BY <1>2 DEF InstallFile, Extracting, editVars, opVars, ldVars
<1>2a. ASSUME NEW f \in File, SaveEdited(f) PROVE LibrariesPending' /\ UpToDate
  BY <1>2a DEF SaveEdited, Extracting, editVars, opVars, ldVars
<1>3. ASSUME NEW f \in File, EraseFile(f) PROVE LibrariesPending' /\ UpToDate
  BY <1>3 DEF EraseFile, editVars, opVars, ldVars
<1>4. ASSUME NEW I \in SUBSET (Pkg \ db), NEW E \in SUBSET db, Start(I, E) PROVE LibrariesPending'
    /\ UpToDate
  BY <1>4 DEF Start, diskVars, editVars, ldVars
<1>5. CASE Fetch
  BY <1>5 DEF Fetch, PretransScripts, Run, RunFails, RanLdconfig, NoScript, Leave, ldVars
<1>6. ASSUME NEW p \in Pkg, NextInstall(p) PROVE LibrariesPending' /\ UpToDate
  BY <1>6 DEF NextInstall, Begin, Break, diskVars, editVars, ldVars
<1>7. ASSUME NEW p \in Pkg, NextErase(p) PROVE LibrariesPending' /\ UpToDate
  BY <1>7 DEF NextErase, Begin, diskVars, editVars, ldVars
<1>8. ASSUME NEW p \in Pkg, PosttransScript(p) PROVE LibrariesPending' /\ UpToDate
  BY <1>8 DEF PosttransScript, diskVars, editVars, opVars, Run, RunFails, RanLdconfig, NoScript,
     PutOff, ldVars
<1>9. CASE PreScript
  BY <1>9 DEF PreScript, diskVars, editVars, opVars, Run, RunFails, RanLdconfig, NoScript, PutOff,
     ldVars
<1>10. CASE FilesDone
  BY <1>10 DEF FilesDone, diskVars, editVars, opVars, ldVars
<1>11. CASE FilesFail
  BY <1>11 DEF FilesFail, Break, diskVars, editVars, opVars, ldVars
<1>12. CASE PostScript
  BY <1>12 DEF PostScript, diskVars, editVars, opVars, Run, RunFails, RanLdconfig, NoScript, PutOff,
     ldVars
<1>13. CASE TriggerUn \/ Trigger
  BY <1>13 DEF TriggerUn, Trigger, RunTriggers, diskVars, editVars, opVars, Run, RunFails,
     RanLdconfig, NoScript, PutOff, ldVars
<1>14. CASE UpdateDB
  BY <1>14 DEF UpdateDB, Recorded, Break, diskVars, editVars, opVars, ldVars
<1>15. CASE LoopDone
  BY <1>15 DEF LoopDone, diskVars, editVars, opVars, ldVars
<1>16. CASE Return
  BY <1>16 DEF Return, Leave, diskVars, editVars, RanLdconfig
<1>17. CASE Crash
  BY <1>17 DEF Crash, Leave, diskVars, editVars
<1>18. CASE UNCHANGED vars
  BY <1>18 DEF vars
<1> QED
  BY <1>1, <1>2, <1>2a, <1>3, <1>4, <1>5, <1>6, <1>7, <1>8, <1>9, <1>10, <1>11, <1>12, <1>13, <1>14,
     <1>15, <1>16, <1>17, <1>18 DEF Next

-----------------------------------------------------------------------------
(* The files of the packages in the database                               *)

LEMMA OnlyOwner ==
    ASSUME TypeOK, NEW f \in File, cur \in Owners(f)
    PROVE  StillOwned(f) <=> Owners(f) # {cur}
<1>1. IsFiniteSet(Owners(f))
  BY TransactionAssumption, FS_Subset DEF Owners, TypeOK
<1>2. Cardinality({cur}) = 1 /\ Cardinality(Owners(f)) \in Nat
  BY <1>1, FS_Singleton, FS_CardinalityType
<1>3. /\ Cardinality({cur}) <= Cardinality(Owners(f))
      /\ Cardinality(Owners(f)) = Cardinality({cur}) => Owners(f) = {cur}
  BY <1>1, FS_Subset
<1> QED
  BY <1>2, <1>3 DEF StillOwned

\* The steps that work on one file.
OnFile(f) == Edit(f) \/ SaveEdited(f) \/ InstallFile(f) \/ EraseFile(f)

LEMMA OnFileKeeps ==
    ASSUME TypeOK, NEW f \in File, OnFile(f)
    PROVE  /\ UNCHANGED <<db, stage, installs, erases, replaced, op, cur, wanted, result>>
           /\ failed => failed'
           /\ \A g \in File \ {f} :
                /\ fs'[g] = fs[g] /\ save'[g] = save[g] /\ lastEdit'[g] = lastEdit[g]
                /\ g \in left' <=> g \in left
                /\ fs[g] = None /\ g \in moved => g \in moved'
<1> USE DEF TypeOK
<1>1. CASE Edit(f)
  BY <1>1 DEF Edit, opVars
<1>2. CASE SaveEdited(f)
  BY <1>2 DEF SaveEdited, editVars, opVars
<1>3. CASE InstallFile(f)
  <2>1. UNCHANGED <<db, editVars, stage, opVars, result, failed>> /\ left' = left \ {f}
    BY <1>3 DEF InstallFile
  <2>2. \A g \in File \ {f} : fs'[g] = fs[g] /\ save'[g] = save[g]
    BY <1>3 DEF InstallFile, InstallConfig, InstallPlain, Write, WriteNew, diskVars
  <2>3. moved' = {g \in moved : fs'[g] = None}
    BY <1>3 DEF InstallFile
  <2> QED
    BY <2>1, <2>2, <2>3 DEF editVars, opVars
<1>4. CASE EraseFile(f)
  BY <1>4 DEF EraseFile, VerifyFileErase, diskVars, editVars, opVars
<1> QED
  BY <1>1, <1>2, <1>3, <1>4 DEF OnFile

LEMMA OtherFiles ==
    ASSUME TypeOK, NEW f \in File, OnFile(f), NEW g \in File, g # f
    PROVE  /\ fs'[g] = fs[g] /\ save'[g] = save[g] /\ lastEdit'[g] = lastEdit[g]
           /\ Owners(g)' = Owners(g) /\ Holders(g)' = Holders(g)
           /\ \A p \in Pkg : Passed(p, g)' <=> Passed(p, g)
           /\ BeingReplaced(g)' <=> BeingReplaced(g)
<1>1. UNCHANGED <<db, stage, op, cur>> /\ (g \in left' <=> g \in left)
  BY OnFileKeeps
<1> QED
  BY <1>1, OnFileKeeps DEF Owners, Holders, Passed, BeingReplaced

LEMMA EditDoes ==
    ASSUME TypeOK, NEW f \in File, Edit(f)
    PROVE  /\ f \in Config /\ stage = "idle" /\ Owners(f)' = Owners(f) /\ Holders(f)' = Holders(f)
           /\ Holders(f) # {} /\ fs'[f] # None /\ fs'[f] = lastEdit'[f]
           /\ UNCHANGED touched
<1>1. UNCHANGED <<db, stage, op, cur>> /\ stage = "idle" /\ f \in Config /\ UNCHANGED touched
  BY DEF Edit, opVars
<1>2. fs'[f] = edits + 1 /\ lastEdit'[f] = edits + 1 /\ edits + 1 # None
  BY TransactionAssumption DEF Edit, TypeOK, None
<1>3. Owners(f) # {} /\ Owners(f) \subseteq Holders(f)
  BY DEF Edit, Owners, Holders, TypeOK
<1> QED
  BY <1>1, <1>2, <1>3 DEF Owners, Holders, Filing

\* SaveEdited: the file is in .rpmsave, and next to be written.
LEMMA SaveDoes ==
    ASSUME TypeOK, Bookkeeping, NEW f \in File, SaveEdited(f)
    PROVE  /\ op = "install" /\ stage = "files" /\ f \in Config /\ cur \in Pkg
           /\ Owners(f)' = Owners(f) /\ Holders(f) = Owners(f) /\ Holders(f)' = Owners(f)
           /\ UNCHANGED <<lastEdit, touched, failed>>
           /\ Differs(f) /\ Changed(f) # {}
           /\ fs'[f] = None /\ save'[f] = fs[f] /\ f \in moved' /\ BeingReplaced(f)'
<1>1. /\ op = "install" /\ stage = "files" /\ f \in left /\ f \in Config
      /\ UNCHANGED <<db, op, stage, cur, left, lastEdit, touched, failed>>
      /\ Differs(f) /\ Changed(f) # {}
      /\ save' = [save EXCEPT ![f] = fs[f]] /\ fs' = [fs EXCEPT ![f] = None] /\ f \in moved'
  BY DEF SaveEdited, Extracting, editVars, opVars
<1>2. Owners(f)' = Owners(f) /\ Holders(f) = Owners(f) /\ Holders(f)' = Owners(f)
  BY <1>1 DEF Owners, Holders, TypeOK
<1> QED
  BY <1>1, <1>2 DEF TypeOK, BeingReplaced

\* InstallFile: the package holds the file from now on.
LEMMA InstallDoes ==
    ASSUME TypeOK, Bookkeeping, NEW f \in File, InstallFile(f)
    PROVE  /\ op = "install" /\ stage = "files"
           /\ cur \in Pkg \ db /\ f \in Files[cur]
           /\ Owners(f)' = Owners(f) /\ Holders(f) = Owners(f) /\ Holders(f)' = Owners(f) \union {cur}
           /\ UNCHANGED <<lastEdit, failed>> /\ save'[f] = save[f]
           /\ \/ fs'[f] = Content[cur][f]
              \/ fs'[f] = fs[f] /\ fs[f] # None /\ f \in Config
              \/ fs'[f] = fs[f] /\ f \notin Config /\ YieldsTo(f) # {}
           /\ fs'[f] = None /\ f \in moved => f \in moved'
           /\ touched \subseteq touched' /\ ~BeingReplaced(f)'
<1>1. /\ op = "install" /\ stage = "files" /\ f \in left /\ left' = left \ {f}
      /\ UNCHANGED <<db, op, stage, cur, lastEdit, failed>>
      /\ moved' = {g \in moved : fs'[g] = None} /\ touched \subseteq touched'
  BY DEF InstallFile, Extracting, editVars, opVars
<1>2. cur \in Pkg \ db /\ f \in Files[cur]
  BY <1>1 DEF Bookkeeping, Installing, Busy, TypeOK
<1>3. Owners(f)' = Owners(f) /\ Holders(f) = Owners(f) /\ Holders(f)' = Owners(f) \union {cur}
  BY <1>1, <1>2 DEF Owners, Holders, Filing, TypeOK
<1>4. CASE f \in Config
  BY <1>1, <1>2, <1>3, <1>4 DEF InstallFile, InstallConfig, Write, WriteNew, Differs, diskVars, TypeOK,
     BeingReplaced
<1>5. CASE f \notin Config
  BY <1>1, <1>2, <1>3, <1>5 DEF InstallFile, InstallPlain, Write, diskVars, TypeOK, BeingReplaced
<1> QED
  BY <1>4, <1>5

\* EraseFile: the file is gone unless another package has it or the call failed.
LEMMA EraseDoes ==
    ASSUME TypeOK, Bookkeeping, NEW f \in File, EraseFile(f)
    PROVE  /\ op = "erase" /\ stage = "files"
           /\ cur \in Owners(f) /\ cur \notin Coming
           /\ Owners(f)' = Owners(f) /\ Holders(f) = Owners(f) /\ Holders(f)' = Owners(f)
           /\ UNCHANGED <<lastEdit, touched>>
           /\ (f \in moved' <=> f \in moved) /\ (failed => failed')
           /\ \/ fs'[f] = fs[f] /\ save'[f] = save[f] /\ (Owners(f) # {cur} \/ failed')
              \/ /\ Owners(f) = {cur} /\ fs'[f] = None
                 /\ save'[f] = IF f \notin Config \/ fs[f] \in {None, Content[cur][f]}
                               THEN save[f] ELSE fs[f]
<1>1. /\ op = "erase" /\ stage = "files" /\ f \in left /\ left' = left \ {f}
      /\ UNCHANGED <<db, op, stage, cur, lastEdit, touched, moved>> /\ (failed => failed')
  BY DEF EraseFile, editVars, opVars
<1>2. cur \in Owners(f)
  BY <1>1 DEF Bookkeeping, Erasing, Busy, Owners
<1>3. cur \notin Coming
  BY <1>1 DEF Bookkeeping, Erasing, Installing, Busy, Coming
<1>4. Owners(f)' = Owners(f) /\ Holders(f) = Owners(f) /\ Holders(f)' = Owners(f)
  BY <1>1 DEF Owners, Holders, TypeOK
<1>5. StillOwned(f) <=> Owners(f) # {cur}
  BY <1>2, OnlyOwner
<1> QED
  BY <1>1, <1>2, <1>3, <1>4, <1>5 DEF EraseFile, VerifyFileErase, diskVars, TypeOK

LEMMA FilesPresentStep == TypeOK /\ Bookkeeping /\ FilesPresent /\ [Next]_vars => FilesPresent'
<1> SUFFICES ASSUME TypeOK, Bookkeeping, FilesPresent, [Next]_vars PROVE FilesPresent'
  OBVIOUS
<1>1. ASSUME NEW f \in File, OnFile(f) PROVE FilesPresent'
  <2> USE ContentIsNoEdit
  <2>1. UNCHANGED <<db, stage, op, cur>> /\ Files \in [Pkg -> SUBSET File] /\ db \subseteq Pkg
    BY <1>1, OnFileKeeps, TransactionAssumption DEF TypeOK
  <2>2. touched \subseteq touched' /\ (op = "erase" /\ stage \in Filing => cur \in touched')
    BY <1>1 DEF OnFile, Edit, SaveEdited, InstallFile, EraseFile, FilesPresent
  <2>3. ASSUME NEW p \in db \ touched', f \in Files[p], fs'[f] = None
        PROVE  f \in Config /\ f \in moved' /\ save'[f] # None /\ (failed' \/ BeingReplaced(f)')
    <3>1. /\ p \in Owners(f) /\ p \in db \ touched
          /\ fs[f] = None => f \in Config /\ f \in moved /\ save[f] # None /\ (failed \/ BeingReplaced(f))
      BY <2>2, <2>3 DEF Owners, FilesPresent, RecordedFilesPresent
    <3>2. CASE Edit(f)
      BY <2>3, <3>2, EditDoes
    <3>3. CASE SaveEdited(f)
      BY <3>3, SaveDoes DEF Differs
    <3>4. CASE InstallFile(f)
      <4>1. fs'[f] # Content[cur][f]
        BY <2>3, <3>4, InstallDoes
      <4>2. f \in Config => fs[f] # None /\ fs'[f] = fs[f]
        BY <3>4, <4>1, InstallDoes
      <4>3. fs'[f] = fs[f]
        BY <3>4, <4>1, InstallDoes
      <4> QED
        BY <2>3, <3>1, <4>2, <4>3
    <3>5. CASE EraseFile(f)
      <4>1. op = "erase" /\ stage \in Filing
        BY <3>5, EraseDoes DEF Filing
      <4>2. Owners(f) # {cur}
        BY <2>2, <2>3, <3>1, <4>1
      <4>3. ~BeingReplaced(f)
        BY <4>1 DEF BeingReplaced
      <4> QED
        BY <2>3, <3>1, <3>5, <4>2, <4>3, EraseDoes
    <3> QED
      BY <1>1, <3>2, <3>3, <3>4, <3>5 DEF OnFile
  <2>4. RecordedFilesPresent'
    <3> SUFFICES ASSUME NEW p \in db \ touched', NEW g \in Files[p], fs'[g] = None
                 PROVE  g \in Config /\ g \in moved' /\ save'[g] # None /\ (failed' \/ BeingReplaced(g)')
      BY <2>1 DEF RecordedFilesPresent
    <3>1. p \in Pkg /\ g \in File /\ p \in db \ touched
      BY <2>1, <2>2
    <3>2. CASE g # f
      <4>1. fs'[g] = fs[g] /\ save'[g] = save[g] /\ (BeingReplaced(g)' <=> BeingReplaced(g))
        BY <1>1, <3>1, <3>2, OtherFiles
      <4>2. (fs[g] = None /\ g \in moved => g \in moved') /\ (failed => failed')
        BY <1>1, <3>1, <3>2, OnFileKeeps
      <4> QED
        BY <3>1, <4>1, <4>2 DEF FilesPresent, RecordedFilesPresent
    <3> QED
      BY <2>3, <3>2
  <2>5. ASSUME NEW g \in File, (cur \in Holders(g) \ (Owners(g) \union touched))' PROVE fs'[g] # None
    <3>1. CASE g # f
      BY <1>1, <2>1, <2>2, <2>5, <3>1, OtherFiles DEF FilesPresent
    <3>2. CASE g = f /\ InstallFile(f)
      <4>1. CASE f \notin Config /\ YieldsTo(f) # {}
        <5>1. PICK q \in YieldsTo(f) : TRUE
          BY <4>1
        <5>2. q \notin touched /\ q \in Owners(f)
          BY <2>5, <2>1, <3>2, <4>1 DEF InstallFile, YieldsTo
        <5>3. fs[f] # None
          BY <4>1, <5>2 DEF Owners, FilesPresent, RecordedFilesPresent
        <5> QED
          BY <2>1, <3>2, <5>3, InstallDoes
      <4> QED
        BY <2>1, <3>2, <4>1, InstallDoes
    <3>3. CASE g = f /\ ~InstallFile(f)
      <4>1. Holders(f)' = Holders(f) /\ Owners(f)' = Owners(f) /\ fs[f] # None
        BY <1>1, <2>1, <2>2, <2>5, <3>3, EditDoes, SaveDoes, EraseDoes DEF FilesPresent, OnFile
      <4>2. CASE Edit(f)
        BY <3>3, <4>2, EditDoes
      <4>3. CASE SaveEdited(f)
        BY <2>1, <2>5, <3>3, <4>1, <4>3, SaveDoes
      <4>4. CASE EraseFile(f)
        BY <2>1, <2>5, <3>3, <4>1, <4>4, EraseDoes
      <4> QED
        BY <1>1, <3>3, <4>2, <4>3, <4>4 DEF OnFile
    <3> QED
      BY <3>1, <3>2, <3>3
  <2>6. ASSUME NEW g \in File, ~failed', Passed(cur, g)', (Owners(g) = {cur})' PROVE fs'[g] = None
    <3>1. CASE g # f
      <4>1. cur \in Pkg /\ cur' = cur /\ ~failed
        BY <1>1, <2>1, <2>6, OnFileKeeps DEF TypeOK
      <4> QED
        BY <1>1, <2>6, <3>1, <4>1, OtherFiles DEF FilesPresent, Passed
    <3>2. CASE g = f
      <4>1. op = "erase" /\ stage \in Filing
        BY <2>1, <2>6 DEF Passed
      <4>2. EraseFile(f)
        BY <1>1, <4>1 DEF OnFile, Edit, SaveEdited, InstallFile, Extracting, Filing
      <4> QED
        BY <2>1, <2>6, <3>2, <4>2, EraseDoes
    <3> QED
      BY <3>1, <3>2
  <2> QED
    BY <2>1, <2>2, <2>4, <2>5, <2>6 DEF FilesPresent, Filing
<1> USE ContentIsNoEdit, TransactionAssumption DEF Goto, Owners, Holders, Passed, FilesPresent,
        RecordedFilesPresent, BeingReplaced, Filing, TypeOK
<1>2. ASSUME NEW I \in SUBSET (Pkg \ db), NEW E \in SUBSET db, Start(I, E) PROVE FilesPresent'
  BY <1>2 DEF Start, diskVars, editVars, ldVars
<1>3. CASE Fetch
  <2>1. stage = "fetch" /\ stage' \in {"next", "idle", "raised"} /\ UNCHANGED <<db, fs, save, touched, moved>>
        /\ (failed => failed')
    BY <1>3 DEF Fetch, Leave, diskVars, PretransScripts, RunFails
  <2> QED
    BY <2>1
<1>4. ASSUME NEW p \in Pkg, NextInstall(p) PROVE FilesPresent'
  BY <1>4 DEF NextInstall, Begin, Break, diskVars, editVars, ldVars, Bookkeeping, Busy,
     Installing,
     Erasing
<1>5. ASSUME NEW p \in Pkg, NextErase(p) PROVE FilesPresent'
  BY <1>5 DEF NextErase, Begin, diskVars, editVars, ldVars
<1>6. ASSUME NEW p \in Pkg, PosttransScript(p) PROVE FilesPresent'
  BY <1>6 DEF PosttransScript, RunFails, diskVars, editVars, opVars
<1>7. CASE PreScript
  BY <1>7 DEF PreScript, RunFails, diskVars, editVars, opVars
<1>8. CASE FilesDone
  BY <1>8 DEF FilesDone, diskVars, editVars, opVars, ldVars
<1>9. CASE FilesFail
  BY <1>9 DEF FilesFail, Break, diskVars, editVars, opVars, ldVars
<1>10. CASE PostScript
  BY <1>10 DEF PostScript, RunFails, diskVars, editVars, opVars
<1>11. CASE TriggerUn \/ Trigger
  BY <1>11 DEF TriggerUn, Trigger, RunTriggers, RunFails, diskVars, editVars, opVars
<1>12. CASE UpdateDB
  BY <1>12 DEF UpdateDB, Recorded, Break, diskVars, editVars, opVars, ldVars, Bookkeeping, Busy,
     Installing, Erasing
<1>13. CASE LoopDone
  BY <1>13 DEF LoopDone, diskVars, editVars, opVars, ldVars
<1>14. CASE Return
  BY <1>14 DEF Return, Leave, diskVars, editVars
<1>15. CASE Crash
  BY <1>15 DEF Crash, Leave, diskVars, editVars
<1>16. CASE UNCHANGED vars
  BY <1>16 DEF vars
<1> QED
  BY <1>1, <1>2, <1>3, <1>4, <1>5, <1>6, <1>7, <1>8, <1>9, <1>10, <1>11, <1>12, <1>13, <1>14, <1>15,
     <1>16
     DEF Next, OnFile

-----------------------------------------------------------------------------
(* Who holds a file                                                        *)

\* The steps that leave the files alone: what they do to their holders.
KeepsHolders ==
    /\ Staying' = Staying
    /\ db' \ wanted' \subseteq db \ wanted \/ db' \ wanted' \subseteq Staying
    /\ \A f \in File : Holders(f)' = Holders(f) /\ \A p \in Pkg : Passed(p, f) => Passed(p, f)'

BeginsTransaction == \E I \in SUBSET (Pkg \ db), E \in SUBSET db : Start(I, E)

RemovesFromDB ==
    /\ op = "erase" /\ stage = "db" /\ stage' = "next" /\ wanted' = wanted
    /\ db' = db \ {cur} /\ cur \in db \ wanted
    /\ \A f \in File : Holders(f) = Owners(f) /\ Holders(f)' = Owners(f) \ {cur}

LEMMA OffDisk ==
    ASSUME TypeOK, Bookkeeping, Pending, [Next]_vars, ~failed', \A f \in File : ~OnFile(f)
    PROVE  /\ UNCHANGED <<fs, save, lastEdit>> /\ ~failed
           /\ KeepsHolders \/ BeginsTransaction \/ RemovesFromDB
<1>0. UNCHANGED <<fs, save, lastEdit>> /\ ~failed
  BY DEF Next, OnFile, Start, Fetch, PretransScripts, NextInstall, NextErase, PosttransScript, PreScript,
     FilesDone, FilesFail, PostScript, TriggerUn, Trigger, RunTriggers, RunFails, UpdateDB, LoopDone, Return,
     Crash, Break, Begin, diskVars, editVars, ldVars, opVars, vars, TypeOK
<1> USE DEF KeepsHolders, Holders, Passed, Owners, Staying, Filing, Busy, Goto
<1>1. CASE BeginsTransaction
  BY <1>0, <1>1
<1>2. CASE Fetch
  <2>1. UNCHANGED <<db, wanted, op, cur, left>> /\ stage = "fetch" /\ stage' = "next"
    BY <1>0, <1>2 DEF Fetch, opVars
  <2> QED
    BY <1>0, <2>1
<1>3. ASSUME NEW p \in Pkg, NextInstall(p) PROVE KeepsHolders
  <2>1. UNCHANGED <<db, wanted, left>> /\ stage = "next" /\ stage' = "pre"
    BY <1>3 DEF NextInstall, Begin, Break
  <2> QED
    BY <2>1
<1>4. ASSUME NEW p \in Pkg, NextErase(p) PROVE KeepsHolders
  <2>1. UNCHANGED <<db, wanted, left>> /\ stage = "next" /\ stage' = "triggerun"
    BY <1>4 DEF NextErase, Begin
  <2> QED
    BY <2>1
<1>5. ASSUME NEW p \in Pkg, PosttransScript(p) PROVE KeepsHolders
  BY <1>5 DEF PosttransScript, opVars
<1>6. CASE PreScript
  <2>1. /\ UNCHANGED <<db, wanted, op, cur>> /\ stage = "pre" /\ stage' = "files" /\ left' = Files[cur]
    BY <1>6, <1>0 DEF PreScript, RunFails, opVars
  <2> QED
    BY <1>0, <2>1
<1>7. CASE FilesDone
  <2>1. UNCHANGED <<db, wanted, op, cur, left>> /\ stage = "files" /\ stage' = "post"
    BY <1>7 DEF FilesDone, opVars
  <2> QED
    BY <1>0, <2>1
<1>8. CASE FilesFail
  BY <1>8 DEF FilesFail, Break
<1>9. CASE PostScript
  <2>1. UNCHANGED <<db, wanted, op, cur, left>> /\ stage = "post" /\ stage' = "trigger"
    BY <1>9, <1>0 DEF PostScript, RunFails, opVars
  <2> QED
    BY <1>0, <2>1
<1>10. CASE TriggerUn
  <2>1. UNCHANGED <<db, wanted, op, cur, left>> /\ stage = "triggerun" /\ stage' = "pre"
    BY <1>10 DEF TriggerUn, RunTriggers, opVars
  <2> QED
    BY <1>0, <2>1
<1>11. CASE Trigger
  <2>1. UNCHANGED <<db, wanted, op, cur, left>> /\ stage = "trigger" /\ stage' = "db"
    BY <1>11 DEF Trigger, RunTriggers, opVars
  <2> QED
    BY <1>0, <2>1
<1>12. CASE UpdateDB
  <2>1. /\ UNCHANGED <<wanted, op, cur, left>> /\ stage = "db" /\ stage' = "next" /\ left = {}
        /\ db' = Recorded /\ cur \in Pkg /\ db \subseteq Pkg
    BY <1>12 DEF UpdateDB, Break, opVars, Bookkeeping, TypeOK
  <2>2. wanted = (db \ Going) \union Coming
    BY <1>0, <2>1 DEF Pending
  <2>3. CASE op = "install"
    <3>1. cur \in wanted
      BY <2>1, <2>2, <2>3 DEF Coming, Installing
    <3>2. db' = db \union {cur}
      BY <2>1, <2>3 DEF Recorded
    <3> QED
      BY <1>0, <2>1, <2>3, <3>1, <3>2
  <2>4. CASE op # "install"
    <3>1. op = "erase" /\ cur \in db /\ installs \intersect db = {}
      BY <2>1, <2>4 DEF TypeOK, Bookkeeping, Erasing
    <3>2. cur \in Going /\ cur \notin Coming
      BY <2>1, <3>1 DEF Going, Coming, Erasing, Installing
    <3>3. db' = db \ {cur}
      BY <2>1, <3>1 DEF Recorded
    <3> QED
      BY <1>0, <2>1, <2>2, <3>1, <3>2, <3>3 DEF RemovesFromDB
  <2> QED
    BY <1>0, <2>3, <2>4
<1>13. CASE LoopDone
  <2>1. UNCHANGED <<db, wanted, op, cur, left>> /\ stage = "next" /\ stage' = "end"
    BY <1>13 DEF LoopDone, opVars
  <2> QED
    BY <1>0, <2>1
<1>14. CASE Return
  <2>1. stage = "end" /\ stage' = "idle" /\ wanted' = {} /\ db' = db /\ db = wanted
    BY <1>0, <1>14 DEF Return, Leave, Pending
  <2> QED
    BY <1>0, <2>1
<1>15. CASE Crash
  BY <1>15 DEF Crash
<1>16. CASE UNCHANGED vars
  BY <1>16 DEF vars
<1> QED
  BY <1>0, <1>1, <1>2, <1>3, <1>4, <1>5, <1>6, <1>7, <1>8, <1>9, <1>10, <1>11, <1>12, <1>13, <1>14,
     <1>15, <1>16 DEF Next, OnFile, BeginsTransaction

\* A file that is in .rpmsave is written next.
LEMMA DisplacedKept ==
    ASSUME [Next]_vars, ~failed', \A f \in File : ~OnFile(f), NEW g \in File, BeingReplaced(g)
    PROVE  BeingReplaced(g)'
<1> USE DEF BeingReplaced
<1>1. CASE FilesDone
  BY <1>1 DEF FilesDone
<1>2. CASE FilesFail \/ Crash
  BY <1>2 DEF FilesFail, Break, Crash
<1>3. CASE UNCHANGED vars
  BY <1>3 DEF vars
<1> QED
  BY <1>1, <1>2, <1>3 DEF Next, OnFile, Start, Fetch, NextInstall, NextErase, PosttransScript, PreScript,
     PostScript, TriggerUn, Trigger, RunTriggers, UpdateDB, LoopDone, Return

LEMMA ConflictsSymmetric == \A p, q \in Pkg : FileConflict(p, q) => FileConflict(q, p)
BY DEF FileConflict

LEMMA CompatibleStep ==
    TypeOK /\ Bookkeeping /\ Pending /\ Compatible /\ [Next]_vars => Compatible'
<1> SUFFICES ASSUME TypeOK, Bookkeeping, Pending, Compatible, [Next]_vars, ~failed'
             PROVE  NoConflicts(Staying') /\ NoConflicts(db' \ wanted')
  BY DEF Compatible, NoConflicts
<1>1. CASE \E f \in File : OnFile(f)
  <2>1. UNCHANGED <<db, wanted, stage>> /\ ~failed
    BY <1>1, OnFileKeeps
  <2> QED
    BY <2>1 DEF Compatible, NoConflicts, Staying
<1>2. CASE \A f \in File : ~OnFile(f)
  <2>1. ~failed /\ NoConflicts(Staying) /\ NoConflicts(db \ wanted)
    BY <1>2, OffDisk DEF Compatible
  <2>2. CASE KeepsHolders
    BY <2>1, <2>2 DEF KeepsHolders, NoConflicts
  <2>3. CASE RemovesFromDB
    BY <2>1, <2>3 DEF RemovesFromDB, NoConflicts, Staying
  <2>4. ASSUME NEW I \in SUBSET (Pkg \ db), NEW E \in SUBSET db, Start(I, E)
        PROVE  NoConflicts(Staying') /\ NoConflicts(db' \ wanted')
    <3>1. Staying = db /\ db' = db /\ Staying' = wanted' /\ wanted' \subseteq db \union I /\ db \subseteq Pkg
      BY <2>4 DEF Start, Staying, Goto, TypeOK
    <3>2. \A p \in I : \A q \in wanted' \ {p} : ~FileConflict(p, q) /\ ~FileConflict(q, p)
      BY <2>4, <3>1, ConflictsSymmetric DEF Start
    <3> QED
      BY <2>1, <3>1, <3>2 DEF NoConflicts
  <2> QED
    BY <1>2, <2>2, <2>3, <2>4, OffDisk DEF BeginsTransaction
<1> QED
  BY <1>1, <1>2

\* A file that two packages have which may be together is the same in both, or, when
\* it is not a configuration file, one of them yields.
LEMMA NoConflictMeans ==
    ASSUME NEW S \in SUBSET Pkg, NoConflicts(S), NEW p \in S, NEW q \in S, NEW f \in File,
           f \in Files[p], f \in Files[q]
    PROVE  \/ Content[p][f] = Content[q][f]
           \/ f \notin Config /\ (<<p, q>> \in Yields \/ <<q, p>> \in Yields)
BY DEF NoConflicts, FileConflict

\* A package that is being installed is to stay.
LEMMA InstalledStays ==
    ASSUME TypeOK, Pending, ~failed, op = "install", stage \in Busy
    PROVE  cur \in Staying /\ Staying = wanted
BY DEF TypeOK, Pending, Coming, Installing, Staying, Busy

\* A package that is being erased is not.
LEMMA ErasedLeaves ==
    ASSUME TypeOK, Bookkeeping, Pending, ~failed, op = "erase", stage \in Busy
    PROVE  cur \notin Staying
<1>1. cur \in Going /\ cur \notin Coming
  BY DEF TypeOK, Bookkeeping, Coming, Going, Erasing, Installing
<1> QED
  BY <1>1 DEF Pending, Staying, Busy

LEMMA NobodyStep ==
    TypeOK /\ Bookkeeping /\ Pending /\ FilesPresent /\ NobodysFilesGone /\ [Next]_vars
        => NobodysFilesGone'
<1> SUFFICES ASSUME TypeOK, Bookkeeping, Pending, FilesPresent, NobodysFilesGone, [Next]_vars, ~failed',
                    NEW g \in File, Holders(g)' = {}
             PROVE  fs'[g] = None
  BY DEF NobodysFilesGone
<1>1. ASSUME NEW f \in File, OnFile(f) PROVE fs'[g] = None
  <2>1. ~failed
    BY <1>1, OnFileKeeps
  <2>2. CASE f # g
    BY <1>1, <2>1, <2>2, OtherFiles DEF NobodysFilesGone
  <2>3. CASE f = g
    BY <1>1, <2>3, EditDoes, SaveDoes, InstallDoes, EraseDoes DEF OnFile
  <2> QED
    BY <2>2, <2>3
<1>2. CASE \A f \in File : ~OnFile(f)
  <2>1. fs'[g] = fs[g] /\ (Holders(g) = {} => fs[g] = None)
    BY <1>2, OffDisk DEF NobodysFilesGone
  <2>2. CASE KeepsHolders
    BY <2>1, <2>2 DEF KeepsHolders
  <2>3. CASE BeginsTransaction
    BY <2>1, <2>3 DEF BeginsTransaction, Start, Holders, Filing, Goto
  <2>4. CASE RemovesFromDB
    <3>1. Owners(g) \subseteq {cur} /\ Holders(g) = Owners(g)
      BY <2>4 DEF RemovesFromDB
    <3>2. CASE Owners(g) = {cur}
      <4>1. Passed(cur, g)
        BY <2>4, <3>2 DEF RemovesFromDB, Passed, Filing, Bookkeeping, Owners
      <4>2. ~failed
        BY <1>2, OffDisk
      <4> QED
        BY <2>1, <3>2, <4>1, <4>2 DEF FilesPresent
    <3> QED
      BY <2>1, <3>1, <3>2
  <2> QED
    BY <1>2, <2>2, <2>3, <2>4, OffDisk
<1> QED
  BY <1>1, <1>2

-----------------------------------------------------------------------------
(* Configuration files                                                     *)

\* A file that differs from that of an owner and from the new one was edited.
LEMMA DiffersMeansEdited ==
    ASSUME TypeOK, Bookkeeping, Pending, Compatible, ConfigRight, ~failed, NEW f \in Config,
           Extracting(f), Differs(f), NEW q \in Owners(f), Content[q][f] # fs[f]
    PROVE  Edited(f)
<1>1. /\ f \in File /\ cur \in Pkg \ db /\ f \in Files[cur] /\ Holders(f) = Owners(f)
      /\ op = "install" /\ stage \in Busy
  BY TransactionAssumption DEF Extracting, Bookkeeping, Installing, Busy, Owners, Holders, TypeOK
<1>2. cur \in Staying /\ Staying \subseteq Pkg /\ NoConflicts(Staying)
  BY <1>1, InstalledStays DEF TypeOK, Compatible
<1>3. ASSUME NEW r \in Owners(f) \intersect Staying PROVE Content[r][f] = Content[cur][f]
  <2>1. f \in Files[r]
    BY DEF Owners
  <2> QED
    BY <1>1, <1>2, <2>1, NoConflictMeans
<1>4. ~Passed(q, f) /\ fs[f] # None /\ fs[f] # Content[cur][f]
  BY <1>1 DEF Passed, Differs
<1> QED
  BY <1>1, <1>3, <1>4 DEF ConfigRight, Displaced

\* What is saved is what the user has edited.
LEMMA SaveConfigDoes ==
    ASSUME TypeOK, Bookkeeping, Pending, Compatible, ConfigRight, ~failed, NEW f \in File, SaveEdited(f)
    PROVE  Edited(f)
<1>1. f \in Config /\ Extracting(f) /\ Differs(f) /\ Changed(f) # {}
  BY DEF SaveEdited
<1> QED
  BY <1>1, DiffersMeansEdited DEF Changed

\* What is left as it is is so as well; what is written over is not.
LEMMA InstallConfigDoes ==
    ASSUME TypeOK, Bookkeeping, Pending, Compatible, NobodysFilesGone, ConfigRight, ~failed,
           NEW f \in Config, InstallFile(f)
    PROVE  \/ fs'[f] = Content[cur][f] /\ ~Edited(f)
           \/ fs'[f] = fs[f] /\ Edited(f)
<1> USE ContentIsNoEdit
<1>1. f \in File /\ cur \in Pkg /\ Holders(f) = Owners(f) /\ Extracting(f) /\ InstallConfig(f)
  BY InstallDoes, TransactionAssumption DEF TypeOK, InstallFile
<1>2. ASSUME NEW q \in Owners(f), Content[q][f] # fs[f], Differs(f) PROVE Edited(f)
  BY <1>1, <1>2, DiffersMeansEdited
<1>3. lastEdit[f] \in 0..MaxEdits
  BY <1>1 DEF TypeOK
<1>4. CASE ~Differs(f) \/ Owners(f) = {} \/ Unedited(f) # {}
  <2>1. Owners(f) = {} => fs[f] = None
    BY <1>1 DEF NobodysFilesGone
  <2>2. Unedited(f) # {} => \E q \in Pkg : fs[f] = Content[q][f]
    BY DEF Unedited, Owners, TypeOK
  <2>3. ~Edited(f)
    BY <1>1, <1>3, <1>4, <2>1, <2>2 DEF Edited, Differs
  <2>4. CASE Write(f)
    BY <1>1, <2>3, <2>4 DEF Write, TypeOK
  <2>5. ASSUME ~Write(f) PROVE FALSE
    <3>1. Differs(f) /\ Changed(f) # {}
      BY <1>1, <1>4, <2>5 DEF InstallConfig
    <3> QED
      BY <1>2, <2>3, <3>1 DEF Changed
  <2> QED
    BY <2>4, <2>5
<1>5. CASE ~(~Differs(f) \/ Owners(f) = {} \/ Unedited(f) # {})
  <2>1. Edited(f)
    BY <1>2, <1>5 DEF Unedited
  <2>2. fs' = fs
    BY <1>1, <1>5 DEF InstallConfig, WriteNew, diskVars
  <2> QED
    BY <2>1, <2>2
<1> QED
  BY <1>4, <1>5

\* Likewise what is saved when a package goes.
LEMMA EraseConfigDoes ==
    ASSUME TypeOK, Bookkeeping, Pending, ConfigRight, ~failed', NEW f \in Config, EraseFile(f)
    PROVE  \/ Owners(f) # {cur} /\ fs'[f] = fs[f] /\ save'[f] = save[f]
           \/ Owners(f) = {cur} /\ fs'[f] = None /\ save'[f] = save[f] /\ ~Edited(f)
           \/ Owners(f) = {cur} /\ fs'[f] = None /\ save'[f] = fs[f] /\ Edited(f)
<1>1. f \in File /\ cur \in Pkg /\ op = "erase" /\ stage \in Busy /\ f \in left /\ cur \in Owners(f)
      /\ Holders(f) = Owners(f) /\ ~failed /\ ~Displaced(f)
  BY EraseDoes, TransactionAssumption DEF TypeOK, Busy, EraseFile, Displaced, BeingReplaced
<1>2. cur \notin Staying /\ ~Passed(cur, f)
  BY <1>1, ErasedLeaves DEF Passed
<1>3. fs[f] \in {None, Content[cur][f]} => ~Edited(f)
  BY <1>1, ContentIsNoEdit DEF Edited, TypeOK
<1>4. Owners(f) = {cur} /\ fs[f] \notin {None, Content[cur][f]} => Edited(f)
  BY <1>1, <1>2 DEF ConfigRight
<1> QED
  BY <1>1, <1>3, <1>4, EraseDoes

LEMMA EditsStep ==
    TypeOK /\ Bookkeeping /\ Pending /\ Compatible /\ NobodysFilesGone /\ ConfigRight /\ EditsKept
      /\ [Next]_vars => EditsKept'
<1> SUFFICES ASSUME TypeOK, Bookkeeping, Pending, Compatible, NobodysFilesGone, ConfigRight, EditsKept,
                    [Next]_vars, NEW g \in File, lastEdit'[g] # None
             PROVE  g \in Config /\ (~failed' => lastEdit'[g] \in {fs'[g], save'[g]})
  BY DEF EditsKept, LastEditKept
<1>1. ASSUME NEW f \in File, OnFile(f) PROVE g \in Config /\ (~failed' => lastEdit'[g] \in {fs'[g], save'[g]})
  <2>1. failed => failed'
    BY <1>1, OnFileKeeps
  <2>2. CASE f # g
    BY <1>1, <2>1, <2>2, OtherFiles DEF EditsKept, LastEditKept
  <2>3. CASE f = g /\ Edit(f)
    BY <2>3, EditDoes
  <2>4. CASE f = g /\ ~Edit(f)
    <3>1. lastEdit'[g] = lastEdit[g] /\ g \in Config
      BY <1>1, <2>4, SaveDoes, InstallDoes, EraseDoes DEF OnFile, EditsKept
    <3>2. ~failed => lastEdit[g] \in {fs[g], save[g]}
      BY <3>1 DEF EditsKept, LastEditKept
    <3>3. Edited(g) <=> fs[g] = lastEdit[g]
      BY <3>1 DEF Edited
    <3>4. CASE SaveEdited(g)
      BY <2>1, <3>1, <3>3, <3>4, SaveDoes, SaveConfigDoes
    <3>5. CASE InstallFile(g)
      <4>1. save'[g] = save[g]
        BY <3>5, InstallDoes
      <4> QED
        BY <2>1, <3>1, <3>2, <3>3, <3>5, <4>1, InstallConfigDoes
    <3>6. CASE EraseFile(g)
      BY <2>1, <3>1, <3>2, <3>3, <3>6, EraseConfigDoes
    <3> QED
      BY <1>1, <2>4, <3>4, <3>5, <3>6 DEF OnFile
  <2> QED
    BY <2>2, <2>3, <2>4
<1>2. CASE \A f \in File : ~OnFile(f)
  <2>1. lastEdit' = lastEdit
    BY <1>2 DEF Next, OnFile, Start, Fetch, NextInstall, NextErase, PosttransScript, PreScript,
     FilesDone, FilesFail, PostScript, TriggerUn, Trigger, RunTriggers, UpdateDB, LoopDone, Return,
     Crash, Begin, editVars, vars
  <2>2. ~failed' => UNCHANGED <<fs, save>> /\ ~failed
    BY <1>2, OffDisk
  <2> QED
    BY <2>1, <2>2 DEF EditsKept, LastEditKept
<1> QED
  BY <1>1, <1>2

LEMMA ConfigStep ==
    TypeOK /\ Bookkeeping /\ Pending /\ Compatible /\ NobodysFilesGone /\ ConfigRight /\ [Next]_vars
      => ConfigRight'
<1> SUFFICES ASSUME TypeOK, Bookkeeping, Pending, Compatible, NobodysFilesGone, ConfigRight,
                    [Next]_vars, ~failed', NEW g \in Config, NEW p \in Holders(g)'
             PROVE  \/ Edited(g)' \/ Displaced(g)'
                    \/ fs'[g] = Content[p][g]
                    \/ /\ p \notin Staying'
                       /\ Passed(p, g)' \/ \E r \in Holders(g)' \intersect Staying' : fs'[g] = Content[r][g]
  BY DEF ConfigRight
<1>0. g \in File /\ p \in Pkg
  BY TransactionAssumption DEF Holders
<1>1. ASSUME NEW f \in File, OnFile(f)
      PROVE  \/ Edited(g)' \/ Displaced(g)'
             \/ fs'[g] = Content[p][g]
             \/ /\ p \notin Staying'
                /\ Passed(p, g)' \/ \E r \in Holders(g)' \intersect Staying' : fs'[g] = Content[r][g]
  <2>1. ~failed /\ Staying' = Staying /\ UNCHANGED <<op, stage, cur>>
    BY <1>1, OnFileKeeps DEF Staying
  <2>2. CASE f # g
    <3>1. Holders(g)' = Holders(g) /\ (Passed(p, g)' <=> Passed(p, g)) /\ (Edited(g)' <=> Edited(g))
          /\ fs'[g] = fs[g] /\ (Displaced(g)' <=> Displaced(g))
      BY <1>0, <1>1, <2>2, OtherFiles DEF Edited, Displaced
    <3> QED
      BY <2>1, <3>1 DEF ConfigRight
  <2>3. CASE f = g /\ Edit(f)
    BY <2>3, EditDoes DEF Edited
  <2>4. CASE f = g /\ InstallFile(f)
    <3>1. /\ Holders(g) = Owners(g) /\ Holders(g)' = Owners(g) \union {cur} /\ lastEdit' = lastEdit
          /\ op = "install" /\ stage \in Busy /\ cur \in Pkg /\ g \in Files[cur]
      BY <1>0, <2>4, InstallDoes DEF Busy
    <3>2. cur \in Staying /\ Staying \subseteq Pkg /\ NoConflicts(Staying)
      BY <2>1, <3>1, InstalledStays DEF TypeOK, Compatible
    <3>3. CASE fs'[g] = Content[cur][g]
      <4>1. p \in Staying => Content[p][g] = Content[cur][g]
        <5>1. g \in Files[p]
          BY <3>1 DEF Holders
        <5> QED
          BY <1>0, <3>1, <3>2, <5>1, NoConflictMeans
      <4> QED
        BY <2>1, <3>1, <3>2, <3>3, <4>1
    <3>4. CASE fs'[g] # Content[cur][g]
      <4>1. fs'[g] = fs[g] /\ Edited(g)
        BY <2>1, <2>4, <3>4, InstallConfigDoes
      <4> QED
        BY <3>1, <4>1 DEF Edited
    <3> QED
      BY <3>3, <3>4
  <2>5. CASE f = g /\ EraseFile(f)
    <3>1. /\ Holders(g) = Owners(g) /\ Holders(g)' = Owners(g) /\ lastEdit' = lastEdit
          /\ op = "erase" /\ stage = "files" /\ g \in Files[cur] /\ left' = left \ {g}
          /\ ~Displaced(g)
      BY <1>0, <2>5, EraseDoes DEF EraseFile, Owners, Displaced, BeingReplaced
    <3>2. cur \notin Staying
      BY <2>1, <3>1, ErasedLeaves DEF Busy
    <3>3. CASE Owners(g) = {cur}
      <4>1. p = cur /\ Passed(cur, g)'
        BY <2>1, <3>1, <3>3 DEF Passed, Filing
      <4> QED
        BY <2>1, <3>2, <4>1
    <3>4. CASE Owners(g) # {cur}
      <4>1. fs'[g] = fs[g] /\ (Edited(g) => Edited(g)') /\ (Passed(p, g) => Passed(p, g)')
        BY <1>0, <2>1, <2>5, <3>1, <3>4, EraseDoes DEF Edited, Passed
      <4> QED
        BY <2>1, <3>1, <4>1 DEF ConfigRight
    <3> QED
      BY <3>3, <3>4
  <2>6. CASE f = g /\ SaveEdited(f)
    BY <2>6, SaveDoes DEF Displaced
  <2> QED
    BY <1>1, <2>2, <2>3, <2>4, <2>5, <2>6 DEF OnFile
<1>2. CASE \A f \in File : ~OnFile(f)
  <2>1. ~failed /\ fs'[g] = fs[g] /\ (Edited(g) => Edited(g)') /\ (Displaced(g) => Displaced(g)')
    BY <1>0, <1>2, OffDisk, DisplacedKept DEF Edited, Displaced
  <2>2. CASE KeepsHolders
    <3>1. Holders(g)' = Holders(g) /\ Staying' = Staying /\ (Passed(p, g) => Passed(p, g)')
      BY <1>0, <2>2 DEF KeepsHolders
    <3> QED
      BY <2>1, <3>1 DEF ConfigRight
  <2>3. CASE BeginsTransaction
    <3>1. Holders(g)' = Holders(g) /\ Holders(g) \subseteq Staying
      BY <2>3 DEF BeginsTransaction, Start, Goto, Holders, Filing, Staying
    <3> QED
      BY <2>1, <3>1 DEF ConfigRight
  <2>4. CASE RemovesFromDB
    <3>1. /\ Holders(g)' = Holders(g) \ {cur} /\ Staying' = Staying /\ cur \notin Staying
          /\ ~Passed(p, g)
      BY <1>0, <2>4 DEF RemovesFromDB, Staying, Passed
    <3> QED
      BY <2>1, <3>1 DEF ConfigRight
  <2> QED
    BY <1>2, <2>2, <2>3, <2>4, OffDisk
<1> QED
  BY <1>1, <1>2

-----------------------------------------------------------------------------
(* Other files                                                             *)

LEMMA InstallPlainDoes ==
    ASSUME TypeOK, Bookkeeping, Pending, Compatible, PlainRight, ~failed,
           NEW f \in File \ Config, InstallFile(f), NEW p \in Holders(f)'
    PROVE  Fits(p, f)' \/ Replaced(p, f)'
<1>1. /\ cur \in Pkg /\ f \in Files[cur] /\ Holders(f) = Owners(f) /\ Holders(f)' = Owners(f) \union {cur}
      /\ op = "install" /\ stage \in Busy /\ cur' = cur /\ stage' = stage /\ wanted' = wanted /\ db' = db
  BY InstallDoes DEF Busy, InstallFile, opVars
<1>2. cur \in Staying /\ Staying \subseteq Pkg /\ NoConflicts(Staying) /\ Staying' = Staying
  BY <1>1, InstalledStays DEF TypeOK, Compatible, Staying
<1>3. ASSUME NEW r \in Holders(f)' \intersect Staying
      PROVE  Content[r][f] = Content[cur][f] \/ <<r, cur>> \in Yields \/ <<cur, r>> \in Yields
  <2>1. f \in Files[r]
    BY <1>1 DEF Owners
  <2> QED
    BY <1>1, <1>2, <2>1, NoConflictMeans
<1>4. p \in Pkg /\ \A q, r, t \in Pkg : {<<q, r>>, <<r, t>>} \subseteq Yields => <<q, t>> \in Yields
  BY TransactionAssumption DEF Holders
<1>5. CASE YieldsTo(f) = {}
  <2>1. fs'[f] = Content[cur][f]
    BY <1>5 DEF InstallFile, InstallPlain, Write, TypeOK
  <2>2. CASE p = cur
    BY <1>1, <2>1, <2>2 DEF Fits
  <2>3. CASE p # cur
    <3>1. p \in Owners(f) /\ <<cur, p>> \notin Yields
      BY <1>1, <1>5, <2>3 DEF YieldsTo
    <3>2. CASE p \in Staying
      BY <1>1, <1>3, <1>4, <2>1, <3>1, <3>2 DEF Fits
    <3>3. CASE p \notin Staying
      BY <1>1, <1>2, <2>1, <3>1, <3>3 DEF Replaced
    <3> QED
      BY <3>2, <3>3
  <2> QED
    BY <2>2, <2>3
<1>6. CASE YieldsTo(f) # {}
  <2>1. fs' = fs
    BY <1>6 DEF InstallFile, InstallPlain, diskVars
  <2>2. ASSUME NEW q \in Owners(f) PROVE q \in Pkg /\ (Fits(q, f) \/ Replaced(q, f))
    BY <1>1 DEF PlainRight, Replaced, Passed, Owners, TypeOK
  <2>3. CASE p \in Owners(f)
    BY <1>1, <1>2, <2>1, <2>2, <2>3 DEF Fits, Replaced
  <2>4. CASE p \notin Owners(f)
    <3>1. p = cur
      BY <1>1, <2>4
    <3>2. PICK q \in Owners(f) : <<cur, q>> \in Yields
      BY <1>6 DEF YieldsTo
    <3>3. CASE Fits(q, f)
      BY <1>1, <1>4, <2>1, <2>2, <3>1, <3>2, <3>3 DEF Fits
    <3>4. CASE Replaced(q, f)
      <4>1. PICK r \in Holders(f) \intersect Staying : fs[f] = Content[r][f] /\ <<r, q>> \notin Yields
        BY <3>4 DEF Replaced
      <4>2. r \in Pkg /\ <<r, cur>> \notin Yields
        BY <1>1, <1>4, <2>2, <3>2, <4>1 DEF Holders
      <4> QED
        BY <1>1, <1>3, <2>1, <3>1, <4>1, <4>2 DEF Fits
    <3> QED
      BY <2>2, <3>3, <3>4
  <2> QED
    BY <2>3, <2>4
<1> QED
  BY <1>5, <1>6

LEMMA PlainStep ==
    TypeOK /\ Bookkeeping /\ Pending /\ Compatible /\ PlainRight /\ [Next]_vars => PlainRight'
<1> SUFFICES ASSUME TypeOK, Bookkeeping, Pending, Compatible, PlainRight, [Next]_vars, ~failed',
                    NEW g \in File \ Config, NEW p \in Holders(g)'
             PROVE  Fits(p, g)' \/ Replaced(p, g)' \/ (p \notin Staying' /\ Passed(p, g)')
  BY DEF PlainRight
<1>0. /\ p \in Pkg
      /\ ~failed => \A q \in Holders(g) : Fits(q, g) \/ Replaced(q, g) \/ (q \notin Staying /\ Passed(q, g))
  BY DEF Holders, PlainRight
<1>1. ASSUME NEW f \in File, OnFile(f)
      PROVE  Fits(p, g)' \/ Replaced(p, g)' \/ (p \notin Staying' /\ Passed(p, g)')
  <2>1. ~failed /\ Staying' = Staying /\ UNCHANGED <<op, stage, cur>>
    BY <1>1, OnFileKeeps DEF Staying
  <2>2. CASE f # g
    <3>1. Holders(g)' = Holders(g) /\ (Passed(p, g)' <=> Passed(p, g)) /\ fs'[g] = fs[g]
      BY <1>0, <1>1, <2>2, OtherFiles
    <3> QED
      BY <1>0, <2>1, <3>1 DEF Fits, Replaced
  <2>3. CASE f = g /\ Edit(f)
    BY <2>3, EditDoes
  <2>4. CASE f = g /\ InstallFile(f)
    BY <2>1, <2>4, InstallPlainDoes
  <2>5. CASE f = g /\ EraseFile(f)
    <3>1. /\ Holders(g) = Owners(g) /\ Holders(g)' = Owners(g)
          /\ op = "erase" /\ stage = "files" /\ g \in Files[cur] /\ left' = left \ {g}
      BY <2>5, EraseDoes DEF EraseFile, Owners
    <3>2. cur \notin Staying
      BY <2>1, <3>1, ErasedLeaves DEF Busy
    <3>3. CASE Owners(g) = {cur}
      <4>1. p = cur /\ Passed(cur, g)'
        BY <2>1, <3>1, <3>3 DEF Passed, Filing
      <4> QED
        BY <2>1, <3>2, <4>1
    <3>4. CASE Owners(g) # {cur}
      <4>1. fs'[g] = fs[g] /\ (Passed(p, g) => Passed(p, g)')
        BY <2>1, <2>5, <3>1, <3>4, EraseDoes DEF Passed
      <4> QED
        BY <1>0, <2>1, <3>1, <4>1 DEF Fits, Replaced
    <3> QED
      BY <3>3, <3>4
  <2>6. CASE f = g /\ SaveEdited(f)
    BY <2>6, SaveDoes
  <2> QED
    BY <1>1, <2>2, <2>3, <2>4, <2>5, <2>6 DEF OnFile
<1>2. CASE \A f \in File : ~OnFile(f)
  <2>1. ~failed /\ fs' = fs
    BY <1>2, OffDisk
  <2>2. CASE KeepsHolders
    <3>1. Holders(g)' = Holders(g) /\ Staying' = Staying /\ (Passed(p, g) => Passed(p, g)')
      BY <1>0, <2>2 DEF KeepsHolders
    <3> QED
      BY <1>0, <2>1, <3>1 DEF Fits, Replaced
  <2>3. CASE BeginsTransaction
    <3>1. Holders(g)' = Holders(g) /\ Holders(g) \subseteq Staying
      BY <2>3 DEF BeginsTransaction, Start, Goto, Holders, Filing, Staying
    <3> QED
      BY <1>0, <2>1, <3>1 DEF Fits, Replaced
  <2>4. CASE RemovesFromDB
    <3>1. /\ Holders(g)' = Holders(g) \ {cur} /\ Staying' = Staying /\ cur \notin Staying
          /\ ~Passed(p, g)
      BY <2>4 DEF RemovesFromDB, Staying, Passed
    <3> QED
      BY <1>0, <2>1, <3>1 DEF Fits, Replaced
  <2> QED
    BY <1>2, <2>2, <2>3, <2>4, OffDisk
<1> QED
  BY <1>1, <1>2

-----------------------------------------------------------------------------
(* The theorems                                                            *)

LEMMA InitTxInv == Init => TxInv
<1> SUFFICES ASSUME Init PROVE TxInv
  OBVIOUS
<1>1. TypeOK
  BY TypeInit
<1>2. db = {} /\ stage = "idle" /\ installs = {} /\ erases = {} /\ replaced = {} /\ wanted = {}
      /\ delayed = FALSE /\ owed = {} /\ result = 1
  BY DEF Init
<1>3. \A f \in File : fs[f] = None /\ lastEdit[f] = None /\ Holders(f) = {} /\ ~Passed(cur, f)
  BY <1>2 DEF Init, Holders, Passed, Filing, None
<1>4. Bookkeeping /\ Pending /\ LibrariesPending
  BY <1>2 DEF Bookkeeping, Pending, LibrariesPending, Coming, Busy, Filing, Installing, Erasing
<1>5. FilesPresent /\ Compatible
  BY <1>2, <1>3 DEF FilesPresent, RecordedFilesPresent, Filing, Compatible, NoConflicts, Staying
<1>6. NobodysFilesGone /\ ConfigRight /\ PlainRight /\ EditsKept
  BY <1>3, TransactionAssumption DEF NobodysFilesGone, ConfigRight, PlainRight, EditsKept, LastEditKept
<1> QED
  BY <1>1, <1>4, <1>5, <1>6 DEF TxInv

LEMMA StepTxInv == TxInv /\ [Next]_vars => TxInv'
<1> SUFFICES ASSUME TxInv, [Next]_vars PROVE TxInv'
  OBVIOUS
<1>1. TypeOK' /\ Bookkeeping' /\ Pending'
  BY TypeStep, BookkeepingStep, PendingStep DEF TxInv
<1>2. LibrariesPending' /\ FilesPresent'
  BY LibrariesStep, FilesPresentStep DEF TxInv
<1>3. Compatible' /\ NobodysFilesGone'
  BY CompatibleStep, NobodyStep DEF TxInv
<1>4. ConfigRight' /\ EditsKept' /\ PlainRight'
  BY ConfigStep, EditsStep, PlainStep DEF TxInv
<1> QED
  BY <1>1, <1>2, <1>3, <1>4 DEF TxInv

\* The invariant of the transaction, of every reachable state.
THEOREM TransactionInvariant == Spec => []TxInv
BY InitTxInv, StepTxInv, PTL DEF Spec

\* The variables have their types (the state of runOperations and of the disk).
THEOREM TransactionTypes == Spec => []TypeOK
<1>1. TxInv => TypeOK
  BY DEF TxInv
<1> QED
  BY <1>1, TransactionInvariant, PTL

\* The packages in the RPM database have all their files on disk at any time, also
\* half way, after errors and crashes, but for those whose own erasure was begun and
\* for edited configuration files in .rpmsave whose successor was not written.
THEOREM RecordedFilesPresentHolds == Spec => []RecordedFilesPresent
<1>1. TxInv => RecordedFilesPresent
  BY DEF TxInv, FilesPresent
<1> QED
  BY <1>1, TransactionInvariant, PTL

\* No edit of a configuration file is lost by installs, updates and erasures that
\* go through (__verifyFileInstall and __verifyFileErase).
THEOREM LastEditKeptHolds == Spec => []LastEditKept
<1>1. TxInv => LastEditKept
  BY DEF TxInv, EditsKept
<1> QED
  BY <1>1, TransactionInvariant, PTL

\* Between transactions that went through the disk is what the RPM database says,
\* as verify() looks at it, and nobody's files are gone.
THEOREM DiskMatchesDatabaseHolds == Spec => []DiskMatchesDatabase
<1>1. TxInv => DiskMatchesDatabase
  <2> SUFFICES ASSUME TxInv, stage = "idle", ~failed, NEW f \in File
               PROVE  /\ Owners(f) = {} => fs[f] = None
                      /\ \A p \in Owners(f) :
                            VerifyFails(p, f) =>
                                \/ fs[f] # None /\ fs[f] = lastEdit[f]
                                \/ \E q \in Pkg : <<p, q>> \in Yields /\ fs[f] = Content[q][f]
    BY DEF DiskMatchesDatabase
  <2>1. Holders(f) = Owners(f) /\ Owners(f) \subseteq Staying /\ \A p \in Pkg : ~Passed(p, f)
    BY DEF TxInv, TypeOK, Holders, Owners, Staying, Passed, Filing
  <2>2. Owners(f) = {} => fs[f] = None
    BY <2>1 DEF TxInv, NobodysFilesGone
  <2>3. ASSUME NEW p \in Owners(f), VerifyFails(p, f)
        PROVE  \/ fs[f] # None /\ fs[f] = lastEdit[f]
               \/ \E q \in Pkg : <<p, q>> \in Yields /\ fs[f] = Content[q][f]
    <3>1. CASE f \in Config
      BY <2>1, <2>3, <3>1 DEF TxInv, ConfigRight, VerifyFails, Edited, Displaced, BeingReplaced
    <3>2. CASE f \notin Config
      BY <2>1, <2>3, <3>2 DEF TxInv, PlainRight, VerifyFails, Fits, Replaced
    <3> QED
      BY <3>1, <3>2
  <2> QED
    BY <2>2, <2>3
<1> QED
  BY <1>1, TransactionInvariant, PTL

\* An ldconfig that was put off is run before the next script and before the caller
\* goes on, and 1 is returned only when all is done and recorded.
THEOREM NothingOwedHolds == Spec => NothingOwed
<1>1. TxInv /\ [Next]_vars => [(ran' # ran \/ stage' = "idle") /\ ~failed' => owed' = {}]_vars
  BY LibrariesStep DEF TxInv, UpToDate
<1>2. TxInv /\ [Next]_vars => [stage = "end" /\ stage' = "idle" /\ result = 1 => db = wanted]_vars
  BY DEF TxInv, Pending
<1> QED
  BY <1>1, <1>2, TransactionInvariant, PTL DEF Spec, NothingOwed, LibrariesKnown, OneMeansDone

=============================================================================
