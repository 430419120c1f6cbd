----------------------------- MODULE RpmDBProofs -----------------------------
(***************************************************************************)
(* Proofs about RpmDB, for any headers, indexes and number of packages,    *)
(* with failing writes and crashes at every step.                          *)
(***************************************************************************)
EXTENDS RpmDB, TLAPS

-----------------------------------------------------------------------------
(* The invariant.                                                          *)

\* Ids are given in ascending order, in memory and on disk.
IdsGiven ==
    /\ \A e \in Headers : e[1] =< maxid
    /\ \A e \in disk[Packages] : e[1] =< diskMaxid
    /\ \A e \in removed : e[1] =< maxid /\ e[1] =< diskMaxid

\* One header under each id.
Unique(S) == \A d, e \in S : d[1] = e[1] => d = e
OnePerId == Unique(Headers) /\ Unique(disk[Packages])

\* How far a call in progress has come.
AddProgress ==
    call = "add" =>
        /\ phase # "drop"
        /\ phase # "idle" => cur \notin removed
        /\ phase = "zero" => cur[1] = maxid + 1 /\ pos = 1
        /\ phase = "header" => cur[1] = maxid /\ pos = 1 /\ \A e \in Headers : e[1] < cur[1]
        /\ phase \in {"index", "sync"} => cur \in Headers
        /\ phase = "index" => \A f \in Tagged[cur[2]] : f < pos => cur \in mem[f]
        /\ phase = "sync" => \A f \in Tagged[cur[2]] \union {Packages} :
                                cur \in mem[f] /\ (f < pos => cur \in disk[f])

RemoveProgress ==
    call = "remove" =>
        /\ phase \notin {"zero", "header"}
        /\ phase # "idle" => cur \notin installed /\ cur[1] =< maxid
        /\ phase \in {"index", "drop"} => cur \in Headers
        /\ phase = "index" => \A f \in Index : f < pos => cur \notin mem[f]
        /\ phase = "drop" => pos = 1 /\ \A f \in Index : cur \notin mem[f]
        /\ phase = "sync" => \A f \in File : cur \notin mem[f] /\ (f < pos => cur \notin disk[f])

Synced == phase = "sync" /\ Packages < pos => maxid = diskMaxid

\* The packages in _pkgs, and the counts, while a call is in progress.
CachesFollow ==
    /\ \A e \in pkgs : e \in Headers \/ (phase = "sync" /\ call = "remove" /\ e[1] = cur[1])
    /\ counted = NotRead \/ (phase = "idle" /\ counted = mem[Basenames])

Inv ==
    /\ TypeOK
    /\ IdsGiven /\ OnePerId
    /\ AddProgress /\ RemoveProgress /\ Synced
    /\ CachesFollow
    /\ InstalledIsFound
    /\ RemovedIsGone

-----------------------------------------------------------------------------
\* The invariant holds in every behaviour: one step for each action, under it
\* one for each conjunct that the action can disturb.
LEMMA InvHolds == Spec => []Inv
<1>1. Init => Inv
  <2> SUFFICES ASSUME Init PROVE Inv
    OBVIOUS
  <2>1. mem = [f \in File |-> {}] /\ disk = mem /\ phase = "idle"
    BY DEF Init
  <2>2. Headers = {} /\ disk[Packages] = {}
    BY <2>1, RpmDBAssumption DEF Headers, Index
  <2>3. TypeOK
    <3>1. mem \in [File -> SUBSET Entry] /\ disk \in [File -> SUBSET Entry]
      BY <2>1
    <3>2. maxid \in 0..MaxId /\ diskMaxid \in 0..MaxId /\ pos \in 1..NFiles + 1
      BY RpmDBAssumption DEF Init
    <3> QED
      BY <2>1, <3>1, <3>2 DEF Init, TypeOK
  <2>4. IdsGiven /\ OnePerId
    BY <2>2 DEF Init, IdsGiven, OnePerId, Unique
  <2>5. AddProgress /\ RemoveProgress /\ Synced
    BY <2>1 DEF Init, AddProgress, RemoveProgress, Synced
  <2>6. CachesFollow /\ InstalledIsFound /\ RemovedIsGone
    BY DEF Init, CachesFollow, InstalledIsFound, RemovedIsGone
  <2> QED
    BY <2>3, <2>4, <2>5, <2>6 DEF Inv
<1>2. Inv /\ [Next]_vars => Inv'
  <2> SUFFICES ASSUME Inv, [Next]_vars PROVE Inv'
    OBVIOUS
  <2> USE DEF fileVars, callVars, cacheVars, history
  <2>1. ASSUME NEW f \in Index, Search(f) PROVE Inv'
    <3>1. TypeOK'
      BY <2>1, RpmDBAssumption DEF Search, Inv, TypeOK, Headers
    <3>2. CachesFollow'
      BY <2>1 DEF Search, Inv, CachesFollow, Headers
    <3>3. IdsGiven' /\ OnePerId' /\ AddProgress' /\ RemoveProgress' /\ Synced'
          /\ InstalledIsFound' /\ RemovedIsGone'
      BY <2>1 DEF Search, Inv, IdsGiven, OnePerId, AddProgress,
         RemoveProgress, Synced, InstalledIsFound, RemovedIsGone, Headers
    <3> QED
      BY <3>1, <3>2, <3>3 DEF Inv
  <2>2. ASSUME CountFiles PROVE Inv'
    <3>1. TypeOK'
      BY <2>2, RpmDBAssumption DEF CountFiles, Inv, TypeOK, Headers, Index
    <3>2. CachesFollow'
      BY <2>2 DEF CountFiles, Idle, Inv, CachesFollow, Headers
    <3>3. IdsGiven' /\ OnePerId' /\ AddProgress' /\ RemoveProgress' /\ Synced'
          /\ InstalledIsFound' /\ RemovedIsGone'
      BY <2>2 DEF CountFiles, Inv, IdsGiven, OnePerId, AddProgress,
         RemoveProgress, Synced, InstalledIsFound, RemovedIsGone, Headers
    <3> QED
      BY <3>1, <3>2, <3>3 DEF Inv
  <2>3. ASSUME ReadObsoletes PROVE Inv'
    <3>1. TypeOK'
      BY <2>3, RpmDBAssumption DEF ReadObsoletes, HasObsoletes, Inv, TypeOK,
         Headers
    <3>2. CachesFollow'
      BY <2>3 DEF ReadObsoletes, Inv, CachesFollow, Headers
    <3>3. IdsGiven' /\ OnePerId' /\ AddProgress' /\ RemoveProgress' /\ Synced'
          /\ InstalledIsFound' /\ RemovedIsGone'
      BY <2>3 DEF ReadObsoletes, Inv, IdsGiven, OnePerId, AddProgress,
         RemoveProgress, Synced, InstalledIsFound, RemovedIsGone, Headers
    <3> QED
      BY <3>1, <3>2, <3>3 DEF Inv
  <2>4. ASSUME ReloadDependencies PROVE Inv'
    <3>1. TypeOK'
      BY <2>4 DEF ReloadDependencies, Inv, TypeOK
    <3>2. IdsGiven' /\ OnePerId' /\ AddProgress' /\ RemoveProgress' /\ Synced'
          /\ CachesFollow' /\ InstalledIsFound' /\ RemovedIsGone'
      BY <2>4 DEF ReloadDependencies, Inv, IdsGiven, OnePerId, AddProgress,
         RemoveProgress, Synced, CachesFollow, InstalledIsFound,
         RemovedIsGone, Headers
    <3> QED
      BY <3>1, <3>2 DEF Inv
  <2>5. ASSUME NEW h \in Header, AddPkg(h) PROVE Inv'
    <3>1. TypeOK'
      BY <2>5, RpmDBAssumption DEF AddPkg, ClearCounts, Inv, TypeOK, Id, Entry
    <3>2. AddProgress'
      BY <2>5 DEF AddPkg, Inv, TypeOK, IdsGiven, AddProgress
    <3>3. RemoveProgress'
      BY <2>5 DEF AddPkg, Inv, RemoveProgress
    <3>4. Synced'
      BY <2>5 DEF AddPkg, Inv, Synced
    <3>5. CachesFollow'
      BY <2>5 DEF AddPkg, Idle, ClearCounts, Inv, CachesFollow, Headers
    <3>6. IdsGiven' /\ OnePerId' /\ InstalledIsFound' /\ RemovedIsGone'
      BY <2>5 DEF AddPkg, Inv, IdsGiven, OnePerId, InstalledIsFound,
         RemovedIsGone, Headers
    <3> QED
      BY <3>1, <3>2, <3>3, <3>4, <3>5, <3>6 DEF Inv
  <2>6. ASSUME WriteZero PROVE Inv'
    <3>1. TypeOK'
      BY <2>6 DEF WriteZero, Inv, TypeOK, Id, Entry
    <3>2. IdsGiven'
      BY <2>6, RpmDBAssumption DEF WriteZero, Inv, TypeOK, IdsGiven,
         AddProgress, RemoveProgress, Headers, Id, Entry
    <3>3. AddProgress'
      BY <2>6, RpmDBAssumption DEF WriteZero, Inv, TypeOK, IdsGiven,
         AddProgress, Headers, Id, Entry
    <3>4. RemoveProgress'
      BY <2>6 DEF WriteZero, Inv, RemoveProgress
    <3>5. Synced'
      BY <2>6 DEF WriteZero, Inv, Synced
    <3>6. OnePerId' /\ CachesFollow' /\ InstalledIsFound' /\ RemovedIsGone'
      BY <2>6 DEF WriteZero, Inv, OnePerId, CachesFollow, InstalledIsFound,
         RemovedIsGone, Headers
    <3> QED
      BY <3>1, <3>2, <3>3, <3>4, <3>5, <3>6 DEF Inv
  <2>7. ASSUME WriteHeader PROVE Inv'
    <3>1. TypeOK'
      BY <2>7 DEF WriteHeader, Inv, TypeOK
    <3>2. IdsGiven'
      BY <2>7 DEF WriteHeader, Inv, TypeOK, IdsGiven, AddProgress,
         RemoveProgress, Headers
    <3>3. OnePerId'
      BY <2>7 DEF WriteHeader, WithId, Inv, OnePerId, Headers, Unique
    <3>4. AddProgress'
      BY <2>7, RpmDBAssumption DEF WriteHeader, Inv, TypeOK, AddProgress,
         Headers, File, Index, Entry
    <3>5. RemoveProgress'
      BY <2>7 DEF WriteHeader, Inv, RemoveProgress
    <3>6. Synced'
      BY <2>7 DEF WriteHeader, Inv, Synced
    <3>7. CachesFollow'
      BY <2>7 DEF WriteHeader, WithId, Inv, TypeOK, AddProgress,
         RemoveProgress, CachesFollow, Headers
    <3>8. InstalledIsFound'
      BY <2>7 DEF WriteHeader, WithId, Inv, TypeOK, AddProgress,
         RemoveProgress, InstalledIsFound, Headers
    <3>9. RemovedIsGone'
      BY <2>7 DEF WriteHeader, Inv, TypeOK, AddProgress, RemoveProgress,
         RemovedIsGone
    <3> QED
      BY <3>1, <3>2, <3>3, <3>4, <3>5, <3>6, <3>7, <3>8, <3>9 DEF Inv
  <2>8. ASSUME WriteIndex PROVE Inv'
    <3>1. TypeOK'
      BY <2>8, RpmDBAssumption DEF WriteIndex, WriteDB4, RemoveId, Inv,
         TypeOK, File
    <3>2. IdsGiven'
      BY <2>8 DEF WriteIndex, WriteDB4, RemoveId, Inv, IdsGiven, Headers
    <3>3. OnePerId'
      BY <2>8 DEF WriteIndex, WriteDB4, RemoveId, Inv, OnePerId, Headers
    <3>4. AddProgress'
      BY <2>8, RpmDBAssumption DEF WriteIndex, WriteDB4, Inv, TypeOK,
         AddProgress, Headers, Index
    <3>5. RemoveProgress'
      BY <2>8 DEF WriteIndex, RemoveId, Inv, TypeOK, RemoveProgress, Headers,
         Index, Entry
    <3>6. Synced'
      BY <2>8 DEF WriteIndex, Inv, Synced
    <3>7. CachesFollow'
      BY <2>8 DEF WriteIndex, WriteDB4, RemoveId, Inv, CachesFollow, Headers
    <3>8. InstalledIsFound'
      BY <2>8 DEF WriteIndex, WriteDB4, RemoveId, Inv, TypeOK,
         RemoveProgress, InstalledIsFound
    <3>9. RemovedIsGone'
      BY <2>8 DEF WriteIndex, WriteDB4, RemoveId, Inv, AddProgress,
         RemovedIsGone
    <3> QED
      BY <3>1, <3>2, <3>3, <3>4, <3>5, <3>6, <3>7, <3>8, <3>9 DEF Inv
  <2>9. ASSUME IndexesWritten PROVE Inv'
    <3>1. TypeOK'
      BY <2>9 DEF IndexesWritten, Inv, TypeOK
    <3>2. AddProgress'
      BY <2>9, RpmDBAssumption DEF IndexesWritten, Inv, TypeOK, AddProgress,
         Headers, File, Index, Entry
    <3>3. RemoveProgress'
      BY <2>9, RpmDBAssumption DEF IndexesWritten, Inv, RemoveProgress,
         Headers, File, Index
    <3>4. Synced'
      BY <2>9, RpmDBAssumption DEF IndexesWritten, Inv, Synced, File
    <3>5. CachesFollow'
      BY <2>9 DEF IndexesWritten, Inv, CachesFollow, Headers
    <3>6. IdsGiven' /\ OnePerId' /\ InstalledIsFound' /\ RemovedIsGone'
      BY <2>9 DEF IndexesWritten, Inv, IdsGiven, OnePerId, InstalledIsFound,
         RemovedIsGone, Headers
    <3> QED
      BY <3>1, <3>2, <3>3, <3>4, <3>5, <3>6 DEF Inv
  <2>10. ASSUME Sync PROVE Inv'
    <3>1. TypeOK'
      BY <2>10, RpmDBAssumption DEF Sync, Flushed, Inv, TypeOK, File
    <3>2. IdsGiven'
      BY <2>10 DEF Sync, Flushed, Inv, TypeOK, IdsGiven, Headers
    <3>3. OnePerId'
      BY <2>10 DEF Sync, Flushed, Inv, OnePerId, Headers
    <3>4. AddProgress'
      BY <2>10, RpmDBAssumption DEF Sync, Flushed, Inv, TypeOK, AddProgress,
         Headers, Index
    <3>5. RemoveProgress'
      BY <2>10 DEF Sync, Flushed, Inv, TypeOK, RemoveProgress
    <3>6. Synced'
      BY <2>10, RpmDBAssumption DEF Sync, Flushed, Inv, Synced, File
    <3>7. CachesFollow'
      BY <2>10 DEF Sync, Inv, CachesFollow, Headers
    <3>8. InstalledIsFound'
      BY <2>10 DEF Sync, Flushed, Inv, InstalledIsFound
    <3>9. RemovedIsGone'
      BY <2>10 DEF Sync, Flushed, Inv, RemovedIsGone
    <3> QED
      BY <3>1, <3>2, <3>3, <3>4, <3>5, <3>6, <3>7, <3>8, <3>9 DEF Inv
  <2>11. ASSUME AddPkgDone PROVE Inv'
    <3>1. TypeOK'
      BY <2>11 DEF AddPkgDone, ObsoletesWith, Inv, TypeOK
    <3>2. AddProgress'
      BY <2>11 DEF AddPkgDone, Inv, AddProgress
    <3>3. RemoveProgress'
      BY <2>11 DEF AddPkgDone, Inv, RemoveProgress
    <3>4. Synced'
      BY <2>11 DEF AddPkgDone, Inv, Synced
    <3>5. CachesFollow'
      BY <2>11 DEF AddPkgDone, Inv, AddProgress, CachesFollow, Headers
    <3>6. InstalledIsFound'
      BY <2>11, RpmDBAssumption DEF AddPkgDone, Inv, TypeOK, AddProgress,
         InstalledIsFound, File, Index, Entry
    <3>7. IdsGiven' /\ OnePerId' /\ RemovedIsGone'
      BY <2>11 DEF AddPkgDone, Inv, IdsGiven, OnePerId, RemovedIsGone, Headers
    <3> QED
      BY <3>1, <3>2, <3>3, <3>4, <3>5, <3>6, <3>7 DEF Inv
  <2>12. ASSUME NEW e \in pkgs, RemovePkg(e) PROVE Inv'
    <3>1. TypeOK'
      BY <2>12, RpmDBAssumption DEF RemovePkg, ClearCounts, Inv, TypeOK
    <3>2. AddProgress'
      BY <2>12 DEF RemovePkg, Inv, AddProgress
    <3>3. RemoveProgress'
      BY <2>12 DEF RemovePkg, Idle, Inv, IdsGiven, RemoveProgress,
         CachesFollow, Headers, File, Index
    <3>4. Synced'
      BY <2>12 DEF RemovePkg, Inv, Synced
    <3>5. CachesFollow'
      BY <2>12 DEF RemovePkg, Idle, ClearCounts, Inv, CachesFollow, Headers
    <3>6. InstalledIsFound'
      BY <2>12 DEF RemovePkg, Inv, InstalledIsFound
    <3>7. IdsGiven' /\ OnePerId' /\ RemovedIsGone'
      BY <2>12 DEF RemovePkg, Inv, IdsGiven, OnePerId, RemovedIsGone, Headers
    <3> QED
      BY <3>1, <3>2, <3>3, <3>4, <3>5, <3>6, <3>7 DEF Inv
  <2>13. ASSUME DropHeader PROVE Inv'
    <3>1. TypeOK'
      BY <2>13 DEF DropHeader, Inv, TypeOK
    <3>2. IdsGiven'
      BY <2>13 DEF DropHeader, Inv, IdsGiven, Headers
    <3>3. OnePerId'
      BY <2>13 DEF DropHeader, Inv, OnePerId, Headers, Unique
    <3>4. AddProgress'
      BY <2>13 DEF DropHeader, Inv, AddProgress
    <3>5. RemoveProgress'
      BY <2>13 DEF DropHeader, WithId, Inv, TypeOK, RemoveProgress, File,
         Index
    <3>6. Synced'
      BY <2>13, RpmDBAssumption DEF DropHeader, Inv, TypeOK, AddProgress,
         RemoveProgress, Synced, File
    <3>7. CachesFollow'
      BY <2>13 DEF DropHeader, WithId, Inv, TypeOK, AddProgress,
         CachesFollow, Headers
    <3>8. InstalledIsFound'
      BY <2>13 DEF DropHeader, WithId, Inv, TypeOK, OnePerId, AddProgress,
         RemoveProgress, InstalledIsFound, Headers, Unique
    <3>9. RemovedIsGone'
      BY <2>13 DEF DropHeader, Inv, RemovedIsGone
    <3> QED
      BY <3>1, <3>2, <3>3, <3>4, <3>5, <3>6, <3>7, <3>8, <3>9 DEF Inv
  <2>14. ASSUME RemovePkgDone PROVE Inv'
    <3>1. TypeOK'
      BY <2>14 DEF RemovePkgDone, Forgotten, Inv, TypeOK
    <3>2. IdsGiven'
      BY <2>14, RpmDBAssumption DEF RemovePkgDone, Inv, IdsGiven,
         RemoveProgress, Synced, Headers, File
    <3>3. AddProgress'
      BY <2>14 DEF RemovePkgDone, Inv, AddProgress
    <3>4. RemoveProgress'
      BY <2>14 DEF RemovePkgDone, Inv, RemoveProgress
    <3>5. Synced'
      BY <2>14 DEF RemovePkgDone, Inv, Synced
    <3>6. CachesFollow'
      BY <2>14 DEF RemovePkgDone, Forgotten, WithId, Inv, CachesFollow,
         Headers
    <3>7. RemovedIsGone'
      BY <2>14, RpmDBAssumption DEF RemovePkgDone, Inv, RemoveProgress,
         RemovedIsGone, File
    <3>8. OnePerId' /\ InstalledIsFound'
      BY <2>14 DEF RemovePkgDone, Inv, OnePerId, InstalledIsFound, Headers
    <3> QED
      BY <3>1, <3>2, <3>3, <3>4, <3>5, <3>6, <3>7, <3>8 DEF Inv
  <2>15. ASSUME Fail PROVE Inv'
    <3>1. TypeOK'
      <4>1. phase # "idle" /\ cur \in Entry
        BY <2>15 DEF Fail, Inv, TypeOK
      <4>2. cur[1] \in Id
        BY <4>1 DEF Entry
      <4>3. renamed' \subseteq Id /\ pkgs' \subseteq Entry
        BY <2>15, <4>2 DEF Fail, Forgotten, Inv, TypeOK
      <4> QED
        BY <2>15, <4>3, RpmDBAssumption DEF Fail, Inv, TypeOK
    <3>2. AddProgress'
      BY <2>15 DEF Fail, Inv, AddProgress
    <3>3. RemoveProgress'
      BY <2>15 DEF Fail, Inv, RemoveProgress
    <3>4. Synced'
      BY <2>15 DEF Fail, Inv, Synced
    <3>5. CachesFollow'
      BY <2>15 DEF Fail, Forgotten, WithId, Inv, CachesFollow, Headers
    <3>6. IdsGiven' /\ OnePerId' /\ InstalledIsFound' /\ RemovedIsGone'
      BY <2>15 DEF Fail, Inv, IdsGiven, OnePerId, InstalledIsFound,
         RemovedIsGone, Headers
    <3> QED
      BY <3>1, <3>2, <3>3, <3>4, <3>5, <3>6 DEF Inv
  <2>16. ASSUME NEW f \in File, Flush(f) PROVE Inv'
    <3>1. TypeOK'
      BY <2>16 DEF Flush, Flushed, Inv, TypeOK
    <3>2. IdsGiven'
      BY <2>16 DEF Flush, Flushed, Inv, TypeOK, IdsGiven, Headers
    <3>3. OnePerId'
      BY <2>16 DEF Flush, Flushed, Inv, OnePerId, Headers
    <3>4. AddProgress'
      BY <2>16 DEF Flush, Flushed, Inv, AddProgress, Headers
    <3>5. RemoveProgress'
      BY <2>16 DEF Flush, Flushed, Inv, RemoveProgress, Headers
    <3>6. Synced'
      BY <2>16 DEF Flush, Flushed, Inv, Synced
    <3>7. InstalledIsFound'
      BY <2>16 DEF Flush, Flushed, Inv, IdsGiven, InstalledIsFound
    <3>8. RemovedIsGone'
      BY <2>16 DEF Flush, Flushed, Inv, RemovedIsGone
    <3>9. CachesFollow'
      BY <2>16 DEF Flush, Inv, CachesFollow, Headers
    <3> QED
      BY <3>1, <3>2, <3>3, <3>4, <3>5, <3>6, <3>7, <3>8, <3>9 DEF Inv
  <2>17. ASSUME Crash PROVE Inv'
    <3>1. TypeOK'
      BY <2>17, RpmDBAssumption DEF Crash, Inv, TypeOK
    <3>2. IdsGiven'
      BY <2>17 DEF Crash, Inv, IdsGiven, Headers
    <3>3. OnePerId'
      BY <2>17 DEF Crash, Inv, OnePerId, Headers
    <3>4. AddProgress'
      BY <2>17 DEF Crash, Inv, AddProgress
    <3>5. RemoveProgress'
      BY <2>17 DEF Crash, Inv, RemoveProgress
    <3>6. Synced'
      BY <2>17 DEF Crash, Inv, Synced
    <3>7. CachesFollow'
      BY <2>17 DEF Crash, Inv, CachesFollow
    <3>8. InstalledIsFound'
      BY <2>17 DEF Crash, Inv, InstalledIsFound
    <3>9. RemovedIsGone'
      BY <2>17 DEF Crash, Inv, RemovedIsGone
    <3> QED
      BY <3>1, <3>2, <3>3, <3>4, <3>5, <3>6, <3>7, <3>8, <3>9 DEF Inv
  <2>18. ASSUME UNCHANGED vars PROVE Inv'
    BY <2>18 DEF vars, Inv, TypeOK, IdsGiven, OnePerId, AddProgress,
       RemoveProgress, Synced, CachesFollow, InstalledIsFound, RemovedIsGone,
       Headers, Unique
  <2> QED
    BY <2>1, <2>2, <2>3, <2>4, <2>5, <2>6, <2>7, <2>8, <2>9, <2>10, <2>11,
       <2>12, <2>13, <2>14, <2>15, <2>16, <2>17, <2>18 DEF Next
<1> QED
  BY <1>1, <1>2, PTL DEF Spec

-----------------------------------------------------------------------------
\* The variables keep their types; in particular no id above MaxId is given
\* and no file beyond the last is written.
THEOREM TypeCorrect == Spec => []TypeOK
<1>1. Inv => TypeOK
  BY DEF Inv
<1> QED
  BY <1>1, InvHolds, PTL

\* What addPkg reported as added is found through every index, in memory and on
\* disk, until its removal is asked for, whatever fails or crashes meanwhile.
THEOREM InstalledIsFoundHolds == Spec => []InstalledIsFound
<1>1. Inv => InstalledIsFound
  BY DEF Inv
<1> QED
  BY <1>1, InvHolds, PTL

\* What removePkg reported as removed never comes back, in memory or on disk.
THEOREM RemovedIsGoneHolds == Spec => []RemovedIsGone
<1>1. Inv => RemovedIsGone
  BY DEF Inv
<1> QED
  BY <1>1, InvHolds, PTL

\* The headers as obsoletes_list should know them: those of the last finished
\* call, which the one in progress may have changed already.
Settled ==
    IF call = "add" /\ phase \in {"index", "sync"} THEN Headers \ {cur}
    ELSE IF call = "remove" /\ phase = "sync" THEN Headers \union {cur}
    ELSE Headers

ObsoletesFollow ==
    ~failed => /\ renamed = {}
               /\ ret # "raised"
               /\ obsoletes = NotRead \/ obsoletes = HasObsoletes(Settled)

\* obsoletes_list, once it is read, is kept up to date by every call that ends
\* well, and no removal finds it without the package.
LEMMA ObsoletesFollowHolds == Spec => []ObsoletesFollow
<1>1. Init => ObsoletesFollow
  BY DEF Init, ObsoletesFollow
<1>2. Inv /\ ObsoletesFollow /\ [Next]_vars => ObsoletesFollow'
  <2> SUFFICES ASSUME Inv, ObsoletesFollow, [Next]_vars, ~failed'
               PROVE /\ renamed' = {}
                     /\ ret' # "raised"
                     /\ obsoletes' = NotRead \/ obsoletes' = HasObsoletes(Settled)'
    BY DEF ObsoletesFollow
  <2> USE DEF fileVars, callVars, cacheVars, history
  <2>1. CASE Crash
    BY <2>1 DEF Crash
  <2>2. CASE \E f \in Index : Search(f)
    BY <2>2 DEF Search, ObsoletesFollow, Settled, Headers, HasObsoletes
  <2>3. CASE CountFiles \/ ReloadDependencies
    BY <2>3 DEF CountFiles, ReloadDependencies, Idle, ObsoletesFollow, Settled, Headers,
       HasObsoletes
  <2>4. CASE ReadObsoletes
    BY <2>4 DEF ReadObsoletes, Idle, ObsoletesFollow, Settled, Headers, HasObsoletes
  <2>5. CASE \E h \in Header : AddPkg(h)
    BY <2>5 DEF AddPkg, Idle, ObsoletesFollow, Settled, Headers, HasObsoletes
  <2>6. CASE WriteZero
    BY <2>6 DEF WriteZero, ObsoletesFollow, Settled, Headers, HasObsoletes
  <2>7. CASE WriteHeader
    <3>1. call = "add" /\ phase = "header" /\ phase' = "index" /\ call' = "add"
      BY <2>7 DEF WriteHeader, Inv, TypeOK, RemoveProgress
    <3>2. Headers' = (Headers \ WithId(Headers, cur[1])) \union {cur}
      BY <2>7, RpmDBAssumption DEF WriteHeader, Headers, Inv, TypeOK, Index
    <3>3. \A e \in Headers : e[1] \in Int /\ e[1] < cur[1] /\ cur[1] \in Int
      <4>1. Headers \subseteq Entry
        BY RpmDBAssumption DEF Headers, Inv, TypeOK
      <4>2. cur \in Entry
        BY <3>1 DEF Inv, TypeOK
      <4> QED
        BY <3>1, <4>1, <4>2 DEF Inv, AddProgress, Entry, Id
    <3>4. WithId(Headers, cur[1]) = {} /\ cur \notin Headers
      BY <3>3 DEF WithId
    <3>5. Settled' = Headers /\ Settled = Headers
      BY <3>1, <3>2, <3>4, <2>7 DEF Settled, WriteHeader
    <3> QED
      BY <2>7, <3>5 DEF WriteHeader, ObsoletesFollow, HasObsoletes
  <2>8. CASE WriteIndex
    <3>1. Headers' = Headers
      BY <2>8 DEF WriteIndex, WriteDB4, RemoveId, Headers, Inv, TypeOK
    <3> QED
      BY <2>8, <3>1 DEF WriteIndex, ObsoletesFollow, Settled, HasObsoletes
  <2>9. CASE IndexesWritten
    BY <2>9 DEF IndexesWritten, Inv, TypeOK, ObsoletesFollow, Settled, Headers, HasObsoletes
  <2>10. CASE Sync \/ \E f \in File : Flush(f)
    BY <2>10 DEF Sync, Flush, ObsoletesFollow, Settled, Headers, HasObsoletes
  <2>11. CASE AddPkgDone
    <3>1. cur \in Headers /\ Headers' = Headers
      BY <2>11 DEF AddPkgDone, Inv, AddProgress, Headers
    <3>2. Settled = Headers \ {cur} /\ Settled' = Headers
      BY <2>11, <3>1 DEF AddPkgDone, Settled
    <3> QED
      BY <2>11, <3>1, <3>2 DEF AddPkgDone, ObsoletesFollow, ObsoletesWith, HasObsoletes
  <2>12. CASE \E e \in pkgs : RemovePkg(e)
    BY <2>12 DEF RemovePkg, Idle, ObsoletesFollow, Settled, Headers, HasObsoletes
  <2>13. CASE DropHeader
    <3>1. call = "remove" /\ phase = "drop" /\ cur \in Headers
      BY <2>13 DEF DropHeader, Inv, TypeOK, AddProgress, RemoveProgress
    <3>2. Headers' = Headers \ WithId(Headers, cur[1])
      BY <2>13, RpmDBAssumption DEF DropHeader, Headers, Inv, TypeOK, Index
    <3>3. WithId(Headers, cur[1]) = {cur}
      BY <3>1 DEF WithId, Inv, OnePerId, Unique
    <3>4. Settled' = Headers /\ Settled = Headers
      BY <2>13, <3>1, <3>2, <3>3 DEF DropHeader, Settled
    <3> QED
      BY <2>13, <3>4 DEF DropHeader, ObsoletesFollow, HasObsoletes
  <2>14. CASE RemovePkgDone
    <3>1. cur \notin Headers /\ Headers' = Headers
      BY <2>14, RpmDBAssumption DEF RemovePkgDone, Inv, RemoveProgress, Headers, Index
    <3>2. Settled = Headers \union {cur} /\ Settled' = Headers
      BY <2>14, <3>1 DEF RemovePkgDone, Settled
    <3>3. renamed = {} /\ (obsoletes = NotRead \/ obsoletes = HasObsoletes(Headers \union {cur}))
      BY <2>14, <3>2 DEF RemovePkgDone, ObsoletesFollow
    <3>4. obsoletes # NotRead => (cur \in obsoletes <=> cur[2] \in Obsoleting)
      BY <3>3 DEF HasObsoletes
    <3>5. obsoletes # NotRead => HasObsoletes(Headers) = obsoletes \ {cur}
      BY <3>1, <3>3 DEF HasObsoletes
    <3>6. ret' # "raised"
      BY <2>14, <3>3, <3>4 DEF RemovePkgDone
    <3>7. obsoletes' = NotRead \/ obsoletes' = HasObsoletes(Headers)
      <4>1. CASE obsoletes' = obsoletes \ {cur}
        BY <3>5, <4>1, <2>14 DEF RemovePkgDone
      <4>2. CASE obsoletes' = obsoletes /\ (obsoletes \in {NotRead, {}} \/ cur[2] \notin Obsoleting)
        <5>1. obsoletes = NotRead \/ obsoletes \ {cur} = obsoletes
          BY <3>4, <4>2
        <5> QED
          BY <3>5, <4>2, <5>1
      <4> QED
        BY <2>14, <3>6, <4>1, <4>2 DEF RemovePkgDone
    <3> QED
      BY <2>14, <3>2, <3>3, <3>6, <3>7 DEF RemovePkgDone, HasObsoletes
  <2>15. CASE Fail
    BY <2>15 DEF Fail
  <2>16. CASE UNCHANGED vars
    BY <2>16 DEF vars, ObsoletesFollow, Settled, Headers, HasObsoletes
  <2> QED
    BY <2>1, <2>2, <2>3, <2>4, <2>5, <2>6, <2>7, <2>8, <2>9, <2>10, <2>11, <2>12, <2>13,
       <2>14, <2>15, <2>16 DEF Next
<1> QED
  BY <1>1, <1>2, InvHolds, PTL DEF Spec

\* Between calls the package cache and the file counts agree with the files,
\* and as long as no call has failed the list of obsoletes does as well.
THEOREM CachesAgreeHolds == Spec => []CachesAgree
<1>1. Inv /\ ObsoletesFollow => CachesAgree
  BY DEF Inv, CachesAgree, CachesFollow, ObsoletesFollow, Settled
<1> QED
  BY <1>1, InvHolds, ObsoletesFollowHolds, PTL

\* Until the process has died, every index entry leads to the header it was
\* made from: writes are ordered so that no failure in between breaks that.
THEOREM EntriesHaveHeadersHolds == Spec => []EntriesHaveHeaders
<1>1. Init => EntriesHaveHeaders
  BY DEF Init, EntriesHaveHeaders, Index
<1>2. Inv /\ EntriesHaveHeaders /\ [Next]_vars => EntriesHaveHeaders'
  <2> SUFFICES ASSUME Inv, EntriesHaveHeaders, [Next]_vars, ~crashed'
               PROVE \A f \in Index : mem'[f] \subseteq Headers'
    BY DEF EntriesHaveHeaders
  <2> USE DEF fileVars, callVars, cacheVars, history
  <2>1. CASE WriteHeader
    <3>1. Headers' = (Headers \ WithId(Headers, cur[1])) \union {cur}
      BY <2>1, RpmDBAssumption DEF WriteHeader, Headers, Inv, TypeOK, Index
    <3>2. \A f \in Index : mem'[f] = mem[f]
      BY <2>1 DEF WriteHeader, Inv, TypeOK, Index
    <3>3. ~crashed /\ phase = "header" /\ cur \in Entry
      BY <2>1 DEF WriteHeader, Inv, TypeOK
    <3>4. call = "add"
      BY <3>3 DEF Inv, TypeOK, RemoveProgress
    <3>5. \A e \in Headers : e[1] < cur[1]
      BY <3>3, <3>4 DEF Inv, AddProgress
    <3>6. \A e \in Headers : e[1] \in Int /\ cur[1] \in Int
      <4>1. Headers \subseteq Entry
        BY RpmDBAssumption DEF Headers, Inv, TypeOK
      <4> QED
        BY <3>3, <4>1 DEF Entry, Id
    <3>7. WithId(Headers, cur[1]) = {}
      BY <3>5, <3>6 DEF WithId
    <3> QED
      BY <3>1, <3>2, <3>3, <3>7 DEF EntriesHaveHeaders
  <2>2. CASE WriteIndex
    <3>1. Headers' = Headers /\ ~crashed
      BY <2>2 DEF WriteIndex, WriteDB4, RemoveId, Headers, Inv, TypeOK
    <3>2. cur \in Headers
      BY <2>2 DEF WriteIndex, Inv, TypeOK, AddProgress, RemoveProgress
    <3>3. \A f \in Index : mem'[f] \subseteq mem[f] \union {cur}
      BY <2>2 DEF WriteIndex, WriteDB4, RemoveId, Inv, TypeOK, Index
    <3> QED
      BY <3>1, <3>2, <3>3 DEF EntriesHaveHeaders
  <2>3. CASE DropHeader
    <3>1. \A f \in Index : mem'[f] = mem[f] /\ cur \notin mem[f]
      BY <2>3 DEF DropHeader, Inv, TypeOK, AddProgress, RemoveProgress, Index
    <3>2. Headers' = Headers \ WithId(Headers, cur[1])
      BY <2>3, RpmDBAssumption DEF DropHeader, Headers, Inv, TypeOK, Index
    <3>3. cur \in Headers /\ ~crashed
      BY <2>3 DEF DropHeader, Inv, TypeOK, AddProgress, RemoveProgress
    <3>4. WithId(Headers, cur[1]) = {cur}
      BY <3>3 DEF WithId, Inv, OnePerId, Unique
    <3> QED
      BY <3>1, <3>2, <3>3, <3>4 DEF EntriesHaveHeaders
  <2>4. CASE UNCHANGED <<mem, crashed>>
    BY <2>4 DEF EntriesHaveHeaders, Headers
  <2>5. WriteHeader \/ WriteIndex \/ DropHeader \/ UNCHANGED <<mem, crashed>>
    <3>1. ~Crash
      BY DEF Crash
    <3> QED
      BY <3>1 DEF Next, vars, Search, CountFiles, ReadObsoletes, ReloadDependencies,
         AddPkg, WriteZero, IndexesWritten, Sync, AddPkgDone, RemovePkg,
         RemovePkgDone, Fail, Flush
  <2> QED
    BY <2>1, <2>2, <2>3, <2>4, <2>5
<1> QED
  BY <1>1, <1>2, InvHolds, PTL DEF Spec

=============================================================================
