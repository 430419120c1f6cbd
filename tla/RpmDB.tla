-------------------------------- MODULE RpmDB --------------------------------
(***************************************************************************)
(* RpmDB (pyrpm/database/rpmdb.py): the RPM database, one Berkeley DB file *)
(* of headers and fourteen index files, written one after the other by     *)
(* addPkg and removePkg and synced at the end of each call.                *)
(*                                                                         *)
(* The files are numbered in the order in which they are written and       *)
(* synced.  A file is a set of entries <<id, h>>: the header h is stored   *)
(* under id, or the keys that h has for an index lead to id.  What the     *)
(* program reads and writes is `mem`; what survives it is `disk`, which    *)
(* Berkeley DB may bring up to date at any moment and does in sync().      *)
(***************************************************************************)
EXTENDS Integers

CONSTANTS
    Header,     \* package headers
    MaxId,      \* bound: ids are given up to this number
    NFiles,
    Packages,   \* the number of the file of headers
    Basenames,  \* the number of the index that numFileDuplicates reads
    Tagged,     \* the indexes a header has keys for
    Obsoleting, \* the headers with Obsoletes:
    Fails       \* Berkeley DB may raise an error

File == 1..NFiles
Index == File \ {Packages}
Id == 1..MaxId

ASSUME RpmDBAssumption ==
    /\ MaxId \in Nat
    /\ NFiles \in Nat
    /\ Packages \in File
    /\ Basenames \in Index
    /\ Tagged \in [Header -> SUBSET Index]
    /\ Obsoleting \subseteq Header
    /\ Fails \in BOOLEAN

VARIABLES
    mem, disk,         \* the files
    maxid, diskMaxid,  \* packages_db[zero], part of the file of headers
    phase, call, cur,  \* the call in progress: which, on what, how far
    pos,               \*   and the number of the next file
    pkgs,              \* _pkgs: the packages cached by id
    counted,           \* basenames_cache: the entries of Basenames when it was filled
    obsoletes,         \* obsoletes_list
    renamed,           \* ids whose object in obsoletes_list is no longer in _pkgs
    ret,               \* what the last call returned
    installed, removed, failed, crashed  \* history: see the properties

fileVars == <<mem, disk, maxid, diskMaxid>>
callVars == <<phase, call, cur, pos, ret>>
cacheVars == <<pkgs, counted, obsoletes, renamed>>
history == <<installed, removed, failed, crashed>>
vars == <<mem, disk, maxid, diskMaxid, phase, call, cur, pos, ret,
          pkgs, counted, obsoletes, renamed, installed, removed, failed, crashed>>

Entry == Id \X Header
NotRead == {<<0, "not read">>}
NoEntry == <<0, "none">>

TypeOK ==
    /\ mem \in [File -> SUBSET Entry]
    /\ disk \in [File -> SUBSET Entry]
    /\ maxid \in 0..MaxId
    /\ diskMaxid \in 0..MaxId
    /\ phase \in {"idle", "zero", "header", "index", "drop", "sync"}
    /\ call \in {"add", "remove"}
    /\ phase # "idle" => cur \in Entry
    /\ pos \in 1..NFiles + 1
    /\ ret \in {"1", "0", "raised"}
    /\ pkgs \subseteq Entry
    /\ counted = NotRead \/ counted \subseteq Entry
    /\ obsoletes = NotRead \/ obsoletes \subseteq Entry
    /\ renamed \subseteq Id
    /\ installed \subseteq Entry
    /\ removed \subseteq Entry
    /\ {failed, crashed} \subseteq BOOLEAN

Init ==
    /\ mem = [f \in File |-> {}]
    /\ disk = mem
    /\ maxid = 0 /\ diskMaxid = 0
    /\ phase = "idle" /\ call = "add" /\ cur = NoEntry /\ pos = 1
    /\ ret = "1"
    /\ pkgs = {} /\ counted = NotRead /\ obsoletes = NotRead /\ renamed = {}
    /\ installed = {} /\ removed = {} /\ failed = FALSE /\ crashed = FALSE

Idle == phase = "idle" /\ ret # "raised"
Headers == mem[Packages]
HasObsoletes(S) == {e \in S : e[2] \in Obsoleting}
WithId(S, id) == {e \in S : e[1] = id}

-----------------------------------------------------------------------------
(* Reading                                                                 *)

\* getPkgById for what an index leads to.  An id without a header raises
\* KeyError and ends the program: what Crash does.
Search(f) ==
    /\ Idle
    /\ \A e \in mem[f] : WithId(Headers, e[1]) # {}
    /\ pkgs' = pkgs \union {e \in Headers : WithId(mem[f], e[1]) # {}}
    /\ UNCHANGED <<fileVars, callVars, counted, obsoletes, renamed, history>>

\* numFileDuplicates
CountFiles ==
    /\ Idle
    /\ counted = NotRead
    /\ \A e \in mem[Basenames] : WithId(Headers, e[1]) # {}
    /\ counted' = mem[Basenames]
    /\ pkgs' = pkgs \union {e \in Headers : WithId(mem[Basenames], e[1]) # {}}
    /\ UNCHANGED <<fileVars, callVars, obsoletes, renamed, history>>

\* _readObsoletes, at the first search for obsoletes.
ReadObsoletes ==
    /\ Idle
    /\ obsoletes = NotRead
    /\ obsoletes' = HasObsoletes(Headers)
    /\ pkgs' = pkgs \union Headers
    /\ UNCHANGED <<fileVars, callVars, counted, renamed, history>>

ReloadDependencies ==
    /\ Idle
    /\ obsoletes' = NotRead
    /\ renamed' = {}
    /\ UNCHANGED <<fileVars, callVars, pkgs, counted, history>>

-----------------------------------------------------------------------------
(* addPkg                                                                  *)

ClearCounts == counted' = NotRead

AddPkg(h) ==
    /\ Idle
    /\ maxid < MaxId
    /\ phase' = "zero" /\ call' = "add" /\ cur' = <<maxid + 1, h>> /\ pos' = 1
    /\ ClearCounts
    /\ UNCHANGED <<fileVars, ret, pkgs, obsoletes, renamed, history>>

Mut_WriteZeroKeeps ==
    /\ phase = "zero"
    /\ phase' = "header"
    /\ UNCHANGED <<fileVars, call, cur, pos, ret, cacheVars, history>>

WriteZero ==
    /\ phase = "zero"
    /\ maxid' = cur[1]
    /\ phase' = "header"
    /\ UNCHANGED <<mem, disk, diskMaxid, call, cur, pos, ret, cacheVars, history>>

WriteHeader ==
    /\ phase = "header"
    /\ mem' = [mem EXCEPT ![Packages] = (@ \ WithId(@, cur[1])) \union {cur}]
    /\ phase' = "index"
    /\ UNCHANGED <<disk, maxid, diskMaxid, call, cur, pos, ret, cacheVars, history>>

\* __writeDB4: nothing is written to an index the header has no keys for.
WriteDB4(f, e) == [mem EXCEPT ![f] = IF f \in Tagged[e[2]] THEN @ \union {e} ELSE @]

Mut_RemoveIdSkipsLast(f, e) == [mem EXCEPT ![f] = IF f = NFiles THEN @ ELSE @ \ {e}]

\* __removeId
RemoveId(f, e) == [mem EXCEPT ![f] = @ \ {e}]

\* The next index is written, or an entry removed from it; after the last one
\* comes the sync, in removePkg the header first.
WriteIndex ==
    /\ phase = "index"
    /\ pos \in File
    /\ mem' = IF pos = Packages THEN mem
              ELSE IF call = "add" THEN WriteDB4(pos, cur) ELSE RemoveId(pos, cur)
    /\ pos' = pos + 1
    /\ UNCHANGED <<disk, maxid, diskMaxid, phase, call, cur, ret, cacheVars, history>>

Mut_IndexesWrittenNoSync ==
    /\ phase = "index"
    /\ pos = NFiles + 1
    /\ phase' = IF call = "add" THEN "sync" ELSE "drop"
    /\ UNCHANGED <<fileVars, call, cur, pos, ret, cacheVars, history>>

IndexesWritten ==
    /\ phase = "index"
    /\ pos = NFiles + 1
    /\ pos' = 1
    /\ phase' = IF call = "add" THEN "sync" ELSE "drop"
    /\ UNCHANGED <<fileVars, call, cur, ret, cacheVars, history>>

Flushed(f) ==
    /\ disk' = [disk EXCEPT ![f] = mem[f]]
    /\ diskMaxid' = IF f = Packages THEN maxid ELSE diskMaxid

Sync ==
    /\ phase = "sync"
    /\ pos \in File
    /\ Flushed(pos)
    /\ pos' = pos + 1
    /\ UNCHANGED <<mem, maxid, phase, call, cur, ret, cacheVars, history>>

Mut_ObsoletesWithout(e) == obsoletes

\* obsoletes_list, if it was read, with a new package.
ObsoletesWith(e) ==
    IF e[2] \in Obsoleting /\ obsoletes # NotRead THEN obsoletes \union {e} ELSE obsoletes

AddPkgDone ==
    /\ phase = "sync" /\ pos = NFiles + 1 /\ call = "add"
    /\ phase' = "idle" /\ ret' = "1" /\ pos' = 1
    /\ obsoletes' = ObsoletesWith(cur)
    /\ pkgs' = IF obsoletes' # obsoletes THEN pkgs \union {cur} ELSE pkgs
    /\ installed' = installed \union {cur}
    /\ UNCHANGED <<fileVars, call, cur, counted, renamed, removed, failed, crashed>>

-----------------------------------------------------------------------------
(* removePkg, called with a package a search has returned.                 *)

RemovePkg(e) ==
    /\ Idle
    /\ e \in pkgs
    /\ phase' = "index" /\ call' = "remove" /\ cur' = e /\ pos' = 1
    /\ ClearCounts
    /\ installed' = installed \ {e}
    /\ UNCHANGED <<fileVars, ret, pkgs, obsoletes, renamed, removed, failed, crashed>>

DropHeader ==
    /\ phase = "drop"
    /\ mem' = [mem EXCEPT ![Packages] = @ \ WithId(@, cur[1])]
    /\ phase' = "sync"
    /\ UNCHANGED <<disk, maxid, diskMaxid, call, cur, pos, ret, cacheVars, history>>

Mut_ForgottenNot(e) == UNCHANGED pkgs

\* _pkgs.pop, whether the removal succeeded or not.
Forgotten(e) == pkgs' = pkgs \ WithId(pkgs, e[1])

\* obsoletes_list.removePkg looks for this very object and raises if the list
\* has another one, or none.
RemovePkgDone ==
    /\ phase = "sync" /\ pos = NFiles + 1 /\ call = "remove"
    /\ phase' = "idle" /\ pos' = 1
    /\ Forgotten(cur)
    /\ removed' = removed \union {cur}
    /\ IF obsoletes \in {NotRead, {}} \/ cur[2] \notin Obsoleting
       THEN ret' = "1" /\ UNCHANGED obsoletes
       ELSE IF cur \in obsoletes /\ cur[1] \notin renamed
       THEN ret' = "1" /\ obsoletes' = obsoletes \ {cur}
       ELSE ret' = "raised" /\ UNCHANGED obsoletes
    /\ UNCHANGED <<fileVars, call, cur, counted, renamed, installed, failed, crashed>>

-----------------------------------------------------------------------------
(* bsddb.error at any write or sync: 0 is returned and nothing is undone.  *)

Fail ==
    /\ Fails
    /\ phase # "idle"
    /\ phase' = "idle" /\ ret' = "0" /\ pos' = 1
    /\ failed' = TRUE
    /\ IF call = "remove"
       THEN /\ Forgotten(cur)
            /\ renamed' = IF cur \in obsoletes THEN renamed \union {cur[1]} ELSE renamed
       ELSE UNCHANGED <<pkgs, renamed>>
    /\ UNCHANGED <<fileVars, call, cur, counted, obsoletes, installed, removed, crashed>>

\* Berkeley DB writes a file out of its cache.
Flush(f) ==
    /\ mem[f] # disk[f] \/ (f = Packages /\ maxid # diskMaxid)
    /\ Flushed(f)
    /\ UNCHANGED <<mem, maxid, callVars, cacheVars, history>>

\* The process dies, or ends by an exception, and another one opens the files.
Crash ==
    /\ mem' = disk /\ maxid' = diskMaxid
    /\ phase' = "idle" /\ pos' = 1 /\ ret' = "1"
    /\ pkgs' = {} /\ counted' = NotRead /\ obsoletes' = NotRead /\ renamed' = {}
    /\ crashed' = TRUE
    /\ UNCHANGED <<disk, diskMaxid, call, cur, installed, removed, failed>>

Next ==
    \/ \E f \in Index : Search(f)
    \/ CountFiles
    \/ ReadObsoletes
    \/ ReloadDependencies
    \/ \E h \in Header : AddPkg(h)
    \/ WriteZero
    \/ WriteHeader
    \/ WriteIndex
    \/ IndexesWritten
    \/ Sync
    \/ AddPkgDone
    \/ \E e \in pkgs : RemovePkg(e)
    \/ DropHeader
    \/ RemovePkgDone
    \/ Fail
    \/ \E f \in File : Flush(f)
    \/ Crash

Spec == Init /\ [][Next]_vars

-----------------------------------------------------------------------------
(* What the database promises.                                             *)

\* As long as the program has not died, whatever write failed in whichever
\* call: every index entry leads to the header it was made from, so that no
\* search raises KeyError or returns a package the key does not belong to.
EntriesHaveHeaders == ~crashed => \A f \in Index : mem[f] \subseteq Headers

\* What addPkg reported as added, and nobody asked to remove, is found through
\* every index it has keys for, also after other calls have failed and after
\* the process has died at any point.
InstalledIsFound ==
    \A e \in installed : \A f \in Tagged[e[2]] \union {Packages} : e \in mem[f] /\ e \in disk[f]

\* Of what removePkg reported as removed no entry is left in any file, and
\* none comes back.
RemovedIsGone == \A f \in File : removed \intersect (mem[f] \union disk[f]) = {}

\* The package cache and the cached counts of files agree with the files
\* whenever no call is in progress.  As long as no call has failed so does
\* obsoletes_list, and no removal raises because of it.
CachesAgree ==
    phase = "idle" =>
        /\ pkgs \subseteq Headers
        /\ counted \in {NotRead, mem[Basenames]}
        /\ ~failed => ret # "raised" /\ obsoletes \in {NotRead, HasObsoletes(Headers)}

=============================================================================
