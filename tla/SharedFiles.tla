---------------------------- MODULE SharedFiles ------------------------------
(***************************************************************************)
(* A path that several packages have: what the resolver takes for a        *)
(* conflict (resolver.py), what installing and erasing the packages it     *)
(* lets through in some order leaves on disk, and what verify() makes of   *)
(* it (package.py).  Owners are names in a package and numbers on disk:    *)
(* every package has a cache of the numbers, and %pre makes new accounts.  *)
(*                                                                         *)
(* The file is not a configuration file, and nobody but the packages       *)
(* changes it.  A file of a package is [type, perm, user, group, data,     *)
(* ghost, color], where data has a length and is the target of a link.     *)
(* Special files have no data and their device numbers are left out.       *)
(***************************************************************************)
EXTENDS Naturals, FiniteSets, Functions

CONSTANTS
    Pkg, Name, Evr, Arch,
    Infos,        \* what the packages may have at the path: functions on Pkg
    Size,         \* of the data
    Adds,         \* accounts that %pre of a package makes
    Uid,          \* number of every account
    BaseArch,     \* buildarchtranslate
    Lower         \* <<a, b>>: a is in arch_compats[b]

\* A machine takes packages of architectures of which one is compatible with
\* the other, or both have the same base (filterArchCompat).
SharedFilesAssumption ==
    \A p, q \in Pkg :
        \/ "noarch" \in {Arch[p], Arch[q]}
        \/ BaseArch[Arch[p]] = BaseArch[Arch[q]]
        \/ <<Arch[p], Arch[q]>> \in Lower \/ <<Arch[q], Arch[p]>> \in Lower

VARIABLES
    info,         \* what each package has at the path
    db,           \* packages in the database
    installs, erases, \* operations to come
    disk,         \* the file
    accounts,     \* in /etc/passwd and /etc/group, NoFile without them
    uids,         \* pkg.rpmusercache of each package
    shadowed,     \* history: packages that had a package of a higher arch beside them
    wrote         \* history: the package whose file is there, and the accounts then

sharedVars == <<info, db, installs, erases, disk, accounts, uids, shadowed, wrote>>

NoFile == {"no file"}
Absent == [type |-> "none", perm |-> 0, uid |-> 0, gid |-> 0, data |-> "", gone |-> TRUE]
Root == 0
NoCache == [a \in {"root"} |-> Root]

Init ==
    /\ info \in Infos
    /\ db = {} /\ installs = {} /\ erases = {}
    /\ disk = Absent
    /\ accounts = NoFile
    /\ uids = [p \in Pkg |-> NoCache]
    /\ shadowed = {} /\ wrote = [pkg |-> {}, known |-> {}]

-----------------------------------------------------------------------------
(* RpmFileInfo                                                             *)

\* getUID() and getGID(): 0 for an account that is not known.
GetUID(cache, known, a) ==
    IF a \in DOMAIN cache THEN cache[a] ELSE IF a \in known THEN Uid[a] ELSE Root

\* What is in the cache after that; without the files nothing is kept.
Remember(cache, known, A) ==
    IF known = NoFile THEN cache
    ELSE [a \in DOMAIN cache \union A |-> GetUID(cache, known, a)]

Accounts(p) == {info[p].user, info[p].group}

GetRpmFileInfo(p, cache) ==
    LET i == info[p]
    IN  [type |-> i.type, perm |-> i.perm, ghost |-> i.ghost, color |-> i.color,
         uid |-> GetUID(cache, accounts, i.user), gid |-> GetUID(cache, accounts, i.group),
         filesize |-> Size[i.data],
         md5sum |-> IF i.type = "reg" THEN i.data ELSE "",
         linkto |-> IF i.type = "link" THEN i.data ELSE ""]

ArchDuplicate(a, b) == a = b \/ BaseArch[a] = BaseArch[b]

-----------------------------------------------------------------------------
(* The resolver                                                            *)

\* _hasFileConflict(): the owner and the group have to differ both.
HasFileConflict(p, q) ==
    LET f == GetRpmFileInfo(p, uids[p])
        g == GetRpmFileInfo(q, uids[q])
    IN  /\ ~ /\ Name[p] = Name[q] /\ Evr[p] = Evr[q]
             /\ BaseArch[Arch[p]] # BaseArch[Arch[q]] /\ "noarch" \notin {Arch[p], Arch[q]}
             /\ f.color # g.color /\ f.color > 0 /\ g.color > 0
        /\ \/ f.uid # g.uid /\ f.gid # g.gid
           \/ /\ ~(f.type = "dir" /\ g.type = "dir")
              /\ ~(f.type = "link" /\ g.type = "link" /\ f.linkto = g.linkto)
              /\ ~(f.type = g.type /\ f.perm = g.perm /\ f.filesize = g.filesize /\ f.md5sum = g.md5sum)
              /\ ~(f.ghost \/ g.ghost)

\* p updates q: same name, an architecture in place of that of q.
Updates(p, q) ==
    /\ Name[p] = Name[q] /\ Evr[p] > Evr[q]
    /\ ArchDuplicate(Arch[p], Arch[q]) \/ "noarch" \in {Arch[p], Arch[q]}

\* Operations that checkFileConflicts() accepts.  Packages it compared remember
\* the numbers of their accounts.
Resolve(I, E) ==
    /\ installs = {} /\ erases = {}
    /\ I \union E # {}
    /\ \A p \in I : /\ \A q \in I \ {p} : Name[p] = Name[q] => ~ArchDuplicate(Arch[p], Arch[q])
                    /\ \A q \in db : Name[p] = Name[q] =>
                          \/ Updates(p, q) /\ q \in E
                          \/ Evr[p] = Evr[q] /\ ~ArchDuplicate(Arch[p], Arch[q])
    /\ LET after == (db \ E) \union I
           asked == IF Cardinality(after) > 1 /\ I # {} THEN after ELSE {}
       IN  /\ \A p \in I, q \in after : p # q => ~HasFileConflict(p, q)
           /\ uids' = [p \in Pkg |-> IF p \in asked THEN Remember(uids[p], accounts, Accounts(p))
                                     ELSE uids[p]]
    /\ installs' = I /\ erases' = E
    /\ UNCHANGED <<info, db, disk, accounts, shadowed, wrote>>

-----------------------------------------------------------------------------
(* Packages                                                                *)

\* __generateFileInfoList() starts with a new RpmUserCache.
FileInfoCache(p) == NoCache

\* A package with the file that is for a higher architecture.
Higher(p, P) ==
    {q \in P \ {p} : ~ArchDuplicate(Arch[p], Arch[q]) /\ <<Arch[p], Arch[q]>> \in Lower}

\* __verifyFileInstall()
VerifyFileInstall(p) == info[p].type = "reg" => Arch[p] = "noarch" \/ Higher(p, db) = {}

\* A directory cannot take the place of a file, nor a file that of a directory.
Fits(p) == disk = Absent \/ (info[p].type = "dir" <=> disk.type = "dir")

\* installFile() with the numbers of the accounts as they are after %pre.  A
\* link that is there already is left alone.
InstallFile(p, known) ==
    LET i == info[p]
        id(a) == GetUID(FileInfoCache(p), known, a)
    IN  IF i.type = "link" /\ disk.type = "link" /\ disk.data = i.data
        THEN UNCHANGED <<disk, wrote>>
        ELSE /\ disk' = [type |-> i.type, perm |-> i.perm, uid |-> id(i.user), gid |-> id(i.group),
                         data |-> i.data, gone |-> FALSE]
             /\ wrote' = [pkg |-> {p}, known |-> known]

\* %pre makes accounts where there are files for them; some package brings those.
KnownAfterPre(p) ==
    IF "passwd" \in Adds[p] THEN (accounts \ NoFile) \union (Adds[p] \ {"passwd"})
    ELSE IF accounts = NoFile THEN NoFile ELSE accounts \union Adds[p]

\* pkg.install() and __addPkgToDB(); what cannot be put on disk ends the loop.
Install(p) ==
    /\ p \in installs
    /\ accounts' = KnownAfterPre(p)
    /\ uids' = [uids EXCEPT ![p] = Remember(FileInfoCache(p), accounts', Accounts(p))]
    /\ \/ /\ info[p].ghost \/ ~VerifyFileInstall(p) \/ Fits(p)
          /\ IF info[p].ghost \/ ~VerifyFileInstall(p) THEN UNCHANGED <<disk, wrote>>
             ELSE InstallFile(p, accounts')
          /\ db' = db \union {p}
          /\ installs' = installs \ {p} /\ UNCHANGED erases
          /\ shadowed' = {q \in db' : q \in shadowed \/ Higher(q, db') # {}}
       \/ /\ ~info[p].ghost /\ VerifyFileInstall(p) /\ ~Fits(p)
          /\ installs' = {} /\ erases' = {}
          /\ UNCHANGED <<db, disk, shadowed, wrote>>
    /\ UNCHANGED info

Mut_StillOwnedNever(p) == FALSE

\* db.numFileDuplicates() > 1
StillOwned(p) == db \ {p} # {}

\* pkg.erase() and __erasePkgFromDB().  Of a directory rmdir is tried, of
\* anything else unlink.
Erase(p) ==
    /\ p \in erases
    /\ installs = {} \/ \E q \in db : Updates(q, p)
    /\ erases' = erases \ {p}
    /\ db' = db \ {p}
    /\ IF StillOwned(p) \/ disk = Absent \/ ((info[p].type = "dir") # (disk.type = "dir"))
       THEN UNCHANGED <<disk, wrote>>
       ELSE disk' = Absent /\ wrote' = [pkg |-> {}, known |-> {}]
    /\ uids' = [uids EXCEPT ![p] = Remember(NoCache, accounts, Accounts(p))]
    /\ shadowed' = shadowed \ {p}
    /\ UNCHANGED <<info, installs, accounts>>

Next ==
    \/ \E I \in SUBSET (Pkg \ db), E \in SUBSET db : Resolve(I, E)
    \/ \E p \in Pkg : Install(p) \/ Erase(p)

Spec == Init /\ [][Next]_sharedVars

-----------------------------------------------------------------------------

\* __verifyFile(): what is wrong with the file of p.
VerifyFile(p) ==
    LET f == GetRpmFileInfo(p, NoCache)
    IN  IF f.ghost \/ (f.type = "reg" /\ Higher(p, db) # {}) THEN {}
        ELSE IF disk = Absent THEN {"missing"}
        ELSE IF disk.type # f.type THEN {"type"}
        ELSE UNION {IF disk.type = "reg" /\ Size[disk.data] # f.filesize THEN {"filesize", "md5"} ELSE {},
                    IF disk.type = "reg" /\ disk.data # f.md5sum THEN {"md5"} ELSE {},
                    IF disk.type = "link" /\ disk.data # f.linkto THEN {"linkto"} ELSE {},
                    IF disk.type # "link" /\ disk.uid # f.uid THEN {"user"} ELSE {},
                    IF disk.type # "link" /\ disk.gid # f.gid THEN {"group"} ELSE {},
                    IF disk.type # "link" /\ disk.perm # f.perm THEN {"mode"} ELSE {}}

\* "resolver didn't say we had any conflicts": between transactions verify() finds
\* the file of every package there and of the right type, a regular one with the
\* right contents and mode too, in whatever order its owners came and went.
\* Excepted are packages that have had one of a higher architecture beside them.
SharedRight ==
    installs = {} /\ erases = {} =>
        \A p \in db \ shadowed :
            VerifyFile(p) \intersect
                ({"missing", "type"}
                   \union IF info[p].type = "reg" THEN {"filesize", "md5", "mode"} ELSE {}) = {}

\* The file belongs to the account its package names if there was such an account
\* when it was installed, even if nobody knew it when the resolver looked.
OwnerKnown ==
    \A p \in wrote.pkg :
        /\ info[p].user \in wrote.known => disk.uid = Uid[info[p].user]
        /\ info[p].group \in wrote.known => disk.gid = Uid[info[p].group]

=============================================================================
