------------------------------ MODULE RepoFiles ------------------------------
(***************************************************************************)
(* How a repository gets its metadata: RpmRepoDB.read() and SqliteRepoDB   *)
(* (pyrpm/database/repodb.py, sqliterepodb.py) on NetworkCache             *)
(* (pyrpm/cache.py), which fetches files from a list of mirrors.           *)
(*                                                                         *)
(* Mirrors are brought up to date one by one while programs read them; a   *)
(* file is known by the version of the repository it belongs to, which is  *)
(* also its checksum.  A program may be killed at any time: the files in   *)
(* the cache directory stay as they are and the next program finds them.   *)
(* Repositories are remote and their repomd.xml lists comps, primary and   *)
(* file lists.  Fetching is done by urlgrabber, parsing by ElementTree.    *)
(***************************************************************************)
EXTENDS Integers, Sequences

CONSTANTS
    BaseUrls,    \* the mirrors the configuration names, in their order
    Listed,      \* those of the mirror list; <<>> if there is none
    MaxVersion,  \* bound: how often the repository is published
    HasSqlite,   \* the versions published with ready-made databases
    MaxStarts    \* bound: programs started one after the other

Elements(s) == {s[i] : i \in DOMAIN s}
Mirror == Elements(BaseUrls) \union Elements(Listed)

ASSUME RepoFilesAssumption ==
    /\ MaxVersion \in Nat \ {0} /\ MaxStarts \in Nat \ {0}
    /\ HasSqlite \subseteq 1 .. MaxVersion
    /\ BaseUrls \in Seq(Mirror) /\ Listed \in Seq(Mirror)
    /\ BaseUrls \o Listed # <<>>

VARIABLES
    site,        \* the version a mirror has
    cached,      \* the files of the network cache
    sqlite,      \* the database files
    cut,         \* the databases that were being unpacked when a program died
    starts,
    baseurls, pos, get, got,     \* of NetworkCache: the call under way, its result
    repomd,      \* the version repomd.xml advertises, 0 before it is read
    used,        \* _primarydb, _filelistsdb
    at, db, force,
    imported,    \* filelist_imported
    clean        \* the mirrors agree and answer since the program was started

diskVars == <<cached, sqlite, cut>>
cacheVars == <<baseurls, pos, get, got>>
repoVars == <<repomd, used, imported>>
filesVars == <<site, diskVars, starts, cacheVars, repoVars, at, db, force, clean>>

Version == 1 .. MaxVersion
Db == {"primary", "filelists"}
Bz2 == [primary |-> "primary.bz2", filelists |-> "filelists.bz2"]
File == {"repomd", "comps"} \union Db \union {Bz2[t] : t \in Db}

None == [ver |-> 0, whole |-> FALSE]
Whole(v) == [ver |-> v, whole |-> TRUE]
Mixed == Whole(0)      \* the beginning of one version, the end of another
NoGet == [file |-> "none"]

NoDb == [csum |-> 0, data |-> 0, state |-> "none"]
Ended == {"read", "failed", "raised"}
Agree == \A m, n \in Mirror : site[m] = site[n]

\* The objects of a new program, and its call of read().
NewCache == baseurls = BaseUrls /\ pos = 1 /\ get = NoGet /\ got = FALSE
NewRepoDB == repomd = 0 /\ used = [t \in Db |-> NoDb] /\ imported = FALSE
Read == at = "mirrors" /\ db = "primary" /\ force = FALSE

FilesInit ==
    /\ site = [m \in Mirror |-> 1]
    /\ cached = [f \in File |-> None]
    /\ sqlite = [t \in Db |-> NoDb] /\ cut = {}
    /\ starts = 1
    /\ NewCache /\ NewRepoDB /\ Read
    /\ clean = TRUE

-----------------------------------------------------------------------------
(* NetworkCache.cache(): one mirror after the other until one has it.      *)

AddCache(urls) == baseurls' = baseurls \o urls
BaseURL == baseurls[pos]
IsCached(f) == cached[f] # None

Call(f, forced, next) ==
    /\ get' = [file |-> f, force |-> forced, opos |-> pos, asked |-> {}]
    /\ at' = next
    /\ UNCHANGED <<site, diskVars, starts, baseurls, pos, got, repoVars, db, clean>>

\* A mirror list is an absolute URL: it is asked for again for every mirror.
OfMirror == get.file \in File
Offered(f, v) == f \in {Bz2[t] : t \in Db} => v \in HasSqlite

\* Mutant: a partial file is continued whatever the caller wants.
Mut_FetchedContinued(f, forced, v) ==
    IF IsCached(f) /\ ~cached[f].whole /\ cached[f].ver # v THEN {Whole(v), Mixed} ELSE {Whole(v)}

\* What may be in the cache after a transfer.  Without force a file that is not
\* older is kept (error 9 of urlgrabber) and a partial one is continued.
Fetched(f, forced, v) ==
    LET c == cached[f]
    IN  CASE forced \/ ~IsCached(f) -> {Whole(v)}
          [] ~forced /\ IsCached(f) /\ c.whole -> {IF c.ver < v THEN Whole(v) ELSE c}
          [] OTHER -> IF c.ver = v THEN {Whole(v)} ELSE {Whole(v), Mixed}

Found ==
    /\ get # NoGet
    /\ IF OfMirror
       THEN LET v == site[BaseURL]
            IN  /\ Offered(get.file, v)
                /\ \E c \in Fetched(get.file, get.force, v) : cached' = [cached EXCEPT ![get.file] = c]
       ELSE UNCHANGED cached
    /\ get' = NoGet /\ got' = TRUE
    /\ UNCHANGED <<site, sqlite, cut, starts, baseurls, pos, repoVars, at, db, force, clean>>

\* Mutant: the next mirror is not taken.
Mut_RotateNever == pos' = pos /\ get' = [get EXCEPT !.asked = @ \union {BaseURL}]

Rotate ==
    /\ pos' = (pos % Len(baseurls)) + 1
    /\ get' = IF pos' = get.opos THEN NoGet
              ELSE [get EXCEPT !.asked = @ \union {BaseURL}]

NotFound ==
    /\ get # NoGet
    /\ IF baseurls = <<>>
       THEN at' = "raised" /\ get' = NoGet /\ UNCHANGED <<cached, pos>>
       ELSE /\ Rotate
            /\ UNCHANGED at
            /\ \/ UNCHANGED cached
               \/ /\ OfMirror /\ Offered(get.file, site[BaseURL])
                  /\ cached' = [cached EXCEPT ![get.file] = [ver |-> site[BaseURL], whole |-> FALSE]]
    /\ got' = FALSE
    /\ clean' = (clean /\ OfMirror /\ ~Offered(get.file, site[BaseURL]))
    /\ UNCHANGED <<site, sqlite, cut, starts, baseurls, repoVars, db, force>>

-----------------------------------------------------------------------------
(* RpmRepoDB.read().                                                       *)

Ready(step) == at = step /\ get = NoGet
Goto(step) == at' = step /\ UNCHANGED <<site, starts, cacheVars, clean>>

ReadMirrorList ==
    /\ Ready("mirrors") /\ force' = FALSE
    /\ IF Listed = <<>> THEN Goto("repomd") /\ UNCHANGED <<diskVars, repoVars, db>>
                        ELSE Call("mirrorlist", TRUE, "mirrorlist")

AddMirrors ==
    /\ Ready("mirrorlist")
    /\ IF got THEN AddCache(Listed) ELSE UNCHANGED baseurls
    /\ at' = "repomd"
    /\ UNCHANGED <<site, diskVars, starts, pos, get, got, repoVars, db, force, clean>>

\* Without any mirror getBaseURL() raises IndexError.
ReadRepoMD ==
    /\ Ready("repomd") /\ force' = FALSE
    /\ IF baseurls = <<>> THEN Goto("raised") /\ UNCHANGED <<diskVars, repoVars, db>>
                          ELSE Call("repomd", TRUE, "parse repomd")

\* __parseRepomd(): the checksums of the other files.
Advertised == cached["repomd"].ver

ParseRepomd ==
    /\ Ready("parse repomd")
    /\ IF got THEN Goto("comps") /\ repomd' = Advertised
              ELSE Goto("failed") /\ UNCHANGED repomd
    /\ UNCHANGED <<diskVars, used, imported, db, force>>

\* checksum() of a file of the cache is the one repomd.xml lists.
Matches(f) == cached[f] = Whole(repomd)

ReadComps ==
    /\ Ready("comps") /\ force' = FALSE
    /\ IF Matches("comps") THEN Goto("primary") /\ UNCHANGED <<diskVars, repoVars, db>>
                           ELSE Call("comps", TRUE, "parse comps")

ParseComps ==
    /\ Ready("parse comps")
    /\ Goto(IF got THEN "primary" ELSE "failed")
    /\ UNCHANGED <<diskVars, repoVars, db, force>>

ReadPrimary ==
    /\ Ready("primary")
    /\ Goto("load") /\ db' = "primary"
    /\ UNCHANGED <<diskVars, repoVars, force>>

\* importFilelist() when the complete lists of files are needed.
ImportFilelist ==
    /\ Ready("read") /\ ~imported
    /\ Goto("load") /\ db' = "filelists"
    /\ UNCHANGED <<diskVars, repoVars, force>>

-----------------------------------------------------------------------------
(* SqliteRepoDB.getDbFile(): a database file that is there, one from the   *)
(* repository, or one made from the XML file.                              *)

\* getDbFile() returns: keys are read after primary, whether they are there
\* or not.
Return(done) ==
    /\ Goto(IF done \/ db = "filelists" THEN "read" ELSE "failed")
    /\ imported' = (IF db = "filelists" THEN done ELSE imported)

\* loadCache(): the checksums that may be found in a database file.
LoadCache(t) ==
    CASE sqlite[t].state = "whole" -> {sqlite[t].csum}
      [] sqlite[t].state = "torn" -> {0, sqlite[t].csum}
      [] OTHER -> {0}

\* A database that has the checksum of the advertised file is used.
Load(csum, next) ==
    IF csum = repomd
    THEN used' = [used EXCEPT ![db] = sqlite[db]] /\ Return(TRUE) /\ UNCHANGED <<diskVars, repomd>>
    ELSE Goto(next) /\ UNCHANGED <<diskVars, repoVars>>

LoadExisting ==
    /\ Ready("load")
    /\ \E csum \in LoadCache(db) : Load(csum, "bz2")
    /\ force' = FALSE /\ UNCHANGED db

GetBz2 == Ready("bz2") /\ Call(Bz2[db], force, "unpack") /\ UNCHANGED force

\* The database file is opened for writing before the archive is read.
Unpack ==
    /\ Ready("unpack")
    /\ LET c == cached[Bz2[db]]
           write(rec) == sqlite' = [sqlite EXCEPT ![db] = rec] /\ UNCHANGED <<cached, cut>>
       IN  CASE ~got -> Goto("xml") /\ UNCHANGED <<diskVars, force>>
             [] got /\ c.whole /\ c # Mixed ->
                  /\ Goto("unpacked") /\ UNCHANGED force
                  /\ write([csum |-> c.ver, data |-> c.ver, state |-> "torn"])
             [] OTHER -> Goto(IF force THEN "xml" ELSE "bz2") /\ force' = TRUE
                         /\ write([NoDb EXCEPT !.state = "noinfo"])
    /\ UNCHANGED <<repoVars, db>>

Unpacked ==
    /\ Ready("unpacked")
    /\ sqlite' = [sqlite EXCEPT ![db].state = "whole"] /\ cut' = cut \ {db}
    /\ Goto("loadbz2")
    /\ UNCHANGED <<cached, repoVars, db, force>>

LoadUnpacked ==
    /\ Ready("loadbz2")
    /\ \E csum \in LoadCache(db) : Load(csum, IF force THEN "xml" ELSE "bz2")
    /\ force' = TRUE /\ UNCHANGED db

GetXml ==
    /\ Ready("xml") /\ UNCHANGED force
    /\ IF Matches(db) THEN Goto("create") /\ UNCHANGED <<diskVars, repoVars, db>>
                      ELSE Call(db, TRUE, "fetched")

\* Mutant: what was fetched is taken for what was advertised.
Mut_CheckXmlNever ==
    /\ Ready("fetched")
    /\ IF got THEN Goto("create") /\ UNCHANGED repoVars
       ELSE Return(FALSE) /\ UNCHANGED <<repomd, used>>
    /\ UNCHANGED <<diskVars, db, force>>

CheckXml ==
    /\ Ready("fetched")
    /\ IF got /\ Matches(db) THEN Goto("create") /\ UNCHANGED repoVars
       ELSE Return(FALSE) /\ UNCHANGED <<repomd, used>>
    /\ UNCHANGED <<diskVars, db, force>>

Create ==
    /\ Ready("create")
    /\ sqlite' = [sqlite EXCEPT ![db] = [NoDb EXCEPT !.state = "noinfo"]] /\ cut' = cut \ {db}
    /\ Goto("parse")
    /\ UNCHANGED <<cached, repoVars, db, force>>

\* The rows and, last, db_info are committed together by setInfo().
SetInfo(t) == [csum |-> repomd, data |-> cached[t].ver, state |-> "whole"]

ParseXml ==
    /\ Ready("parse")
    /\ LET rec == SetInfo(db)
       IN  sqlite' = [sqlite EXCEPT ![db] = rec] /\ used' = [used EXCEPT ![db] = rec]
    /\ Return(TRUE)
    /\ UNCHANGED <<cached, cut, repomd, db, force>>

-----------------------------------------------------------------------------
(* The world around: mirrors are updated, programs end and are started.    *)

Publish ==
    /\ \E m \in Mirror : site[m] < MaxVersion /\ site' = [site EXCEPT ![m] = @ + 1]
    /\ clean' = FALSE
    /\ UNCHANGED <<diskVars, starts, cacheVars, repoVars, at, db, force>>

\* The program ended or was killed wherever it was; the next one is started.
Restart ==
    /\ starts < MaxStarts /\ starts' = starts + 1
    /\ cut' = IF at = "unpacked" THEN cut \union {db} ELSE cut
    /\ baseurls' = BaseUrls /\ pos' = 1 /\ get' = NoGet /\ got' = FALSE
    /\ repomd' = 0 /\ used' = [t \in Db |-> NoDb] /\ imported' = FALSE
    /\ at' = "mirrors" /\ db' = "primary" /\ force' = FALSE
    /\ clean' = Agree
    /\ UNCHANGED <<site, cached, sqlite>>

FilesStep ==
    \/ Found \/ NotFound
    \/ ReadMirrorList \/ AddMirrors \/ ReadRepoMD \/ ParseRepomd \/ ReadComps \/ ParseComps
    \/ ReadPrimary \/ LoadExisting \/ GetBz2 \/ Unpack \/ Unpacked \/ LoadUnpacked
    \/ GetXml \/ CheckXml \/ Create \/ ParseXml

FilesNext == FilesStep \/ ImportFilelist \/ Publish \/ Restart

\* A program that reads a repository runs on; a transfer ends or times out.
FilesSpec == FilesInit /\ [][FilesNext]_filesVars /\ WF_filesVars(FilesStep)

-----------------------------------------------------------------------------
(* What a repository promises.                                             *)

\* The databases in use are those the repomd.xml that was read advertises,
\* whatever the mirrors and the cache held, and complete unless an earlier
\* program died while it unpacked the file.
UsedIsAdvertised ==
    \A t \in Db : used[t] # NoDb =>
        /\ used[t].csum = repomd /\ used[t].data = repomd
        /\ used[t].state = "whole" \/ t \in cut

\* What earlier programs left in the cache never keeps a repository from being
\* read: if the mirrors hold the same version and all of them answer, it is.
LeftoversHarmless == clean => at \notin {"failed", "raised"}

\* A file is given up only when every mirror was asked for it.
EveryMirrorAsked ==
    [][OfMirror /\ get # NoGet /\ get' = NoGet /\ ~got' =>
          get.asked \union {BaseURL} = Elements(baseurls) \/ at' = "mirrors"]_filesVars

\* Reading a repository and importing its file lists come to an end.
ReadingEnds == at \notin Ended ~> at \in Ended

\* All mirrors are tried, none for ever.
MirrorsTried == EveryMirrorAsked /\ ReadingEnds

=============================================================================
