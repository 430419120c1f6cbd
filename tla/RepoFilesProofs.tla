--------------------------- MODULE RepoFilesProofs ----------------------------
(***************************************************************************)
(* Proofs about how a repository gets its metadata.                        *)
(*                                                                         *)
(* Each promise is about what a program finds that it has not written      *)
(* itself: files in the cache and database files left by programs that     *)
(* died anywhere, and mirrors that change in between.  The invariant says  *)
(* for every step of the program what it may still take for granted there. *)
(***************************************************************************)
EXTENDS RepoFiles, TLAPS

FileRec == [ver : Nat, whole : BOOLEAN]
DbRec == [csum : Nat, data : Nat, state : {"none", "noinfo", "torn", "whole"}]
GetRec == [file : File \union {"mirrorlist"}, force : BOOLEAN, opos : Nat, asked : SUBSET Mirror]

\* The steps of getDbFile(), and all steps.
Loading == {"load", "bz2", "unpack", "unpacked", "loadbz2", "xml", "fetched", "create", "parse"}
Steps == {"mirrors", "mirrorlist", "repomd", "parse repomd", "comps", "parse comps", "primary"}
             \union Loading \union Ended

FilesTypeOK ==
    /\ site \in [Mirror -> Version]
    /\ cached \in [File -> FileRec]
    /\ sqlite \in [Db -> DbRec] /\ cut \subseteq Db
    /\ baseurls \in Seq(Mirror)
    /\ pos \in Nat \ {0} /\ (pos <= Len(baseurls) \/ pos = 1)
    /\ get \in GetRec \union {NoGet} /\ got \in BOOLEAN
    /\ repomd \in Nat
    /\ used \in [Db -> DbRec]
    /\ at \in Steps /\ db \in Db /\ force \in BOOLEAN
    /\ imported \in BOOLEAN /\ clean \in BOOLEAN

\* There is a mirror to ask once repomd.xml is asked for.
SomeMirror ==
    at \notin {"mirrors", "mirrorlist", "repomd", "raised"} => baseurls # <<>>

\* A call is under way only while its caller waits for it; all callers but one
\* want the file whatever is in the cache.
CallFits ==
    get # NoGet =>
        \/ at = "mirrorlist" /\ get.file = "mirrorlist"
        \/ at = "unpack" /\ get.file = Bz2[db]
        \/ /\ get.force = TRUE
           /\ \/ at = "parse repomd" /\ get.file = "repomd"
              \/ at = "parse comps" /\ get.file = "comps"
              \/ at = "fetched" /\ get.file = db

\* A database is in use only after it was loaded; getDbFile() loads one that is not.
UsedAfterLoading ==
    /\ at \in Loading => used[db] = NoDb
    /\ at \notin Loading \union {"read"} => \A t \in Db : used[t] = NoDb
    /\ used["filelists"] # NoDb => imported
    /\ imported => at = "read"

\* What repomd.xml lists is known from comps on.
RepomdKnown ==
    /\ at = "parse repomd" /\ get = NoGet /\ got => cached["repomd"].ver # 0
    /\ at \in Loading \union {"comps", "parse comps", "primary", "read"} => repomd # 0

\* A database file says what it was made from; it is torn only while it is being
\* unpacked or if a program died then.
DatabasesTrue ==
    /\ \A t \in Db :
        /\ sqlite[t].state \in {"torn", "whole"} => sqlite[t].csum = sqlite[t].data
        /\ sqlite[t].state = "torn" => t \in cut \/ (at = "unpacked" /\ t = db)
    /\ at = "unpacked" => sqlite[db].state = "torn"
    /\ at \in {"create", "parse"} => cached[db] = Whole(repomd)

\* The mirrors from the first one asked to the one before the next.
Between(i) ==
    IF get.opos <= pos THEN get.opos <= i /\ i < pos ELSE get.opos <= i \/ i < pos

AskedSoFar ==
    get # NoGet =>
        /\ get.opos \in Nat \ {0} /\ (get.opos <= Len(baseurls) \/ get.opos = 1)
        /\ get.asked = {baseurls[i] : i \in {j \in DOMAIN baseurls : Between(j)}}

\* As long as the mirrors agree and answer, every file that was asked for is
\* there, of the version they all have, and so is what was read of it.
CleanSoFar ==
    clean =>
        /\ Agree /\ at \notin {"failed", "raised"}
        /\ at = "mirrors" => baseurls = BaseUrls
        /\ at = "mirrorlist" => Listed # <<>>
        /\ at \notin {"mirrors", "mirrorlist"} => baseurls # <<>>
        /\ at \in {"mirrorlist", "parse repomd", "parse comps", "fetched"} /\ get = NoGet => got
        /\ at = "parse repomd" /\ get = NoGet => \A m \in Mirror : cached["repomd"].ver = site[m]
        /\ repomd # 0 => \A m \in Mirror : repomd = site[m]
        /\ at = "fetched" /\ get = NoGet => \A m \in Mirror : cached[db] = Whole(site[m])

FilesInv ==
    /\ FilesTypeOK
    /\ SomeMirror
    /\ CallFits
    /\ UsedAfterLoading
    /\ RepomdKnown
    /\ DatabasesTrue
    /\ AskedSoFar
    /\ UsedIsAdvertised

-----------------------------------------------------------------------------
(* Lemmas about the operators.                                             *)

LEMMA Files ==
    /\ File = {"repomd", "comps", "primary", "filelists", "primary.bz2", "filelists.bz2"}
    /\ Bz2["primary"] = "primary.bz2" /\ Bz2["filelists"] = "filelists.bz2"
    /\ Db = {"primary", "filelists"}
BY DEF File, Db, Bz2

LEMMA VersionsCount == \A v \in Version : v \in Nat /\ v # 0
BY RepoFilesAssumption DEF Version

LEMMA MirrorAtHand ==
    ASSUME FilesTypeOK, baseurls # <<>>
    PROVE  /\ pos \in DOMAIN baseurls /\ DOMAIN baseurls = 1 .. Len(baseurls)
           /\ BaseURL \in Mirror /\ site[BaseURL] \in Version
<1>1. pos \in 1 .. Len(baseurls) /\ baseurls \in Seq(Mirror)
  BY DEF FilesTypeOK
<1>2. baseurls[pos] \in Mirror
  BY <1>1
<1> QED
  BY <1>1, <1>2 DEF FilesTypeOK, BaseURL

\* The mirror after the last is the first.
LEMMA NextMirror ==
    ASSUME NEW n \in Nat \ {0}, NEW i \in 1 .. n
    PROVE  (i % n) + 1 = IF i = n THEN 1 ELSE i + 1
<1>1. CASE i = n
  BY <1>1
<1>2. CASE i # n
  BY <1>2
<1> QED
  BY <1>1, <1>2

\* What is fetched is of the mirror's version, or what was there, or mixed; with
\* force it is nothing but the former.
LEMMA FetchedType ==
    ASSUME NEW f \in File, NEW forced \in BOOLEAN, NEW v \in Version, cached \in [File -> FileRec]
    PROVE  /\ Fetched(f, forced, v) \subseteq FileRec
           /\ forced = TRUE => Fetched(f, forced, v) = {Whole(v)}
<1>1. cached[f] \in FileRec /\ Whole(v) \in FileRec /\ Mixed \in FileRec
  BY RepoFilesAssumption DEF Whole, Mixed, FileRec, Version
<1> QED
  BY <1>1 DEF Fetched

\* The only changes of the cache: one file, of the call under way.
LEMMA NetworkType ==
    ASSUME FilesTypeOK, SomeMirror, CallFits, Found \/ NotFound
    PROVE  /\ cached' \in [File -> FileRec]
           /\ \A f \in File : f # get.file => cached'[f] = cached[f]
           /\ get' \in GetRec \union {NoGet}
           /\ pos' \in Nat \ {0} /\ (pos' <= Len(baseurls) \/ pos' = 1)
<1> USE DEF FilesTypeOK
<1>1. OfMirror /\ get # NoGet => baseurls # <<>>
  BY Files DEF SomeMirror, CallFits, OfMirror
<1>2. CASE Found
  <2>1. CASE ~OfMirror
    BY <1>2, <2>1 DEF Found
  <2>2. CASE OfMirror
    <3> DEFINE v == site[BaseURL]
    <3>1. v \in Version /\ get \in GetRec /\ get.file \in File /\ get.force \in BOOLEAN
      BY <1>1, <1>2, <2>2, MirrorAtHand DEF Found, OfMirror, GetRec
    <3>2. \E c \in Fetched(get.file, get.force, v) : cached' = [cached EXCEPT ![get.file] = c]
      BY <1>2, <2>2 DEF Found
    <3>3. Fetched(get.file, get.force, v) \subseteq FileRec
      BY <3>1, FetchedType
    <3>4. get' = NoGet /\ UNCHANGED <<baseurls, pos>>
      BY <1>2 DEF Found
    <3> QED
      BY <3>1, <3>2, <3>3, <3>4
  <2> QED
    BY <2>1, <2>2
<1>3. CASE NotFound
  <2>1. CASE baseurls = <<>>
    BY <1>3, <2>1 DEF NotFound
  <2>2. CASE baseurls # <<>>
    <3>1. BaseURL \in Mirror /\ site[BaseURL] \in Version /\ pos \in 1 .. Len(baseurls)
          /\ Len(baseurls) \in Nat \ {0}
      BY <2>2, MirrorAtHand
    <3>2. get \in GetRec /\ Rotate
      BY <1>3, <2>2 DEF NotFound
    <3>3. [get EXCEPT !.asked = @ \union {BaseURL}] \in GetRec
      BY <3>1, <3>2 DEF GetRec
    <3>4. get' \in GetRec \union {NoGet} /\ pos' \in 1 .. Len(baseurls)
      BY <3>1, <3>2, <3>3, NextMirror DEF Rotate
    <3>5. cached' = cached \/ (get.file \in File /\ cached' = [cached EXCEPT ![get.file] =
                                   [ver |-> site[BaseURL], whole |-> FALSE]])
      BY <1>3, <2>2 DEF NotFound, OfMirror
    <3>6. [ver |-> site[BaseURL], whole |-> FALSE] \in FileRec
      BY <3>1, RepoFilesAssumption DEF Version, FileRec
    <3> QED
      BY <3>4, <3>5, <3>6
  <2> QED
    BY <2>1, <2>2
<1> QED
  BY <1>2, <1>3

\* A record of a database file that is written has the type of one.
LEMMA WrittenType ==
    ASSUME FilesTypeOK
    PROVE  /\ NoDb \in DbRec /\ [NoDb EXCEPT !.state = "noinfo"] \in DbRec
           /\ \A t \in Db :
                 /\ [csum |-> cached[Bz2[t]].ver, data |-> cached[Bz2[t]].ver, state |-> "torn"] \in DbRec
                 /\ SetInfo(t) \in DbRec
                 /\ [sqlite[t] EXCEPT !.state = "whole"] \in DbRec
<1>1. \A t \in Db : t \in File /\ Bz2[t] \in File
  BY DEF Db, Bz2, File
<1>2. \A f \in File : cached[f].ver \in Nat
  BY DEF FilesTypeOK, FileRec
<1> QED
  BY <1>1, <1>2 DEF FilesTypeOK, NoDb, DbRec, SetInfo

LEMMA TypesKept == 
    ASSUME FilesTypeOK, SomeMirror, CallFits, [FilesNext]_filesVars
    PROVE  FilesTypeOK'
<1> USE RepoFilesAssumption DEF FilesTypeOK, diskVars, cacheVars, repoVars, Goto
<1>1. CASE Found \/ NotFound
  <2>1. /\ UNCHANGED <<site, sqlite, cut, baseurls, repomd, used, imported, db, force>>
        /\ got' \in BOOLEAN /\ at' \in {at, "raised"}
    BY <1>1 DEF Found, NotFound
  <2>2. clean' \in BOOLEAN
    BY <1>1 DEF Found, NotFound
  <2> QED
    BY <1>1, <2>1, <2>2, NetworkType DEF Steps, Ended
<1>2. ASSUME NEW f \in File \union {"mirrorlist"}, NEW forced \in BOOLEAN, NEW next \in Steps,
             Call(f, forced, next), force' \in BOOLEAN
      PROVE  FilesTypeOK'
  BY <1>2 DEF Call, GetRec
<1>3. CASE ReadMirrorList \/ ReadRepoMD \/ ReadComps
  <2>1. ReadMirrorList => FilesTypeOK'
    BY <1>2 DEF ReadMirrorList, Steps
  <2>2. ReadRepoMD => FilesTypeOK'
    BY <1>2 DEF ReadRepoMD, Steps, File, Ended
  <2>3. ReadComps => FilesTypeOK'
    BY <1>2 DEF ReadComps, Steps, File
  <2> QED
    BY <1>3, <2>1, <2>2, <2>3
<1>4. CASE AddMirrors
  <2>1. /\ Len(baseurls) \in Nat /\ Len(baseurls) >= Len(baseurls)
        /\ baseurls \o Listed \in Seq(Mirror) /\ Len(baseurls \o Listed) >= Len(baseurls)
    OBVIOUS
  <2>2. baseurls' = baseurls \o Listed \/ baseurls' = baseurls
    BY <1>4 DEF AddMirrors, AddCache
  <2>3. baseurls' \in Seq(Mirror) /\ Len(baseurls') >= Len(baseurls)
    <3> HIDE DEF FilesTypeOK
    <3>1. baseurls \in Seq(Mirror)
      BY DEF FilesTypeOK
    <3>2. CASE baseurls' = baseurls
      BY <2>1, <3>1, <3>2
    <3>3. CASE baseurls' = baseurls \o Listed
      BY <2>1, <3>3
    <3> QED
      BY <2>2, <3>2, <3>3
  <2>4. pos' = pos /\ at' \in Steps
    BY <1>4 DEF AddMirrors, Steps
  <2>5. pos' <= Len(baseurls') \/ pos' = 1
    <3>1. Len(baseurls) \in Nat /\ Len(baseurls') \in Nat
      BY <2>3
    <3> QED
      BY <2>3, <2>4, <3>1
  <2> QED
    BY <1>4, <2>3, <2>4, <2>5 DEF AddMirrors
<1>5. CASE ParseRepomd
  <2>1. Advertised \in Nat
    BY DEF Advertised, File, FileRec
  <2> QED
    BY <1>5, <2>1 DEF ParseRepomd, Steps, Ended
<1>6. CASE ParseComps \/ ReadPrimary \/ ImportFilelist
  BY <1>6 DEF ParseComps, ReadPrimary, ImportFilelist, Steps, Ended, Loading, Db
<1>7. ASSUME NEW csum, NEW next \in Loading, Load(csum, next), force' \in BOOLEAN, UNCHANGED db
      PROVE  FilesTypeOK'
  BY <1>7 DEF Load, Return, Steps, Ended
<1>8. CASE LoadExisting \/ LoadUnpacked
  BY <1>7, <1>8 DEF LoadExisting, LoadUnpacked, Loading
<1>9. CASE GetBz2 \/ GetXml
  <2>1. Bz2[db] \in File /\ db \in File /\ {"unpack", "fetched", "create"} \subseteq Steps
    BY DEF Bz2, File, Db, Steps, Loading
  <2>2. GetBz2 => FilesTypeOK'
    BY <1>2, <2>1 DEF GetBz2
  <2>3. GetXml => FilesTypeOK'
    BY <1>2, <2>1 DEF GetXml
  <2> QED
    BY <1>9, <2>2, <2>3
<1>10. CASE Unpack
  <2>1. at' \in Steps /\ force' \in BOOLEAN /\ UNCHANGED <<repoVars, db, cached, cut, cacheVars, site, clean>>
    BY <1>10 DEF Unpack, Steps, Loading
  <2>2. sqlite' \in [Db -> DbRec]
    BY <1>10, WrittenType DEF Unpack
  <2> QED
    BY <2>1, <2>2
<1>11. CASE Unpacked
  <2>1. sqlite' = [sqlite EXCEPT ![db] = [sqlite[db] EXCEPT !.state = "whole"]]
    BY <1>11 DEF Unpacked
  <2>2. sqlite' \in [Db -> DbRec]
    BY <2>1, WrittenType
  <2> QED
    BY <1>11, <2>2 DEF Unpacked, Steps, Loading
<1>12. CASE CheckXml
  BY <1>12 DEF CheckXml, Return, Steps, Loading, Ended
<1>13. CASE Create
  BY <1>13, WrittenType DEF Create, Steps, Loading
<1>14. CASE ParseXml
  BY <1>14, WrittenType DEF ParseXml, Return, Steps, Loading, Ended
<1>15. CASE Publish
  <2>1. PICK m \in Mirror : site[m] < MaxVersion /\ site' = [site EXCEPT ![m] = @ + 1]
    BY <1>15 DEF Publish
  <2>2. site[m] + 1 \in Version
    BY <2>1 DEF Version
  <2> QED
    BY <1>15, <2>1, <2>2 DEF Publish
<1>16. CASE Restart
  <2>1. UNCHANGED <<site, cached, sqlite>> /\ cut' \subseteq Db /\ clean' \in BOOLEAN
    BY <1>16 DEF Restart, Agree
  <2>2. used' \in [Db -> DbRec] /\ repomd' \in Nat /\ imported' \in BOOLEAN
    BY <1>16, WrittenType DEF Restart
  <2>3. at' \in Steps /\ db' \in Db /\ force' \in BOOLEAN
    BY <1>16 DEF Restart, Steps, Db
  <2>4. baseurls' \in Seq(Mirror) /\ pos' = 1 /\ get' = NoGet /\ got' \in BOOLEAN
    BY <1>16 DEF Restart
  <2> QED
    BY <2>1, <2>2, <2>3, <2>4
<1>17. CASE UNCHANGED filesVars
  BY <1>17 DEF filesVars
<1> QED
  BY <1>1, <1>3, <1>4, <1>5, <1>6, <1>8, <1>9, <1>10, <1>11, <1>12, <1>13, <1>14, <1>15, <1>16, <1>17
  DEF FilesNext, FilesStep

-----------------------------------------------------------------------------
(* The program waits for its calls.                                        *)

\* The steps of the program itself are taken between its calls.
Program ==
    \/ AddMirrors \/ ParseRepomd \/ ParseComps \/ ReadPrimary \/ ImportFilelist
    \/ LoadExisting \/ Unpack \/ Unpacked \/ LoadUnpacked \/ CheckXml \/ Create \/ ParseXml

Calling == ReadMirrorList \/ ReadRepoMD \/ ReadComps \/ GetBz2 \/ GetXml

LEMMA NextCases ==
    [FilesNext]_filesVars =>
        Found \/ NotFound \/ Program \/ Calling \/ Publish \/ Restart \/ UNCHANGED filesVars
BY DEF FilesNext, FilesStep, Program, Calling

\* Between calls it is at one of its own steps, and goes to another.
LEMMA ProgramStep ==
    ASSUME Program
    PROVE  /\ get = NoGet /\ get' = NoGet
           /\ UNCHANGED <<site, starts, pos, got, clean>>
           /\ \/ AddMirrors
              \/ UNCHANGED baseurls /\ at \notin {"mirrors", "mirrorlist", "repomd", "raised"}
<1> USE DEF Ready, Goto, cacheVars
<1>1. CASE AddMirrors \/ ParseRepomd \/ ParseComps \/ ReadPrimary \/ ImportFilelist
  BY <1>1 DEF AddMirrors, ParseRepomd, ParseComps, ReadPrimary, ImportFilelist
<1>2. CASE LoadExisting \/ LoadUnpacked
  BY <1>2 DEF LoadExisting, LoadUnpacked, Load, Return
<1>3. CASE Unpack
  BY <1>3 DEF Unpack
<1>4. CASE Unpacked \/ CheckXml \/ Create \/ ParseXml
  BY <1>4 DEF Unpacked, CheckXml, Create, ParseXml, Return
<1> QED
  BY <1>1, <1>2, <1>3, <1>4 DEF Program

LEMMA SomeMirrorKept ==
    ASSUME SomeMirror, [FilesNext]_filesVars
    PROVE  SomeMirror'
<1> USE DEF SomeMirror, Ready, Goto, Call, cacheVars
<1>1. CASE Found \/ NotFound
  BY <1>1 DEF Found, NotFound
<1>2. CASE Program
  <2>1. AddMirrors => at' = "repomd"
    BY DEF AddMirrors
  <2> QED
    BY <1>2, <2>1, ProgramStep
<1>3. CASE Calling
  BY <1>3 DEF Calling, ReadMirrorList, ReadRepoMD, ReadComps, GetBz2, GetXml
<1>4. CASE Publish \/ Restart \/ UNCHANGED filesVars
  BY <1>4 DEF Publish, Restart, filesVars
<1> QED
  BY <1>1, <1>2, <1>3, <1>4, NextCases

LEMMA CallFitsKept ==
    ASSUME FilesTypeOK, CallFits, [FilesNext]_filesVars
    PROVE  CallFits'
<1> USE DEF CallFits
<1>1. CASE Found \/ Program \/ Restart
  BY <1>1, ProgramStep DEF Found, Restart
<1>2. CASE NotFound
  <2>1. CASE get' = NoGet
    BY <2>1
  <2>2. CASE get' # NoGet
    <3>1. get' = [get EXCEPT !.asked = @ \union {BaseURL}] /\ UNCHANGED <<at, db, baseurls>> /\ get # NoGet
      BY <1>2, <2>2 DEF NotFound, Rotate
    <3>2. get \in GetRec
      BY <3>1 DEF FilesTypeOK
    <3>3. get'.file = get.file /\ get'.force = get.force
      BY <3>1, <3>2 DEF GetRec
    <3> QED
      BY <3>1, <3>3
  <2> QED
    BY <2>1, <2>2
<1>3. CASE Calling
  <2>1. ASSUME NEW f, NEW forced, NEW next, Call(f, forced, next)
        PROVE  get'.file = f /\ get'.force = forced /\ at' = next /\ db' = db
    BY <2>1 DEF Call
  <2>2. ASSUME NEW next, Goto(next), get = NoGet PROVE get' = NoGet
    BY <2>2 DEF Goto, cacheVars
  <2>3. CASE ReadMirrorList
    BY <2>1, <2>2, <2>3 DEF ReadMirrorList, Ready
  <2>4. CASE ReadRepoMD
    BY <2>1, <2>2, <2>4 DEF ReadRepoMD, Ready
  <2>5. CASE ReadComps
    BY <2>1, <2>2, <2>5 DEF ReadComps, Ready
  <2>6. CASE GetBz2
    BY <2>1, <2>6 DEF GetBz2
  <2>7. CASE GetXml
    BY <2>1, <2>2, <2>7 DEF GetXml, Ready
  <2> QED
    BY <1>3, <2>3, <2>4, <2>5, <2>6, <2>7 DEF Calling
<1>4. CASE Publish \/ UNCHANGED filesVars
  BY <1>4 DEF Publish, filesVars, cacheVars
<1> QED
  BY <1>1, <1>2, <1>3, <1>4, NextCases

-----------------------------------------------------------------------------
(* The databases.                                                          *)

\* While a call is under way nothing is loaded, and only a program without any
\* mirrors gives up.
LEMMA NetworkStep ==
    ASSUME SomeMirror, CallFits, Found \/ NotFound
    PROVE  /\ at \in {"mirrorlist", "parse repomd", "parse comps", "unpack", "fetched"}
           /\ at' = at \/ (at = "mirrorlist" /\ at' = "raised")
           /\ UNCHANGED <<site, sqlite, cut, repomd, used, imported, db, baseurls>>
BY DEF SomeMirror, CallFits, Found, NotFound, repoVars

LEMMA CallingKeeps ==
    ASSUME Calling
    PROVE  /\ UNCHANGED <<site, cached, sqlite, cut, baseurls, pos, got>>
           /\ UNCHANGED <<repomd, used, imported, db, clean>>
           /\ <<at, at'>> \in {<<"mirrors", "repomd">>, <<"mirrors", "mirrorlist">>,
                               <<"repomd", "raised">>, <<"repomd", "parse repomd">>,
                               <<"comps", "primary">>, <<"comps", "parse comps">>,
                               <<"bz2", "unpack">>, <<"xml", "create">>, <<"xml", "fetched">>}
<1> USE DEF Ready, Goto, Call, diskVars, cacheVars, repoVars
<1>1. CASE ReadMirrorList
  BY <1>1 DEF ReadMirrorList
<1>2. CASE ReadRepoMD
  BY <1>2 DEF ReadRepoMD
<1>3. CASE ReadComps
  BY <1>3 DEF ReadComps
<1>4. CASE GetBz2
  BY <1>4 DEF GetBz2
<1>5. CASE GetXml
  BY <1>5 DEF GetXml
<1> QED
  BY <1>1, <1>2, <1>3, <1>4, <1>5 DEF Calling

LEMMA OutsideStep ==
    ASSUME Publish \/ UNCHANGED filesVars
    PROVE  /\ UNCHANGED <<cached, sqlite, cut, baseurls, pos, get, got>>
           /\ UNCHANGED <<repomd, used, imported, at, db, force>>
           /\ Publish \/ UNCHANGED <<site, clean>>
BY DEF Publish, filesVars, diskVars, cacheVars, repoVars

LEMMA UsedAfterLoadingKept ==
    ASSUME FilesTypeOK, SomeMirror, CallFits, UsedAfterLoading, [FilesNext]_filesVars
    PROVE  UsedAfterLoading'
<1> USE DEF UsedAfterLoading, Loading, repoVars
<1>1. CASE Found \/ NotFound
  <2>1. UNCHANGED <<used, imported, db>> /\ (at' = at \/ (at = "mirrorlist" /\ at' = "raised"))
    BY <1>1, NetworkStep
  <2> QED
    BY <2>1
<1>2. CASE Calling
  <2>1. UNCHANGED <<used, imported, db>> /\ (at \in Loading <=> at' \in Loading)
        /\ at # "read" /\ at' # "read"
    BY <1>2, CallingKeeps
  <2> QED
    BY <2>1
<1>3. CASE AddMirrors \/ ParseRepomd \/ ParseComps \/ ReadPrimary \/ ImportFilelist
  <2> USE DEF Ready, Goto, Db
  <2>1. CASE AddMirrors
    BY <2>1 DEF AddMirrors
  <2>2. CASE ParseRepomd
    BY <2>2 DEF ParseRepomd
  <2>3. CASE ParseComps
    BY <2>3 DEF ParseComps
  <2>4. CASE ReadPrimary \/ ImportFilelist
    BY <2>4 DEF ReadPrimary, ImportFilelist
  <2> QED
    BY <1>3, <2>1, <2>2, <2>3, <2>4
<1>4. ASSUME NEW csum, NEW next \in Loading, Load(csum, next), at \in Loading, UNCHANGED db
      PROVE  UsedAfterLoading'
  BY <1>4 DEF Load, Return, Goto, FilesTypeOK, Db
<1>5. CASE LoadExisting \/ LoadUnpacked
  BY <1>4, <1>5 DEF LoadExisting, LoadUnpacked, Ready
<1>6. CASE Unpack
  BY <1>6 DEF Unpack, Ready, Goto
<1>7. CASE Unpacked \/ Create
  BY <1>7 DEF Unpacked, Create, Ready, Goto
<1>8. CASE CheckXml \/ ParseXml
  BY <1>8 DEF CheckXml, ParseXml, Return, Ready, Goto, FilesTypeOK, Db
<1>9. CASE Restart
  BY <1>9 DEF Restart, Db
<1>10. CASE Publish \/ UNCHANGED filesVars
  <2>1. UNCHANGED <<cached, get, got, repomd, used, imported, at, db>>
    BY <1>10, OutsideStep
  <2> QED
    BY <2>1
<1> QED
  BY <1>1, <1>2, <1>3, <1>5, <1>6, <1>7, <1>8, <1>9, <1>10, NextCases DEF Program

\* What is fetched for a caller that wants it whatever is in the cache is the
\* mirror's.
LEMMA FoundForced ==
    ASSUME FilesTypeOK, SomeMirror, CallFits, Found, NEW f \in File, get.file = f, get.force = TRUE
    PROVE  /\ BaseURL \in Mirror /\ site[BaseURL] \in Version
           /\ cached' = [cached EXCEPT ![f] = Whole(site[BaseURL])]
<1>1. get # NoGet /\ OfMirror /\ f # "mirrorlist"
  BY Files DEF Found, OfMirror
<1>2. baseurls # <<>>
  BY <1>1 DEF CallFits, SomeMirror
<1>3. BaseURL \in Mirror /\ site[BaseURL] \in Version
  BY <1>2, MirrorAtHand
<1>4. Fetched(f, TRUE, site[BaseURL]) = {Whole(site[BaseURL])}
  BY <1>3, FetchedType DEF FilesTypeOK
<1>5. \E c \in Fetched(f, TRUE, site[BaseURL]) : cached' = [cached EXCEPT ![f] = c]
  BY <1>1 DEF Found
<1> QED
  BY <1>3, <1>4, <1>5

LEMMA RepomdKnownKept ==
    ASSUME FilesTypeOK, SomeMirror, CallFits, RepomdKnown, [FilesNext]_filesVars
    PROVE  RepomdKnown'
<1> USE DEF RepomdKnown, Loading, repoVars
<1>1. CASE Found
  <2>1. UNCHANGED <<at, repomd>>
    BY <1>1 DEF Found
  <2>2. CASE at = "parse repomd"
    <3>1. get.file = "repomd" /\ get.force = TRUE /\ "repomd" \in File
      BY <1>1, <2>2, Files DEF Found, CallFits
    <3>2. cached' = [cached EXCEPT !["repomd"] = Whole(site[BaseURL])] /\ site[BaseURL] \in Version
      BY <1>1, <3>1, FoundForced
    <3>3. cached'["repomd"] = Whole(site[BaseURL])
      BY <3>1, <3>2 DEF FilesTypeOK
    <3>4. Whole(site[BaseURL]).ver = site[BaseURL] /\ site[BaseURL] # 0
      BY <3>2, VersionsCount DEF Whole
    <3> QED
      BY <2>1, <2>2, <3>3, <3>4
  <2>3. CASE at # "parse repomd"
    BY <2>1, <2>3
  <2> QED
    BY <2>2, <2>3
<1>2. CASE NotFound
  BY <1>2, NetworkStep DEF NotFound
<1>3. CASE Calling
  <2>1. CASE ReadRepoMD
    <3>1. at' = "parse repomd" => get' # NoGet
      <4>1. CASE Call("repomd", TRUE, "parse repomd")
        <5>1. get'.file = "repomd"
          BY <4>1 DEF Call
        <5>2. NoGet.file # "repomd"
          BY DEF NoGet
        <5> QED
          BY <5>1, <5>2
      <4>2. CASE Goto("raised")
        BY <4>2 DEF Goto
      <4> QED
        BY <2>1, <4>1, <4>2 DEF ReadRepoMD
    <3> QED
      BY <2>1, <3>1 DEF ReadRepoMD, Call, Goto
  <2>2. CASE ~ReadRepoMD
    <3>1. at # "repomd"
      BY <1>3, <2>2 DEF Calling, ReadMirrorList, ReadComps, GetBz2, GetXml, Ready
    <3> QED
      BY <1>3, <3>1, CallingKeeps
  <2> QED
    BY <2>1, <2>2
<1>4. CASE AddMirrors \/ ParseRepomd \/ ParseComps \/ ReadPrimary \/ ImportFilelist
  BY <1>4 DEF AddMirrors, ParseRepomd, ParseComps, ReadPrimary, ImportFilelist, Ready, Goto, Advertised
<1>5. ASSUME NEW csum, NEW next \in Loading, Load(csum, next), at \in Loading
      PROVE  RepomdKnown'
  BY <1>5 DEF Load, Return, Goto
<1>6. CASE LoadExisting \/ LoadUnpacked
  BY <1>5, <1>6 DEF LoadExisting, LoadUnpacked, Ready
<1>7. CASE Unpack
  BY <1>7 DEF Unpack, Ready, Goto
<1>8. CASE Unpacked \/ Create \/ CheckXml \/ ParseXml
  BY <1>8 DEF Unpacked, Create, CheckXml, ParseXml, Return, Ready, Goto
<1>9. CASE Restart
  BY <1>9 DEF Restart
<1>10. CASE Publish \/ UNCHANGED filesVars
  <2>1. UNCHANGED <<cached, get, got, repomd, used, imported, at, db>>
    BY <1>10, OutsideStep
  <2> QED
    BY <2>1
<1> QED
  BY <1>1, <1>2, <1>3, <1>4, <1>6, <1>7, <1>8, <1>9, <1>10, NextCases DEF Program

LEMMA DatabasesTrueKept ==
    ASSUME FilesTypeOK, SomeMirror, CallFits, DatabasesTrue, [FilesNext]_filesVars
    PROVE  DatabasesTrue'
<1> USE DEF DatabasesTrue
<1>1. CASE Found \/ NotFound
  <2>1. /\ UNCHANGED <<sqlite, cut, db>> /\ at # "unpacked" /\ at' # "unpacked"
        /\ at' \notin {"create", "parse"}
    BY <1>1, NetworkStep
  <2> QED
    BY <2>1
<1>2. CASE Calling
  <2>1. /\ UNCHANGED <<cached, sqlite, cut, db, repomd>> /\ at # "unpacked" /\ at' # "unpacked"
        /\ at' # "parse" /\ (at' = "create" => at = "xml")
    BY <1>2, CallingKeeps
  <2>2. at' = "create" => cached[db] = Whole(repomd)
    BY <1>2, <2>1 DEF Calling, ReadMirrorList, ReadRepoMD, ReadComps, GetBz2, GetXml, Call, Ready, Matches
  <2> QED
    BY <2>1, <2>2
<1>3. CASE AddMirrors \/ ParseRepomd \/ ParseComps \/ ReadPrimary \/ ImportFilelist
  BY <1>3 DEF AddMirrors, ParseRepomd, ParseComps, ReadPrimary, ImportFilelist, Ready, Goto, diskVars
<1>4. ASSUME NEW csum, NEW next \in {"bz2", "xml"}, Load(csum, next), at \in {"load", "loadbz2"}
      PROVE  UNCHANGED <<sqlite, cut>> /\ at' \notin {"unpacked", "create", "parse"}
  BY <1>4 DEF Load, Return, Goto, diskVars
<1>5. CASE LoadExisting \/ LoadUnpacked
  <2>1. UNCHANGED <<sqlite, cut>> /\ at' \notin {"unpacked", "create", "parse"} /\ at # "unpacked"
    BY <1>4, <1>5 DEF LoadExisting, LoadUnpacked, Ready
  <2> QED
    BY <2>1
<1>6. CASE Unpack
  <2> DEFINE c == cached[Bz2[db]]
  <2>1. at # "unpacked" /\ UNCHANGED <<cut, db>> /\ at' \notin {"create", "parse"}
    BY <1>6 DEF Unpack, Ready, Goto, diskVars
  <2>2. \/ sqlite' = sqlite /\ at' # "unpacked"
        \/ /\ at' = "unpacked"
           /\ sqlite' = [sqlite EXCEPT ![db] = [csum |-> c.ver, data |-> c.ver, state |-> "torn"]]
        \/ sqlite' = [sqlite EXCEPT ![db] = [NoDb EXCEPT !.state = "noinfo"]] /\ at' # "unpacked"
    BY <1>6 DEF Unpack, Goto, diskVars
  <2>3. CASE sqlite' = sqlite /\ at' # "unpacked"
    BY <2>1, <2>3
  <2>4. ASSUME NEW rec, sqlite' = [sqlite EXCEPT ![db] = rec],
               \/ rec.state = "noinfo" /\ at' # "unpacked"
               \/ rec.state = "torn" /\ rec.csum = rec.data /\ at' = "unpacked"
        PROVE  DatabasesTrue'
    BY <2>1, <2>4 DEF FilesTypeOK
  <2>5. [NoDb EXCEPT !.state = "noinfo"].state = "noinfo"
    BY DEF NoDb
  <2> HIDE DEF c
  <2> QED
    BY <2>2, <2>3, <2>4, <2>5
<1>7. CASE Unpacked
  <2>1. /\ sqlite' = [sqlite EXCEPT ![db] = [sqlite[db] EXCEPT !.state = "whole"]] /\ cut' = cut \ {db}
        /\ at = "unpacked" /\ at' = "loadbz2" /\ db' = db
    BY <1>7 DEF Unpacked, Ready, Goto
  <2>2. sqlite[db] \in DbRec
    BY DEF FilesTypeOK
  <2>3. /\ [sqlite[db] EXCEPT !.state = "whole"].state = "whole"
        /\ [sqlite[db] EXCEPT !.state = "whole"].csum = sqlite[db].csum
        /\ [sqlite[db] EXCEPT !.state = "whole"].data = sqlite[db].data
    BY <2>2 DEF DbRec
  <2> QED
    BY <2>1, <2>3 DEF FilesTypeOK
<1>8. CASE CheckXml
  BY <1>8 DEF CheckXml, Return, Ready, Goto, Matches, diskVars, repoVars
<1>9. CASE Create
  <2>1. [NoDb EXCEPT !.state = "noinfo"].state = "noinfo"
    BY DEF NoDb
  <2> QED
    BY <1>9, <2>1 DEF Create, Ready, Goto, FilesTypeOK, repoVars
<1>10. CASE ParseXml
  <2>1. /\ sqlite' = [sqlite EXCEPT ![db] = SetInfo(db)] /\ cut' = cut /\ db' = db
        /\ at = "parse" /\ at' \in {"read", "failed"}
    BY <1>10 DEF ParseXml, Return, Ready, Goto
  <2>2. SetInfo(db).csum = repomd /\ SetInfo(db).data = repomd /\ SetInfo(db).state = "whole"
    BY <2>1 DEF SetInfo, Whole
  <2> QED
    BY <2>1, <2>2 DEF FilesTypeOK
<1>11. CASE Restart
  BY <1>11 DEF Restart
<1>12. CASE Publish \/ UNCHANGED filesVars
  <2>1. UNCHANGED <<cached, sqlite, cut, repomd, at, db>>
    BY <1>12, OutsideStep
  <2> QED
    BY <2>1
<1> QED
  BY <1>1, <1>2, <1>3, <1>5, <1>6, <1>7, <1>8, <1>9, <1>10, <1>11, <1>12, NextCases DEF Program

\* The only steps after which another database is in use: one that was found and
\* says that it is the advertised one, or one just made from the XML file.
LEMMA UsedIsAdvertisedKept ==
    ASSUME FilesTypeOK, SomeMirror, CallFits, UsedAfterLoading, RepomdKnown, DatabasesTrue,
           UsedIsAdvertised, [FilesNext]_filesVars
    PROVE  UsedIsAdvertised'
<1> USE DEF UsedIsAdvertised
<1>1. ASSUME UNCHANGED <<used, repomd, cut>> PROVE UsedIsAdvertised'
  BY <1>1
<1>2. ASSUME \A t \in Db : used'[t] = NoDb PROVE UsedIsAdvertised'
  BY <1>2
<1>3. CASE Found \/ NotFound
  BY <1>1, <1>3, NetworkStep
<1>4. CASE Calling
  BY <1>1, <1>4, CallingKeeps
<1>5. CASE AddMirrors \/ ParseComps \/ ReadPrimary \/ ImportFilelist
  BY <1>1, <1>5 DEF AddMirrors, ParseComps, ReadPrimary, ImportFilelist, repoVars, diskVars
<1>6. CASE ParseRepomd
  <2>1. \A t \in Db : used'[t] = NoDb
    BY <1>6 DEF ParseRepomd, Ready, UsedAfterLoading, Loading
  <2> QED
    BY <1>2, <2>1
<1>7. CASE LoadExisting \/ LoadUnpacked
  <2>1. PICK csum \in LoadCache(db) : \E next : Load(csum, next)
    BY <1>7 DEF LoadExisting, LoadUnpacked
  <2>2. at \in {"load", "loadbz2"} /\ repomd # 0
    BY <1>7 DEF LoadExisting, LoadUnpacked, Ready, RepomdKnown, Loading
  <2>3. CASE csum = repomd
    <3>1. used' = [used EXCEPT ![db] = sqlite[db]] /\ UNCHANGED <<cut, repomd>>
      BY <2>1, <2>3 DEF Load, diskVars
    <3>2. sqlite[db].state \in {"torn", "whole"} /\ sqlite[db].csum = repomd
      BY <2>1, <2>2, <2>3 DEF LoadCache
    <3>3. sqlite[db].data = repomd /\ (sqlite[db].state = "torn" => db \in cut)
      BY <2>2, <3>2 DEF DatabasesTrue, FilesTypeOK
    <3> QED
      BY <3>1, <3>2, <3>3 DEF FilesTypeOK
  <2>4. CASE csum # repomd
    BY <1>1, <2>1, <2>4 DEF Load, diskVars, repoVars
  <2> QED
    BY <2>3, <2>4
<1>8. CASE Unpack
  <2>1. UNCHANGED <<used, repomd, cut>>
    BY <1>8 DEF Unpack, repoVars, diskVars
  <2> QED
    BY <1>1, <2>1
<1>9. CASE Unpacked \/ Create
  <2>1. UNCHANGED <<used, repomd>> /\ cut' = cut \ {db} /\ used[db] = NoDb
    BY <1>9 DEF Unpacked, Create, Ready, UsedAfterLoading, Loading, repoVars
  <2> QED
    BY <2>1
<1>10. CASE CheckXml
  BY <1>1, <1>10 DEF CheckXml, repoVars, diskVars
<1>11. CASE ParseXml
  <2>1. used' = [used EXCEPT ![db] = SetInfo(db)] /\ UNCHANGED <<cut, repomd>> /\ cached[db] = Whole(repomd)
    BY <1>11 DEF ParseXml, Ready, DatabasesTrue
  <2>2. SetInfo(db).csum = repomd /\ SetInfo(db).data = repomd /\ SetInfo(db).state = "whole"
    BY <2>1 DEF SetInfo, Whole
  <2> QED
    BY <2>1, <2>2 DEF FilesTypeOK
<1>12. CASE Restart
  BY <1>2, <1>12 DEF Restart
<1>13. CASE Publish \/ UNCHANGED filesVars
  BY <1>1, <1>13, OutsideStep
<1> QED
  BY <1>3, <1>4, <1>5, <1>6, <1>7, <1>8, <1>9, <1>10, <1>11, <1>12, <1>13, NextCases DEF Program

-----------------------------------------------------------------------------
(* The mirrors.                                                            *)

\* One more mirror was asked; the next is the first one only when that was all.
LEMMA OneMoreAsked ==
    ASSUME FilesTypeOK, AskedSoFar, get # NoGet, baseurls # <<>>, Rotate, UNCHANGED baseurls
    PROVE  /\ get' # NoGet => AskedSoFar'
           /\ get' = NoGet => get.asked \union {BaseURL} = Elements(baseurls)
<1> DEFINE n == Len(baseurls)
<1>1. /\ n \in Nat \ {0} /\ pos \in 1 .. n /\ DOMAIN baseurls = 1 .. n
      /\ get \in GetRec /\ get.opos \in 1 .. n
  <2>1. n \in Nat /\ pos \in 1 .. n /\ DOMAIN baseurls = 1 .. n
    BY MirrorAtHand DEF FilesTypeOK
  <2>2. get \in GetRec
    BY DEF FilesTypeOK
  <2>3. get.opos \in Nat \ {0} /\ (get.opos <= n \/ get.opos = 1)
    BY DEF AskedSoFar
  <2> QED
    BY <2>1, <2>2, <2>3
<1>2. pos' = IF pos = n THEN 1 ELSE pos + 1
  BY <1>1, NextMirror DEF Rotate
<1>3. get.asked \union {BaseURL} = {baseurls[i] : i \in {j \in DOMAIN baseurls : Between(j) \/ j = pos}}
  BY <1>1 DEF AskedSoFar, BaseURL
<1> HIDE DEF n
<1>4. CASE pos' = get.opos
  <2>1. \A j \in 1 .. n : Between(j) \/ j = pos
    BY <1>1, <1>2, <1>4 DEF Between
  <2>2. get.asked \union {BaseURL} = Elements(baseurls)
    BY <1>1, <1>3, <2>1 DEF Elements
  <2>3. get' = NoGet
    BY <1>4 DEF Rotate
  <2> QED
    BY <2>2, <2>3
<1>5. CASE pos' # get.opos
  <2>1. get' = [get EXCEPT !.asked = @ \union {BaseURL}]
    BY <1>5 DEF Rotate
  <2>2. get'.opos = get.opos /\ get'.asked = get.asked \union {BaseURL} /\ get' # NoGet
    <3>1. get'.file = get.file /\ get.file # "none" /\ NoGet.file = "none"
      BY <1>1, <2>1, Files DEF GetRec, NoGet
    <3> QED
      BY <1>1, <2>1, <3>1 DEF GetRec
  <2>3. \A j \in 1 .. n : Between(j)' <=> Between(j) \/ j = pos
    BY <1>1, <1>2, <1>5, <2>2 DEF Between
  <2>4. get'.asked = {baseurls'[i] : i \in {j \in DOMAIN baseurls' : Between(j)'}}
    BY <1>1, <1>3, <2>2, <2>3
  <2> QED
    BY <1>1, <2>2, <2>4 DEF AskedSoFar, n
<1> QED
  BY <1>4, <1>5

LEMMA AskedSoFarKept ==
    ASSUME FilesTypeOK, AskedSoFar, [FilesNext]_filesVars
    PROVE  AskedSoFar'
<1>1. get' = NoGet => AskedSoFar'
  BY DEF AskedSoFar
<1>2. CASE Found \/ Program \/ Restart
  BY <1>1, <1>2, ProgramStep DEF Found, Restart
<1>3. CASE NotFound
  <2>1. CASE baseurls = <<>>
    BY <1>1, <1>3, <2>1 DEF NotFound
  <2>2. CASE baseurls # <<>>
    <3>1. get # NoGet /\ Rotate /\ UNCHANGED baseurls
      BY <1>3, <2>2 DEF NotFound
    <3> QED
      BY <1>1, <2>2, <3>1, OneMoreAsked
  <2> QED
    BY <2>1, <2>2
<1>4. CASE Calling
  <2>1. ASSUME NEW f, NEW forced, NEW next, Call(f, forced, next) PROVE AskedSoFar'
    <3>1. get'.opos = pos /\ get'.asked = {} /\ UNCHANGED <<baseurls, pos>>
      BY <2>1 DEF Call
    <3>2. pos \in Nat \ {0} /\ (pos <= Len(baseurls) \/ pos = 1)
      BY DEF FilesTypeOK
    <3>3. \A j \in DOMAIN baseurls' : ~Between(j)'
      <4>1. \A j \in DOMAIN baseurls : j \in Nat
        BY DEF FilesTypeOK
      <4> QED
        BY <3>1, <3>2, <4>1 DEF Between
    <3> QED
      BY <3>1, <3>2, <3>3 DEF AskedSoFar
  <2>2. ASSUME NEW next, Goto(next), get = NoGet PROVE AskedSoFar'
    BY <1>1, <2>2 DEF Goto, cacheVars
  <2> QED
    BY <1>4, <2>1, <2>2 DEF Calling, ReadMirrorList, ReadRepoMD, ReadComps, GetBz2, GetXml, Ready
<1>5. CASE Publish \/ UNCHANGED filesVars
  <2>1. UNCHANGED <<baseurls, pos, get>>
    BY <1>5, OutsideStep
  <2> QED
    BY <2>1 DEF AskedSoFar, Between
<1> QED
  BY <1>2, <1>3, <1>4, <1>5, NextCases

-----------------------------------------------------------------------------
(* The theorems.                                                           *)

LEMMA InitFilesInv == FilesInit => FilesInv
<1> SUFFICES ASSUME FilesInit PROVE FilesInv
  OBVIOUS
<1> USE RepoFilesAssumption DEF FilesInit, NewCache, NewRepoDB, Read
<1>1. FilesTypeOK
  <2>1. None \in FileRec /\ NoDb \in DbRec
    BY DEF None, FileRec, NoDb, DbRec
  <2>2. cached \in [File -> FileRec] /\ sqlite \in [Db -> DbRec] /\ used \in [Db -> DbRec]
    BY <2>1
  <2>3. 1 \in Version /\ db \in Db /\ at \in Steps
    BY DEF Version, Db, Steps
  <2>4. site \in [Mirror -> Version] /\ baseurls \in Seq(Mirror)
    BY <2>3
  <2>5. pos = 1 /\ get = NoGet /\ cut = {} /\ repomd = 0
    OBVIOUS
  <2>6. got \in BOOLEAN /\ force \in BOOLEAN /\ imported \in BOOLEAN /\ clean \in BOOLEAN
    OBVIOUS
  <2> QED
    BY <2>2, <2>3, <2>4, <2>5, <2>6 DEF FilesTypeOK
<1>2. SomeMirror /\ CallFits /\ AskedSoFar
  BY DEF SomeMirror, CallFits, AskedSoFar
<1>3. UsedAfterLoading /\ UsedIsAdvertised
  BY DEF UsedAfterLoading, UsedIsAdvertised, Loading, Db
<1>4. RepomdKnown /\ DatabasesTrue
  BY DEF RepomdKnown, DatabasesTrue, NoDb, Loading
<1> QED
  BY <1>1, <1>2, <1>3, <1>4 DEF FilesInv

LEMMA FilesInvKept == FilesInv /\ [FilesNext]_filesVars => FilesInv'
BY TypesKept, SomeMirrorKept, CallFitsKept, UsedAfterLoadingKept, RepomdKnownKept, DatabasesTrueKept,
   AskedSoFarKept, UsedIsAdvertisedKept DEF FilesInv

LEMMA FilesInvHolds == FilesSpec => []FilesInv
BY InitFilesInv, FilesInvKept, PTL DEF FilesSpec

\* A database that is used is the one repomd.xml lists and has the rows of it,
\* whatever was left in the cache directory and however the mirrors changed;
\* it is cut short only if a program died while it unpacked that very file
\* (getDbFile and loadCache of SqliteRepoDB).
THEOREM UsedIsAdvertisedHolds == FilesSpec => []UsedIsAdvertised
<1>1. FilesInv => UsedIsAdvertised
  BY DEF FilesInv
<1> QED
  BY <1>1, FilesInvHolds, PTL

\* For any list of mirrors and whichever of them is asked first, a file is given
\* up only after all of them were asked (cache() of NetworkCache).
THEOREM EveryMirrorAskedHolds == FilesSpec => EveryMirrorAsked
<1>1. FilesInv /\ [FilesNext]_filesVars =>
        [OfMirror /\ get # NoGet /\ get' = NoGet /\ ~got' =>
            get.asked \union {BaseURL} = Elements(baseurls) \/ at' = "mirrors"]_filesVars
  <2> SUFFICES ASSUME FilesInv, [FilesNext]_filesVars, OfMirror, get # NoGet, get' = NoGet, ~got'
               PROVE  get.asked \union {BaseURL} = Elements(baseurls) \/ at' = "mirrors"
    OBVIOUS
  <2>1. CASE NotFound
    <3>1. baseurls # <<>>
      BY Files DEF OfMirror, FilesInv, CallFits, SomeMirror
    <3>2. Rotate /\ UNCHANGED baseurls
      BY <2>1, <3>1 DEF NotFound
    <3> QED
      BY <3>1, <3>2, OneMoreAsked DEF FilesInv
  <2>2. CASE Restart
    BY <2>2 DEF Restart
  <2>3. CASE Found
    BY <2>3 DEF Found
  <2>4. CASE Program \/ Calling
    <3>1. Program => get = NoGet
      BY ProgramStep
    <3>2. Calling => get = NoGet
      BY DEF Calling, ReadMirrorList, ReadRepoMD, ReadComps, GetBz2, GetXml, Ready
    <3> QED
      BY <2>4, <3>1, <3>2
  <2>5. CASE Publish \/ UNCHANGED filesVars
    <3>1. get' = get
      BY <2>5, OutsideStep
    <3> QED
      BY <3>1
  <2> QED
    BY <2>1, <2>2, <2>3, <2>4, <2>5, NextCases
<1> QED
  BY <1>1, FilesInvHolds, PTL DEF FilesSpec, EveryMirrorAsked

\* There is a mirror, so there is a version they have if they agree.
LEMMA CommonVersion ==
    ASSUME FilesTypeOK, Agree, baseurls # <<>>
    PROVE  BaseURL \in Mirror /\ \A m \in Mirror : site[m] = site[BaseURL]
BY MirrorAtHand DEF Agree

\* The failures a clean program sees are those of databases that were not
\* published.
LEMMA CleanNotFound ==
    ASSUME FilesTypeOK, SomeMirror, CallFits, NotFound, clean'
    PROVE  clean /\ at = "unpack" /\ at' = at
<1>1. /\ get # NoGet /\ clean /\ OfMirror /\ ~Offered(get.file, site[BaseURL])
  BY DEF NotFound
<1>2. at = "unpack" /\ baseurls # <<>>
  <2>1. get.file \in {"primary.bz2", "filelists.bz2"}
    BY <1>1, Files DEF Offered
  <2>2. db \in {"primary", "filelists"}
    BY Files DEF FilesTypeOK
  <2> QED
    BY <1>1, <2>1, <2>2 DEF CallFits, SomeMirror
<1> QED
  BY <1>1, <1>2 DEF NotFound

LEMMA CleanFound ==
    ASSUME FilesTypeOK, SomeMirror, CallFits, CleanSoFar, Found
    PROVE  CleanSoFar'
<1> SUFFICES ASSUME clean PROVE CleanSoFar'
  BY DEF CleanSoFar, Found
<1>1. /\ UNCHANGED <<site, baseurls, at, db, clean, repomd>> /\ got' = TRUE /\ get # NoGet
      /\ Agree
  BY DEF Found, CleanSoFar, repoVars
<1>2. Agree'
  BY <1>1 DEF Agree
<1>3. ASSUME at \in {"parse repomd", "fetched"}
      PROVE  \A m \in Mirror : cached'[get.file] = Whole(site[m])
  <2>1. get.file \in File /\ get.force = TRUE /\ baseurls # <<>>
    BY <1>1, <1>3, Files DEF CallFits, FilesTypeOK, SomeMirror
  <2>2. cached' = [cached EXCEPT ![get.file] = Whole(site[BaseURL])]
    BY <2>1, FoundForced
  <2> QED
    BY <1>1, <2>1, <2>2, CommonVersion DEF FilesTypeOK
<1>4. at = "parse repomd" => \A m \in Mirror : cached'["repomd"].ver = site[m]
  <2>1. \A m \in Mirror : Whole(site[m]).ver = site[m]
    BY DEF Whole
  <2> QED
    BY <1>1, <1>3, <2>1 DEF CallFits
<1>5. at = "fetched" => \A m \in Mirror : cached'[db] = Whole(site[m])
  BY <1>1, <1>3 DEF CallFits
<1> QED
  BY <1>1, <1>2, <1>4, <1>5 DEF CleanSoFar

LEMMA CleanCalling ==
    ASSUME FilesTypeOK, CleanSoFar, Calling
    PROVE  CleanSoFar'
<1>1. UNCHANGED <<site, baseurls, clean, repomd>>
  BY CallingKeeps
<1> SUFFICES ASSUME clean PROVE CleanSoFar'
  BY <1>1 DEF CleanSoFar
<1>2. Agree' /\ Agree
  BY <1>1 DEF CleanSoFar, Agree
<1>3. ASSUME NEW f, NEW forced, NEW next, Call(f, forced, next), f # "none"
      PROVE  get' # NoGet /\ at' = next
  <2>1. get'.file = f /\ NoGet.file = "none" /\ at' = next
    BY <1>3 DEF Call, NoGet
  <2> QED
    BY <1>3, <2>1
<1>4. /\ BaseUrls \o Listed # <<>> /\ BaseUrls \in Seq(Mirror) /\ Listed \in Seq(Mirror)
      /\ BaseUrls \o <<>> = BaseUrls
  BY RepoFilesAssumption
<1>5. CASE ReadMirrorList
  <2>1. /\ at = "mirrors"
        /\ \/ at' = "repomd" /\ Listed = <<>>
           \/ at' = "mirrorlist" /\ Listed # <<>> /\ get' # NoGet
    BY <1>3, <1>5 DEF ReadMirrorList, Ready, Goto
  <2> QED
    BY <1>1, <1>2, <1>4, <2>1 DEF CleanSoFar
<1>6. CASE ReadRepoMD
  <2>1. baseurls # <<>> /\ at' = "parse repomd" /\ get' # NoGet
    BY <1>3, <1>6 DEF ReadRepoMD, Ready, CleanSoFar
  <2> QED
    BY <1>1, <1>2, <2>1 DEF CleanSoFar
<1>7. CASE ReadComps
  <2>1. at = "comps" /\ (at' = "primary" \/ (at' = "parse comps" /\ get' # NoGet))
    BY <1>3, <1>7 DEF ReadComps, Ready, Goto
  <2> QED
    BY <1>1, <1>2, <2>1 DEF CleanSoFar
<1>8. CASE GetBz2
  <2>1. at = "bz2" /\ at' = "unpack"
    BY <1>8 DEF GetBz2, Ready, Call
  <2> QED
    BY <1>1, <1>2, <2>1 DEF CleanSoFar
<1>9. CASE GetXml
  <2>1. at = "xml" /\ (at' = "create" \/ (at' = "fetched" /\ get' # NoGet))
    BY <1>3, <1>9 DEF GetXml, Ready, Goto, FilesTypeOK, Db
  <2> QED
    BY <1>1, <1>2, <2>1 DEF CleanSoFar
<1> QED
  BY <1>5, <1>6, <1>7, <1>8, <1>9 DEF Calling

\* With the lists of all mirrors the file that was fetched is the one advertised.
LEMMA CleanFetched ==
    ASSUME FilesTypeOK, SomeMirror, RepomdKnown, CleanSoFar, clean, Ready("fetched")
    PROVE  got /\ Matches(db)
<1>1. baseurls # <<>> /\ repomd # 0
  BY DEF Ready, SomeMirror, RepomdKnown, Loading
<1>2. got /\ \A m \in Mirror : cached[db] = Whole(site[m]) /\ repomd = site[m]
  BY <1>1 DEF Ready, CleanSoFar
<1> QED
  BY <1>1, <1>2, MirrorAtHand DEF Matches

LEMMA CleanProgram ==
    ASSUME FilesTypeOK, SomeMirror, RepomdKnown, CleanSoFar, Program
    PROVE  CleanSoFar'
<1>1. UNCHANGED <<site, clean>>
  BY ProgramStep
<1> SUFFICES ASSUME clean PROVE CleanSoFar'
  BY <1>1 DEF CleanSoFar
<1>2. Agree' /\ Agree
  BY <1>1 DEF CleanSoFar, Agree
<1>3. CASE AddMirrors
  <2>1. baseurls' = baseurls \o Listed /\ Listed # <<>> /\ at' = "repomd" /\ repomd' = repomd
    BY <1>3 DEF AddMirrors, AddCache, Ready, CleanSoFar, repoVars
  <2>2. baseurls \o Listed # <<>>
    BY <2>1, RepoFilesAssumption DEF FilesTypeOK
  <2> QED
    BY <1>1, <1>2, <2>1, <2>2 DEF CleanSoFar
<1>4. CASE ParseRepomd
  <2>1. at = "parse repomd" /\ get = NoGet /\ got
    BY <1>4 DEF ParseRepomd, Ready, CleanSoFar
  <2>2. at' = "comps" /\ repomd' = cached["repomd"].ver
    BY <1>4, <2>1 DEF ParseRepomd, Goto, Advertised
  <2>3. baseurls' # <<>>
    BY <1>4, <2>1 DEF ParseRepomd, Goto, cacheVars, SomeMirror
  <2> QED
    BY <1>1, <1>2, <2>1, <2>2, <2>3 DEF CleanSoFar
<1>5. ASSUME UNCHANGED <<baseurls, repomd>>, baseurls # <<>>,
             at' \notin {"mirrors", "mirrorlist", "parse repomd", "parse comps", "fetched", "failed", "raised"}
      PROVE  CleanSoFar'
  BY <1>1, <1>2, <1>5 DEF CleanSoFar
<1>6. CASE ~(AddMirrors \/ ParseRepomd)
  <2>1. UNCHANGED baseurls /\ baseurls # <<>>
    BY <1>6, ProgramStep DEF SomeMirror
  <2>2. CASE ParseComps \/ ReadPrimary \/ ImportFilelist
    <3>1. repomd' = repomd /\ at' \in {"primary", "load"}
      <4>1. ParseComps => got
        BY DEF ParseComps, Ready, CleanSoFar
      <4> QED
        BY <2>2, <4>1 DEF ParseComps, ReadPrimary, ImportFilelist, Goto, repoVars
    <3> QED
      BY <1>5, <2>1, <3>1
  <2>3. CASE LoadExisting \/ LoadUnpacked
    <3>1. PICK next \in {"bz2", "xml"} : \E csum : Load(csum, next)
      BY <2>3 DEF LoadExisting, LoadUnpacked
    <3>2. repomd' = repomd /\ at' \in {"read", "bz2", "xml"}
      BY <3>1 DEF Load, Return, Goto, repoVars
    <3> QED
      BY <1>5, <2>1, <3>2
  <2>4. CASE Unpack
    <3>1. repomd' = repomd /\ at' \in {"xml", "unpacked", "bz2"}
      BY <2>4 DEF Unpack, Goto, repoVars
    <3> QED
      BY <1>5, <2>1, <3>1
  <2>5. CASE Unpacked \/ Create \/ ParseXml
    <3>1. repomd' = repomd /\ at' \in {"loadbz2", "parse", "read"}
      BY <2>5 DEF Unpacked, Create, ParseXml, Return, Goto, repoVars
    <3> QED
      BY <1>5, <2>1, <3>1
  <2>6. CASE CheckXml
    <3>1. got /\ Matches(db)
      BY <2>6, CleanFetched DEF CheckXml
    <3>2. repomd' = repomd /\ at' = "create"
      BY <2>6, <3>1 DEF CheckXml, Goto, repoVars
    <3> QED
      BY <1>5, <2>1, <3>2
  <2> QED
    BY <1>6, <2>2, <2>3, <2>4, <2>5, <2>6 DEF Program
<1> QED
  BY <1>3, <1>4, <1>6

\* What is left in the cache directory never keeps a program from reading the
\* repository: while the mirrors agree and answer, read() does not fail.
THEOREM LeftoversHarmlessHolds == FilesSpec => []LeftoversHarmless
<1>1. FilesInit => CleanSoFar
  <2> SUFFICES ASSUME FilesInit PROVE CleanSoFar
    OBVIOUS
  <2>1. /\ \A m \in Mirror : site[m] = 1
        /\ baseurls = BaseUrls /\ get = NoGet /\ at = "mirrors" /\ repomd = 0
    BY DEF FilesInit, NewCache, NewRepoDB, Read
  <2> QED
    BY <2>1 DEF CleanSoFar, Agree
<1>2. FilesInv /\ CleanSoFar /\ [FilesNext]_filesVars => CleanSoFar'
  <2> SUFFICES ASSUME FilesInv, CleanSoFar, [FilesNext]_filesVars PROVE CleanSoFar'
    OBVIOUS
  <2> USE DEF FilesInv
  <2>1. CASE Found
    BY <2>1, CleanFound
  <2>2. CASE NotFound
    <3> SUFFICES ASSUME clean' PROVE CleanSoFar'
      BY DEF CleanSoFar
    <3>1. clean /\ at = "unpack" /\ at' = at
      BY <2>2, CleanNotFound
    <3>2. UNCHANGED <<site, baseurls, repomd>>
      BY <2>2, NetworkStep
    <3> QED
      BY <3>1, <3>2 DEF CleanSoFar, Agree
  <2>3. CASE Calling
    BY <2>3, CleanCalling
  <2>4. CASE Program
    BY <2>4, CleanProgram
  <2>5. CASE Publish
    BY <2>5 DEF Publish, CleanSoFar
  <2>6. CASE Restart
    <3>1. /\ clean' = Agree /\ site' = site /\ at' = "mirrors" /\ baseurls' = BaseUrls /\ repomd' = 0
      BY <2>6 DEF Restart
    <3> QED
      BY <3>1 DEF CleanSoFar, Agree
  <2>7. CASE UNCHANGED filesVars
    <3>1. UNCHANGED <<site, clean, cached, baseurls, get, got, repomd, at, db>>
      BY <2>7 DEF filesVars, diskVars, cacheVars, repoVars
    <3> QED
      BY <3>1 DEF CleanSoFar, Agree
  <2> QED
    BY <2>1, <2>2, <2>3, <2>4, <2>5, <2>6, <2>7, NextCases
<1>3. CleanSoFar => LeftoversHarmless
  BY DEF CleanSoFar, LeftoversHarmless
<1> QED
  BY <1>1, <1>2, <1>3, FilesInvHolds, PTL DEF FilesSpec

=============================================================================
