------------------------------ MODULE Metadata -------------------------------
(***************************************************************************)
(* The metadata of a repository: what createRepo() writes of every package *)
(* into primary.xml and filelists.xml (pyrpm/database/repodb.py), and what *)
(* the two readers make of it: RpmRepoDB keeps package objects in memory,  *)
(* SqliteRepoDB (sqliterepodb.py) rows of tables that package objects are  *)
(* filled from when they are asked for something.  The repositories in use *)
(* are written by another program, createrepo, which is external: it says  *)
(* the same of a package, in files that name their namespace and have      *)
(* checksums in repomd.xml.  A reader starts with an empty cache.          *)
(*                                                                         *)
(* The XML of a file is the sequence of the packages it describes; what it *)
(* says of a package follows from the header.  A version is a triple of    *)
(* numbers that stand for strings in their order: NoEpoch for an epoch     *)
(* that is left out, 0 for an empty string.  A path is a sequence of the   *)
(* parts between slashes.  Lists of dependencies are sets.                 *)
(***************************************************************************)
EXTENDS Integers, Sequences, SequencesExt

CONSTANTS
    Pkg,        \* the package files in the directory
    Name, Evr,  \* their names and versions, with which they are found
    Provides,   \* [name, flags, evr] of the headers
    Requires,
    Files,      \* sequence of [path, kind]; kind is file, dir or ghost
    Digest,     \* of the package file, the pkgId
    Excluded,   \* by the configuration of the reader
    InPrimary   \* the paths that _filerc and _dirrc match

NoEpoch == -1
NoVersion == <<NoEpoch, 0, 0>>
Sense == {"LESS", "EQUAL", "GREATER"}

MetadataAssumption ==
    /\ \A p \in Pkg : \A d \in Provides[p] \union Requires[p] :
           d.evr = NoVersion => d.flags \intersect Sense = {}
    \* The same file may be there twice; other files differ in name or version.
    /\ \A p, q \in Pkg : (Name[p] = Name[q] /\ Evr[p] = Evr[q]) => Digest[p] = Digest[q]
    /\ \A p, q \in Pkg : Digest[p] = Digest[q] =>
           <<Name[p], Evr[p], Provides[p], Requires[p], Files[p]>>
               = <<Name[q], Evr[q], Provides[q], Requires[q], Files[q]>>

VARIABLES
    writer,    \* "createRepo", or "createrepo" for the other program
    stage,     \* of the writer: open, write, or how it ended (0, 1, IOError)
    repomd,    \* repomd.xml: none, of other files, or of those that are there
    todo,      \* the packages the writer has not come to
    primary,   \* the <package> elements of primary.xml
    filelists, \* those of filelists.xml
    read,      \* how many elements either reader has parsed: [memory, sqlite]
    memory,    \* RpmRepoDB.pkgs
    names,     \* the file names of a package object of RpmRepoDB
    rows,      \* the packages table
    listrows,  \* the packages table of the filelists database
    imported,  \* filelist_imported of either reader
    object     \* the file names of a package object of SqliteRepoDB

metadataVars ==
    <<writer, stage, repomd, todo, primary, filelists, read, memory, names, rows, listrows, imported, object>>

NotLoaded == {<<>>}
Readers == {"memory", "sqlite"}

TypeOK ==
    /\ stage \in {"open", "write", "0", "1", "IOError"} /\ repomd \in {"none", "other", "these"}
    /\ todo \subseteq Pkg
    /\ primary \in Seq(Pkg) /\ filelists \in Seq(Pkg)
    /\ read \in [Readers -> 0..Len(primary)]
    /\ memory \subseteq Pkg /\ rows \subseteq Pkg /\ listrows \subseteq rows
    /\ imported \in [Readers -> BOOLEAN]

CreatePrimaryTables == rows = {}
CreateFilelistsTables == listrows = {}

\* A repository that is described anew may have a repomd.xml.
Init ==
    /\ writer \in {"createRepo", "createrepo"} /\ stage = "open"
    /\ repomd \in {"none", "other"}
    /\ todo = Pkg
    /\ primary = <<>> /\ filelists = <<>>
    /\ read = [r \in Readers |-> 0]
    /\ memory = {} /\ names = [p \in Pkg |-> NotLoaded]
    /\ CreatePrimaryTables /\ CreateFilelistsTables
    /\ imported = [r \in Readers |-> FALSE]
    /\ object = [p \in Pkg |-> NotLoaded]

-----------------------------------------------------------------------------
(* Versions and flags.                                                     *)

EvrSplit(evr, default) ==
    <<IF evr[1] = NoEpoch THEN default ELSE evr[1], evr[2], evr[3]>>

Cmp(m, n) == IF m < n THEN -1 ELSE IF m > n THEN 1 ELSE 0

LabelCompare(v, w) ==
    IF v[1] # w[1] THEN Cmp(v[1], w[1])
    ELSE IF v[2] # w[2] THEN Cmp(v[2], w[2])
    ELSE IF 0 \in {v[3], w[3]} THEN 0 ELSE Cmp(v[3], w[3])

RangesOverlap(flags, evr, flags2, evr2) ==
    LET sense == LabelCompare(EvrSplit(evr, 0), EvrSplit(evr2, 0))
    IN  \/ sense < 0 /\ ("GREATER" \in flags \/ "LESS" \in flags2)
        \/ sense > 0 /\ ("LESS" \in flags \/ "GREATER" \in flags2)
        \/ sense = 0 /\ flags \intersect flags2 \intersect Sense # {}

\* What a requirement is there for: the scripts of an installation or erasure,
\* the interpreter of a script, or (PREREQ alone) the old way to say either.
IsLegacyPreReq(flags) == flags \intersect {"PREREQ", "PRE", "PREUN", "INTERP"} = {"PREREQ"}
IsInstallPreReq(flags) == "PRE" \in flags
PreReq(flags) == IsLegacyPreReq(flags) \/ IsInstallPreReq(flags)

-----------------------------------------------------------------------------
(* Writing.                                                                *)

FilterDuplicateDeps(deps) ==
    {[name |-> d.name, flags |-> d.flags \intersect (Sense \union {"PREREQ"}), evr |-> d.evr] :
        d \in deps}

\* <rpm:entry>: without a version there is no epoch either.
GenerateDeps(deps) ==
    {[name |-> d.name, flags |-> d.flags \intersect Sense, pre |-> PreReq(d.flags),
      evr |-> IF d.evr = NoVersion THEN NoVersion ELSE EvrSplit(d.evr, 0)] :
        d \in FilterDuplicateDeps(deps)}

\* Files, then directories, then ghosts.
GenerateFilelist(p, filter) ==
    LET kind(k) == SelectSeq(Files[p], LAMBDA f : /\ f.kind = k
                                                  /\ filter => f.path \in InPrimary)
    IN  kind("file") \o kind("dir") \o kind("ghost")

\* Values that a header does not have are added: GetDeps() of the package.
GetDeps(p, tag) == IF tag = "provides" THEN Provides[p] ELSE Requires[p]

GenerateFormat(p) ==
    [provides |-> GenerateDeps(GetDeps(p, "provides")),
     requires |-> GenerateDeps(GetDeps(p, "requires")),
     files |-> GenerateFilelist(p, TRUE)]

\* The pkgId.
GetChecksum(p) == Digest[p]

WritePrimary(p) == primary' = Append(primary, p)
WriteFilelists(p) == filelists' = Append(filelists, p)

Unread == UNCHANGED <<read, memory, names, rows, listrows, imported, object>>

\* createRepo() opens repomd.xml, to which it is going to write, for reading.
OpenRepomd ==
    /\ stage = "open"
    /\ stage' = IF writer = "createRepo" /\ repomd = "none" THEN "0" ELSE "write"
    /\ UNCHANGED <<writer, repomd, todo, primary, filelists>> /\ Unread

\* A package that cannot be read is passed over.
WritePackage(p) ==
    /\ stage = "write" /\ p \in todo /\ todo' = todo \ {p}
    /\ \/ WritePrimary(p) /\ WriteFilelists(p)
       \/ UNCHANGED <<primary, filelists>>
    /\ UNCHANGED <<writer, stage, repomd>> /\ Unread

\* So it cannot write the file; the lists are complete by then.
WriteRepomd ==
    /\ stage = "write" /\ todo = {}
    /\ IF writer = "createRepo" THEN stage' = "IOError" /\ UNCHANGED repomd
       ELSE stage' = "1" /\ repomd' = "these"
    /\ UNCHANGED <<writer, todo, primary, filelists>> /\ Unread

\* The default namespace is in both files of createrepo, in those of createRepo()
\* in primary.xml alone.
HasNamespace(file) == writer = "createrepo" \/ file = "primary"

-----------------------------------------------------------------------------
(* Reading primary.xml.                                                    *)

ParseDeps(entries) ==
    {[name |-> x.name,
      flags |-> (IF x.evr = NoVersion THEN {} ELSE x.flags)
                    \union (IF x.pre THEN {"PREREQ"} ELSE {}),
      evr |-> x.evr] : x \in entries}

\* The paths of a <format> or of the filelists.
Paths(list) == {list[i].path : i \in DOMAIN list}

\* What _parse() takes of a file: tags without a namespace are passed over.
Parsed(file) ==
    IF HasNamespace(file) THEN IF file = "primary" THEN primary ELSE filelists ELSE <<>>

\* RpmRepoDB reads what is there, getDbFile() of SqliteRepoDB only files that have
\* the checksum of repomd.xml.
Usable(r) ==
    /\ stage \in {"1", "IOError"}
    /\ r = "sqlite" => repomd = "these"

ParsePackage(r) ==
    /\ Usable(r) /\ read[r] < Len(Parsed("primary"))
    /\ read' = [read EXCEPT ![r] = @ + 1]

\* RpmRepoDB.addPkg()
AddPkg(p) == memory' = IF p \in Excluded THEN memory ELSE memory \union {p}

ParseIntoMemory ==
    /\ ParsePackage("memory")
    /\ LET p == Parsed("primary")[read["memory"] + 1]
       IN  /\ AddPkg(p)
           /\ names' = IF p \in Excluded THEN names
                       ELSE [names EXCEPT ![p] = Paths(GenerateFormat(p).files)]
    /\ UNCHANGED <<writer, stage, repomd, todo, primary, filelists, rows, listrows, imported, object>>

InTables(p) == \E q \in rows : GetChecksum(q) = GetChecksum(p)

\* SqliteRepoDB.addPkg(): exclusion is left to getPkgByKey().
ParseIntoTables ==
    /\ ParsePackage("sqlite")
    /\ LET p == Parsed("primary")[read["sqlite"] + 1]
       IN  rows' = IF InTables(p) THEN rows ELSE rows \union {p}
    /\ UNCHANGED <<writer, stage, repomd, todo, primary, filelists, memory, names, listrows, imported, object>>

HasRead(r) == Usable(r) /\ read[r] = Len(Parsed("primary"))
AllRead == \A r \in Readers : Usable(r) => HasRead(r)

-----------------------------------------------------------------------------
(* Dependencies, as either reader has them.                                *)

MemoryProvides(p) == ParseDeps(GenerateFormat(p).provides)
MemoryRequires(p) == ParseDeps(GenerateFormat(p).requires)

\* A row of the requires table has a column more than those of the others.
TableRow(d, tag) ==
    [name |-> d.name, flags |-> d.flags \intersect Sense, evr |-> EvrSplit(d.evr, NoEpoch),
     pre |-> tag = "requires" /\ "PREREQ" \in d.flags]

GetDBFlags(row) == row.flags \union (IF row.pre THEN {"PREREQ"} ELSE {})

GetDependencies(p, tag) ==
    {[name |-> row.name, flags |-> GetDBFlags(row), evr |-> row.evr] :
        row \in {TableRow(d, tag) : d \in ParseDeps(GenerateFormat(p)[tag])}}

Matches(d, name, flags, evr) ==
    /\ d.name = name
    /\ evr = NoVersion \/ RangesOverlap(flags, evr, d.flags, d.evr) \/ d.evr = NoVersion

SelfProvide(p) == [name |-> Name[p], flags |-> {"EQUAL"}, evr |-> Evr[p]]

\* ProvidesList.search() over the packages of the RpmRepoDB.
SearchProvides(name, flags, evr) ==
    {p \in memory : \E d \in MemoryProvides(p) \union {SelfProvide(p)} :
                        Matches(d, name, flags, evr)}

\* getPkgByKey() has an object for the rows of packages that are not excluded.
GetPkgByKey(p) == p \in rows \ Excluded

\* SqliteRepoDB._search()
SearchTable(name, flags, evr) ==
    {p \in {q \in rows : GetPkgByKey(q)} : \E d \in GetDependencies(p, "provides") :
                                 Matches(d, name, flags, evr)}

-----------------------------------------------------------------------------
(* File names.                                                             *)

\* RpmRepoDB._addFilesToPkg(): a new entry of dirnames wherever the directory
\* changes.
DirIndexes(list) ==
    LET new(i) == i = 1 \/ Front(list[i].path) # Front(list[i - 1].path)
    IN  [i \in DOMAIN list |-> Len(SelectSeq(SubSeq([k \in DOMAIN list |-> new(k)], 1, i),
                                             LAMBDA b : b))]

DirNames(list) ==
    LET index == DirIndexes(list)
    IN  [k \in {index[i] : i \in DOMAIN list} |->
            Front(list[CHOOSE i \in DOMAIN list : index[i] = k].path)]

MemoryFiles(list) ==
    {Append(DirNames(list)[DirIndexes(list)[i]], Last(list[i].path)) : i \in DOMAIN list}

\* importFilelist() of RpmRepoDB: all is well even if no package was found.
ImportIntoMemory ==
    /\ AllRead /\ HasRead("memory") /\ ~imported["memory"]
    /\ imported' = [imported EXCEPT !["memory"] = TRUE]
    /\ names' = [p \in Pkg |-> IF p \in memory \intersect ToSet(Parsed("filelists"))
                               THEN MemoryFiles(GenerateFilelist(p, FALSE)) ELSE names[p]]
    /\ UNCHANGED <<writer, stage, repomd, todo, primary, filelists, read, memory, rows, listrows, object>>

\* A slash is appended to the directory, to that of the root as well.
WithSlash(dir) == IF dir = <<>> THEN <<"">> ELSE dir

\* A row of the filelist table for every directory.
TableFiles(list) ==
    UNION {{Append(WithSlash(dir), Last(list[i].path)) :
                i \in {k \in DOMAIN list : Front(list[k].path) = dir}} :
               dir \in {Front(list[i].path) : i \in DOMAIN list}}

Mut_ClearFilelist == object

\* importFilelist() makes the objects that are there forget their files.
ClearFilelist == [p \in Pkg |-> NotLoaded]

ImportIntoTables ==
    /\ AllRead /\ HasRead("sqlite") /\ ~imported["sqlite"]
    /\ imported' = [imported EXCEPT !["sqlite"] = TRUE]
    /\ listrows' = {p \in rows : \E q \in ToSet(Parsed("filelists")) : GetChecksum(q) = GetChecksum(p)}
    /\ object' = ClearFilelist
    /\ UNCHANGED <<writer, stage, repomd, todo, primary, filelists, read, memory, names, rows>>

\* getFiles(), the first time an object is asked for a file name.
GetFiles(p) ==
    IF imported["sqlite"]
    THEN IF p \in listrows THEN TableFiles(GenerateFilelist(p, FALSE)) ELSE {}
    ELSE Paths(GenerateFilelist(p, TRUE))

LoadFiles(p) ==
    /\ AllRead /\ HasRead("sqlite") /\ GetPkgByKey(p) /\ object[p] = NotLoaded
    /\ object' = [object EXCEPT ![p] = GetFiles(p)]
    /\ UNCHANGED <<writer, stage, repomd, todo, primary, filelists, read, memory, names, rows, listrows, imported>>

Next ==
    \/ OpenRepomd
    \/ \E p \in Pkg : WritePackage(p)
    \/ WriteRepomd
    \/ ParseIntoMemory
    \/ ParseIntoTables
    \/ ImportIntoMemory
    \/ ImportIntoTables
    \/ \E p \in Pkg : LoadFiles(p)

Spec == Init /\ [][Next]_metadataVars

-----------------------------------------------------------------------------
(* What the metadata promises.                                             *)

\* The packages that are described and not excluded.
Described == ToSet(primary) \ Excluded
Digests(S) == {Digest[p] : p \in S}

\* Whatever was written and however it was read, a search for a provide finds
\* the packages whose headers answer it: the epochs that the XML and the tables
\* add or leave out, entries without a version, and a package that is there
\* twice change nothing.  Only a name that a package does not say it provides
\* is not in the tables, where nothing adds it.  The tables are filled only from
\* the files of createrepo: createRepo() leaves a repomd.xml of other files.
SearchesAgree ==
    \A p \in Pkg : \A q \in Requires[p] :
        LET offers(r, D) == \E d \in D : Matches(d, q.name, q.flags, q.evr)
        IN  /\ HasRead("memory") =>
                  Digests(SearchProvides(q.name, q.flags, q.evr)) =
                  Digests({r \in Described : offers(r, Provides[r] \union {SelfProvide(r)})})
            /\ HasRead("sqlite") =>
                  Digests(SearchTable(q.name, q.flags, q.evr)) =
                  Digests({r \in Described : offers(r, Provides[r])})

\* A requirement that has to be met before the package is installed is known as
\* one to the orderer, which sees it as the reader gives it.
PrereqsKept ==
    \A p \in memory \union rows : \A q \in Requires[p] :
        PreReq(q.flags) =>
            \A D \in {MemoryRequires(p), GetDependencies(p, "requires")} :
                \E d \in D : d.name = q.name /\ PreReq(d.flags)

\* The files a package object shows are those of the package, all of them once
\* the complete lists of createrepo were imported (a second slash before a file in
\* the root directory aside), also for an object that had been asked before.  The
\* lists that createRepo() writes add nothing, though importing them succeeds.
FilesCurrent ==
    LET plain(path) == SelectSeq(path, LAMBDA part : part # "")
        shown(r, p) == {plain(path) : path \in IF r = "memory" THEN names[p] ELSE object[p]}
        has(r, p) == IF r = "memory" THEN p \in memory ELSE object[p] # NotLoaded
        complete(r) == imported[r] /\ writer = "createrepo"
    IN  \A r \in Readers, p \in Pkg :
            has(r, p) =>
                shown(r, p) = {path \in Paths(Files[p]) : complete(r) \/ path \in InPrimary}

=============================================================================
