-------------------------------- MODULE Header --------------------------------
(***************************************************************************)
(* Headers: the table of the tags of a package and their values.           *)
(* pyrpm/io.py reads the header of a package file tag by tag and generates  *)
(* the one that RpmDB._addPkg() puts into the database, where              *)
(* pyrpm/database/rpmdb.py reads it, all of it or a tag at a time.         *)
(*                                                                         *)
(* A value is a list of elements, an element a sequence of bytes.  The 16  *)
(* bytes of a region tag are the number of the index entries it covers and *)
(* nothing else, in RegionSize bytes, as many as keep the alignment.       *)
(***************************************************************************)
EXTENDS Integers, Sequences, FiniteSets, SequencesExt, FiniteSetsExt

CONSTANTS
    Original,  \* what package files hold: [version, tags]
    Type,      \* of every tag
    Known,     \* the tags in rpmtagname
    Name, ProvideName, ArchiveSize, Image, Immutable, \* tags that the code names
    InstallKeys,  \* those only the database has
    InstallValue, \* and what is put into them
    PayloadSize   \* what signatures have for the size of the archive, NoSize for nothing

NoSize == <<>>

\* rpm writes the same number into the header, if it writes it there.
HeaderAssumption ==
    \A o \in Original :
        ArchiveSize \in DOMAIN o.tags => PayloadSize[o.version] \subseteq {NoSize, o.tags[ArchiveSize]}

VARIABLES
    stage,   \* what is going on
    version, \* of rpm, that built the package
    header,  \* the tags and values to be written
    todo,    \* the tags that were not written yet
    late,    \* those that come after the region
    region,  \* the region tag, 0 for none
    store, index,  \* the data area and [tag, type, offset, count] entries
    file,    \* the header of the package file: [index, store]
    record,  \* the header in the database
    idx,     \* the next entry of the file to read
    hdr      \* the tags that were read

headerVars ==
    <<stage, version, header, todo, late, region, store, index, file, record, idx, hdr>>

NoHeader == [index |-> <<>>, store |-> <<>>]
RegionSize == 4

Init ==
    /\ stage = "start" /\ version = "" /\ header = <<>>
    /\ todo = {} /\ late = {} /\ region = 0 /\ store = <<>> /\ index = <<>>
    /\ file = NoHeader /\ record = NoHeader
    /\ idx = 1 /\ hdr = <<>>

-----------------------------------------------------------------------------
(* Generating a header.                                                    *)

Width(type) == CASE type = "INT16" -> 2 [] type = "INT32" -> 4 [] OTHER -> 1

IsString(type) == type \in {"STRING", "STRING_ARRAY", "I18NSTRING"}

Mut_GenerateTag(type, value) ==
    [data |-> FlattenSeq([i \in DOMAIN value |-> IF IsString(type) THEN Append(value[i], 0) ELSE value[i]]),
     count |-> Len(value)]

\* Strings are terminated; binary data is counted in bytes.
GenerateTag(type, value) ==
    [data |-> FlattenSeq([i \in DOMAIN value |-> IF IsString(type) THEN Append(value[i], 0) ELSE value[i]]),
     count |-> IF type = "BIN" THEN Len(Head(value)) ELSE Len(value)]

AlignTag(type, offset) ==
    [i \in 1..(Width(type) - (offset % Width(type))) % Width(type) |-> 0]

AppendTag(t, type, value) ==
    LET g == GenerateTag(type, value)
        pad == AlignTag(type, Len(store))
    IN  /\ store' = store \o pad \o g.data
        /\ index' = Append(index, [tag |-> t, type |-> type,
                                   offset |-> Len(store) + Len(pad), count |-> g.count])

Generating == stage \in {"build", "install"}

Fixed == UNCHANGED <<stage, version, header, late, region, file, record, idx, hdr>>

\* First pass: the tags in the order of their numbers.
AppendSorted ==
    /\ Generating /\ todo \ (late \union {region}) # {}
    /\ LET t == Min(todo \ (late \union {region}))
       IN  /\ AppendTag(t, Type[t], header[t])
           /\ todo' = todo \ {t}
    /\ Fixed

\* The entries so far and that of the region itself.
CreateRegionData == <<<<Len(index) + 1, 0, 0, 0>>>>

\* The region that has been read is kept as it was.
AppendRegion ==
    /\ Generating /\ todo \subseteq late \union {region}
    /\ region # 0 /\ \A i \in DOMAIN index : index[i].tag # region
    /\ AppendTag(region, "BIN", IF region \in DOMAIN header THEN header[region] ELSE CreateRegionData)
    /\ todo' = todo \ {region}
    /\ Fixed

\* Second pass.
AppendLate ==
    /\ Generating /\ todo # {} /\ todo \subseteq late
    /\ region # 0 => \E i \in DOMAIN index : index[i].tag = region
    /\ AppendTag(Min(todo), Type[Min(todo)], header[Min(todo)])
    /\ todo' = todo \ {Min(todo)}
    /\ Fixed

\* The region is the first of the index, although it is not in the store.
GenerateIndex(align) ==
    [index |-> SelectSeq(index, LAMBDA e : e.tag = region) \o SelectSeq(index, LAMBDA e : e.tag # region),
     store |-> store \o [i \in 1..(align - (Len(store) % align)) % align |-> 0]]

Written ==
    /\ Generating /\ todo = {}
    /\ region # 0 => \E i \in DOMAIN index : index[i].tag = region

Generate(h, l, r) ==
    /\ header' = h /\ todo' = DOMAIN h
    /\ late' = l /\ region' = r
    /\ store' = <<>> /\ index' = <<>>

\* rpm builds a package: everything is in the region, which rpm 3 did not have.
Build(o) ==
    /\ stage = "start"
    /\ stage' = "build" /\ version' = o.version
    /\ Generate(o.tags, {}, IF o.version = "3" THEN 0 ELSE Immutable)
    /\ UNCHANGED <<file, record, idx, hdr>>

Built ==
    /\ stage = "build" /\ Written
    /\ stage' = "file" /\ file' = GenerateIndex(1)
    /\ UNCHANGED <<version, header, todo, late, region, store, index, record, idx, hdr>>

-----------------------------------------------------------------------------
(* Reading.                                                                *)

\* A terminated string from offset on, and where the next one is.
EndOfString(data, offset) == Min({i \in offset + 1..Len(data) : data[i] = 0})

\* The offsets of so many strings that follow each other.
StringOffsets(data, offset, count) ==
    LET from[i \in 1..count] == IF i = 1 THEN offset ELSE EndOfString(data, from[i - 1])
    IN  from

ParseTag(e, data) ==
    IF IsString(e.type)
    THEN LET from == StringOffsets(data, e.offset, e.count)
         IN  [i \in 1..e.count |-> SubSeq(data, from[i] + 1, EndOfString(data, from[i]) - 1)]
    ELSE IF e.type = "BIN" THEN <<SubSeq(data, e.offset + 1, e.offset + e.count)>>
    ELSE [i \in 1..e.count |->
             SubSeq(data, e.offset + (i - 1) * Width(e.type) + 1, e.offset + i * Width(e.type))]

\* A tag that is not in rpmtagname is a KeyError: the package cannot be read.
ReadTag ==
    /\ stage = "file" /\ idx =< Len(file.index)
    /\ LET e == file.index[idx]
       IN  IF e.tag \in Known
           THEN /\ hdr' = [t \in DOMAIN hdr \union {e.tag} |->
                              IF t \in DOMAIN hdr THEN hdr[t] ELSE ParseTag(e, file.store)]
                /\ idx' = idx + 1
                /\ UNCHANGED stage
           ELSE stage' = "refused" /\ UNCHANGED <<idx, hdr>>
    /\ UNCHANGED <<version, header, todo, late, region, store, index, file, record>>

-----------------------------------------------------------------------------
(* Installing.                                                             *)

\* rpm 3 did not say that a package provides its name.
SelfProvide(h) ==
    LET provides == IF ProvideName \in DOMAIN h THEN h[ProvideName] ELSE <<>>
        self == h[Name][1]
    IN  [t \in DOMAIN h \union {ProvideName} |->
            IF t # ProvideName THEN h[t]
            ELSE IF self \in ToSet(provides) THEN provides ELSE Append(provides, self)]

\* The size of the archive has been in the header until rpm 4.1.
LateKeys(v) ==
    CASE v = "3" -> (InstallKeys \ {ArchiveSize}) \union {ProvideName}
      [] v = "4.0" -> InstallKeys \ {ArchiveSize}
      [] OTHER -> InstallKeys

\* InstallKeys are put in whatever the package brings along, the size of the archive
\* if the signature has it.
WithInstallTags(h, size) ==
    LET keys == IF size = NoSize THEN InstallKeys \ {ArchiveSize} ELSE InstallKeys
    IN  [t \in DOMAIN h \union keys |->
            IF t \notin keys THEN h[t] ELSE IF t = ArchiveSize THEN size ELSE InstallValue[t]]

\* RpmDB._addPkg()
Install ==
    /\ stage = "file" /\ idx > Len(file.index)
    /\ stage' = "install"
    /\ \E size \in PayloadSize[version] :
          Generate(WithInstallTags(IF version = "3" THEN SelfProvide(hdr) ELSE hdr, size), LateKeys(version),
                   IF version = "3" THEN Image ELSE Immutable)
    /\ UNCHANGED <<version, file, record, idx, hdr>>

\* rpm itself installs the package, with all of its tags.
RpmInstalls ==
    /\ stage = "file" /\ idx = 1 /\ version # "3"
    /\ stage' = "install"
    /\ LET all == [t \in {file.index[i].tag : i \in DOMAIN file.index} |->
                      ParseTag(file.index[CHOOSE i \in DOMAIN file.index : file.index[i].tag = t], file.store)]
       IN  \E size \in PayloadSize[version] : Generate(WithInstallTags(all, size), LateKeys(version), Immutable)
    /\ UNCHANGED <<version, file, record, idx, hdr>>

Installed ==
    /\ stage = "install" /\ Written
    /\ stage' = "installed" /\ record' = GenerateIndex(4)
    /\ UNCHANGED <<version, header, todo, late, region, store, index, file, idx, hdr>>

Next ==
    \/ \E o \in Original : Build(o)
    \/ AppendSorted \/ AppendRegion \/ AppendLate
    \/ Built \/ ReadTag \/ Install \/ RpmInstalls \/ Installed

Spec == Init /\ [][Next]_headerVars

-----------------------------------------------------------------------------
(* The database and the digest.                                            *)

\* pkg.indexdata: readRpm() leaves out unknown tags.
IndexData(h) == {h.index[i] : i \in {k \in DOMAIN h.index : h.index[k].tag \in Known}}

\* readRpm() knows where the data area is.
ReadRpm(h, t) == ParseTag(CHOOSE e \in IndexData(h) : e.tag = t, h.store)

\* readTags() later takes the entries it has kept for all there were: where it
\* takes the data area to begin is this many entries too early.
TooEarly(h) == Len(h.index) - Cardinality(IndexData(h))

\* updateDigestFromRegion(): the entries of the region and their data.
RegionAt(h) == Min({i \in DOMAIN h.index : h.index[i].tag = Immutable})
RegionIndexEntries(h) == ParseTag(h.index[RegionAt(h)], h.store)[1][1]
UpdateDigestFromRegion(h) ==
    [entries |-> SubSeq(h.index, RegionAt(h), RegionAt(h) + RegionIndexEntries(h) - 1),
     data |-> SubSeq(h.store, 1, h.index[RegionAt(h)].offset + RegionSize)]

-----------------------------------------------------------------------------
(* What headers promise.                                                   *)

\* What is read, of the file and of the database, is what was put in: padding,
\* terminators, the order of tags and the place of the region change no value.
\* The database is read as well a tag at a time, unless it holds tags that
\* pyrpm does not know.
ValuesKept ==
    /\ stage = "file" => \A t \in DOMAIN hdr : t \in DOMAIN header => hdr[t] = header[t]
    /\ stage = "installed" =>
           /\ {e.tag : e \in IndexData(record)} = Known \intersect (DOMAIN header \union {region})
           /\ \A e \in IndexData(record) :
                  e.tag \in DOMAIN header => ReadRpm(record, e.tag) = header[e.tag]
           /\ idx > 1 => TooEarly(record) = 0

\* The part of a header that its signature covers is the same in the database,
\* byte for byte: the tags that an installation adds stay outside, and what the
\* package brought along stays inside, whatever version of rpm has built it.
ImmutableKept ==
    (stage = "installed" /\ version # "3") =>
        /\ UpdateDigestFromRegion(record) = UpdateDigestFromRegion(file)
        /\ \A i \in DOMAIN file.index : file.index[i] \in ToSet(UpdateDigestFromRegion(file).entries)

=============================================================================
