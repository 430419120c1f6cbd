------------------------------ MODULE Payload -------------------------------
(***************************************************************************)
(* The extraction of a package (RpmPackage.__extract of pyrpm/package.py,  *)
(* CPIOFile of pyrpm/io.py, installFile and createLink of                  *)
(* pyrpm/functions.py): an archive that may end early, hard links whose    *)
(* data comes with one of them, files made under temporary names.          *)
(*                                                                         *)
(* A token stands for the header of an entry, a byte of data, a byte of    *)
(* padding or the end of the archive.  Which files are to be installed is  *)
(* the subject of Transaction; here any of them may be refused, and        *)
(* .rpmnew files are left out.  Of the kinds of files there are regular    *)
(* ones, some of them configuration files, and devices.                    *)
(***************************************************************************)
EXTENDS Naturals, Sequences, FiniteSets, SequencesExt

CONSTANTS
    File,
    Archives,        \* sequences of entries: name, size and id of the hard links
    Listed,          \* files the header knows
    Device,          \* files that are devices
    Config,          \* configuration files
    Apart,           \* files on another partition: no link to them can be made
    Present,         \* sets of the files that may be there before
    Fails, Crashes   \* system calls may fail; the process may die

\* What rpm makes of hard links: their data comes with the last of them, the
\* header lists all of them or none, and no device is one.
AsBuilt(a) ==
    \A i, j \in DOMAIN a : i # j =>
        /\ a[i].name # a[j].name
        /\ a[i].id = a[j].id =>
            /\ a[i].size > 0 => j < i
            /\ a[i].name \notin Device
            /\ a[i].name \in Listed <=> a[j].name \in Listed

ASSUME PayloadAssumption ==
    /\ {Listed, Device, Config, Apart} \union Present \subseteq SUBSET File
    /\ Config \intersect Device = {}
    /\ {Fails, Crashes} \subseteq BOOLEAN
    /\ Archives \subseteq Seq([name : File, size : Nat, id : Nat])
    /\ \A a \in Archives : AsBuilt(a)

VARIABLES
    archive,              \* the entries of the package
    length, corrupt,      \* tokens that can be read; what follows is not a zlib stream
    at,                   \* tokens read
    lastfilesize, readsize, \* of the CPIOFile
    hardlinks,            \* self.hardlinks: files waiting for the data of their id
    fs, old,              \* content of each path, now and before
    moved,                \* configuration files renamed to .rpmsave
    temp,                 \* a temporary file: its content
    entry,                \* the entry in hand
    links,                \* files to be linked to it
    point,                \* where __extract is
    refused, trouble      \* history: files not to be installed; errors and deaths

cpioVars == <<at, lastfilesize, readsize>>
fileVars == <<fs, temp>>
payloadVars == <<archive, length, corrupt, at, lastfilesize, readsize, hardlinks, fs, old, moved,
                 temp, entry, links, point, refused, trouble>>

\* Contents: who was installed first under the inode, and the bytes.
Absent == [by |-> "nobody", data |-> <<>>]
Old == [by |-> "before", data |-> <<>>]
Torn == [by |-> "torn", data |-> <<>>]
Made(f, data) == [by |-> f, data |-> data]

Token(kind, name, n) == [kind |-> kind, name |-> name, n |-> n]
Data(e) == [i \in 1..e.size |-> Token("data", e.name, i)]
Padding(size) == (4 - (size % 4)) % 4

Tokens(e) == <<Token("header", e.name, e.size)>> \o Data(e)
                \o [i \in 1..Padding(e.size) |-> Token("padding", "", 0)]

Stream == FlattenSeq([i \in DOMAIN archive |-> Tokens(archive[i])]) \o <<Token("trailer", "", 0)>>

Entries == UNION {{a[i] : i \in DOMAIN a} : a \in Archives}
NoEntry == [name |-> "", size |-> 0, id |-> 0]
Ids == {e.id : e \in Entries}

PayloadInit ==
    /\ archive \in Archives
    /\ length \in 0..Len(Stream)
    /\ corrupt \in BOOLEAN /\ (corrupt => length < Len(Stream))
    /\ at = 0 /\ lastfilesize = 0 /\ readsize = 0
    /\ hardlinks = [i \in Ids |-> <<>>]
    /\ \E S \in Present : fs = [f \in File |-> IF f \in S THEN Old ELSE Absent]
    /\ old = fs /\ moved = {}
    /\ temp = Absent
    /\ entry = NoEntry /\ links = <<>>
    /\ point = "closed"
    /\ refused = {} /\ trouble = {}

-----------------------------------------------------------------------------
(* CPIOFile                                                                *)

Readable(n) == at + n =< length

\* What is read past the length is an IOError, or a zlib.error nobody expects.
Unreadable(n) ==
    /\ ~Readable(n)
    /\ point' = "raised"
    /\ trouble' = trouble \union {IF corrupt THEN "zlib" ELSE "IOError"}

\* skipToNextFile: what is left of the file.
Rest == lastfilesize - readsize

Mut_ToHeaderNoPadding == Rest

\* getNextEntry: the padding of the file before comes first.
ToHeader == Rest + Padding(lastfilesize)

\* io.read(): the next header, with what comes before it.
NextEntry ==
    /\ point = "next"
    /\ IF ~Readable(ToHeader + 1) THEN Unreadable(ToHeader + 1) /\ UNCHANGED <<cpioVars, entry>>
       ELSE LET t == Stream[at + ToHeader + 1]
            IN  /\ at' = at + ToHeader + 1
                /\ readsize' = 0
                /\ \/ /\ t.kind = "header"
                      /\ lastfilesize' = t.n
                      /\ entry' = CHOOSE e \in Range(archive) : e.name = t.name
                      /\ point' = "entry" /\ UNCHANGED trouble
                   \/ /\ t.kind = "trailer"
                      /\ point' = "remaining" /\ UNCHANGED <<lastfilesize, entry, trouble>>
                   \/ /\ t.kind \notin {"header", "trailer"}
                      /\ point' = "raised" /\ trouble' = trouble \union {"magic"}
                      /\ UNCHANGED <<lastfilesize, entry>>
    /\ UNCHANGED <<archive, length, corrupt, hardlinks, fileVars, old, moved, links, refused>>

\* The data of the entry is read.
ReadData == at' = at + Rest /\ readsize' = lastfilesize /\ UNCHANGED lastfilesize

-----------------------------------------------------------------------------
(* The loop of __extract                                                   *)

\* A file the header does not know: FIXME in the code, nothing happens.
Unlisted ==
    /\ point = "entry" /\ entry.name \notin Listed
    /\ point' = "next"
    /\ UNCHANGED <<archive, length, corrupt, cpioVars, hardlinks, fileVars, old, moved, entry, links,
                   refused, trouble>>

Mut_RemoveHardlinksNever == UNCHANGED hardlinks

\* __removeHardlinks, if the file brought the data.
RemoveHardlinks ==
    hardlinks' = IF entry.size > 0 THEN [hardlinks EXCEPT ![entry.id] = <<>>] ELSE hardlinks

\* __verifyFileInstall finds an edited configuration file that is to be replaced
\* and renames it to .rpmsave.
SaveEdited ==
    /\ point = "entry" /\ entry.name \in Listed \intersect Config
    /\ fs[entry.name] \in {Old, Torn}
    /\ \/ /\ fs' = [fs EXCEPT ![entry.name] = Absent]
          /\ moved' = moved \union {entry.name}
          /\ UNCHANGED <<point, trouble>>
       \/ /\ Fails /\ UNCHANGED <<fs, moved>>
          /\ point' = "raised" /\ trouble' = trouble \union {"OSError"}
    /\ UNCHANGED <<archive, length, corrupt, cpioVars, hardlinks, temp, old, entry, links, refused>>

\* __verifyFileInstall says no: the data is skipped.
Refuse ==
    /\ point = "entry" /\ entry.name \in Listed \ (Device \union moved)
    /\ refused' = refused \union {entry.name}
    /\ IF Readable(Rest)
       THEN ReadData /\ RemoveHardlinks /\ point' = "next" /\ UNCHANGED trouble
       ELSE Unreadable(Rest) /\ UNCHANGED <<cpioVars, hardlinks>>
    /\ UNCHANGED <<archive, length, corrupt, fileVars, old, moved, entry, links>>

\* __possibleHardLink: an empty regular file may be a link to one with data.
PossibleHardLink ==
    /\ point = "entry" /\ entry.name \in Listed \ Device /\ entry.size = 0
    /\ hardlinks' = [hardlinks EXCEPT ![entry.id] = Append(@, entry.name)]
    /\ point' = "next"
    /\ UNCHANGED <<archive, length, corrupt, cpioVars, fileVars, old, moved, entry, links, refused, trouble>>

\* installFile of a regular file: a temporary file gets the data.
WriteTemp ==
    /\ point = "entry" /\ entry.name \in Listed
    /\ entry.name \in Device \/ entry.size > 0
    /\ IF Readable(Rest)
       THEN /\ temp' = Made(entry.name, SubSeq(Stream, at + 1, at + Rest))
            /\ ReadData
            /\ point' = "written" /\ UNCHANGED trouble
       ELSE /\ Unreadable(Rest)
            /\ temp' = IF corrupt THEN Torn ELSE Absent
            /\ UNCHANGED cpioVars
    /\ UNCHANGED <<archive, length, corrupt, hardlinks, fs, old, moved, entry, links, refused>>

\* A device that cannot be made is passed over.
NoDevice ==
    /\ point = "entry" /\ entry.name \in Listed \intersect Device /\ Fails
    /\ refused' = refused \union {entry.name}
    /\ point' = "link" /\ links' = hardlinks[entry.id]
    /\ hardlinks' = [hardlinks EXCEPT ![entry.id] = <<>>]
    /\ UNCHANGED <<archive, length, corrupt, cpioVars, fileVars, old, moved, entry, trouble>>

\* Owner, mode, times or context cannot be set: the temporary file is removed,
\* for a device what was there before it.
AttrsFail ==
    /\ point = "written" /\ Fails
    /\ IF entry.name \in Device
       THEN fs' = [fs EXCEPT ![entry.name] = Absent] /\ UNCHANGED temp
       ELSE temp' = Absent /\ UNCHANGED fs
    /\ point' = "raised" /\ trouble' = trouble \union {"OSError"}
    /\ UNCHANGED <<archive, length, corrupt, cpioVars, hardlinks, old, moved, entry, links, refused>>

\* os.rename, and what __handleHardlinks has to do next.
Place ==
    /\ point = "written"
    /\ fs' = [fs EXCEPT ![entry.name] = temp] /\ temp' = Absent
    /\ links' = hardlinks[entry.id]
    /\ hardlinks' = [hardlinks EXCEPT ![entry.id] = <<>>]
    /\ point' = "link"
    /\ UNCHANGED <<archive, length, corrupt, cpioVars, old, moved, entry, refused, trouble>>

-----------------------------------------------------------------------------
(* __handleHardlinks and createLink                                        *)

Ended == at > 0 /\ Stream[at].kind = "trailer"

\* No link is left to make.
Linked ==
    /\ point = "link" /\ links = <<>>
    /\ point' = IF Ended THEN "remaining" ELSE "next"
    /\ UNCHANGED <<archive, length, corrupt, cpioVars, hardlinks, fileVars, old, moved, entry, links,
                   refused, trouble>>

\* os.unlink(dst)
Unlink ==
    /\ point = "link" /\ links # <<>>
    /\ fs' = [fs EXCEPT ![Head(links)] = Absent]
    /\ point' = "unlinked"
    /\ UNCHANGED <<archive, length, corrupt, cpioVars, hardlinks, temp, old, moved, entry, links, refused,
                   trouble>>

Together == entry.name \in Apart <=> Head(links) \in Apart

\* mkstemp_link
Link ==
    /\ point = "unlinked" /\ Together
    /\ \/ temp' = fs[entry.name] /\ point' = "linked" /\ UNCHANGED trouble
       \/ /\ Fails /\ UNCHANGED temp
          /\ point' = "raised" /\ trouble' = trouble \union {"OSError"}
    /\ UNCHANGED <<archive, length, corrupt, cpioVars, hardlinks, fs, old, moved, entry, links, refused>>

\* os.rename(tmpfilename, dst)
PlaceLink ==
    /\ point = "linked"
    /\ fs' = [fs EXCEPT ![Head(links)] = temp] /\ temp' = Absent
    /\ links' = Tail(links)
    /\ point' = "link"
    /\ UNCHANGED <<archive, length, corrupt, cpioVars, hardlinks, old, moved, entry, refused, trouble>>

\* shutil.copy2 across partitions: the copy grows in place.
Copy ==
    /\ point = "unlinked" /\ ~Together
    /\ \/ fs[Head(links)] = Absent /\ fs' = [fs EXCEPT ![Head(links)] = Torn]
          /\ UNCHANGED <<links, point, trouble>>
       \/ /\ fs[Head(links)] = Torn
          /\ fs' = [fs EXCEPT ![Head(links)] = Made(Head(links), fs[entry.name].data)]
          /\ links' = Tail(links) /\ point' = "link" /\ UNCHANGED trouble
       \/ /\ Fails /\ UNCHANGED <<fs, links>>
          /\ point' = "raised" /\ trouble' = trouble \union {"IOError"}
    /\ UNCHANGED <<archive, length, corrupt, cpioVars, hardlinks, temp, old, moved, entry, refused>>

\* __handleRemainingHardlinks: files that are empty indeed.
Remaining ==
    /\ point = "remaining"
    /\ \E i \in Ids :
        /\ hardlinks[i] # <<>>
        /\ entry' = [name |-> Head(hardlinks[i]), size |-> 0, id |-> i]
        /\ temp' = Made(Head(hardlinks[i]), <<>>)
        /\ hardlinks' = [hardlinks EXCEPT ![i] = Tail(@)]
    /\ point' = "written"
    /\ UNCHANGED <<archive, length, corrupt, cpioVars, fs, old, moved, links, refused, trouble>>

Extracted ==
    /\ point = "remaining" /\ \A i \in Ids : hardlinks[i] = <<>>
    /\ point' = "done"
    /\ UNCHANGED <<archive, length, corrupt, cpioVars, hardlinks, fileVars, old, moved, entry, links,
                   refused, trouble>>

Extract ==
    \/ NextEntry \/ Unlisted \/ SaveEdited \/ Refuse \/ PossibleHardLink \/ WriteTemp \/ NoDevice
    \/ AttrsFail \/ Place \/ Linked \/ Unlink \/ Link \/ PlaceLink \/ Copy
    \/ Remaining \/ Extracted

=============================================================================
