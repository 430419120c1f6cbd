------------------------------ MODULE Package -------------------------------
(***************************************************************************)
(* A package between runOperations and the disk: opened, read, verified,   *)
(* closed and cleared, opened again and extracted (RpmPackage of           *)
(* pyrpm/package.py, RpmStreamIO of pyrpm/io.py, runOperations of          *)
(* pyrpm/control.py), with the file damaged or cut, and programs that die. *)
(*                                                                         *)
(* Tags are counted only; of their values, what matters is which part of   *)
(* the file is damaged and what the entries of the signature cover.        *)
(***************************************************************************)
EXTENDS Payload

CONSTANTS
    NSig, NHdr,      \* entries of the signature and of the header
    SigSets,         \* which digests and signatures packages come with
    Checked,         \* values of not config.nosignature
    MaxStarts        \* bound: programs started

ASSUME PackageAssumption ==
    /\ NSig \in Nat \ {0} /\ NHdr \in Nat \ {0}
    /\ SigSets \subseteq SUBSET {"dsaheader", "gpg", "pgp", "sha1header", "md5"}
    /\ Checked \subseteq BOOLEAN
    /\ MaxStarts \in Nat

VARIABLES
    damaged,              \* parts of the file that are not what was signed
    sigs, known,          \* entries of the signature; its key is in the keyring
    remote,               \* the package is read from a server, not from a file
    checked,              \* signatures are to be checked
    opened, where, idx,   \* self.io, and where it is
    header_read,
    verdict,              \* of verifyOneSignature: 2 before
    ctl,                  \* where runOperations is
    starts                \* programs started

givenVars == <<damaged, sigs, known, remote, checked>>
ioVars == <<opened, where, idx>>
packageVars == <<payloadVars, givenVars, ioVars, header_read, verdict, ctl, starts>>

Parts == {"signature", "header", "payload"}

PackageInit ==
    /\ PayloadInit
    /\ damaged \in SUBSET Parts
    /\ length < Len(Stream) <=> "payload" \in damaged
    /\ sigs \in SigSets
    /\ known \in BOOLEAN /\ remote \in BOOLEAN /\ checked \in Checked
    /\ opened = FALSE /\ where = 0 /\ idx = 0
    /\ header_read = FALSE
    /\ verdict = 2
    /\ ctl = "start"
    /\ starts = 1

\* close() and open()
Reopen == opened' = TRUE /\ where' = 0 /\ idx' = 0

\* clear(), also with ntags.
Clear == header_read' = FALSE

Failed(what) == ctl' = "failed" /\ trouble' = trouble \union {what}

-----------------------------------------------------------------------------
(* Reading the header                                                      *)

\* The rest of __readHeader's state, and of the payload, is as it was.
Reading == UNCHANGED <<givenVars, verdict, starts, archive, length, corrupt, hardlinks, fileVars, old, moved,
                       entry, links, point, refused>>

\* io.read(): lead, delimiter before the signature, its entries, delimiter
\* before the header, its entries, delimiter before the payload.
IoRead ==
    \/ where \in {0, 1} /\ where' = where + 1 /\ UNCHANGED <<idx, cpioVars>>
    \/ where = 2 /\ idx < NSig /\ idx' = idx + 1 /\ UNCHANGED <<where, cpioVars>>
    \/ where = 2 /\ idx >= NSig /\ where' = 3 /\ idx' = 0 /\ UNCHANGED cpioVars
    \/ where = 3 /\ idx < NHdr /\ idx' = idx + 1 /\ UNCHANGED <<where, cpioVars>>
    \/ /\ where = 3 /\ idx >= NHdr
       /\ where' = 4 /\ UNCHANGED idx
       /\ at' = 0 /\ lastfilesize' = 0 /\ readsize' = 0

\* __readHeader: up to the delimiter before the payload.
ReadHeader ==
    /\ ctl \in {"reread", "read"} /\ ~header_read
    /\ \/ /\ IoRead
          /\ header_read' = (where' = 4)
          /\ UNCHANGED <<opened, ctl, trouble>>
       \/ /\ Fails \/ damaged \intersect {"signature", "header"} # {}
          /\ Failed("read")
          /\ UNCHANGED <<ioVars, cpioVars, header_read>>
    /\ Reading

-----------------------------------------------------------------------------
(* verifyOneSignature                                                      *)

Order == <<"dsaheader", "gpg", "pgp", "sha1header", "md5">>
NeedsKey == {"dsaheader", "gpg", "pgp"}
Covers(t) == IF t \in {"dsaheader", "sha1header"} THEN {"header"} ELSE {"header", "payload"}

\* verifySignatureTag: 1, -1, or 0 for an unknown key, or for a stream whose
\* positions are not known.  A damaged signature may be one that cannot be
\* parsed, one of another key, or one that does not match.
Results(t) ==
    LET wrong == IF damaged \intersect Covers(t) # {} THEN -1 ELSE 1
    IN  IF "signature" \in damaged THEN IF remote THEN {0, -1} ELSE IF t \in NeedsKey THEN {0, -1} ELSE {-1}
        ELSE IF remote \/ (t \in NeedsKey /\ ~known) THEN {0}
        ELSE {wrong}

Mut_VerifyFirst(r) ==
    LET there == {i \in DOMAIN Order : Order[i] \in sigs}
    IN  IF there = {} THEN 0 ELSE r[Order[Min(there)]]

\* The first that is not unknown decides.
OneResult(r) ==
    LET decided == {i \in DOMAIN Order : Order[i] \in sigs /\ r[Order[i]] # 0}
    IN  IF decided = {} THEN 0 ELSE r[Order[Min(decided)]]

VerifyOneSignature ==
    /\ ctl = "reread" /\ header_read
    /\ \E r \in [Range(Order) -> {-1, 0, 1}] :
        /\ \A t \in Range(Order) : r[t] \in Results(t)
        /\ verdict' = OneResult(r)
    /\ IF verdict' = -1 THEN Failed("signature") ELSE ctl' = "verified" /\ UNCHANGED trouble
    /\ UNCHANGED <<givenVars, ioVars, cpioVars, header_read, starts, archive, length, corrupt, hardlinks,
                   fileVars, old, moved, entry, links, point, refused>>

-----------------------------------------------------------------------------
(* runOperations for one package                                           *)

\* reread(), if signatures are to be checked.
Reread ==
    /\ ctl = "start"
    /\ IF checked THEN Reopen /\ Clear /\ ctl' = "reread"
       ELSE ctl' = "verified" /\ UNCHANGED <<ioVars, header_read>>
    /\ UNCHANGED <<cpioVars, trouble>> /\ Reading

\* close() and clear(ntags = nevratags) after it
CloseVerified ==
    /\ ctl = "verified"
    /\ IF checked THEN opened' = FALSE /\ UNCHANGED <<where, idx>> /\ Clear
       ELSE UNCHANGED <<ioVars, header_read>>
    /\ ctl' = "cached"
    /\ UNCHANGED <<cpioVars, trouble>> /\ Reading

\* close(), open(), clear(), then read() without verification.
OpenAgain ==
    /\ ctl = "cached"
    /\ Reopen /\ Clear
    /\ ctl' = "read"
    /\ UNCHANGED <<cpioVars, trouble>> /\ Reading

\* install(): the stream has to be at the payload: what comes before it has no
\* three parts.
Install ==
    /\ ctl = "read" /\ header_read
    /\ ctl' = "install"
    /\ IF where = 4 THEN point' = "next" /\ UNCHANGED trouble
       ELSE point' = "raised" /\ trouble' = trouble \union {"unpack"}
    /\ UNCHANGED <<givenVars, ioVars, cpioVars, header_read, verdict, starts, archive, length, corrupt,
                   hardlinks, fileVars, old, moved, entry, links, refused>>

Extracting ==
    /\ ctl = "install" /\ Extract
    /\ UNCHANGED <<givenVars, ioVars, header_read, verdict, ctl, starts>>

\* The program dies, or ends, and the package is installed once more.
Restart ==
    /\ starts < MaxStarts /\ starts' = starts + 1
    /\ Crashes \/ point = "raised" \/ ctl = "failed"
    /\ opened' = FALSE /\ where' = 0 /\ idx' = 0 /\ header_read' = FALSE
    /\ verdict' = 2 /\ ctl' = "start"
    /\ at' = 0 /\ lastfilesize' = 0 /\ readsize' = 0
    /\ hardlinks' = [i \in Ids |-> <<>>]
    /\ old' = fs /\ moved' = {} /\ temp' = Absent /\ entry' = NoEntry /\ links' = <<>>
    /\ point' = "closed" /\ refused' = {} /\ trouble' = {}
    /\ UNCHANGED <<givenVars, archive, length, corrupt, fs>>

PackageNext ==
    \/ Reread \/ ReadHeader \/ VerifyOneSignature \/ CloseVerified \/ OpenAgain
    \/ Install \/ Extracting \/ Restart

PackageSpec == PackageInit /\ [][PackageNext]_packageVars

-----------------------------------------------------------------------------
(* What an installation promises.                                          *)

Members(e) == {d \in Range(archive) : d.id = e.id}
Carriers(e) == {d \in Members(e) : d.size > 0}
DataOf(S) == IF S = {} THEN <<>> ELSE Data(CHOOSE d \in S : TRUE)
SetData(e) == DataOf(Carriers(e))

\* Hard links, but for those on another partition.
OneInode(F) ==
    \E f \in F : \A g \in F : fs[g].by = IF f \in Apart <=> g \in Apart THEN f ELSE g

\* What the program left of what a path held before: nothing, once it is moved to
\* .rpmsave.
Left(f) == IF f \in moved THEN Absent ELSE old[f]

\* When a package is extracted, its files have their contents, those that are
\* hard links share it, and files it was not to install are untouched.  Excepted
\* are links whose data came with a file that was not to be installed: nothing is
\* written there.
InstalledWhole ==
    point = "done" =>
        \A e \in Range(archive) :
            LET kept == {d.name : d \in Members(e)} \intersect (Listed \ refused)
                lost == \E d \in Carriers(e) : d.name \notin kept
            IN  IF e.name \notin kept THEN fs[e.name] = old[e.name]
                ELSE IF lost THEN fs[e.name] = Left(e.name)
                ELSE fs[e.name].data = SetData(e) /\ OneInode(kept)

\* Wherever an installation is, and however often one was begun, a path holds
\* what it held before or all that it is to hold; an edited configuration file may
\* be missing once it is moved to .rpmsave, hard links, which are unlinked first,
\* and devices may be missing or half copied.
OldOrNew ==
    \A e \in Range(archive) :
        \/ fs[e.name] = Left(e.name)
        \/ \E g \in File : fs[e.name] = Made(g, SetData(e))
        \/ (e.size = 0 \/ e.name \in Device) /\ fs[e.name] \in {Absent, Torn}

\* No temporary file is left when an installation ends, unless the payload is no
\* zlib stream, an error nobody handles, or a device could not be set up.
NothingLeft ==
    point \in {"done", "raised"} /\ "zlib" \notin trouble /\ entry.name \notin Device => temp = Absent

\* An installation can be cut short and begun again at any point.
CutShort == OldOrNew /\ NothingLeft

\* The stream is where its reader takes it to be: no data is read as a header, no
\* header as an entry of the payload.
InStep == trouble \intersect {"magic", "unpack"} = {}

\* The payload is read entry by entry, and every entry ends in its file.
PayloadWhole == InStep /\ InstalledWhole

\* A package that is accepted by the check of its signature has no damage in a
\* part that one of its digests covers, unless one that comes before it, and
\* does not cover that part, could be checked.
Usable == {i \in DOMAIN Order : Order[i] \in sigs /\ ~remote /\ (Order[i] \in NeedsKey => known)}
DamageRefused ==
    verdict \in {0, 1} /\ "signature" \notin damaged =>
        \A part \in damaged : \A i \in Usable :
            part \in Covers(Order[i]) => \E j \in Usable : j < i /\ part \notin Covers(Order[j])

=============================================================================
