------------------------------ MODULE MemoryDB -------------------------------
(***************************************************************************)
(* RpmMemoryDB (pyrpm/database/memorydb.py): a set of packages with the    *)
(* indexes of pyrpm/database/lists.py, each built from the packages when   *)
(* it is first used and kept up to date by addPkg and removePkg from then  *)
(* on.                                                                     *)
(*                                                                         *)
(* An index maps keys (dependency names, file names) to the packages that  *)
(* have an entry there; of the flags and versions of the entries all that  *)
(* matters is whether a package provides exactly its own name and version. *)
(* A key without packages stands for a key that is not in the dictionary.  *)
(***************************************************************************)
EXTENDS Integers, Sequences

CONSTANTS
    Pkg, Key,
    Tag,       \* the indexes: provides, requires, filenames...
    Provides,  \* the member of Tag that is the ProvidesList
    Keys,      \* the keys of a package for an index, from its header
    Name,      \* pkg["name"], a key
    Last,      \* the key of the last entry of pkg["provides"]
    Named      \* the packages whose header provides their name and EVR

ASSUME MemoryDBAssumption ==
    /\ Provides \in Tag
    /\ Keys \in [Tag -> [Pkg -> SUBSET Key]]
    /\ Name \in [Pkg -> Key]
    /\ \A p \in Pkg : Keys[Provides][p] # {} => Last[p] \in Keys[Provides][p]
    /\ Named \subseteq {p \in Pkg : Name[p] \in Keys[Provides][p]}

VARIABLES
    pkgs,      \* the packages
    names,     \* name => packages
    lists,     \* _lists: the indexes in use, in the order they were built
    hash,      \* the dictionary of each index
    ret        \* what the last call returned

vars == <<pkgs, names, lists, hash, ret>>

Built == {lists[i] : i \in DOMAIN lists}
NoEntries == [k \in Key |-> {}]

TypeOK ==
    /\ pkgs \subseteq Pkg
    /\ names \in [Key -> SUBSET Pkg]
    /\ lists \in Seq(Tag)
    /\ hash \in [Tag -> [Key -> SUBSET Pkg]]
    /\ ret \in {"OK", "ALREADY_INSTALLED", "NOT_INSTALLED", "raised"}

Init ==
    /\ pkgs = {}
    /\ names = NoEntries
    /\ lists = <<>>
    /\ hash = [t \in Tag |-> NoEntries]
    /\ ret = "OK"

\* The keys under which an index enters a package: the ProvidesList adds the
\* name of a package that does not provide it.
Entries(t, p) == Keys[t][p] \union (IF t = Provides THEN {Name[p]} ELSE {})

Mut_InsertKey(f, K, p) == [k \in Key |-> IF k \in K THEN f[k] \union {k} ELSE f[k]]

Insert(f, K, p) == [k \in Key |-> IF k \in K THEN f[k] \union {p} ELSE f[k]]
Remove(f, K, p) == [k \in Key |-> IF k \in K THEN f[k] \ {p} ELSE f[k]]

AddPkg(p) ==
    \/ /\ p \in names[Name[p]]
       /\ ret' = "ALREADY_INSTALLED"
       /\ UNCHANGED <<pkgs, names, lists, hash>>
    \/ /\ p \notin names[Name[p]]
       /\ pkgs' = pkgs \union {p}
       /\ names' = Insert(names, {Name[p]}, p)
       /\ hash' = [t \in Tag |-> IF t \in Built THEN Insert(hash[t], Entries(t, p), p) ELSE hash[t]]
       /\ ret' = "OK"
       /\ UNCHANGED lists

\* ProvidesList.removePkg removes the entries of the header first and that of
\* the name and EVR after it.  If the list itself had added the latter and
\* nobody else is left under the name, the key that is then deleted is the last
\* one of the header, whoever has an entry there.
OnlyByList(p) == p \notin Named /\ hash[Provides][Name[p]] = {p}

ProvidesAfter(p) ==
    LET rest == Remove(hash[Provides], Entries(Provides, p), p)
    IN  IF OnlyByList(p) THEN [rest EXCEPT ![Last[p]] = {}] ELSE rest

\* A key of the header is gone, the key to delete at the end is, or the
\* header has none.
RaisesKeyError(p) ==
    \/ \E k \in Keys[Provides][p] : hash[Provides][k] = {}
    \/ /\ OnlyByList(p)
       /\ \/ Keys[Provides][p] = {}
          \/ Last[p] # Name[p] /\ hash[Provides][Last[p]] = {p}

\* How far removePkg gets through the indexes: all of them, or up to the
\* ProvidesList if that raises.  What that list has removed by then is left
\* out: the program ends.
Position(t) == CHOOSE i \in DOMAIN lists : lists[i] = t
Reached(t, p) ==
    /\ t \in Built
    /\ Provides \in Built /\ RaisesKeyError(p) => Position(t) < Position(Provides)

RemovedFrom(t, p) ==
    IF t = Provides THEN ProvidesAfter(p) ELSE Remove(hash[t], Entries(t, p), p)

RemovePkg(p) ==
    \/ /\ p \notin names[Name[p]]
       /\ ret' = "NOT_INSTALLED"
       /\ UNCHANGED <<pkgs, names, lists, hash>>
    \/ /\ p \in names[Name[p]]
       /\ pkgs' = pkgs \ {p}
       /\ names' = Remove(names, {Name[p]}, p)
       /\ hash' = [t \in Tag |-> IF Reached(t, p) THEN RemovedFrom(t, p) ELSE hash[t]]
       /\ ret' = IF Provides \in Built /\ RaisesKeyError(p) THEN "raised" ELSE "OK"
       /\ UNCHANGED lists

FromPkgs(t) == [k \in Key |-> {p \in pkgs : k \in Entries(t, p)}]

\* __getattr__: the first use of an index builds it.
Use(t) ==
    /\ t \notin Built
    /\ lists' = Append(lists, t)
    /\ hash' = [hash EXCEPT ![t] = FromPkgs(t)]
    /\ ret' = "OK"
    /\ UNCHANGED <<pkgs, names>>

ReloadDependencies ==
    /\ lists' = <<>>
    /\ hash' = [t \in Tag |-> NoEntries]
    /\ ret' = "OK"
    /\ UNCHANGED <<pkgs, names>>

Clear ==
    /\ pkgs' = {}
    /\ names' = NoEntries
    /\ lists' = <<>>
    /\ hash' = [t \in Tag |-> NoEntries]
    /\ ret' = "OK"

\* An exception ends the program.
Running == ret # "raised"

Next ==
    /\ Running
    /\ \/ \E p \in Pkg : AddPkg(p) \/ RemovePkg(p)
       \/ \E t \in Tag : Use(t)
       \/ ReloadDependencies
       \/ Clear

Spec == Init /\ [][Next]_vars

-----------------------------------------------------------------------------
(* What a search may rely on.                                              *)

\* Every package provides its name, and its name and version unless nothing is
\* provided after the name.
SelfProvided ==
    \A p \in Pkg : Name[p] \in Keys[Provides][p] /\ (p \in Named \/ Last[p] = Name[p])

\* Whenever an index was built, and whatever was added and removed since, it
\* answers as if it were built from the packages now; the names likewise.
NamesAgree == \A k \in Key : names[k] = {p \in pkgs : Name[p] = k}
IndexesAgree == NamesAgree /\ \A t \in Built : hash[t] = FromPkgs(t)

=============================================================================
