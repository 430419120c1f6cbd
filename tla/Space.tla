-------------------------------- MODULE Space --------------------------------
(***************************************************************************)
(* The space on disk that a transaction needs.  getFreeDiskspace() of      *)
(* pyrpm/functions.py counts it before anything is done, operation by      *)
(* operation and file by file; then the operations are carried out, and    *)
(* every new file is written beside the old one before it takes its place. *)
(*                                                                         *)
(* The files are plain ones that are installed and erased whatever is      *)
(* there; the links and directories of a package take no space.  Space is  *)
(* counted in bytes, a file takes whole blocks of its device.  A directory *)
(* that a package brings is made on the device of the nearest one there is.*)
(***************************************************************************)
EXTENDS Integers, Sequences, SequencesExt, FiniteSetsExt, Functions

CONSTANTS
    Dir, Parent,
    Device,        \* of the directories there are, "/" among them
    BlockSize,     \* of every device
    Slack,         \* the 30 MB
    Pkg, Files,    \* sequences of [path, dir, size, regular]
    Installed,
    Transactions,  \* sequences of [op, pkg]
    FreeSpace      \* what there may be on the devices

SpaceAssumption ==
    /\ \A dev \in DOMAIN BlockSize : BlockSize[dev] \in Nat \ {0}
    /\ \A d \in Dir \ DOMAIN Device : Parent[d] \in Dir

VARIABLES
    operations,
    k,             \* the operation the check, or later the transaction, is at
    i,             \* the file of it
    stage,         \* "check", "refused", "run" or "done"
    dirhash,       \* directory |-> device
    freehash, minfreehash,
    db,
    disk,          \* the size of the file at every path
    temp,          \* temporary file: the size, or Gone
    free,
    credit, freed  \* history: what erased files were counted for, what was freed

spaceVars ==
    <<operations, k, i, stage, dirhash, freehash, minfreehash, db, disk, temp, free, credit, freed>>

Gone == -1
Regular(p) == SelectSeq(Files[p], LAMBDA f : f.regular)
Has(p, path) == \E n \in DOMAIN Files[p] : Files[p][n].path = path
Paths == UNION {{Files[p][n].path : n \in DOMAIN Files[p]} : p \in Pkg}
Devices == DOMAIN BlockSize

Init ==
    /\ operations \in Transactions
    /\ k = 1 /\ i = 1 /\ stage = "check"
    /\ dirhash = <<>> /\ freehash = <<>> /\ minfreehash = <<>>
    /\ db = Installed
    /\ \E removed \in SUBSET Paths :
          disk = [path \in Paths |->
                    IF path \in removed \/ \A p \in Installed : ~Has(p, path) THEN Gone
                    ELSE Max({Files[x[1]][x[2]].size :
                                x \in {y \in Installed \X (1..9) :
                                         /\ y[2] \in DOMAIN Files[y[1]]
                                         /\ Files[y[1]][y[2]].path = path}})]
    /\ temp = Gone
    /\ free \in FreeSpace
    /\ credit = [d \in Devices |-> 0] /\ freed = [d \in Devices |-> 0]

Op == operations[k]

-----------------------------------------------------------------------------
(* getFreeDiskspace()                                                      *)

\* The directories from d up to one that is there or whose parent is known.
Climb(hash) ==
    LET up[d \in Dir] ==
            IF d \in DOMAIN Device \/ Parent[d] \in DOMAIN hash THEN <<d>> ELSE <<d>> \o up[Parent[d]]
    IN  up

\* dirhash with the device of d.
DirDevice(hash, d) ==
    IF d \in DOMAIN hash THEN hash
    ELSE LET dnames == Climb(hash)[d]
             top == Last(dnames)
             dev == IF top \in DOMAIN Device THEN Device[top] ELSE hash[Parent[top]]
         IN  [x \in ToSet(dnames) |-> dev] @@ hash

\* A block more than needed if the last one is full.
Counted(f, dev) == ((f.size \div BlockSize[dev]) + 1) * BlockSize[dev]

Mut_Lowest(seen, now) == now

\* minfreehash after a file.
Lowest(seen, now) == IF seen > now THEN now ELSE seen

CountFile(op, hash, acc, f) ==
    LET dev == hash[f.dir]
        left == acc.free[dev] + (IF op = "erase" THEN 1 ELSE -1) * Counted(f, dev)
    IN  [free |-> [acc.free EXCEPT ![dev] = left],
         min |-> [acc.min EXCEPT ![dev] = Lowest(@, left)]]

CheckOperation ==
    /\ stage = "check" /\ k <= Len(operations)
    /\ LET files == Files[Op.pkg]
           hash == FoldLeft(LAMBDA h, f : DirDevice(h, f.dir), dirhash, files)
           seen == {hash[d] : d \in DOMAIN hash}
           counts == FoldLeft(LAMBDA acc, f : CountFile(Op.op, hash, acc, f),
                              [free |-> freehash @@ [d \in seen |-> free[d]],
                               min |-> minfreehash @@ [d \in seen |-> free[d]]],
                              Regular(Op.pkg))
       IN  dirhash' = hash /\ freehash' = counts.free /\ minfreehash' = counts.min
    /\ k' = k + 1
    /\ UNCHANGED <<operations, i, stage, db, disk, temp, free, credit, freed>>

\* A package cannot be read again.
RereadFails ==
    /\ stage = "check" /\ k <= Len(operations) /\ Op.op # "erase"
    /\ stage' = "refused"
    /\ UNCHANGED <<operations, k, i, dirhash, freehash, minfreehash, db, disk, temp, free, credit, freed>>

Decide ==
    /\ stage = "check" /\ k > Len(operations)
    /\ stage' = IF \E d \in DOMAIN minfreehash : minfreehash[d] < Slack THEN "refused" ELSE "run"
    /\ k' = 1
    /\ UNCHANGED <<operations, i, dirhash, freehash, minfreehash, db, disk, temp, free, credit, freed>>

-----------------------------------------------------------------------------
(* The transaction.                                                        *)

\* Where a file really goes.
DeviceOf[d \in Dir] == IF d \in DOMAIN Device THEN Device[d] ELSE DeviceOf[Parent[d]]

Blocks(size, dev) ==
    IF size = Gone THEN 0 ELSE ((size + BlockSize[dev] - 1) \div BlockSize[dev]) * BlockSize[dev]

AtFile(op) == stage = "run" /\ k <= Len(operations) /\ Op.op = op /\ i <= Len(Regular(Op.pkg))

\* Without space the installation of the package fails, and the transaction ends.
WriteTemporary ==
    /\ AtFile("install") /\ temp = Gone
    /\ LET f == Regular(Op.pkg)[i]
           dev == DeviceOf[f.dir]
       IN  IF free[dev] < Blocks(f.size, dev) THEN stage' = "done" /\ UNCHANGED <<temp, free>>
           ELSE /\ temp' = f.size
                /\ free' = [free EXCEPT ![dev] = @ - Blocks(f.size, dev)]
                /\ UNCHANGED stage
    /\ UNCHANGED <<operations, k, i, dirhash, freehash, minfreehash, db, disk, credit, freed>>

Rename ==
    /\ AtFile("install") /\ temp # Gone
    /\ LET f == Regular(Op.pkg)[i]
           dev == DeviceOf[f.dir]
           old == Blocks(disk[f.path], dev)
       IN  /\ disk' = [disk EXCEPT ![f.path] = f.size]
           /\ free' = [free EXCEPT ![dev] = @ + old]
           /\ freed' = [freed EXCEPT ![dev] = @ + old]
    /\ temp' = Gone /\ i' = i + 1
    /\ UNCHANGED <<operations, k, stage, dirhash, freehash, minfreehash, db, credit>>

\* From the last file to the first; one that another package has stays.
EraseFile ==
    /\ AtFile("erase")
    /\ LET f == Reverse(Regular(Op.pkg))[i]
           dev == DeviceOf[f.dir]
           old == IF \E q \in db \ {Op.pkg} : Has(q, f.path) THEN 0 ELSE Blocks(disk[f.path], dev)
       IN  /\ disk' = IF \E q \in db \ {Op.pkg} : Has(q, f.path) THEN disk
                      ELSE [disk EXCEPT ![f.path] = Gone]
           /\ free' = [free EXCEPT ![dev] = @ + old]
           /\ freed' = [freed EXCEPT ![dev] = @ + old]
           /\ credit' = [credit EXCEPT ![dev] = @ + Counted(f, dev)]
    /\ i' = i + 1
    /\ UNCHANGED <<operations, k, stage, dirhash, freehash, minfreehash, db, temp>>

OperationEnds ==
    /\ stage = "run" /\ k <= Len(operations) /\ i > Len(Regular(Op.pkg))
    /\ db' = IF Op.op = "erase" THEN db \ {Op.pkg} ELSE db \union {Op.pkg}
    /\ i' = 1 /\ k' = k + 1
    /\ stage' = IF k = Len(operations) THEN "done" ELSE stage
    /\ UNCHANGED <<operations, dirhash, freehash, minfreehash, disk, temp, free, credit, freed>>

Next ==
    \/ CheckOperation \/ RereadFails \/ Decide
    \/ WriteTemporary \/ Rename \/ EraseFile \/ OperationEnds

Spec == Init /\ [][Next]_spaceVars

-----------------------------------------------------------------------------

TypeOK ==
    /\ stage \in {"check", "refused", "run", "done"}
    /\ DOMAIN dirhash \subseteq Dir /\ Range(dirhash) \subseteq Devices
    /\ DOMAIN freehash = DOMAIN minfreehash
    /\ db \subseteq Pkg /\ free \in [Devices -> Int]

\* "Check there is enough disk space for operations": an accepted transaction
\* leaves the slack on every device at every point of it, in whatever order the
\* files come and with the old and the new file there at once.  Missing may be
\* only what was counted for erased files and was not freed: files that were gone
\* or that another package keeps, and the block that is counted too much.
SlackKept ==
    stage \in {"run", "done"} =>
        \A d \in Devices :
            \/ free[d] + Max({0, credit[d] - freed[d]}) >= Slack
            \/ \A n \in DOMAIN operations : \A f \in ToSet(Regular(operations[n].pkg)) : DeviceOf[f.dir] # d

=============================================================================
