-------------------------------- MODULE Disk ---------------------------------
(***************************************************************************)
(* A disk or the image of one while a system is installed on it or its     *)
(* partitions are mounted: pyrpm/installer/disk.py and loop.py, as         *)
(* pyrpmkickstart and pyrpmmountimage use them.  An image and each of its  *)
(* partitions are reached by a loop device, and other processes use loop   *)
(* devices as well.                                                        *)
(*                                                                         *)
(* libparted and the kernel are external: libparted keeps the table in     *)
(* memory, gives a new partition the lowest number that is free, and       *)
(* renumbers the logical partitions after one that is deleted.  Positions  *)
(* are cylinders; a partition is [num, type, start, end, linux].           *)
(***************************************************************************)
EXTENDS Integers, Sequences, SequencesExt, FiniteSetsExt, Functions, TLC

CONSTANTS
    Loop,       \* the loop devices there are, numbered from 0
    Size,       \* of the disk
    Layout,     \* the partition tables there may be: [label, parts]
    MaxOps,     \* bound: changes of the table
    MaxOthers,  \* bound: loop devices that other processes take or give back
    MaxLost,    \* bound: loop devices that are lost, apart from those of a constructor
    Fails       \* whether mounting and ioctls on loop devices may fail

None == -1
RealDisk == -2
Image == -3
NoTable == [label |-> "none", parts |-> {}]

VARIABLES
    kind,      \* "device" or "image"
    stage,     \* where the program is
    loops,     \* what every loop device shows: [by, of, from, length]
    device,    \* self["device"]
    ped,       \* self.ped_disk
    disk,      \* the table on the disk
    partition, \* self.partition: number |-> its device
    todo,      \* the partitions that reload() has not come to
    found,     \* the loop device that findUnused() returned
    keys,      \* the partitions that clearpart has not come to
    made,      \* the partitions that were created
    mounted,   \* loop devices of mounted partitions
    lost,      \* history: our loop devices that a failing call has left bound
    cleared,   \* history: the partitions when clearpart began
    ops, others

counters == <<ops, others>>
history == <<lost, cleared>>
diskVars ==
    <<kind, stage, loops, device, ped, disk, partition, todo, found, keys, made, mounted, history, counters>>

Unbound == [by |-> "none", of |-> None, from |-> 0, length |-> 0]
Ours == {l \in Loop : loops[l].by = "us"}
Nums(t) == {p.num : p \in t.parts}

Init ==
    /\ kind \in {"device", "image"} /\ stage = "open"
    /\ loops \in [Loop -> {Unbound, [Unbound EXCEPT !.by = "other"]}]
    /\ device = None
    /\ ped = NoTable /\ disk \in Layout
    /\ partition = <<>> /\ todo = <<>> /\ found = None
    /\ keys = <<>> /\ made = {} /\ mounted = {}
    /\ lost = {} /\ cleared = {}
    /\ ops = 0 /\ others = 0

-----------------------------------------------------------------------------
(* Loop devices.                                                           *)

\* Another process takes a loop device or gives it back.
Other(l) ==
    /\ others < MaxOthers /\ loops[l].by # "us"
    /\ loops' = [loops EXCEPT ![l] = IF @ = Unbound THEN [@ EXCEPT !.by = "other"] ELSE Unbound]
    /\ others' = others + 1
    /\ UNCHANGED <<kind, stage, device, ped, disk, partition, todo, found, keys, made, mounted, history, ops>>

\* A status can be read: the device is bound to something.
InUse(l) == loops[l] # Unbound

FindUnused ==
    LET unused == {l \in Loop : ~InUse(l)}
    IN  IF unused = {} THEN None ELSE Min(unused)

SetInfo(ls, l, from, length) == [ls EXCEPT ![l].from = from, ![l].length = length]

\* free(): the status is emptied first; a device that is in use stays bound.  It may
\* fail before and after that, and all that comes of it is a 0 that nobody looks at.
Free(ls, l, how) ==
    IF how = "kept" THEN ls
    ELSE IF how = "emptied" \/ l \in mounted \/ \E m \in DOMAIN ls : ls[m].of = l
    THEN SetInfo(ls, l, 0, 0)
    ELSE [ls EXCEPT ![l] = Unbound]

\* What may come of free() of each of the devices in L, and the devices it fails for.
NotFreed(h) == {l \in DOMAIN h : h[l] # "freed"}
FreeResults(L) ==
    {h \in [L -> IF Fails THEN {"freed", "kept", "emptied"} ELSE {"freed"}] :
        Cardinality(lost \union NotFreed(h)) <= MaxLost \/ NotFreed(h) = {}}

LoFree(ls, h) == FoldSet(LAMBDA l, acc : Free(acc, l, h[l]), ls, DOMAIN h)

Setup(of, from) ==
    SetInfo([loops EXCEPT ![found] = [Unbound EXCEPT !.by = "us", !.of = of]], found, from, 0)

\* The device is bound to a file by now, or an ioctl fails and it is freed again, or
\* that fails as well: then it stays bound.
SetupFails(of, L) ==
    \/ /\ Fails \/ found \notin {l \in Loop : ~InUse(l)}
       /\ L = {} /\ UNCHANGED loops
    \/ /\ Fails /\ found \in Loop /\ ~InUse(found) /\ Cardinality(lost \union {found}) <= MaxLost
       /\ L = {found} /\ loops' = Setup(of, 0)

Mut_SetSizelimit(ls, length) == SetInfo(ls, found, 0, length)

\* The status is read before the limit is put into it.
SetSizelimit(ls, length) == SetInfo(ls, found, ls[found].from, length)

-----------------------------------------------------------------------------
(* libparted.                                                              *)

Covers(p, c) == p.start <= c /\ c <= p.end
Logical(t) == {p \in t.parts : p.type = "logical"}
Extended(t) == {p \in t.parts : p.type = "extended"}

FreeAt(t, type) ==
    {c \in 1..Size :
        IF type = "logical" THEN /\ \E p \in Extended(t) : Covers(p, c)
                                 /\ \A p \in Logical(t) : ~Covers(p, c)
        ELSE \A p \in t.parts \ Logical(t) : ~Covers(p, c)}

Newest(t, type) ==
    IF type = "logical" THEN 5 + Cardinality(Logical(t)) ELSE Min((1..99) \ Nums(t))

PedAdd(t, part) == [t EXCEPT !.parts = @ \union {part}]

PedDelete(t, n) ==
    [t EXCEPT !.parts = {IF p.type = "logical" /\ p.num > n THEN [p EXCEPT !.num = @ - 1] ELSE p :
                            p \in {q \in @ : q.num # n}}]

-----------------------------------------------------------------------------
(* Disk.                                                                   *)

Open ==
    /\ stage = "open"
    /\ IF kind = "image" THEN stage' = "losetup" /\ found' = FindUnused /\ UNCHANGED device
       ELSE stage' = "construct" /\ device' = RealDisk /\ UNCHANGED found
    /\ UNCHANGED <<kind, loops, ped, disk, partition, todo, keys, made, mounted, history, counters>>

\* losetup() in open()
Losetup ==
    /\ stage = "losetup"
    /\ \/ /\ \E L \in SUBSET {found} : SetupFails(Image, L) /\ lost' = lost \union L
          /\ stage' = "over" /\ UNCHANGED device
       \/ /\ found # None /\ loops[found] = Unbound
          /\ loops' = Setup(Image, 0) /\ device' = found /\ stage' = "construct"
          /\ UNCHANGED lost
    /\ found' = None
    /\ UNCHANGED <<kind, ped, disk, partition, todo, keys, made, mounted, cleared, counters>>

\* The loop devices that reload() gives back before it forgets the partitions.
OldLoops == IF kind = "image" THEN Range(partition) ELSE {}

\* reload() of a table up to its loop over the partitions.
StartReload(table) ==
    /\ ped' = table
    /\ \E h \in FreeResults(OldLoops) : loops' = LoFree(loops, h) /\ lost' = lost \union NotFreed(h)
    /\ partition' = <<>>
    /\ todo' = SetToSortSeq(table.parts,
                  LAMBDA p, q : p.start < q.start \/ (p.start = q.start /\ p.type = "extended"))

Construct ==
    /\ stage = "construct"
    /\ IF disk = NoTable THEN stage' = "idle" /\ UNCHANGED <<ped, loops, partition, todo, lost>>
       ELSE stage' = "constructing" /\ StartReload(disk)
    /\ UNCHANGED <<kind, device, disk, found, keys, made, mounted, cleared, counters>>

InReload == stage \in {"constructing", "reload"}

\* An exception that leaves the devices in L.  The program closes the disks it knows;
\* of one whose constructor is left nobody knows the loop devices.
LeaveReload(L) ==
    /\ stage' = IF stage = "constructing" THEN "over" ELSE "failed"
    /\ lost' = lost \union L
                \union (IF stage = "constructing" THEN {device} \union Range(partition) ELSE {})

\* The next partition, and for one of an image a loop device that is not in use.
AddDevice ==
    /\ InReload /\ found = None
    /\ IF todo = <<>>
       THEN stage' = (IF keys = <<>> THEN "idle" ELSE "clear") /\ UNCHANGED <<partition, todo, found, lost>>
       ELSE IF kind = "device"
       THEN /\ partition' = [n \in {Head(todo).num} |-> RealDisk] @@ partition
            /\ todo' = Tail(todo)
            /\ UNCHANGED <<stage, found, lost>>
       ELSE IF FindUnused = None THEN LeaveReload({}) /\ UNCHANGED <<partition, todo, found>>
       ELSE found' = FindUnused /\ UNCHANGED <<stage, partition, todo, lost>>
    /\ UNCHANGED <<kind, loops, device, ped, disk, keys, made, mounted, cleared, counters>>

\* setup() and setSizelimit() of that device.
BindDevice ==
    /\ InReload /\ found # None
    /\ LET p == Head(todo)
           bound == Setup(device, p.start)
       IN  \/ /\ \E L \in SUBSET {found} : SetupFails(device, L) /\ LeaveReload(L)
              /\ UNCHANGED <<partition, todo>>
           \/ /\ loops[found] = Unbound
              /\ loops' = SetSizelimit(bound, p.end - p.start + 1)
              /\ partition' = [n \in {p.num} |-> found] @@ partition
              /\ todo' = Tail(todo)
              /\ UNCHANGED <<stage, lost>>
           \/ /\ loops[found] = Unbound /\ Fails
              /\ Cardinality(lost \union {found}) <= MaxLost
              /\ loops' = bound /\ LeaveReload({found})
              /\ UNCHANGED <<partition, todo>>
    /\ found' = None
    /\ UNCHANGED <<kind, device, ped, disk, keys, made, mounted, cleared, counters>>

\* A method that changes the table, which ends with reload().
Change(table) ==
    /\ ops < MaxOps /\ ops' = ops + 1
    /\ stage' = "reload"
    /\ StartReload(table)
    /\ UNCHANGED <<kind, device, found, mounted, others>>

NewDisklabel(label) ==
    /\ stage = "idle" /\ made = {}
    /\ Change([label |-> label, parts |-> {}])
    /\ UNCHANGED <<disk, keys, made, cleared>>

DeleteAllPartitions ==
    /\ stage = "idle" /\ made = {} /\ ped # NoTable
    /\ Change([ped EXCEPT !.parts = {}])
    /\ UNCHANGED <<disk, keys, made, cleared>>

\* add_partition() of any number (id 0), where pyrpmkickstart finds free space on a
\* disk that had no partitions.  A fifth primary one, which libparted refuses, is
\* left out.
Partition(type, start, end) ==
    [num |-> Newest(ped, type), type |-> type, start |-> start, end |-> end, linux |-> type # "extended"]

CreatePartition(type, start, end) ==
    /\ stage = "idle" /\ ped # NoTable /\ start <= end
    /\ \A p \in ped.parts : p \in made
    /\ start..end \subseteq FreeAt(ped, type)
    /\ type # "primary" => ped.label = "msdos"
    /\ type = "extended" => Extended(ped) = {}
    /\ LET p == Partition(type, start, end)
       IN  Change(PedAdd(ped, p)) /\ made' = made \union {p}
    /\ UNCHANGED <<disk, keys, cleared>>

\* The changes go to the disk; for an image no error is one.
Commit ==
    /\ stage = "idle" /\ ped # NoTable /\ ops > 0
    /\ \/ disk' = ped /\ stage' = "reload" /\ StartReload(ped)
       \/ kind = "image" /\ stage' = "reload" /\ StartReload(ped) /\ UNCHANGED disk
       \/ kind = "device" /\ stage' = "failed" /\ UNCHANGED <<disk, ped, loops, partition, todo, lost>>
    /\ UNCHANGED <<kind, device, found, keys, made, mounted, cleared, counters>>

-----------------------------------------------------------------------------
(* clearpart --linux of pyrpmkickstart.                                    *)

\* The keys of a dictionary of five entries or less come by their last three bits.
DictKeys(N) ==
    SetToSortSeq(N, LAMBDA m, n : IF Cardinality(N) <= 5 /\ m % 8 # n % 8 THEN m % 8 < n % 8 ELSE m < n)

KeysToClear == Reverse(DictKeys(DOMAIN partition))

StartClear ==
    /\ stage = "idle" /\ made = {} /\ cleared = {} /\ ped.parts # {}
    /\ keys' = KeysToClear /\ cleared' = ped.parts
    /\ stage' = "clear"
    /\ UNCHANGED <<kind, loops, device, ped, disk, partition, todo, found, made, mounted, lost, counters>>

\* delete_partition() of one of the types of Linux; a number that is not there any
\* more is a KeyError.
ClearNext ==
    /\ stage = "clear" /\ keys # <<>>
    /\ LET n == Head(keys)
           p == CHOOSE q \in ped.parts : q.num = n
       IN  IF n \notin DOMAIN partition
           THEN stage' = "keyerror" /\ UNCHANGED <<loops, ped, partition, todo, lost>>
           ELSE IF p.linux THEN stage' = "reload" /\ StartReload(PedDelete(ped, n))
           ELSE /\ stage' = IF Len(keys) = 1 THEN "idle" ELSE "clear"
                /\ UNCHANGED <<loops, ped, partition, todo, lost>>
    /\ keys' = Tail(keys)
    /\ UNCHANGED <<kind, device, disk, found, made, mounted, cleared, counters>>

-----------------------------------------------------------------------------

\* pyrpmmountimage: a partition that is mounted is taken out of the dictionary.  The
\* first one is before it is mounted, those of its fstab (-r) afterwards.
Mount(n) ==
    /\ kind = "image" /\ ops = 0 /\ cleared = {}
    /\ stage \in {"idle", "mounting"} /\ n \in DOMAIN partition
    /\ LET rest == [m \in DOMAIN partition \ {n} |-> partition[m]]
       IN  \/ /\ mounted' = mounted \union {partition[n]} /\ partition' = rest
              /\ stage' = "mounting"
              /\ UNCHANGED lost
           \/ /\ Fails /\ stage' = "failed"
              /\ IF stage = "idle" THEN lost' = lost \union {partition[n]} /\ partition' = rest
                 ELSE UNCHANGED <<lost, partition>>
              /\ UNCHANGED mounted
    /\ UNCHANGED <<kind, loops, device, ped, disk, todo, found, keys, made, cleared, counters>>

\* close(), at the end or after an exception; the image's own device comes last.
Close ==
    /\ stage \in {"idle", "mounting", "failed", "keyerror"}
    /\ IF kind = "image"
       THEN \E h \in FreeResults(OldLoops \union {device}) :
               /\ loops' = Free(LoFree(loops, [l \in OldLoops |-> h[l]]), device, h[device])
               /\ lost' = lost \union NotFreed(h)
       ELSE UNCHANGED <<loops, lost>>
    /\ partition' = <<>>
    /\ stage' = "over"
    /\ UNCHANGED <<kind, device, ped, disk, todo, found, keys, made, mounted, cleared, counters>>

Next ==
    \/ Open \/ Losetup \/ Construct \/ AddDevice \/ BindDevice
    \/ DeleteAllPartitions
    \/ \E label \in {"msdos", "gpt"} : NewDisklabel(label)
    \/ \E type \in {"primary", "extended", "logical"}, start, end \in 1..Size : CreatePartition(type, start, end)
    \/ Commit \/ StartClear \/ ClearNext
    \/ \E n \in DOMAIN partition : Mount(n)
    \/ Close
    \/ \E l \in Loop : Other(l)

Spec == Init /\ [][Next]_diskVars

-----------------------------------------------------------------------------

TypeOK ==
    /\ stage \in {"open", "losetup", "construct", "constructing", "reload", "idle", "clear", "mounting",
                  "failed", "keyerror", "over"}
    /\ \A l \in Loop : loops[l].by \in {"none", "other", "us"}
    /\ mounted \union lost \subseteq Loop
    /\ DOMAIN partition \subseteq Nat /\ Range(partition) \subseteq Loop \union {RealDisk}

\* When a method of Disk is over, every partition of an image has a loop device of
\* its own that shows this partition and no more of the image, however the numbers
\* were given anew; and what a program mounts stays what it was.
LoopsMatch ==
    /\ kind = "image" /\ stage \in {"idle", "clear", "mounting"} =>
          /\ Nums(ped) = DOMAIN partition \/ stage = "mounting"
          /\ \A p \in ped.parts : p.num \in DOMAIN partition =>
                loops[partition[p.num]] =
                    [by |-> "us", of |-> device, from |-> p.start, length |-> p.end - p.start + 1]
          /\ IsInjective(partition)
    /\ \A l \in mounted : \E p \in ped.parts :
          loops[l] = [by |-> "us", of |-> device, from |-> p.start, length |-> p.end - p.start + 1]

\* In the end all loop devices are given back except those of mounted partitions,
\* those that a failing call has left (free() itself, a constructor or setSizelimit()
\* that an exception ends, the mount of the first partition), and what these are bound
\* to: a failure never takes other partitions with it.
LoopsReturned ==
    stage = "over" =>
        \A l \in Ours : \/ l \in lost \union mounted
                       \/ \E m \in lost \union mounted : loops[m].of = l

\* clearpart --linux removes all partitions of Linux and leaves all others where they
\* are, though their numbers change as it goes.  It stops with a KeyError on a disk
\* that holds nothing but an extended partition and the logical ones 5 to 8.
LinuxCleared ==
    LET left == {[p EXCEPT !.num = 0] : p \in ped.parts}
    IN  /\ cleared # {} /\ stage = "idle" /\ ops = 0 =>
              left = {[p EXCEPT !.num = 0] : p \in {q \in cleared : ~q.linux}}
        /\ stage = "keyerror" => \E n \in 1..4 : {p.num : p \in cleared} = {n} \union 5..8

=============================================================================
