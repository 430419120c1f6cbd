# A TLA+ verification project for pyrpm

pyrpm is an implementation of RPM package handling in Python: it reads RPM
packages and repositories, resolves dependencies, orders and runs install and
erase transactions against the RPM database, and carries a yum-like front end,
a repository generator and an installer on top. This directory models it in
TLA+, checks the models with TLC on small instances, and proves the most
important invariants with TLAPS for every instance.

Every definition is translated from `src/`; `PROJECT.json` ("map") names the
lines each one stands for. Names are the source's own where TLA+ allows it.

## 1. Inventory

| Component | Source | State it keeps | Module |
|---|---|---|---|
| Resolver | `resolver.py` | `installs`, `erases`, `updates`, `obsoletes`, the sets of pending checks, a working database | `Resolver` |
| Shadow and joint database | `database/rpmshadowdb.py`, `jointdb.py` | the packages hidden from a disk database | `Resolver` |
| Memory database | `database/memorydb.py`, `lists.py` | package lists, name index, lazily built indexes, table of name forms | `MemoryDB`, `Names` |
| External search database | `database/rpmexternalsearchdb.py` | kept answers of the repositories | `Repos` |
| RPM database | `database/rpmdb.py` | headers, fourteen index files, caches | `RpmDB`, `Header`, `Names` |
| Orderer | `orderer.py` | relation graph, components, leaves and roots | `Orderer` |
| Controller | `control.py` | operations, triggers, the database being written | `Transaction`, `Package` |
| Package | `package.py`, `io.py` | header tags, open file, hard link tables | `Transaction`, `Payload`, `Package`, `SharedFiles`, `Header`, `Gzip` |
| Scripts | `functions.py` `runScript` | delayed `ldconfig` flags | `Transaction` |
| Yum front end | `yum.py` | repositories, package lists, `erase_list`, what was asked for | `Yum`, `YumCommand`, `YumConf` |
| Lock file | `functions.py` `doLock`, `tryUnlock` | a file that holds a process id | `YumLock`, `Mutex` |
| Versions, architectures | `functions.py`, `base.py` | none | `Compare`, `Arch` |
| Network cache | `cache.py` | base URLs and a position in them, files on disk | `RepoFiles` |
| Repositories | `database/repodb.py`, `sqliterepodb.py` | package lists, SQLite tables, imported file lists | `RepoFiles`, `Repos`, `Metadata`, `Names` |
| Package groups | `database/comps.py`, `yum.py` | tables of groups, languages, types | `Comps` |
| Signatures | `openpgp.py`, `package.py` | key ring | `Keyring`, `Package` |
| Disk space | `functions.py` `getFreeDiskspace` | free space per device | `Space` |
| Installer | `installer/` | disks, loop devices, partition tables, the list of packages | `Disk`, `Selection` |
| LRU caches, logging, tools | `lrucache.py`, `logger.py`, `scripts/` | | not modelled, see section 8 |

### How the components interact

The yum front end or a tool builds a list of operations. `RpmController.getOperations`
feeds them one after the other to a `RpmResolver`, which works on a copy of the
RPM database (`getMemoryCopy`: a memory database or a shadow database over the
disk one), then calls `resolve()` and hands `installs`, `updates`, `obsoletes` and
`erases` to `RpmOrderer`. The orderer returns a list of (operation, package);
`runOperations` caches the packages (network cache), verifies them, runs
`%pretrans`, then installs and erases one package after the other, runs scripts
and triggers, and enters every change in the RPM database. The yum front end
works on the resolver directly, in turns that add packages for unresolved
dependencies, apply obsoletes, erase packages in conflict, and end when nothing
changes; the repositories answer its searches and import their lists of files when
a requirement asks for one; it holds a lock file around all of it. The program is
sequential; its concurrency is that of several processes on one lock file, one
cache directory, one RPM database and one file system, of mirrors that change
while they are read, and its failures are those of single steps: downloads,
writes, scripts, signals.

### What is hard in it, and what makes each component correct

* **Resolver.** Only what changed is looked at, and what was found fine is
  forgotten. Correct when nothing that a change broke is forgotten, when the
  working database is always the system as the operations will leave it, and when
  each replaced package has one replacement however long the chain.
* **Working databases.** Several indexes of the same packages, built on first use
  and updated at each change, and answers kept from repositories that learn more
  later; correct when each answers as if built from scratch.
* **RPM database.** One change is a write to each of fifteen files and a sync of
  each; correct when a failed or interrupted change spoils nothing that other calls
  have reported.
* **Orderer.** Cycles of requirements are merged, then broken at soft relations;
  correct when every operation is done once and what is not in a cycle keeps its
  order.
* **Controller and packages.** A failing step in the middle of a transaction, a
  program that dies while it unpacks, links whose data comes last, files that
  packages share; correct when the database records what is on disk.
* **Lock file.** Creation and writing the process id are two steps, reading and
  removing a stale lock are two more; correct when two processes never both
  believe they hold the lock.
* **Yum.** Dependencies, obsoletes and conflicts undo one another's work; correct
  when the turns end, lose nothing on the way and do what the user was shown.
* **Repositories.** Files from several mirrors of different age, left-overs of
  programs that died; correct when what is used is what `repomd.xml` advertises.
* **Readers and writers** (metadata, headers, gzip, keys, configuration, groups):
  correct when what is read is what was written, whichever reader is used.

The hazards are listed one by one, at their lines, in `PROJECT.json`.

## 2. Plan

The order is that of importance for the system: what decides on a transaction,
what carries it out, what records it, then what these are fed with.

| Step | Module | State |
|---|---|---|
| 1 | `Resolver` | done, proved |
| 2 | `YumLock`, `Mutex` | done, proved |
| 3 | `MemoryDB` | done, proved |
| 4 | `RpmDB` | done, proved |
| 5 | `Transaction` | done, proved |
| 6 | `Compare` | done, model-checked |
| 7 | `Orderer` | done, proved |
| 8 | `Yum`, `YumCommand` | done, proved but for `OffersTaken` |
| 9 | `RepoFiles`, `Repos` | done, proved |
| 10 | `Payload`, `Package` | done, proved |
| 11 | `SharedFiles`, `Header`, `Gzip`, `Keyring` | done, model-checked |
| 12 | `Metadata`, `Names`, `Comps` | done, model-checked |
| 13 | `YumConf`, `Arch`, `Space`, `Disk`, `Selection` | done, model-checked |

Not proved: `OffersTaken` of the yum front end, what the repositories offer instead of
other packages (`ObsoletesApplied`, `ListsComplete`). It is about what `__handleObsoletes`
and `update` do find, not about what they may not do, and is not true of any tables: an obsoleting package
is passed over when the list it looks at consists of as many packages as had its name at
first (`Blocked`), or when it is kept out by another of its name. The modules of steps 6 and 11 to 13 have no proofs: they are about strings,
tables and streams, what a reference says of them is recursive or a fold, and
`OneIsHigher` of `Arch` is about tables.

## 3. The modules

Composition: `YumCommand` EXTENDS `Yum` EXTENDS `Resolver`, so that the front end
runs on the resolver that is proved about; `Repos` EXTENDS `MemoryDB`,
whose indexes it searches; `Package` EXTENDS `Payload`; `YumLock` implements `Mutex`;
`Selection` EXTENDS `Comps`; `SharedFiles` is given the tables of `Arch`.

### Resolver (`resolver.py`, with `rpmshadowdb.py`, `jointdb.py`, `memorydb.py`)

State: `installs`, `erases`, `updates`, `obsoletes` (as functions from packages to
what they replace), the pending checks `check_installs`, `check_erases`,
`check_obsoletes`, `check_file_requires`, and the working database as the source
has it, a memory part, a disk part and the packages hidden from it. Actions:
`install`, `update`, `freshen`, `erase` and `resolve`, each with all its early
returns; `Autoerase` and `TakeBack` are what `yum.py` does in `__doAutoerase`.
Packages are model values with tables of names, versions, requirements, files.

### YumLock and Mutex (`functions.py` `tryUnlock`, `doLock`; `yum.py` `lock`, `unLock`)

State: the inode at the path of the lock file, the content of every inode, an
open file and a program counter for each process. Each system call is an action
(`Exists`, `Open`, `Read`, `Kill`, `Unlink`, `Create`, `Write`, `UnLock`); the
environment crashes processes and gives their ids to other programs.

### MemoryDB and Repos (`memorydb.py`, `lists.py`; `rpmexternalsearchdb.py`, repositories)

`MemoryDB`: the packages, the name index, the list of indexes built so far and
each index as a function from keys to sets of packages. `Use` is the first access
to an index, which builds it. `Repos` adds the repositories in use, which of them
have their complete file lists, and the kept answers for files and requirements;
`YumControl` imports lists when a file is required that nobody is known to own,
then clears the answers. It looks for an owner among the packages that are not in
the transaction (`Candidates`, `yum.py:623`). Packages given as files make up a
repository of their own, which comes after the resolver has asked the others
(`ReadArgs`): answers kept from before do not have its files, and nobody clears them
until a list is imported (`early`). `NothingOverlooked` and `MissingIsMissing` except
exactly those: without the exception a run gives a trace in which `runArgs` brings the owner of a
file the resolver has asked about (`resolver.py:63`, `yum.py:778`). Every package of the
runs provides its own name, as `package.py` sees to for the packages it builds.

### RpmDB (`rpmdb.py`)

State: fifteen files as sets of entries, in memory and on disk; the call in
progress with the number of the next file to write or sync; the caches `_pkgs`,
`basenames_cache` and `obsoletes_list`. `addPkg` is `AddPkg`, `WriteZero`,
`WriteHeader`, `WriteIndex` for every file, `IndexesWritten`, `Sync` for every
file, `AddPkgDone`; `removePkg` is `RemovePkg`, `WriteIndex`, `IndexesWritten`,
`DropHeader`, `Sync`, `RemovePkgDone`. `Fail` is a `bsddb.error` at any of them,
`Flush` Berkeley DB writing a file out of its cache, `Crash` the end of the
process. A search that meets an id without a header raises `KeyError`: it is no
step of its own but the end of the program.

### Transaction (`control.py`, `package.py`, `functions.py` `runScript`)

State: the packages recorded in the database; for every file its content, its
`.rpmsave` and its `.rpmnew`; the stage of `runOperations`, its operations, and
the delayed `ldconfig`. `NextInstall` and `NextErase` take the operations in the
order of `RpmOrderer.genOperations`, an installation followed by the erasures it
brings. It starts with what the resolver lets pass: no two packages that stay, and no two
that go, have a conflict of files (`FileConflict`). `pyrpmyum` sets `nofileconflicts`
(line 77), so for that front end nobody has checked this unless the user asks for
`--fileconflicts`: `DiskMatchesDatabase` and `LastEditKept` are about the programs
that leave the check on, as `pyrpminstall` does. `PreScript`, `InstallFile` or `EraseFile` for each file, `FilesDone`,
`PostScript`, `Trigger`, `UpdateDB` carry one out. Installing a configuration
file follows `__verifyFileInstall`: the owners are looked at one by one and the
first that decides is followed, so the outcome is one of those the possible
orders give. An edited file that is to be replaced is moved to `.rpmsave` by a step of its
own (`SaveEdited`), and the new one is written by a later one: `BeingReplaced` is the
file between the two, `moved` remembers those for which the second step never came. `Fails` lets every step fail that the code has an error path for,
also the ones nothing catches (stage `raised`): `rusage` unbound after a failed
`%preun`, `OSError` from `rmdir`. Users edit configuration files between
transactions. Left out here: directories, `%ghost` files, source packages, the
options `justdb`, `noscripts`, `buildroot`, and scripts that change files.

### Orderer (`orderer.py`)

State: the relations as a function from nodes to the nodes they require with a
hard or soft flag, the stack of the search for components (Gabow's algorithm,
call by call), the components with the packages in them, the order so far. A
node is a set of packages with a number, so that a component is a node like a
package. Components that were found become nodes one after the other (`MergeNext`). Each leaf or root taken, each arc looked at by the search and each cycle
broken is a step; where the code goes through a dictionary any order is possible.

### Yum and YumCommand (`yum.py`)

The calls under way are the frames of `stack`, the innermost first; a step runs
the innermost up to its next call. Selection of the packages (`__handleBestPkg`,
`__handleUpdatePkglist`, `__handleObsoletePkglist`, language packages), the turns
of `runDepRes` (dependencies, obsoletes, conflicts, autoerase with its
`TakeBackUpdated`), and the lists. `YumCommand` adds what `runCommand` does around
it: the state remembered before the resolution, the summary shown, the question,
and an abstract controller that carries the operations out in some order until
one fails.

### RepoFiles (`cache.py`, `repodb.py`, `sqliterepodb.py`)

State: the version on each mirror, the files in the cache directory (whole, partial,
or a mixture of two versions), the database files with the checksum they were made
for, `NetworkCache`'s list of URLs with its position and the call under way, and
where `read()` is. A file is known by the version of the repository it belongs to,
which is also its checksum. Mirrors are brought up to date at any time, transfers
fail or are cut, programs are killed at any step and started again.

### Payload and Package (`package.py`, `io.py`, `functions.py`, `control.py`)

`Payload` is `__extract` on the tokens of a cpio archive that may end early: files are
written under temporary names and renamed, the members of a set of hard links wait for
the one with the data. An edited configuration file is moved to `.rpmsave` before it is
written (`SaveEdited`); `.rpmnew` files are left to `Transaction`. `AsBuilt` is what rpm makes of hard links. `Package` adds the opening, the lead, the two headers
counted tag by tag, the choice and order of the checks in `verifyOneSignature`,
the second opening by `runOperations`, damage to any part, and programs that die
anywhere and begin again.

### The components of `MCComponents`

Thirteen components that share no state, in modules of their own:

* `Compare`: one turn of the loop of `stringCompare` is a step; the reference is
  the algorithm of `doc/pyrpm-devel.txt` on lists of elements. Where the document
  calls the result undefined the reference says what order the code has.
* `Metadata`: what is written of each package and what the XML and the SQLite reader
  make of it; searches by name and version with flags. `writer` is `createRepo` of
  `repodb.py` or the external program `createrepo`. The first opens `repomd.xml` for
  reading and so returns 0 or ends in an `IOError` when it comes to write it
  (`repodb.py:318`, `:369`). It leaves a `filelists.xml` without a default namespace,
  of which `_parse` takes nothing (`:335`, `:396`), and files `repomd.xml` has no checksum
  of, which `SqliteRepoDB` does not load. Complete lists are claimed for the files of
  `createrepo` only.
* `Names`: `NevraList` of the memory database and the searches of the others for
  patterns, on sequences of characters; `envraSplit`.
* `Comps`: `RpmCompsXML`, with groups that require groups, languages that are
  added before or after groups, several repositories.
* `Selection`: `getPackages` of the installer, group by group and step by step, with
  a bag for the list in which a name may be twice.
* `Keyring`: packets of a key file in sequence, merged into a ring, and the choice
  of a key for a signature with revocations and times. RSA and DSA are a relation:
  a packet made a signature or did not, and RSA signatures are over padded digests,
  which `__verifyDigestWithPacket` compares for versions 2 and 3 only. Keys may be too
  small for a hash, numbers may be unreadable (`ValueError`). That a subkey was revoked
  is not looked at, as a FIXME says (`openpgp.py:517`).
* `Gzip`: `PyGZIP` writes and reads, a call of any size at a time.
* `Header`: values as sequences of bytes through the store of a package header, the
  header generated for the database with its region, and read again, at once or a
  tag at a time.
* `SharedFiles`: a path with several owners through resolver, installation, erasure
  and verification; account numbers that a package's script creates.
* `YumConf`: files line by line into a dictionary of settings, variables replaced.
  `$releasever` is the version of an installed `redhat-release`, whatever
  `--releaseversion` says (`yum.py:359`), else that, else the version of the package
  `yum.conf` names; `IsRelease` says so without the operators of the code.
* `Arch`: the tables, and a list of packages filtered and sorted. `BestFirst` is the
  order that `pkgmdcmp` has and its comment asks for, versions first; the docstring of
  `orderList` (`functions.py:1241`) and `doc/pyrpm-devel.txt:298` have architectures first,
  which is not what the code does: of a new `i486` and an old `i686` package the new one comes first.
* `Space`: the check operation by operation, then the operations byte by byte.
* `Disk`: loop devices that other processes take, partition tables that libparted
  renumbers, `clearpart`, and mounting. Every ioctl may fail, those of `free()` too, and
  a mount: `lost` has the loop devices that a failing call left bound, at most
  `MaxLost` of them beside those of a constructor. `LoopsReturned` is about the others.

## 4. The runs

| Run | Universe and bounds | Shows |
|---|---|---|
| `MCResolverMemory` | six packages, two installed: an update of each, a package that obsoletes one, a package with files others require; memory database, autoerase | the working database is the system to be; pending checks forget nothing; an accepted transaction breaks nothing |
| `MCYumLockSerial` | three processes, four inodes, crashes, reused ids; no two calls of `lock` at a time | the lock file implements `Mutex` |
| `MCYumLockRace` | the same, overlapping calls, no crashes | **violated**: two processes hold the lock, which is there to prevent that (`functions.py:465`) |
| `MCRpmDB` | two headers, two ids, three files (an index, the headers, an index), failures, crashes | searches stay sound until the process dies; what was reported stays true after it has; caches follow the files |
| `MCTransaction` | two versions of a package and a third one, four files, two edits, failures, crashes | recorded packages have their files, but for an edited one between its move to `.rpmsave` and the write of the new one; disk and database agree after clean transactions; the last edit is kept; `ldconfig` is never owed, and 1 is returned only when all is done |
| `MCOrderer` | every graph of three packages with a relation, rings of four with chords; erasures in cycles, an update, an obsoletion | everything once; requirements kept outside cycles and prerequisites where only soft arcs are in the cycle; the components are the strongly connected ones; it ends |
| `MCYum` | 27 packages, 12 installed, about 30 commands; shadow database, with and without autoerase | accepted transactions break nothing; erased packages stay out, nothing that is there or shown is lost without an heir; what was shown is done and nothing else; obsoletes of the repositories are applied and lists are complete; replacements are inherited; the turns end |
| `MCYumTakeBack` | the same packages, one of them with a provide less | **violated**: a package that autoerase took back stays hidden in the shadow database and a broken transaction is accepted (`rpmshadowdb.py:61`) |
| `MCRepoFiles` | two mirrors, two published versions, the first with SQLite files, two programs | what is used is what is advertised; left-overs keep no repository from being read; every mirror is asked and it ends |
| `MCRepos` | two repositories (SQLite, XML) and a package given as a file; four packages, four files | kept answers overlook nothing and a file is missing only if nobody has it, but for files of the package given as a file that were searched for before it was read |
| `MCPackage` | archives of up to four entries with three hard links, a device, a file that is not in the header; two programs | no entry is lost, the reader never loses its place, an installation can be cut short and repeated; damage under a digest is refused; only an edited configuration file may be missing in between |
| `MCComponents` | the thirteen components above side by side; the first state says which one is looked at | each component has the properties of its module |

**Why the bounds are enough to be of use.** They let each hazard happen. Six
packages make chains of an update of an update and an obsolete of it; three
processes are the two that race and one that left a stale lock, four inodes the ones they can
hold open and the path; three files are the least with an index before and one after
the headers, and two ids the least for one to be given again; in `MCTransaction` two versions and one more
owner give files that are replaced, kept, yielded and dropped. Three packages
give all cycles with a chord or a tail and two cycles that share a package; the
rings of four have chords that keep a cycle when another is broken. In
`MCYum` dependencies, obsoletes and conflicts undo one another's work: `lib-2` conflicts
with the old `app`, `mail` obsoletes `sendmail` and `postfix` obsoletes `mail`, `php` that `gui`
needs obsoletes an update, and autoerase removes the new `server` and takes the old one back. Two versions and two mirrors
are the least with a file that is newer than its `repomd.xml` and one that is older.
The archives of `MCPackage` have a device,
a file that is refused and one that is not listed between and after the links. Versions of three characters hold a separator
between two segments, leading zeros, and a change of kind; files of four lines, a section, a
setting that goes on for a line, and one that comes twice. For what is proved
(section 6) the bounds hide nothing.

In `MCComponents` the cells `v1` to `v18` are the variables of whichever component
was chosen, so its states are the disjoint union of theirs. Each property names its
component; nine of them stand for the thirteen components (`ComparisonsRight` is about
versions and architectures, `ReadersAgree` about metadata, names and groups,
`InstallerRight` about disks and selection).

Deadlock is checked where the system never stops: `MCResolverMemory`,
`MCYumLockSerial`, `MCYumLockRace`, `MCRpmDB`, `MCTransaction`. In the other runs
the program ends.

## 5. Fairness

Three specifications state it, for one program that nobody interrupts: `Orderer`
(`WF_vars(Next)`, a sequential computation), `YumCommand` (`WF_cvars(Select)`: the
computation up to the summary goes on; the user need not answer, and operations
need not go on) and `RepoFiles` (`WF_filesVars(FilesStep)`: the program that reads
goes on; that a mirror is updated or answers is never assumed, and a transfer that fails
is a step as well, for urlgrabber has a timeout). The other specifications are safety
only; a process may stop anywhere, which is also how a hanging script is covered.

## 6. What is proved

TLAPS checks these for every value of the constants; `PROJECT.json` lists them.

* `YumProofs`, first part: `RpmResolver`. `TypeCorrect`. `ChangesAreRemembered`: with `Disjoint` (nothing
  is both in memory and shown from the disk part), a dependency that is unresolved
  now was so at the start, is one of the ignored file names, or is found by a
  pending check; an operation that removes a provider or adds a requirement
  enters it, and `PruneChecks` drops it only when it is resolved. `ResolvedIsSound`
  follows: when the checks find nothing, nothing is broken. `DatabaseAgrees` rests on
  `Agreement`: the database is what the operations make of the one installed, `Disjoint`
  holds, and only erased packages are hidden from the disk part and only an
  `RpmShadowDB` hides any; with it goes `NothingTakenBack`, that no update waits to be
  taken back without an autoerase loop. It assumes `~(ShadowDB /\ autoerase)`, since the loop of `yum.py` can take back a package
  that a shadow database still hides; `MCYumTakeBack` shows that the assumption is
  needed. `ReplacedOnceHolds`, that only packages of the
  transaction replace, assumes `~autoerase`: that loop enters updates under packages
  that are no longer installed. So does `ReplacementsInheritedHolds`, for the
  packages that are replaced twice are those of the transaction only then.
* `YumProofs`, second part: the front end, for any repositories and requests. `YumInv`
  has two parts. `Right` is about the calls under way: which fields a frame has
  (`Fields`), which calls may be below it (`Below`), and which packages it holds and may
  still add (`Holds`). No call that adds packages is ever under way
  below an autoerase, nor an autoerase below one of those, so nothing that
  was erased automatically is in the hands of a call that could add it, and
  `ErasedStaysHolds` follows. `Operations` is what the resolver needs of its callers:
  `TypeOK`, `Disjoint`, `ChangesRemembered` and, without autoerase, `Agreement` and
  `ReplacedOnce`. `StepEffect` says that every step of the front end adds, erases or drops
  packages by a call of the resolver or leaves its variables alone, so that the
  lemmas of the first part serve for each. `AcceptedBreaksNothingHolds` is about the working
  database, and holds with autoerase too. `AllResolvedWithoutAutoerase` is about the
  system that the operations make: `MCYumTakeBack` shows why it needs that
  autoerase is off. `CommandInherits` is the property of the resolver for the
  front end. `DoneIsShownHolds` follows from `KeptReplace`, that what replaces a
  package stays in the system, and `ReplacedOnce`: the snapshots that the summary compares are
  of other moments, but every replacement that was entered in between is in the
  later one. The constants need no more than that what the repositories have
  is finite and that hashes and ranks of versions are numbers.
* `YumProofs`, last part: `RequestKeptHolds`. `KeepInv` says of a command without
  autoerase that what was installed, and what was asked for when `runArgs` ended, is `Living`: an
  heir of it is in the database. `StepsKeep` shows that no step makes `Living` smaller. An update
  or an obsolete puts an heir in for what goes (`LivingChanged`). The difficulty is
  the two places that erase without a replacement of their own. `update`, one architecture after the other,
  erases a package whose update was added, after
  everything that addition brought with it has run, which may have replaced the update. It may go because it
  is `Outlived`: a package of a name that takes the place of its name is there, or newer ones of its name that
  nothing but one of them keeps out, and this is kept by every step until then
  (`OutlivedChanged`, `OutlivedErased`). `Linked` ties that to the calls under way: what waits for an update waits
  below a call that has only newer ones of its name in hand, and is `Spare` once that call
  has added one. `__handleObsoletes` erases an obsoleting package to
  add it again; it counts as there meanwhile (`Pending`), and when it is refused then, one of
  its name is the reason (`OutlivedRefused`). A command that removes packages has nothing
  else to keep (`RemoveInv`). Two hypotheses: `~oldpackage`, an
  option of the user, and `ObsoletesEnd`, that no name takes the place of one that takes its own in the
  end. The code does not see to that; of the packages of `MCYum` it is evaluated
  (`ObsoletesAssumption`).
* `YumLockProofs`. `TypeCorrect`; `SerialMutualExclusion` and `LockFileIsMutex` under
  `~Overlap`, with crashes, from `Exclusive`: at most one process is inside `lock` or
  holds it, the file names the holder, nobody holds the lock while another process is
  past the staleness check, and a file that was opened is still the holder's.
  `MCYumLockRace` shows that the assumption is needed.
  `LockFileIsRemoved`, that no lock file outlives the processes, holds without it.
* `ReposProofs`, first part: `RpmMemoryDB`. `TypeCorrect`; `IndexesAgreeHolds` under `SelfProvided`, which
  `package.py` sees to for built packages: `ProvidesList.removePkg` deletes under the
  loop variable of an earlier loop, and only then is that the package's own name.
* `RpmDBProofs`. `Inv` holds: ids ascend in memory and on disk, one header per id, and
  the progress of the call in hand (which files have the entry, which do not yet).
  From it `TypeCorrect`, `InstalledIsFoundHolds`, `RemovedIsGoneHolds`, and with one
  more induction each `EntriesHaveHeadersHolds` and `CachesAgreeHolds`, the latter from
  `ObsoletesFollow`: until a call fails, the list of obsoletes is that of the headers as
  the last finished call left them. Why the
  strengthening is needed: a removed entry stays away after a crash only because
  its id is below the last one given on disk, which holds because the file of
  headers is synced before `removePkg` returns.

* `ReposProofs`, second part. `TransactionIndexesAgree`: the indexes of the database of the
  transaction agree with its packages, under `SelfProvided`.
  `NothingOverlookedHolds` and `MissingIsMissingHolds` rest on `SearchInv`: no index is
  older than the complete lists, a kept answer has every owner that the loaded lists
  know of, unless it is of a file in `early` and the owner was given as a file, and for
  each requirement on record every repository has been asked for its
  lists or is on record as failed. The exception is needed (section 3).
* `RepoFilesProofs`. `UsedIsAdvertisedHolds` and `LeftoversHarmlessHolds`, for any
  mirrors, lists of URLs and number of programs. `FilesInv` says what is known at each
  step of `read()`: only the caller that waits has a call under way; a database in use
  was loaded by this program; a database file tells truly what it was made from, and is
  torn only while it is unpacked or if a program died then. `AskedSoFar`, that the
  mirrors asked are those from the first one round to the next, gives
  `EveryMirrorAskedHolds`, the part of `MirrorsTried` that is safety.
  `LeftoversHarmlessHolds` has an invariant of its own, `CleanSoFar`: while the mirrors
  agree and answer, each file asked for is there in the version they all have.
* `TransactionProofs`. `RecordedFilesPresentHolds`, `DiskMatchesDatabaseHolds`,
  `LastEditKeptHolds`, `NothingOwedHolds` and `TransactionTypes`, for any packages,
  files, scripts, failing steps and crashes. `RecordedFilesPresentHolds` says which file may be
  missing: an edited configuration file that is in `.rpmsave` and is to be written next,
  or never, after a failure. `TxInv` is about a transaction half way.
  Packages stay or go; a file belongs to those that are recorded or being installed
  (`Holders`), and is that of each of them, that of a higher architecture
  (`Fits`), or, for one that goes, that of one that stays (`Replaced`); a configuration
  file may be the user's instead (`ConfigRight`). What is wanted is what the operations
  left make of the database (`Pending`). The invariant is not inductive without
  `Compatible`, and the properties do not hold: of two packages with different
  versions of one configuration file each would save the other's, and the edit of
  the user under it. That is what the check for file conflicts in the resolver is
  for (`resolver.py:340`), which is on unless `nofileconflicts` is set, so `Start` requires
  it. `DiskMatchesDatabase` needs that the order of architectures is
  transitive, which was evaluated for all of `arch_compats` of `base.py`.
* `PackageProofs`. `CutShortHolds`, `PayloadWholeHolds` and `DamageRefusedHolds`, for any
  archive, length, damage, failing call, crash and number of programs; what a path may hold
  when an installation is cut short includes nothing at all for a configuration file that was
  moved to `.rpmsave` (`Left`). First the
  stream: `FlattenSeqPositions` says where the parts of a flattened sequence are in the
  whole, and `Layout` follows: entry after entry, each with its header, data and
  padding, and the trailer last. `Position` says the reader is after a header, or after
  data, or at the end, so the next header is found where it looks (`NextEntryReads`).
  `Groups` is about sets of hard links: an entry not read is untouched
  (`UnreadRight`); one that waits is empty, untouched, and the one with data is still to come
  or in hand (`WaitingRight`); while links are made the entry in hand is settled and
  leads them (`LinkingRight`); of a settled entry that is installed the whole group has been
  read, and one of the group leads the others (`SettledRight`). It assumes
  `AsBuilt`, which is what rpm builds: the data of hard links comes with the last of them,
  the header lists all of them or none, and devices have no links. Without it files that
  come after their data would stay empty.
* `OrdererProofs`. `ComponentsFoundHolds`, for any packages, requirements and lists: what
  Gabow's algorithm finds are the strongly connected components of the nodes it is asked
  about. `SearchInv` is its invariant. Nodes are numbered as they are visited and both
  stacks ascend (`Numbered`); the calls are a way through the graph, and every root is on
  it (`OnTheWay`); what has been followed from a node leads to finished nodes or to one
  that is under the same roots (`Followed`); from a call there is a way to everything
  visited after it, and from everything on the stack one to its root (`Ways`), so that
  what lies above a root on the stack is one component when the root is left and
  nothing leads out of it but to finished nodes; the components so far are those of the
  finished nodes (`FoundSoFar`). The algorithm is run again inside a component each time
  a relation was dropped, and is right there only if nothing in the component requires
  a node outside: `GraphInv` says that, and what it needs: components are disjoint, those
  that are broken up are inside each other (`Nested`), no component but these holds another, and
  every node of a whole one requires one of it (`Insides`), so `processLeafNodes` takes
  none of them for a leaf. It is kept by merging (`MergeKeeps`), by collecting leaves, by
  breaking up and by dropping relations, for which `NearInside` shows that the distances of
  `breakUp` stay inside the component. `QueueInv` says what may wait to be ordered,
  which gives finite graphs.

  `OrderRightHolds`: everything is ordered once and what is required is kept. Three more
  invariants. `ShapeInv` says where cycles can be: a component hangs together, and
  nothing outside of it requires a node that is inside (`Knots`); outside of what is
  searched or broken up the nodes are in layers, so there is no cycle (`Layers`). So when no leaf is left the search
  finds something, and `breakUp` has a distance for every node (`AllAreNear`) and takes a
  relation away without a `KeyError` (`NeverRaised`). `OrderInv` is about what is required:
  each requirement is kept by the order so far, or between two packages that are not ordered
  yet and whose nodes still have the relation (`Linked`), or need not be kept, as both require each other in
  the end (`Paired`). One that is hard is dropped by `BreakTakes` only if every node of the
  cycle has a hard one on it, which is the excuse that `RequirementsKept` has. A package that is
  not in the order is still in the graph, and in the components it was merged into (`Contents`). `GivenInv` is about `genOperations`: what is
  given and the lists that wait bring every package once (`Brought`, `Apart`), and a list
  waits or has its requirements settled (`Kept`); an item of the queue is replaced by
  what follows from it in its place (`SpliceIs`).
  `OrderRightHolds` has the hypothesis `HandedOverOnce`: no package comes and goes, and none is
  replaced twice. Without it the property is false: `genOperations` erases a package as often
  as it is listed under `updates` or `obsoletes`. It is what callers hand over: without
  the autoerase loop `OnceHandedOverHolds` proves it of the resolver and `CommandHandsOverOnce`
  of a whole call of `pyrpmyum`; that the requests of `MCOrderer` have it is evaluated by its run.

Induction over data is done here by the least-number principle, which `WFMin` of the
library gives (`SetInduction` of `PackageProofs`, `FirstIsOne` of `YumProofs`, `Least` of `OrdererProofs`): the library's induction theorems take
an operator as a parameter, and no prover that is installed instantiates those. That
serves for a recursive function (`FlattenSeq`, `Near` of `Orderer`); `RECURSIVE` operators stay out
of reach.

Only model-checked: the modules of steps 6 and 11 to 13, and of
step 8 `OffersTaken`. Termination
(`Terminates` of `Orderer` and of `Yum`, `MirrorsTried` of `RepoFiles`) is liveness under
fairness, which is beyond the prover, and so is ENABLED. What recursive definitions compute
(`Elements` and `Cmp` of `Compare`, the groups a group requires in `Comps`) is checked on bounded inputs: `MCComponents` compares thirteen
algorithms with a reference each, and shows what it shows there.

## 7. What the models and the code show besides

Two statements of the repository are refuted by a run (section 4). The following is
in the models as the code has it, or bounds what they say; no run is about it.

*Resolver and databases.* A package given as a file to `pyrpmyum` is overlooked as the owner of
a file that was searched for before (`yum.py:778`); the comment at `rpmexternalsearchdb.py:16` has all
available packages in the answers. Updates that are taken back are entered under the old
package; a requirement of a file is looked up in the provides alone at
`resolver.py:660`; conflicts are looked at from one side (`:726`); `freshen` and one
error path call methods that do not exist (`:222`, `:613`). Files conflict by owner only
if user and group both differ (`:372`), device numbers are not compared, and links
to different targets of one length are taken as identical. A failed addition to the
RPM database leaves its header (`rpmdb.py:403`); `readTags` reads from a wrong offset
when a tag is unknown or twice in the header (`:290`). Removing a package that does not provide its
own name removes a provide of another one (`lists.py:142`).

*Controller, packages, scripts.* `%pretrans` of a package to be installed is not found when
it is looked for, if signatures are checked: only the tags of its name are there by then
(`control.py:222`). `%posttrans` is noted for each operation as it is reached
(`control.py:260`), and is run also if that operation then fails. `createLink` removes the target before it links; devices and sockets are
unlinked under their final names (`functions.py:382`, `:400`). The data of a set of hard
links is lost if the one file that carries it is refused (`package.py:909`), and comes too late for links after it. Numbers of owners are
remembered as 0 if the account is made by a later `%pre`. The content of a file of a
higher architecture stays when that package goes. `getFreeDiskspace` credits erased files
that are gone or that others keep, and a block too much; `getFreeCachespace` always
returns 1.

*Reading.* RSA signatures of version 4 are compared without the padding they are made with and
so never found good (`openpgp.py:482`). `PyGZIP.readline` splits lines at the ends of its buffer (`io.py:439`), a
file cut before its trailer is read without an error, and `read(-1)` stops at the end of a
member. `isolateASCIIArmor` finds only the first block; a second revocation of a key
rejects the whole file; `verifyDigest` lets `ValueError` and `NotImplementedError`
through (`package.py:353`). SQLite rows know `//name` for files of the root directory, two
packages with one NEVRA share their file lists, and `searchPkgs` returns duplicates there;
`createRepo` can never return 1 (`repodb.py:318`). Patterns with `]` as
the first of a class are found by `NevraList` only; `envraSplit` misreads `n-e:v-r.a`.

*Network cache.* The mirror list has an absolute URL and is fetched anew for every mirror;
a configuration with nothing but a mirror list that cannot be read ends in
`ZeroDivisionError`. `open()` joins a list. An error 9 leaves a stale file in use. An
XML file is not compared with its checksum again when it is read; a SQLite file that a
program died unpacking may be loaded.

*Yum.* `--releaseversion` has no effect where `redhat-release` is installed (`yum.py:359`); `keepcache=0` switches `exactarch` off (`yum.py:290`); `reposdir` is split at the
string `" \t,;"`; an indented line after a setting of several lines is taken as part of
it; `YUM0` to `YUM9` are looked up without `$` (`:107`). The summary lists a requested
package although autoerase has taken it back, and as an installation although an
obsoletion that was delayed makes it a replacement while dependencies are resolved
(`:805`, `:886`). Answering "N" returns 1. Kernels in
`always_install` are updated by obsoletes. `list obsoletes` raises (`:1573`).

*Groups and installer.* `drop` removes one of the two entries that `*` makes of a name in
two repositories; the warning about a missing package uses a variable that may have no value
(`UnboundLocalError`); `lokkit` is added without a firewall; groups that require each other
overflow the stack; `groupinstall` of a language after a group does not bring the group's
language packages. `clearpart --linux` raises `KeyError` on a disk with an extended
partition and logical ones 5 to 8 (`pyrpmkickstart:707`); `umount_all` never counts its five attempts
(`installer/functions.py:425`); an exception in `Disk`'s constructor leaves its loop devices, and so does a failing mount in
`pyrpmmountimage`, which has taken the partition out of the dictionary by then (line 89), and
a `free()` that fails, whose result nobody looks at.

## 8. What is not modelled

* **LRU caches** (`lrucache.py`): third-party code; `SmallLRUCache` is a bounded
  dictionary in front of readers that are modelled.
* **Logging** (`logger.py`), option parsing in `scripts/`, `parseYumOptions`: no other
  component depends on what they do in ways a property could be about.
* **`oldpyrpm.py`, `pyrexoldpyrpm.py`, `OldOrderer`**: earlier copies of the library in one
  file, and an ordering nothing calls. They cannot run beside the present one.
* **Dead code**: `_checkObsoletes` and `_getObsoletes` of the resolver, `getDefaultGroups`.
* **`rhndb.py`**: calls of a service that is no longer there.
* **`raid.py`, `lvm.py`, `kickstart.py`, `se_linux.py`, `elf.py`, `specfile.py`,
  `config.py`**: wrappers that run one program per line, parsers and tables without a
  state that other parts change.
* **Bytes**: the fields of a PGP packet, the arithmetic of signatures, deflate,
  Berkeley DB pages and SQL are relations between values; that their decoders are
  right is assumed.
* **Of modelled components**: states of files in the RPM database, `verify()` beyond one
  path, SELinux contexts, the output of scripts, `handleRpmlist`, the options `justdb`,
  `noscripts` and `buildroot`, the commands of yum that only print.
