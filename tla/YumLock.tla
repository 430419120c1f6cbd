------------------------------ MODULE YumLock -------------------------------
(***************************************************************************)
(* The lock file of the yum front end: RpmYum.lock and unLock with         *)
(* tryUnlock and doLock (pyrpm/yum.py, pyrpm/functions.py), run by several *)
(* processes as scripts/pyrpmyum does: lock, work, unLock, exit.           *)
(*                                                                         *)
(* Each system call is a step.  The lock file is a path that points to an  *)
(* inode or to nothing; who has a file open keeps its inode, whatever      *)
(* happens to the path.  A process is its process id: a later run may get  *)
(* the id of an earlier one, and so may an unrelated program.              *)
(***************************************************************************)
EXTENDS Naturals, FiniteSets

CONSTANTS
    Proc,      \* process ids
    Inode,     \* inodes of the file system
    Overlap,   \* calls of lock() may overlap in time
    Crashes    \* a process may die at any point

None == "none"       \* the path does not exist, no file is open
Empty == "empty"     \* the file is created and its process id not written

ASSUME YumLockAssumption ==
    /\ {Overlap, Crashes} \subseteq BOOLEAN
    /\ None \notin Inode
    /\ Empty \notin Proc

VARIABLES
    pc,        \* where each process is
    path,      \* what the name of the lock file points to
    content,   \* what each inode holds
    fd,        \* the inode each process has open
    crashed    \* some process has died (only looked at by LockFileHasOwner)

vars == <<pc, path, content, fd, crashed>>

\* The points inside lock() before a system call, in their order.
Locking == {"exists", "open", "read", "kill", "unlink", "create", "write"}

TypeOK ==
    /\ pc \in [Proc -> Locking \union {"out", "other", "locked"}]
    /\ path \in Inode \union {None}
    /\ content \in [Inode -> Proc \union {Empty}]
    /\ fd \in [Proc -> Inode \union {None}]

Init ==
    /\ pc = [p \in Proc |-> "out"]
    /\ path = None
    /\ content = [i \in Inode |-> Empty]
    /\ fd = [p \in Proc |-> None]
    /\ crashed = FALSE

Goto(p, l) == pc' = [pc EXCEPT ![p] = l]

Close(p) == fd' = [fd EXCEPT ![p] = None]

Mut_AliveNever(p) == FALSE

\* os.kill(pid, 0): some program runs under that process id.
Alive(p) == pc[p] # "out"

-----------------------------------------------------------------------------
(* lock() and unLock()                                                     *)

Start(p) ==
    /\ pc[p] = "out"
    /\ Overlap \/ \A q \in Proc : pc[q] \notin Locking
    /\ Goto(p, "exists")
    /\ UNCHANGED <<path, content, fd>>

\* tryUnlock: os.path.exists
Exists(p) ==
    /\ pc[p] = "exists"
    /\ Goto(p, IF path = None THEN "create" ELSE "open")
    /\ UNCHANGED <<path, content, fd>>

\* tryUnlock: open() for reading.  If the file went away in between IOError
\* leaves lock() and ends the program.
Open(p) ==
    /\ pc[p] = "open"
    /\ \/ path = None /\ Goto(p, "out") /\ UNCHANGED fd
       \/ path # None /\ Goto(p, "read") /\ fd' = [fd EXCEPT ![p] = path]
    /\ UNCHANGED <<path, content>>

\* tryUnlock: readline; a file without a number in it is stale.
Read(p) ==
    /\ pc[p] = "read"
    /\ Goto(p, IF content[fd[p]] = Empty THEN "unlink" ELSE "kill")
    /\ UNCHANGED <<path, content, fd>>

\* tryUnlock: os.kill; lock() returns 0 for the id of a running process and
\* the program ends.
Kill(p) ==
    /\ pc[p] = "kill"
    /\ \/ Alive(content[fd[p]]) /\ Goto(p, "out") /\ Close(p)
       \/ ~Alive(content[fd[p]]) /\ Goto(p, "unlink") /\ UNCHANGED fd
    /\ UNCHANGED <<path, content>>

\* tryUnlock: _unlink removes whatever the path points to by now.
Unlink(p) ==
    /\ pc[p] = "unlink"
    /\ path' = None
    /\ Goto(p, "create") /\ Close(p)
    /\ UNCHANGED content

\* An inode no name and no open file refers to.
Unreferenced(i) == path # i /\ \A q \in Proc : fd[q] # i

\* doLock: open with O_CREAT and O_EXCL; lock() returns 0 if the path exists
\* and the program ends.
Create(p) ==
    /\ pc[p] = "create"
    /\ \/ path # None /\ Goto(p, "out") /\ UNCHANGED <<path, content, fd>>
       \/ /\ path = None
          /\ \E i \in Inode :
                /\ Unreferenced(i)
                /\ path' = i
                /\ content' = [content EXCEPT ![i] = Empty]
                /\ fd' = [fd EXCEPT ![p] = i]
          /\ Goto(p, "write")

\* doLock: write the process id into the open file and close it.
Write(p) ==
    /\ pc[p] = "write"
    /\ content' = [content EXCEPT ![fd[p]] = p]
    /\ Goto(p, "locked") /\ Close(p)
    /\ UNCHANGED path

\* unLock() in the finally clause around the transaction; an error of unlink
\* is only logged.
UnLock(p) ==
    /\ pc[p] = "locked"
    /\ path' = None
    /\ Goto(p, "out")
    /\ UNCHANGED <<content, fd>>

-----------------------------------------------------------------------------
(* The environment.                                                        *)

\* The process dies; its files are closed, its lock file stays.
Crash(p) ==
    /\ Crashes
    /\ pc[p] \in Locking \union {"locked"}
    /\ Goto(p, "out") /\ Close(p)
    /\ UNCHANGED <<path, content>>

\* An unrelated program runs under the process id.
Other(p) ==
    /\ \/ pc[p] = "out" /\ Goto(p, "other")
       \/ pc[p] = "other" /\ Goto(p, "out")
    /\ UNCHANGED <<path, content, fd>>

Lock(p) ==
    Start(p) \/ Exists(p) \/ Open(p) \/ Read(p) \/ Kill(p) \/ Unlink(p) \/ Create(p) \/ Write(p)

Next ==
    \E p \in Proc :
        \/ (Lock(p) \/ UnLock(p) \/ Other(p)) /\ UNCHANGED crashed
        \/ Crash(p) /\ crashed' = TRUE

Spec == Init /\ [][Next]_vars

-----------------------------------------------------------------------------
(* What the lock is for.                                                   *)

Holders == {p \in Proc : pc[p] = "locked"}

\* RpmYum.lock() is there "to prevent multiple yum calls at the same time":
\* no two processes are past lock() with its permission.
MutualExclusion == \A p, q \in Holders : p = q

\* While a process holds the lock the file is there and names it, so that
\* whoever calls lock() later is refused.
LockFileNamesHolder == \A p \in Holders : path # None /\ content[path] = p

\* As long as no process dies no lock file outlives the processes that create one, even
\* if they remove each other's: the file on disk belongs to one that is still
\* to remove it.
LockFileHasOwner ==
    ~crashed /\ path # None => \E p \in Proc : pc[p] \in {"write", "locked"}

\* The lock file implements a mutex, the call of unLock() or the death of the
\* holder being what releases it.
Abstract == INSTANCE Mutex WITH holders <- Holders
ImplementsMutex == Abstract!Spec

=============================================================================
