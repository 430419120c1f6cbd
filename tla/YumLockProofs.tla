---------------------------- MODULE YumLockProofs ----------------------------
(***************************************************************************)
(* What the lock file guarantees for any number of processes.              *)
(***************************************************************************)
EXTENDS YumLock, TLAPS

-----------------------------------------------------------------------------
(* Types.                                                                  *)

LEMMA TypeInit == Init => TypeOK
  BY YumLockAssumption DEF Init, TypeOK, Locking

LEMMA TypeStep == TypeOK /\ [Next]_vars => TypeOK'
  <1> SUFFICES ASSUME TypeOK, [Next]_vars PROVE TypeOK'
    OBVIOUS
  <1> USE YumLockAssumption DEF TypeOK, Locking, Goto, Close
  <1>1. ASSUME NEW p \in Proc, Start(p) \/ Exists(p) \/ Open(p) PROVE TypeOK'
    BY <1>1 DEF Start, Exists, Open
  <1>2. ASSUME NEW p \in Proc, Read(p) \/ Kill(p) \/ Unlink(p) PROVE TypeOK'
    BY <1>2 DEF Read, Kill, Unlink
  <1>3. ASSUME NEW p \in Proc, Create(p) PROVE TypeOK'
    BY <1>3 DEF Create
  <1>4. ASSUME NEW p \in Proc, Write(p) PROVE TypeOK'
    BY <1>4 DEF Write
  <1>5. ASSUME NEW p \in Proc, UnLock(p) \/ Crash(p) \/ Other(p) PROVE TypeOK'
    BY <1>5 DEF UnLock, Crash, Other
  <1>6. CASE UNCHANGED vars
    BY <1>6 DEF vars
  <1>7. QED
    BY <1>1, <1>2, <1>3, <1>4, <1>5, <1>6 DEF Next, Lock

\* Every process, the path and the files stay within their types.
THEOREM TypeCorrect == Spec => []TypeOK
  BY TypeInit, TypeStep, PTL DEF Spec

-----------------------------------------------------------------------------
(* Mutual exclusion when the calls of lock() follow one another.           *)

\* One process at a time is inside lock().
OneLocking ==
    \A p, q \in Proc : pc[p] \in Locking /\ pc[q] \in Locking => p = q

\* What the process inside lock() knows of a holder: a file it opened is the
\* holder's, and past the check that it is stale there is no holder.
KnowsHolder ==
    \A p \in Proc :
        /\ pc[p] \in {"read", "kill", "write"} => fd[p] # None
        /\ pc[p] = "kill" => content[fd[p]] # Empty
        /\ pc[p] = "write" => path = fd[p]
        /\ \A h \in Holders :
              /\ pc[p] \in {"read", "kill"} => fd[p] = path
              /\ pc[p] \notin {"unlink", "create", "write"}

Exclusive == MutualExclusion /\ LockFileNamesHolder /\ OneLocking /\ KnowsHolder

LEMMA ExclusiveInit == Init => Exclusive
  BY DEF Init, Exclusive, MutualExclusion, LockFileNamesHolder, OneLocking, KnowsHolder,
         Holders, Locking

LEMMA ExclusiveStep ==
    ASSUME ~Overlap, TypeOK, Exclusive, [Next]_vars
    PROVE  Exclusive'
  <1> USE YumLockAssumption
      DEF TypeOK, Locking, Goto, Close, Alive, Holders, Exclusive, MutualExclusion,
          LockFileNamesHolder, OneLocking, KnowsHolder
  <1>1. ASSUME NEW p \in Proc, Start(p) PROVE Exclusive'
    BY <1>1 DEF Start
  <1>2. ASSUME NEW p \in Proc, Exists(p) PROVE Exclusive'
    BY <1>2 DEF Exists
  <1>3. ASSUME NEW p \in Proc, Open(p) PROVE Exclusive'
    BY <1>3 DEF Open
  <1>4. ASSUME NEW p \in Proc, Read(p) PROVE Exclusive'
    BY <1>4 DEF Read
  <1>5. ASSUME NEW p \in Proc, Kill(p) PROVE Exclusive'
    BY <1>5 DEF Kill
  <1>6. ASSUME NEW p \in Proc, Unlink(p) PROVE Exclusive'
    BY <1>6 DEF Unlink
  <1>7. ASSUME NEW p \in Proc, Create(p) PROVE Exclusive'
    BY <1>7 DEF Create
  <1>8. ASSUME NEW p \in Proc, Write(p) PROVE Exclusive'
    BY <1>8 DEF Write
  <1>9. ASSUME NEW p \in Proc, UnLock(p) PROVE Exclusive'
    BY <1>9 DEF UnLock
  <1>10. ASSUME NEW p \in Proc, Crash(p) PROVE Exclusive'
    BY <1>10 DEF Crash
  <1>11. ASSUME NEW p \in Proc, Other(p) PROVE Exclusive'
    BY <1>11 DEF Other
  <1>12. CASE UNCHANGED vars
    BY <1>12 DEF vars
  <1>13. QED
    BY <1>1, <1>2, <1>3, <1>4, <1>5, <1>6, <1>7, <1>8, <1>9, <1>10, <1>11, <1>12
       DEF Next, Lock

\* If calls of lock() do not overlap, no two processes ever hold the lock and
\* the file names the holder, however often processes die between any two
\* steps, leave their files behind and have their ids used again.
THEOREM SerialMutualExclusion ==
    ASSUME ~Overlap
    PROVE  Spec => [](MutualExclusion /\ LockFileNamesHolder)
  <1>1. TypeOK /\ Exclusive /\ [Next]_vars => Exclusive'
    BY ExclusiveStep
  <1>2. Exclusive => MutualExclusion /\ LockFileNamesHolder
    BY DEF Exclusive
  <1>3. QED
    BY <1>1, <1>2, ExclusiveInit, TypeCorrect, PTL DEF Spec

-----------------------------------------------------------------------------
(* Refinement.                                                             *)

LEMMA MutexStep ==
    ASSUME ~Overlap, TypeOK, Exclusive, [Next]_vars
    PROVE  Abstract!Next \/ UNCHANGED Holders
  <1> USE DEF TypeOK, Locking, Goto
  <1>1. ASSUME NEW p \in Proc, pc[p] # "locked", Goto(p, "locked"),
               \A h \in Holders : pc[p] # "write", pc[p] = "write"
        PROVE  Abstract!Next
    <2>1. Holders = {} /\ Holders' = {p}
      BY <1>1 DEF Holders
    <2>2. QED
      BY <2>1 DEF Abstract!Next, Abstract!Acquire
  <1>2. ASSUME NEW p \in Proc, NEW l, l # "locked", Goto(p, l), pc[p] # "locked"
        PROVE  UNCHANGED Holders
    BY <1>2 DEF Holders
  <1>3. ASSUME NEW p \in Proc, pc[p] = "locked", Goto(p, "out")
        PROVE  Abstract!Next
    <2>1. p \in Holders /\ Holders' = Holders \ {p}
      BY <1>3 DEF Holders
    <2>2. QED
      BY <2>1 DEF Abstract!Next, Abstract!Release
  <1>4. ASSUME NEW p \in Proc, Start(p) \/ Exists(p) \/ Open(p) \/ Read(p)
        PROVE  UNCHANGED Holders
    BY <1>2, <1>4 DEF Start, Exists, Open, Read
  <1>5. ASSUME NEW p \in Proc, Kill(p) \/ Unlink(p) \/ Create(p) \/ Other(p)
        PROVE  UNCHANGED Holders
    BY <1>2, <1>5 DEF Kill, Unlink, Create, Other
  <1>6. ASSUME NEW p \in Proc, Write(p) PROVE Abstract!Next
    BY <1>1, <1>6 DEF Write, Exclusive, KnowsHolder
  <1>7. ASSUME NEW p \in Proc, UnLock(p) PROVE Abstract!Next
    BY <1>3, <1>7 DEF UnLock
  <1>8. ASSUME NEW p \in Proc, Crash(p) PROVE Abstract!Next \/ UNCHANGED Holders
    BY <1>2, <1>3, <1>8 DEF Crash
  <1>9. CASE UNCHANGED vars
    BY <1>9 DEF vars, Holders
  <1>10. QED
    BY <1>4, <1>5, <1>6, <1>7, <1>8, <1>9 DEF Next, Lock

\* If calls of lock() do not overlap, the lock file is a mutex that the end of
\* the holder's run, in whatever way, releases.
THEOREM LockFileIsMutex ==
    ASSUME ~Overlap
    PROVE  Spec => ImplementsMutex
  <1>1. Init => Abstract!Init
    BY DEF Init, Abstract!Init, Holders
  <1>2. TypeOK /\ Exclusive /\ [Next]_vars => [Abstract!Next]_Holders
    BY MutexStep
  <1>3. TypeOK /\ Exclusive /\ [Next]_vars => Exclusive'
    BY ExclusiveStep
  <1>4. QED
    BY <1>1, <1>2, <1>3, ExclusiveInit, TypeCorrect, PTL
       DEF Spec, ImplementsMutex, Abstract!Spec

-----------------------------------------------------------------------------
(* Overlapping calls.                                                      *)

\* As long as no process dies the lock file on disk is always one that a process is still
\* to remove, however the calls overlap.
THEOREM LockFileIsRemoved == Spec => []LockFileHasOwner
  <1>1. Init => LockFileHasOwner
    BY DEF Init, LockFileHasOwner
  <1>2. TypeOK /\ LockFileHasOwner /\ [Next]_vars => LockFileHasOwner'
    <2> SUFFICES ASSUME TypeOK, LockFileHasOwner, [Next]_vars, ~crashed'
                 PROVE  LockFileHasOwner'
      BY DEF LockFileHasOwner
    <2>0. ~crashed
      BY DEF Next, vars
    <2> USE <2>0 DEF TypeOK, Locking, Goto, LockFileHasOwner
    <2>1. ASSUME NEW p \in Proc, Start(p) \/ Exists(p) \/ Open(p) \/ Read(p) \/ Kill(p) \/ Other(p)
          PROVE  LockFileHasOwner'
      BY <2>1 DEF Start, Exists, Open, Read, Kill, Other
    <2>2. ASSUME NEW p \in Proc, Unlink(p) \/ UnLock(p) PROVE LockFileHasOwner'
      BY <2>2 DEF Unlink, UnLock
    <2>3. ASSUME NEW p \in Proc, Create(p) \/ Write(p) PROVE LockFileHasOwner'
      BY <2>3 DEF Create, Write
    <2>4. CASE UNCHANGED vars
      BY <2>4 DEF vars
    <2>5. QED
      BY <2>1, <2>2, <2>3, <2>4 DEF Next, Lock
  <1>3. QED
    BY <1>1, <1>2, TypeCorrect, PTL DEF Spec

=============================================================================
