-------------------------------- MODULE Mutex --------------------------------
(***************************************************************************)
(* What a lock promises: at most one of the processes holds it, and only   *)
(* the end of the holder's run, by release or by death, frees it.          *)
(***************************************************************************)
CONSTANT Proc

VARIABLE holders    \* the processes that believe they hold the lock

Init == holders = {}

Acquire(p) == holders = {} /\ holders' = {p}
Release(p) == p \in holders /\ holders' = holders \ {p}

Next == \E p \in Proc : Acquire(p) \/ Release(p)

Spec == Init /\ [][Next]_holders

=============================================================================
