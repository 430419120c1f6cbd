----------------------------- MODULE MCYumLock -----------------------------
(***************************************************************************)
(* Three processes and the four inodes they and the path can refer to.     *)
(***************************************************************************)
EXTENDS YumLock

CONSTANTS p1, p2, p3, i1, i2, i3, i4

MCProc == {p1, p2, p3}
MCInode == {i1, i2, i3, i4}

=============================================================================
