--------------------------- MODULE MCTransaction ----------------------------
(***************************************************************************)
(* Two versions of a package with a configuration file that changes, a     *)
(* file only the older one has and one shared with a second package.       *)
(***************************************************************************)
EXTENDS Transaction

CONSTANTS a1, a2, b1

MCPkg == {a1, a2, b1}
Conf == 1
Rc == 2
Lib == 3
Old == 4
MCFile == 1..4
MCName == [p \in Pkg |-> IF p = b1 THEN "b" ELSE "a"]
MCEvr == [p \in Pkg |-> IF p = a2 THEN 2 ELSE 1]
MCFiles == [p \in Pkg |->
    CASE p = a1 -> {Conf, Rc, Lib, Old} [] p = a2 -> {Conf, Rc, Lib} [] OTHER -> {Conf, Lib}]
MCContent == [p \in Pkg |-> [f \in File |->
    CASE p = a1 /\ f \in Config -> 101 [] p = b1 /\ f = Lib -> 103 [] OTHER -> 102]]
MCConfig == {Conf, Rc}
MCNoReplace == {Rc}
MCPre == {a2}
MCPost == [p \in Pkg |-> CASE p = a1 -> NoProg [] p = a2 -> Ldconfig [] OTHER -> "/bin/sh"]
MCTriggering == {b1}
MCPretrans == {a1}
MCPosttrans == {a2}
MCYields == {<<b1, a1>>, <<b1, a2>>}

=============================================================================
