------------------------------ MODULE MCRepos -------------------------------
(***************************************************************************)
(* Two repositories, one in sqlite databases and one parsed, with a        *)
(* package each and one that is excluded, and a package given as a file,   *)
(* which alone owns one of the files that primary.xml lists.               *)
(***************************************************************************)
EXTENDS Repos

CONSTANTS a, b, x, l, sql, xml, mem, bin, lib, doc, etc

MCPkg == {a, b, x, l}
MCKey == {"a", "b", "x"}
MCTag == {"provides", "obsoletes"}
MCName == [p \in Pkg |-> CASE p \in {a, l} -> "a" [] p = b -> "b" [] OTHER -> "x"]
MCKeys == [t \in Tag |-> [p \in Pkg |->
              IF t = "provides" THEN IF p = b THEN {"a", "b"} ELSE {MCName[p]}
              ELSE IF p = b THEN {"a"} ELSE {}]]
MCLast == MCName
MCNamed == Pkg \ {b, l}

MCFrom == [p \in Pkg |-> CASE p = a -> sql [] p = l -> mem [] OTHER -> xml]
MCOwns == [p \in Pkg |-> CASE p = b -> {lib, doc} [] p = x -> {lib, bin}
              [] p = l -> {bin, lib, etc} [] OTHER -> {bin, lib}]
MCFileRequires == [p \in Pkg |-> CASE p = b -> {bin} [] p = l -> {lib} [] OTHER -> {}]

=============================================================================
