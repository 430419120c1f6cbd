----------------------------- MODULE MCPackage ------------------------------
(***************************************************************************)
(* Packages of up to four entries: three hard links, the last with the     *)
(* data; empty files; a device; a file the header does not list.           *)
(***************************************************************************)
EXTENDS Package

MCFile == {"a", "b", "c", "d", "e"}
E(name, size, id) == [name |-> name, size |-> size, id |-> id]

MCArchives == {
    <<E("a", 0, 1), E("b", 0, 1), E("c", 5, 1)>>,
    <<E("a", 0, 1), E("d", 0, 2), E("b", 0, 1), E("c", 1, 3)>>,
    <<E("a", 4, 1), E("d", 0, 2), E("e", 3, 3)>>}
MCPresent == {{"a", "b", "c", "d"}}
MCSigSets == {{"md5"}, {"dsaheader", "sha1header", "md5"}, {"gpg", "sha1header"}}

=============================================================================
