------------------------------ MODULE MCRpmDB -------------------------------
(***************************************************************************)
(* Two headers, one with Obsoletes: and one without a key for the last     *)
(* index, and three files: an index, the headers, an index.                *)
(***************************************************************************)
EXTENDS RpmDB

CONSTANTS h1, h2

MCHeader == {h1, h2}
MCTagged == [h \in Header |-> IF h = h1 THEN {1, 3} ELSE {1}]
MCObsoleting == {h1}

=============================================================================
