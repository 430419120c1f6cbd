----------------------------- MODULE MCResolver -----------------------------
(***************************************************************************)
(* A small universe for RpmResolver: two installed packages, an update of  *)
(* each, a package that obsoletes all of the first name, and one that owns *)
(* a file nobody owned.                                                    *)
(***************************************************************************)
EXTENDS Resolver

CONSTANTS a1, a2, b1, b2, c1, d1

MCPkg == {a1, a2, b1, b2, c1, d1}
MCInstalled == {a1, b1}

MCName == [p \in Pkg |->
    CASE p \in {a1, a2} -> "a" [] p \in {b1, b2} -> "b" [] p = c1 -> "c" [] OTHER -> "d"]
MCEvr == [p \in Pkg |->
    IF p \in {a2, b2} THEN 2 ELSE 1]
MCArch == [p \in Pkg |->
    CASE p = a1 -> "i386" [] p = a2 -> "i686" [] OTHER -> "noarch"]
MCArchDuplicate ==
    {"i386", "i686"} \X {"i386", "i686"} \union {<<"noarch", "noarch">>}
MCArchCompat ==
    {"i386", "i686", "noarch"} \X {"i686", "noarch"} \union {<<"i386", "i386">>, <<"noarch", "i386">>}

MCDep == {"lib", "/sendmail", "/bin/sh", "/lost"}
MCFileDep == {"/bin/sh", "/lost", "/sendmail"}

\* b1 needs /lost, which no installed package owns.
MCRequires == [p \in Pkg |->
    CASE p = b1 -> {"lib", "/lost"} [] p = a2 -> {"/bin/sh"} [] p = b2 -> {"lib", "/sendmail"}
      [] p = c1 -> {"/lost"} [] OTHER -> {}]
MCProvides == [p \in Pkg |->
    CASE p \in {a1, a2} -> {"lib"} [] p = c1 -> {"lib", "/sendmail"} [] OTHER -> {}]
MCFiles == [p \in Pkg |->
    CASE p = b2 -> {"/bin/sh"} [] p = d1 -> {"/lost", "/sendmail"} [] p = b1 -> {"/bin/sh"}
      [] OTHER -> {}]

MCObsoletes == {<<c1, a1>>, <<c1, a2>>}
MCConflicts == {<<d1, b1>>, <<a1, d1>>}
MCFileConflict == {<<b2, d1>>, <<d1, b2>>}

=============================================================================
