-------------------------------- MODULE MCYum --------------------------------
(* app needs lib, lib-2 takes the place of lib-1 and no longer provides what *)
(* tool needs; mail obsoletes the old sendmail and conflicts with it, a      *)
(* kernel is installed beside the old one, multi comes for two architectures.*)
EXTENDS YumCommand

CONSTANTS app1, app2, lib1, lib2, tool1, send1, mail1, post1, k1, k2, m32, m64, n32, n64, doc1, srv1, srv2, srv3, cli1, x32, xno, y32, web1, gui1, cgi1, cgi2, php1

MCPkg == {app1, app2, lib1, lib2, tool1, send1, mail1, post1, k1, k2, m32, m64, n32, n64, doc1, srv1, srv2, srv3, cli1, x32, xno, y32, web1, gui1, cgi1, cgi2, php1}
MCInstalled == {app1, lib1, tool1, send1, k1, m32, m64, srv1, cli1, x32, xno, cgi1}
MCAvailable == MCPkg \ MCInstalled

MCName == [p \in Pkg |->
    CASE p \in {app1, app2} -> "app" [] p \in {lib1, lib2} -> "lib" [] p = tool1 -> "tool"
      [] p = send1 -> "sendmail" [] p = mail1 -> "mail" [] p = post1 -> "postfix"
      [] p \in {k1, k2} -> "kernel" [] p = doc1 -> "app-de" [] p \in {srv1, srv2, srv3} -> "server"
      [] p = cli1 -> "client" [] p = web1 -> "web" [] p = gui1 -> "gui"
      [] p \in {cgi1, cgi2} -> "cgi" [] p = php1 -> "php" [] p \in {x32, xno, y32} -> "mixed" [] OTHER -> "multi"]
MCEvr == [p \in Pkg |-> IF p = srv3 THEN 3 ELSE IF p \in {app2, lib2, k2, n32, n64, srv2, y32, cgi2, php1} THEN 2 ELSE 1]
MCArch == [p \in Pkg |->
    CASE p \in {m32, n32, x32, y32} -> "i386" [] p \in {doc1, xno} -> "noarch" [] OTHER -> "x86_64"]
Read == <<lib1, app1, cli1, k1, m64, m32, send1, srv1, tool1, xno, x32, cgi1,
          srv3, srv2, web1, gui1, cgi2, php1, post1, mail1, lib2, app2, doc1, k2, n32, n64, y32>>
Archs == {"i386", "x86_64", "noarch"}
MCArchDuplicate == {<<a, a>> : a \in Archs}
MCArchCompat == {<<a, a>> : a \in Archs} \union (Archs \X {"noarch"})
                  \union {<<"noarch", a>> : a \in Archs} \union {<<"i386", "x86_64">>}
MCBaseArch == [a \in Archs |-> a]
MCDistance == [d \in Archs \X Archs |->
    IF "noarch" \in {d[1], d[2]} THEN 0 ELSE IF d[1] = d[2] THEN 1 ELSE 2]

MCDep == {"libapp", "lib1", "lib2", "mta", "/bin/sh", "srv", "conf", "php", "gone"}
MCFileDep == {"/bin/sh"}
MCRequires == [p \in Pkg |->
    CASE p = app1 -> {"lib1"} [] p = app2 -> {"lib2", "mta"} [] p = tool1 -> {"lib1"}
      [] p = post1 -> {"/bin/sh"} [] p = doc1 -> {"libapp"} [] p = cli1 -> {"srv"} [] p = gui1 -> {"php"} [] p \in {srv2, srv3} -> {"gone"}
      [] p = srv1 -> {"conf"} [] p \in {srv1, srv2, srv3} -> {"srv"} [] OTHER -> {}]
MCProvides == [p \in Pkg |->
    CASE p = lib1 -> {"lib1"} [] p = lib2 -> {"lib2"} [] p = php1 -> {"php"} [] p \in {app1, app2} -> {"libapp"}
      [] p = send1 -> {"mta", "conf"} [] p = mail1 -> {"mta"} [] p = post1 -> {"mta", "conf"} [] p \in {srv1, srv2, srv3} -> {"srv"} [] OTHER -> {}]
MCProvidesNoConf == [MCProvides EXCEPT ![post1] = {"mta"}]
MCFiles == [p \in Pkg |-> IF p = tool1 THEN {"/bin/sh"} ELSE {}]
MCObsoletes == {<<mail1, send1>>, <<post1, mail1>>, <<php1, cgi2>>}
MCFileConflict == {}
MCConflicts == {<<lib2, app1>>, <<web1, cgi1>>, <<y32, cli1>>}
MCSense == [c \in MCObsoletes \union MCConflicts |-> IF c \in {<<lib2, app1>>, <<web1, cgi1>>} THEN "less" ELSE "none"]
MCLanguageNames == [n \in {"app"} |-> {"app-de"}]
\* In the order in which the packages were read: the installed ones first.
MCHash == [p \in Pkg |-> CHOOSE i \in DOMAIN Read : Read[i] = p]
MCType == [p \in Pkg |-> IF p = mail1 THEN 1 ELSE 4]

MCRequests ==
    [command : {"install", "update"}, autoerase : BOOLEAN,
     args : {{"app"}, {"kernel", "mail"}, {"multi"}, {"lib"}, {"postfix"},
             {"server"}, {"server", "postfix"}, {"mixed"}, {"web"}, {"gui", "lib"}, {"cgi"}}]
      \union [command : {"update"}, autoerase : BOOLEAN, args : {{}}]
      \union [command : {"list"}, autoerase : {FALSE},
               args : {{"app", "kernel", "multi"}, {"mixed", "server"}, {"lib", "cgi", "sendmail"}}]
      \union [command : {"remove"}, autoerase : {FALSE}, args : {{"lib"}, {"tool", "multi"}}]

\* What the proofs assume of obsoletes holds of these.
ASSUME ObsoletesAssumption == ObsoletesEnd
=============================================================================
