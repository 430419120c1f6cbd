---------------------------- MODULE MCComponents -----------------------------
(***************************************************************************)
(* Components that share no state with each other nor with those of the    *)
(* other runs, side by side: the choice at the beginning says which one is *)
(* looked at, and only that one has states.  The variables of the module   *)
(* Arch are its own; those of the others are cells that every component    *)
(* uses for its own variables, in the order of its INSTANCE.               *)
(***************************************************************************)
EXTENDS Arch

VARIABLES component, v1, v2, v3, v4, v5, v6, v7, v8, v9, v10, v11, v12, v13, v14, v15, v16, v17, v18

cells == <<v1, v2, v3, v4, v5, v6, v7, v8, v9, v10, v11, v12, v13, v14, v15, v16, v17, v18>>

-----------------------------------------------------------------------------
(* Arch: lists of two packages on every machine, of three on two of them.  *)

MCMachine == DOMAIN ArchCompats \union {"pentium4"}
MCLists ==
    [m \in MCMachine |->
        LET pkgs == [arch : Range(Compats(m)) \union {"ia64", "i686"}, evr : 1..2]
        IN  UNION {[1..k -> pkgs] : k \in 0..(IF m \in {"amd64", "ppc64pseries"} THEN 3 ELSE 2)}]

-----------------------------------------------------------------------------
(* Compare.                                                                *)

\* Versions of up to three characters out of two digits, two letters and a separator
\* with a release, shorter ones without one, and a few epochs.
CmLetter == {10, 11}
Dot == 100
Strings(n) == UNION {[1..k -> {0, 1, 10, 11, Dot}] : k \in 0..n}
CmEvr ==
    {<< <<0>>, s, <<1>> >> : s \in Strings(3)}
      \union {<< <<0>>, s, <<>> >> : s \in Strings(2)}
      \union {<<e, <<1>>, r>> : e \in {<<0>>, <<0, 1>>, <<1, 0>>}, r \in {<<0, 1>>, <<1, Dot>>}}

Cm == INSTANCE Compare WITH
    Evr <- CmEvr, Letter <- CmLetter, evr1 <- v1, evr2 <- v2, part <- v3, i1 <- v4,
    i2 <- v5, result <- v6

-----------------------------------------------------------------------------
(* Metadata.                                                               *)

\* a1 and a2 are one file in two places; c is from before packages provided their
\* names.
MdPkg == {"a1", "a2", "a3", "b1", "c1"}
MdName == ("a1" :> "a") @@ ("a2" :> "a") @@ ("a3" :> "a") @@ ("b1" :> "b") @@ ("c1" :> "c")
MdEvr ==
    ("a1" :> <<0, 1, 1>>) @@ ("a2" :> <<0, 1, 1>>) @@ ("a3" :> <<1, 1, 1>>)
      @@ ("b1" :> <<0, 2, 1>>) @@ ("c1" :> <<0, 2, 2>>)
NoEpoch == -1
NoVersion == <<NoEpoch, 0, 0>>
Dep(n, f, e) == [name |-> n, flags |-> f, evr |-> e]
MdProvides ==
    [p \in {"a1", "a2"} |-> {Dep("a", {"EQUAL"}, <<NoEpoch, 1, 1>>), Dep("lib", {}, NoVersion)}]
      @@ ("a3" :> {Dep("a", {"EQUAL"}, <<1, 1, 1>>), Dep("lib", {"EQUAL"}, <<NoEpoch, 2, 0>>)})
      @@ ("b1" :> {Dep("b", {"EQUAL"}, <<NoEpoch, 2, 1>>)})
      @@ ("c1" :> {Dep("b", {"LESS", "EQUAL"}, <<NoEpoch, 1, 2>>)})
MdRequires ==
    [p \in {"a1", "a2"} |-> {Dep("b", {"GREATER", "EQUAL", "PREREQ", "PRE"}, <<NoEpoch, 2, 0>>),
                             Dep("c", {"PREREQ"}, NoVersion)}]
      @@ ("a3" :> {Dep("b", {"LESS"}, <<NoEpoch, 1, 2>>), Dep("c", {"INTERP"}, NoVersion)})
      @@ ("b1" :> {Dep("a", {"EQUAL"}, <<NoEpoch, 1, 0>>), Dep("lib", {"GREATER"}, <<NoEpoch, 1, 0>>),
                   Dep("a", {"PREUN", "PREREQ"}, <<1, 1, 1>>)})
      @@ ("c1" :> {Dep("lib", {}, NoVersion), Dep("b", {"GREATER", "EQUAL"}, <<NoEpoch, 2, 2>>)})
MdFile(p, k) == [path |-> p, kind |-> k]
MdFiles ==
    [p \in {"a1", "a2"} |->
        <<MdFile(<<"etc">>, "dir"), MdFile(<<"usr", "bin", "a">>, "file"),
          MdFile(<<"usr", "share", "a">>, "file"), MdFile(<<"usr", "bin", "aa">>, "ghost")>>]
      @@ ("a3" :> <<MdFile(<<"a">>, "file"), MdFile(<<"etc", "a">>, "file")>>)
      @@ ("b1" :> <<>>)
      @@ ("c1" :> <<MdFile(<<"usr", "share", "c">>, "file")>>)
MdDigest == [p \in MdPkg |-> IF p = "a2" THEN "a1" ELSE p]
MdExcluded == {"c1"}
MdInPrimary == {<<"usr", "bin", "a">>, <<"usr", "bin", "aa">>, <<"etc", "a">>}

Md == INSTANCE Metadata WITH
    Pkg <- MdPkg, Name <- MdName, Evr <- MdEvr, Provides <- MdProvides,
    Requires <- MdRequires, Files <- MdFiles, Digest <- MdDigest, Excluded <- MdExcluded,
    InPrimary <- MdInPrimary, todo <- v1, primary <- v2, filelists <- v3, read <- v4,
    memory <- v5, names <- v6, rows <- v7, listrows <- v8, imported <- v9, object <- v10,
    writer <- v11, stage <- v12, repomd <- v13

-----------------------------------------------------------------------------
(* Names.                                                                  *)

\* A name that is the beginning of another one, and names and a release with separators.
NmPkg == {"p1", "p2", "p3", "p4"}
Form(n, e, v, r, a, src) == [name |-> n, epoch |-> <<e>>, version |-> v, release |-> r, arch |-> <<a>>, source |-> src]
NmLabel ==
    ("p1" :> Form(<<"a">>, "0", <<"1">>, <<"1">>, "i", FALSE))
      @@ ("p2" :> Form(<<"a", "-", "1">>, "0", <<"1">>, <<"1", ".", "2">>, "i", FALSE))
      @@ ("p3" :> Form(<<"a", ".", "i">>, "1", <<"1", ".", "a">>, <<"2">>, "n", FALSE))
      @@ ("p4" :> Form(<<"a">>, "1", <<"2">>, <<"1">>, "i", TRUE))
Forms(l) ==
    {l.name, l.name \o <<"-">> \o l.version, l.name \o <<"-">> \o l.epoch \o <<":">> \o l.version,
     l.name \o <<"-">> \o l.version \o <<"-">> \o l.release \o <<".">> \o l.arch,
     l.name \o <<".">> \o l.arch, l.name \o <<".", "s", "r", "c">>}
AllForms == UNION {Forms(NmLabel[p]) : p \in NmPkg}
\* The forms, those with a character or the rest replaced, and all short ones.
NmPattern ==
    AllForms
      \union UNION {{[f EXCEPT ![k] = c] : k \in 1..Min({4, Len(f)}), c \in {"*", "?", "]"}} : f \in AllForms}
      \union UNION {{SubSeq(f, 1, k) \o w : k \in 0..Min({3, Len(f)}),
                       w \in {<<"*">>, <<"[", "-", "1", "]", "*">>, <<"[", "!", "a", "]", "*">>, <<"[", "a">>}} :
                        f \in AllForms}
      \union UNION {[1..n -> {"a", "1", "-", ".", "*"}] : n \in 0..3}

Nm == INSTANCE Names WITH
    Pkg <- NmPkg, Label <- NmLabel, Pattern <- NmPattern, pkgs <- v1, hash <- v2, found <- v3

-----------------------------------------------------------------------------
(* Keyring.                                                                *)

\* Files of one to three keys as they are exported, and all short ones.
P(k, d) == [kind |-> k, type |-> "", data |-> d, time |-> 0]
S(t, d, n) == [kind |-> "sig", type |-> t, data |-> d, time |-> n]
Block(defects, ps) == [defects |-> defects, packets |-> ps]
M(ps) == <<Block({}, ps)>>
KrUsual ==
    {M(<<P("key", "K1"), P("uid", "u"), S("cert_generic", "c1", 1), P("subkey", "S1"), S("subkey", "b1", 1)>>),
     M(<<P("key", "K1"), S("key_revocation", "r5", 5), P("uid", "u"), S("cert_positive", "c2", 1), P("attr", "v")>>),
     M(<<P("key", "K1"), S("key_revocation", "r3", 3), S("direct", "d", 1), P("uid", "v"), P("trust", "t"),
         S("cert_generic", "c1", 1)>>),
     M(<<P("key", "K2"), P("uid", "w"), P("subkey", "S1"), S("cert_generic", "c3", 1), P("key", "K1"),
         P("uid", "u"), P("subkey", "E"), S("subkey", "b1", 1), S("subkey_revocation", "b3", 2)>>),
     M(<<P("key", "K3"), P("uid", "x"), P("subkey", "S1")>>),
     <<Block({"no checksum"}, <<P("key", "K2"), P("uid", "w")>>), Block({}, <<P("key", "K3"), P("uid", "x")>>)>>}
Packets ==
    {P("key", "K1"), P("subkey", "S1"), P("uid", "u"), P("attr", "v"), S("direct", "d", 1),
     S("key_revocation", "r3", 3), S("subkey", "b1", 1), S("cert_generic", "c1", 1), P("other", "o")}
Defects == {"header type", "header", "end of headers", "tail", "base64", "checksum"}
KrFile ==
    KrUsual
      \union {M(<<P("key", "K2")>> \o ps) : ps \in UNION {[1..n -> Packets] : n \in 0..3}}
      \union {M(ps) : ps \in UNION {[1..n -> Packets] : n \in 0..2}}
      \union {<<Block({d}, <<P("key", "K1"), P("uid", "u")>>)>> : d \in Defects}
      \union {M(<<P("key", "K1"), P("uid", "u"), P("invalid", "i")>>)}
KrMaxReads == 3
\* The Elgamal subkey has the number of K1.
KrKeyID == ("K1" :> 1) @@ ("E" :> 1) @@ ("S1" :> 3) @@ ("K2" :> 2) @@ ("K3" :> 2)
KrAlg == ("K1" :> "DSA") @@ ("E" :> "Elgamal encrypt-only") @@ [d \in {"S1", "K2", "K3"} |-> "RSA"]
KrBroken == {"K3"}
\* The id of the key is signed, or added to the signature, or missing; two times and
\* two ids; a type that is not known; no time; bad contents.
Sub(t, v) == [type |-> t, critical |-> FALSE, good |-> TRUE, value |-> v]
Time(n) == Sub("sign_time", n)
Id(n) == Sub("key_id", n)
Other(critical) == [Sub("other", 0) EXCEPT !.critical = critical]
KrSmall == {"K2"}
Signed(vers, areas, algs, hashes) ==
    {[ver |-> v, hashed |-> a[1], unhashed |-> a[2], alg |-> g, hash |-> h, by |-> d, prefix |-> TRUE, value |-> TRUE] :
        v \in vers, a \in areas, g \in algs, h \in hashes, d \in {"K1", "K2", "S1", "None"}}
KrSigned ==
    Signed({3, 4}, {<<<<Id(k), Time(t)>>, <<>>>> : k \in 1..3, t \in {2, 4, 6}}, {"DSA", "RSA sign-only", "unknown"}, {"SHA1"})
      \union
    Signed({4}, {<<<<Time(t)>>, <<Id(k)>>>> : k \in 1..3, t \in {2, 4, 6}} \union {<<<<Time(t)>>, <<>>>> : t \in {2, 4, 6}},
           {"DSA", "RSA sign-only", "unknown"}, {"SHA1"})
      \union
    Signed({4}, {<<<<Time(6), Time(2)>>, <<Id(2), Id(1)>>>>, <<<<Time(4), Id(3), Other(FALSE)>>, <<Id(1)>>>>,
                 <<<<Other(TRUE), Time(2)>>, <<Id(1)>>>>, <<<<Id(1)>>, <<Time(2)>>>>,
                 <<<<Time(2), [Id(1) EXCEPT !.good = FALSE]>>, <<>>>>}, {"DSA", "RSA sign-only"}, {"SHA1"})
      \union
    Signed({3, 4}, {<<<<Id(k), Time(2)>>, <<>>>> : k \in 1..3}, {"DSA", "RSA sign-only"}, {"SHA256"})
\* Some with two other bytes or a value that cannot be read.
KrSignature ==
    KrSigned \union {[s EXCEPT !.prefix = FALSE] : s \in {t \in KrSigned : t.by = "K2" /\ t.hash = "SHA256"}}
             \union {[s EXCEPT !.value = FALSE] : s \in {t \in KrSigned : t.by = "K1" /\ t.ver = 3}}

Kr == INSTANCE Keyring WITH
    File <- KrFile, Usual <- KrUsual, MaxReads <- KrMaxReads, KeyID <- KrKeyID,
    Alg <- KrAlg, Broken <- KrBroken, Small <- KrSmall, Signature <- KrSignature, reads <- v1, file <- v2,
    input <- v3, place <- v4, key <- v5, uid <- v6, keys <- v7, ring <- v8, byKeyId <- v9,
    accepted <- v10

-----------------------------------------------------------------------------
(* Gzip.                                                                   *)

GzChar == {"a", "n"}
GzNewLine == "n"
GzMaxMembers == 2
GzMaxData == 3
GzMaxChunk == 3
GzMaxCalls == 3

Gz == INSTANCE Gzip WITH
    Char <- GzChar, NewLine <- GzNewLine, MaxMembers <- GzMaxMembers, MaxData <- GzMaxData,
    MaxChunk <- GzMaxChunk, MaxCalls <- GzMaxCalls, mode <- v1, stream <- v2, pending <- v3,
    crc <- v4, written <- v5, fault <- v6, at <- v7, newMember <- v8, done <- v9,
    unused <- v10, data <- v11, buffer <- v12, pos <- v13, crcval <- v14, offset <- v15,
    call <- v16, answer <- v17, calls <- v18

-----------------------------------------------------------------------------
(* Header.                                                                 *)

\* Tags of all types; 99 is not a known one.
HdType ==
    (10 :> "STRING") @@ (11 :> "INT16") @@ (12 :> "INT32") @@ (13 :> "STRING_ARRAY") @@ (14 :> "BIN")
      @@ (15 :> "STRING_ARRAY") @@ (16 :> "INT32") @@ (17 :> "INT32") @@ (99 :> "INT32")
HdKnown == (10..17) \union {61, 63}
HdName == 10
HdProvideName == 15
HdArchiveSize == 16
HdImage == 61
HdImmutable == 63
HdInstallKeys == {16, 17}
HdInstallValue == 17 :> <<<<7, 7, 7, 7>>>>
Size == <<<<1, 1, 1, 0>>>>
HdPayloadSize == ("3" :> {<<>>, Size}) @@ ("4.0" :> {<<>>, Size}) @@ ("4.4" :> {<<<<0, 0, 0, 5>>>>})
Values ==
    (10 :> {<<<<1>>>>, <<<<1, 2, 1>>>>}) @@ (11 :> {<<<<0, 1>>>>, <<<<1, 0>>, <<2, 0>>>>})
      @@ (12 :> {<<<<0, 0, 2, 1>>>>}) @@ (13 :> {<<<<>>, <<2>>>>, <<<<1, 2>>>>})
      @@ (14 :> {<<<<0, 1>>>>}) @@ (15 :> {<<<<1>>>>, <<<<2>>, <<1, 2, 1>>>>})
      @@ (16 :> {Size}) @@ (99 :> {<<<<9, 0, 0, 9>>>>})
Headers(T) == {f \in [T -> UNION {Values[t] : t \in T}] : \A t \in T : f[t] \in Values[t]}
HdOriginal ==
    {[version |-> "4.4", tags |-> f] : f \in UNION {Headers({10} \union T) : T \in SUBSET {11, 12, 13, 15, 99}}}
      \union {[version |-> v, tags |-> f] :
                v \in {"3", "4.0"}, f \in UNION {Headers({10, 16} \union T) : T \in SUBSET {11, 13, 14, 15}}}

Hd == INSTANCE Header WITH
    Original <- HdOriginal, Type <- HdType, Known <- HdKnown, Name <- HdName,
    ProvideName <- HdProvideName, ArchiveSize <- HdArchiveSize, Image <- HdImage,
    Immutable <- HdImmutable, InstallKeys <- HdInstallKeys, InstallValue <- HdInstallValue,
    PayloadSize <- HdPayloadSize, stage <- v1, version <- v2, header <- v3, todo <- v4, late <- v5, region <- v6,
    store <- v7, index <- v8, file <- v9, record <- v10, idx <- v11, hdr <- v12

-----------------------------------------------------------------------------
(* SharedFiles.                                                            *)

\* a in two versions for two architectures, and a package without one.
SfPkg == {"a32", "a64", "b32", "b64", "c"}
SfName == ("c" :> "c") @@ [p \in SfPkg |-> "a"]
SfEvr == ("b32" :> 2) @@ ("b64" :> 2) @@ [p \in SfPkg |-> 1]
SfArch ==
    ("a32" :> "i386") @@ ("b32" :> "i686") @@ ("a64" :> "x86_64") @@ ("b64" :> "x86_64") @@ ("c" :> "noarch")
SfSize == ("" :> 0) @@ ("x" :> 1) @@ ("y" :> 1) @@ ("zz" :> 2)
SfAdds == ("a32" :> {"u"}) @@ ("a64" :> {"passwd", "root"}) @@ ("b64" :> {"passwd", "root", "u"}) @@ [p \in SfPkg |-> {}]
SfUid == ("root" :> 0) @@ ("u" :> 1)
SfFile(type, perm, user, data) ==
    [type |-> type, perm |-> perm, user |-> user, group |-> "root", data |-> data, ghost |-> FALSE, color |-> 0]
Color == ("a32" :> 1) @@ ("b32" :> 1) @@ ("a64" :> 2) @@ ("b64" :> 2) @@ ("c" :> 0)
Plain ==
    LET first == {SfFile("reg", 1, "root", "x"), SfFile("reg", 1, "u", "y")}
        second == {SfFile("reg", 1, "root", "x"), SfFile("reg", 2, "u", "zz"), SfFile("dir", 7, "root", "")}
        third == {SfFile("reg", 1, "root", "x"), SfFile("link", 7, "root", "x"),
                  [SfFile("reg", 1, "u", "y") EXCEPT !.ghost = TRUE]}
    IN  {("a32" :> e) @@ ("a64" :> f) @@ ("b32" :> g) @@ ("b64" :> h) @@ ("c" :> k) :
            e \in first, f \in first, g \in second, h \in second, k \in third}
SfInfos ==
    Plain \union {[p \in SfPkg |-> IF f[p].type = "reg" THEN [f[p] EXCEPT !.color = Color[p]] ELSE f[p]] : f \in Plain}
\* The tables of architectures are those of the module Arch.
SfBaseArch == [a \in Range(SfArch) |-> BuildArchTranslate[a]]
SfLower ==
    {x \in Range(SfArch) \X Range(SfArch) : x[1] = x[2] \/ x[1] \in Range(ArchCompats[x[2]])}

Sf == INSTANCE SharedFiles WITH
    Pkg <- SfPkg, Name <- SfName, Evr <- SfEvr, Arch <- SfArch, Infos <- SfInfos,
    Size <- SfSize, Adds <- SfAdds, Uid <- SfUid, BaseArch <- SfBaseArch, Lower <- SfLower,
    info <- v1, db <- v2, installs <- v3, erases <- v4, disk <- v5, accounts <- v6,
    uids <- v7, shadowed <- v8, wrote <- v9

-----------------------------------------------------------------------------
(* YumConf.                                                                *)

L(k, key, words) == [kind |-> k, key |-> key, words |-> words]
Set(key, v) == L("setting", key, <<<<v>>>>)
R1 == L("section", "r1", <<>>)
R2 == L("section", "r2", <<>>)
Lines ==
    {R1, R2, L("setting", "baseurl", <<<<"u">>, <<"$releasever", "/">>>>), Set("enabled", "0"), Set("enabled", "1"),
     L("indented", "enabled", <<<<"0">>>>), L("indented", "", <<<<"v">>>>), L("comment", "", <<>>)}
YcRepoFile ==
    {[d |-> f, e |-> <<>>] :
        f \in {<<>>} \union {<<R1, b, c, d>> : b \in Lines, c \in Lines, d \in Lines}
                \union {<<a, b>> : a \in Lines \union {L("other", "", <<>>)}, b \in Lines}}
      \union {[d |-> <<R1, Set("enabled", "1"), Set("baseurl", "x")>>, e |-> f] :
                f \in {<<>>, <<R1, Set("enabled", "0")>>,
                       <<L("section", "r3", <<>>), Set("baseurl", "w"), L("indented", "", <<<<"$basearch">>>>)>>}}
YcMainFile ==
    {<<>>, <<L("section", "main", <<>>), Set("exactarch", "1"), Set("keepcache", "0")>>,
     <<Set("reposdir", "d"), Set("distroverpkg", "other-release")>>, <<Set("reposdir", "d,e")>>,
     <<Set("exactarch", "1"), R2, Set("enabled", "0"), Set("baseurl", "w")>>}
YcMainVarnames == {"reposdir", "exactarch", "keepcache", "distroverpkg"}
YcRepoVarnames == {"baseurl", "enabled"}
YcMultilineVarnames == {"baseurl"}
YcDirs == {"d", "e"}
YcVariables == ("$basearch" :> "i386")
YcInstalled == {"other-release" :> "4", ("redhat-release" :> "5") @@ ("other-release" :> "4")}
YcOptions ==
    {[relver |-> "", enablerepo |-> {}, disablerepo |-> {}, installed |-> rel] : rel \in YcInstalled}
      \union {[relver |-> "3", enablerepo |-> {"r1", "r2"}, disablerepo |-> {"r2"}, installed |-> rel] :
                rel \in YcInstalled}
YcUnreadable == {"r3"}

Yc == INSTANCE YumConf WITH
    MainFile <- YcMainFile, RepoFile <- YcRepoFile, MainVarnames <- YcMainVarnames,
    RepoVarnames <- YcRepoVarnames, MultilineVarnames <- YcMultilineVarnames,
    Dirs <- YcDirs, Variables <- YcVariables,
    Options <- YcOptions, Unreadable <- YcUnreadable, etc <- v1, option <- v2, files <- v3,
    at <- v4, stanza <- v5, prevcommand <- v6, conf <- v7, stage <- v8, todo <- v9,
    exactarch <- v10, repos <- v11

-----------------------------------------------------------------------------
(* Space.                                                                  *)

\* /usr is a device of its own; /usr/lib is not there yet.
SpDir == {"/", "/usr", "/usr/lib", "/usr/lib/x", "/var"}
SpParent == ("/usr" :> "/") @@ ("/usr/lib" :> "/usr") @@ ("/usr/lib/x" :> "/usr/lib") @@ ("/var" :> "/")
SpDevice == ("/" :> "root") @@ ("/usr" :> "usr") @@ ("/var" :> "root")
SpBlockSize == ("root" :> 2) @@ ("usr" :> 4)
SpSlack == 4
SpPkg == {"a1", "a2", "b"}
SpFile(path, dir, size) == [path |-> path, dir |-> dir, size |-> size, regular |-> TRUE]
SpFiles ==
    ("a1" :> <<SpFile("lib", "/usr/lib", 7), SpFile("log", "/var", 9)>>)
      @@ ("a2" :> <<[SpFile("dir", "/usr", 0) EXCEPT !.regular = FALSE], SpFile("lib", "/usr/lib", 8),
                    SpFile("x", "/usr/lib/x", 5)>>)
      @@ ("b" :> <<SpFile("log", "/var", 3), SpFile("b", "/usr/lib/x", 1), SpFile("top", "/", 5)>>)
SpInstalled == {"a1"}
Do(op, pkg) == [op |-> op, pkg |-> pkg]
SpTransactions ==
    {<<Do("install", "a2"), Do("erase", "a1")>>,
     <<Do("install", "b"), Do("install", "a2"), Do("erase", "a1")>>,
     <<Do("install", "a2"), Do("erase", "a1"), Do("install", "b")>>,
     <<Do("erase", "a1"), Do("install", "b")>>, <<Do("erase", "a1")>>}
SpFreeSpace ==
    {("root" :> r) @@ ("usr" :> u) : r \in {2, 4, 6, 8, 12, 30}, u \in {4, 8, 12, 16, 20, 24, 28}}

Sp == INSTANCE Space WITH
    Dir <- SpDir, Parent <- SpParent, Device <- SpDevice, BlockSize <- SpBlockSize,
    Slack <- SpSlack, Pkg <- SpPkg, Files <- SpFiles, Installed <- SpInstalled,
    Transactions <- SpTransactions, FreeSpace <- SpFreeSpace, operations <- v1, k <- v2,
    i <- v3, stage <- v4, dirhash <- v5, freehash <- v6, minfreehash <- v7, db <- v8,
    disk <- v9, temp <- v10, free <- v11, credit <- v12, freed <- v13

-----------------------------------------------------------------------------
(* Disk.                                                                   *)

DkLoop == 0..3
DkSize == 4
Part(num, type, start, end, linux) ==
    [num |-> num, type |-> type, start |-> start, end |-> end, linux |-> linux]
Table(parts) == [label |-> "msdos", parts |-> parts]
\* An extended partition and in it a logical one per cylinder.
Logicals(linux) ==
    {Part(1, "extended", 1, Len(linux), FALSE)}
      \union {Part(4 + n, "logical", n, n, linux[n]) : n \in DOMAIN linux}
DkLayout ==
    {[label |-> "none", parts |-> {}], Table({}),
     Table({Part(1, "primary", 1, 1, TRUE), Part(2, "primary", 2, 3, FALSE)}),
     Table(Logicals(<<TRUE, FALSE>>)), Table(Logicals(<<TRUE, FALSE, TRUE>>)), Table(Logicals(<<TRUE, TRUE, FALSE, TRUE>>))}
DkMaxOps == 2
DkMaxOthers == 1
DkMaxLost == 1
DkFails == TRUE

Dk == INSTANCE Disk WITH
    Loop <- DkLoop, Size <- DkSize, Layout <- DkLayout, MaxOps <- DkMaxOps,
    MaxOthers <- DkMaxOthers, MaxLost <- DkMaxLost, Fails <- DkFails, kind <- v1, stage <- v2, loops <- v3,
    device <- v4, ped <- v5, disk <- v6, partition <- v7, todo <- v8, found <- v9,
    keys <- v10, made <- v11, mounted <- v12, lost <- v13, cleared <- v14, ops <- v15,
    others <- v16

-----------------------------------------------------------------------------
(* Comps and Selection: the source has comps.xml, one of the others has.   *)

GrRepo == {"os", "more", "bare"}
Entry(n, t, req) == [name |-> n, type |-> t, requires |-> req]
Group(id, name, lang, entries, groups) ==
    [id |-> id, name |-> name, localized |-> {name \o "-de"}, langonly |-> lang, packages |-> entries, groups |-> groups]
Plainly(id, entries) == Group(id, id, "None", entries, <<>>)
\* A package twice in a group, groups by their names, and an id and a language twice.
GrXml ==
    ("os" :>
       <<Plainly("core", <<Entry("sh", "mandatory", {})>>),
         Group("base", "Base", "None", <<Entry("man", "mandatory", {}), Entry("ed", "default", {"tz"}),
                                         Entry("man", "optional", {}), Entry("x", "conditional", {"ed"})>>, <<"core">>),
         Group("de", "German", "de", <<Entry("man-de", "conditional", {"man"}), Entry("sh-de", "optional", {"sh"}),
                                       Entry("doc-de", "conditional", {"man-de"})>>, <<>>),
         Group("desktop", "Desktop", "None", <<Entry("x", "default", {}), Entry("gcc", "optional", {})>>, <<"Base-de">>),
         Group("de2", "Deutsch", "de", <<Entry("dict", "default", {}), Entry("ed-de", "conditional", {"ed"})>>, <<"de">>)>>)
      @@ ("more" :>
            <<Plainly("base", <<Entry("gcc", "default", {})>>),
              Plainly("base", <<Entry("vi", "mandatory", {}), Entry("gone", "default", {})>>),
              Group("fr", "French", "fr", <<Entry("gone", "mandatory", {})>>, <<>>)>>)
      @@ ("bare" :> <<>>)
GrOffers ==
    ("os" :> {"sh", "man", "ed", "tz", "x", "gcc", "man-de", "sh-de", "ed-de", "dict", "kernel", "kernel-devel", "grub", "e2fs"})
      @@ ("more" :> {"vi", "man", "gcc", "kernel-smp", "kernel-smp-devel", "xfs", "xorg-x11-drivers"})
      @@ ("bare" :> {"ed", "comps", "lokkit"})
GrCommands ==
    {<<"base", "de">>, <<"German", "Desktop">>, <<"desktop-de">>, <<"de2", "base", "fr">>, <<"none", "core">>}
GrBaseRepos == {"os"}
GrProvided ==
    ("os" :> (("ext3" :> {"e2fs"}) @@ ("xfs" :> {}) @@ ("mdadm" :> {}) @@ ("authconfig" :> {"ed", "sh"}) @@ ("lokkit" :> {})))
      @@ ("more" :> (("ext3" :> {"xfs"}) @@ ("xfs" :> {"xfs"}) @@ ("mdadm" :> {}) @@ ("authconfig" :> {}) @@ ("lokkit" :> {})))
      @@ ("bare" :> (("ext3" :> {}) @@ ("xfs" :> {}) @@ ("mdadm" :> {}) @@ ("authconfig" :> {}) @@ ("lokkit" :> {"lokkit"})))
GrSorted ==
    <<"comps", "dict", "doc-de", "e2fs", "ed", "ed-de", "gcc", "gone", "grub", "kernel", "kernel-devel", "kernel-smp",
      "kernel-smp-devel", "lokkit", "man", "man-de", "sh", "sh-de", "tz", "vi", "x", "xfs", "xorg-x11-drivers">>
New == {"drivers", "lokkit", "kernel-devel"}
GrKickstarts ==
    [groups : {{}, {"Desktop"}, {"everything"}}, nobase : BOOLEAN, startx : {FALSE},
     add : {<<>>, <<"gcc", "vi">>, <<"kernel-smp", "gone">>, <<"*">>}, drop : {<<>>, <<"man", "ed">>},
     settings : {{}}, fstypes : {<<"ext3", "swap">>}, languages : {{}, {"de"}}, all_comps : BOOLEAN, release : {New}]
      \union
    [groups : {{"base"}}, nobase : {TRUE}, startx : BOOLEAN, add : {<<>>, <<"gone">>}, drop : {<<"sh">>, <<"kernel-smp">>},
     settings : {{"xconfig", "authconfig", "bootloader"}, {"raid"}, {"firewall"}, {"xconfig", "driver"}, {"dhcp"}, {"firstboot"}},
     fstypes : {<<"xfs", "ext3">>}, languages : {{"de"}, {"fr", "de"}}, all_comps : BOOLEAN, release : {{}, New}]

Gr == INSTANCE Selection WITH
    Repo <- GrRepo, Xml <- GrXml, Offers <- GrOffers, Commands <- GrCommands,
    BaseRepos <- GrBaseRepos, Provided <- GrProvided, Sorted <- GrSorted,
    Kickstarts <- GrKickstarts, input <- v1, grouphash <- v2, langhash <- v3,
    pkgtypehash <- v4, args <- v5, langs <- v6, names <- v7, installed <- v8, spoken <- v9,
    ks <- v10, stage <- v11, pkgs <- v12, bound <- v13, todo <- v14, steps <- v15, base <- v16

-----------------------------------------------------------------------------
(* The choice.                                                             *)

NoList == machine = 0 /\ asked = 0 /\ list = 0 /\ i = 0 /\ result = 0

MCInit ==
    \/ /\ component = "architectures" /\ Init
       /\ v1 = 0 /\ v2 = 0 /\ v3 = 0 /\ v4 = 0 /\ v5 = 0 /\ v6 = 0 /\ v7 = 0 /\ v8 = 0 /\ v9 = 0
       /\ v10 = 0 /\ v11 = 0 /\ v12 = 0 /\ v13 = 0 /\ v14 = 0 /\ v15 = 0 /\ v16 = 0 /\ v17 = 0 /\ v18 = 0
    \/ /\ component = "versions" /\ Cm!Init /\ NoList
       /\ v7 = 0 /\ v8 = 0 /\ v9 = 0 /\ v10 = 0 /\ v11 = 0 /\ v12 = 0 /\ v13 = 0 /\ v14 = 0 /\ v15 = 0
       /\ v16 = 0 /\ v17 = 0 /\ v18 = 0
    \/ /\ component = "metadata" /\ Md!Init /\ NoList
       /\ v14 = 0 /\ v15 = 0 /\ v16 = 0 /\ v17 = 0 /\ v18 = 0
    \/ /\ component = "names" /\ Nm!Init /\ NoList
       /\ v4 = 0 /\ v5 = 0 /\ v6 = 0 /\ v7 = 0 /\ v8 = 0 /\ v9 = 0 /\ v10 = 0 /\ v11 = 0 /\ v12 = 0
       /\ v13 = 0 /\ v14 = 0 /\ v15 = 0 /\ v16 = 0 /\ v17 = 0 /\ v18 = 0
    \/ /\ component = "keyring" /\ Kr!Init /\ NoList
       /\ v11 = 0 /\ v12 = 0 /\ v13 = 0 /\ v14 = 0 /\ v15 = 0 /\ v16 = 0 /\ v17 = 0 /\ v18 = 0
    \/ /\ component = "gzip" /\ Gz!Init /\ NoList
    \/ /\ component = "header" /\ Hd!Init /\ NoList
       /\ v13 = 0 /\ v14 = 0 /\ v15 = 0 /\ v16 = 0 /\ v17 = 0 /\ v18 = 0
    \/ /\ component = "shared files" /\ Sf!Init /\ NoList
       /\ v10 = 0 /\ v11 = 0 /\ v12 = 0 /\ v13 = 0 /\ v14 = 0 /\ v15 = 0 /\ v16 = 0 /\ v17 = 0 /\ v18 = 0
    \/ /\ component = "configuration" /\ Yc!Init /\ NoList
       /\ v12 = 0 /\ v13 = 0 /\ v14 = 0 /\ v15 = 0 /\ v16 = 0 /\ v17 = 0 /\ v18 = 0
    \/ /\ component = "space" /\ Sp!Init /\ NoList
       /\ v14 = 0 /\ v15 = 0 /\ v16 = 0 /\ v17 = 0 /\ v18 = 0
    \/ /\ component = "disk" /\ Dk!Init /\ NoList
       /\ v17 = 0 /\ v18 = 0
    \/ /\ component = "groups" /\ Gr!Init /\ NoList
       /\ v10 = 0 /\ v11 = 0 /\ v12 = 0 /\ v13 = 0 /\ v14 = 0 /\ v15 = 0 /\ v16 = 0 /\ v17 = 0 /\ v18 = 0
    \/ /\ component = "selection" /\ Gr!SelectInit /\ NoList
       /\ v17 = 0 /\ v18 = 0

MCNext ==
    /\ UNCHANGED component
    /\ \/ component = "architectures" /\ Next /\ UNCHANGED cells
       \/ component = "versions" /\ Cm!Next /\ UNCHANGED <<archVars, v7, v8, v9, v10, v11, v12, v13, v14, v15, v16, v17, v18>>
       \/ component = "metadata" /\ Md!Next /\ UNCHANGED <<archVars, v14, v15, v16, v17, v18>>
       \/ component = "names" /\ Nm!Next
          /\ UNCHANGED <<archVars, v4, v5, v6, v7, v8, v9, v10, v11, v12, v13, v14, v15, v16, v17, v18>>
       \/ component = "keyring" /\ Kr!Next /\ UNCHANGED <<archVars, v11, v12, v13, v14, v15, v16, v17, v18>>
       \/ component = "gzip" /\ Gz!Next /\ UNCHANGED archVars
       \/ component = "header" /\ Hd!Next /\ UNCHANGED <<archVars, v13, v14, v15, v16, v17, v18>>
       \/ component = "shared files" /\ Sf!Next /\ UNCHANGED <<archVars, v10, v11, v12, v13, v14, v15, v16, v17, v18>>
       \/ component = "configuration" /\ Yc!Next /\ UNCHANGED <<archVars, v12, v13, v14, v15, v16, v17, v18>>
       \/ component = "space" /\ Sp!Next /\ UNCHANGED <<archVars, v14, v15, v16, v17, v18>>
       \/ component = "disk" /\ Dk!Next /\ UNCHANGED <<archVars, v17, v18>>
       \/ component = "groups" /\ Gr!Next /\ UNCHANGED <<archVars, v10, v11, v12, v13, v14, v15, v16, v17, v18>>
       \/ component = "selection" /\ Gr!SelectNext /\ UNCHANGED <<archVars, v17, v18>>

MCSpec == MCInit /\ [][MCNext]_<<component, archVars, cells>>

-----------------------------------------------------------------------------
(* The components stay within the assumptions of their modules, and have   *)
(* the properties of these, each with the types of its states.             *)

ASSUME ComponentsAssumption ==
    Cm!CompareAssumption /\ Md!MetadataAssumption /\ Sf!SharedFilesAssumption /\ Sp!SpaceAssumption
      /\ Nm!NamesAssumption /\ Hd!HeaderAssumption

\* What packages are chosen by: labelCompare() and rangeCompare() give an order of
\* versions and the ranges in it; the best architecture is taken, whatever the order
\* of the packages, and of two that go together one is higher.
ComparisonsRight ==
    /\ component = "versions" => Cm!TypeOK /\ Cm!AgreesWithElements /\ Cm!RangesMeet
    /\ component = "architectures" => BestFirst /\ OneIsHigher

\* The metadata that createrepo writes both readers answer the same way, prerequisites
\* included, and the names of files a package has are those of filelists.xml once it is
\* read; what createRepo() writes is read into memory alone, without filelists.xml.
\* By the forms of their names packages are found alike in all databases.  A group of
\* comps.xml is installed whole, with the packages of the languages.
ReadersAgree ==
    /\ component = "metadata" => Md!TypeOK /\ Md!SearchesAgree /\ Md!PrereqsKept /\ Md!FilesCurrent
    /\ component = "names" => Nm!SearchesAgree /\ Nm!SplitRight
    /\ component = "groups" => Gr!GroupsWhole /\ Gr!TypesKnown

\* The key ring has all keys of the files it took and no others, and a signature is
\* judged by them as their primary keys were when it was made.
KeysRight == component = "keyring" => Kr!RingComplete /\ Kr!VerdictsSound

\* What PyGZIP.read() and readline() return is what was compressed, in order.
StreamRight == component = "gzip" => Gz!InOrder /\ Gz!OneMemberWhole

\* A header keeps its values from the package to the database and back, the region
\* that signatures are for included.
HeaderKept == component = "header" => Hd!ValuesKept /\ Hd!ImmutableKept

\* A path that several packages share is there with the type, and if it is a regular
\* file with the contents and the mode, that every one of them expects beside which no
\* package of a higher architecture has stood; and it has the owner that the package
\* which wrote it names, if that account was known by then.
SharedRight == component = "shared files" => Sf!SharedRight /\ Sf!OwnerKnown

\* The settings and repositories in use are those that are written in the files.
ConfRight == component = "configuration" => Yc!SettingsAsWritten /\ Yc!ReposAsWritten

\* A transaction that was let through keeps the slack on every device.
SlackKept == component = "space" => Sp!TypeOK /\ Sp!SlackKept

\* Loop devices show their partitions and are given back in the end, except where a call
\* fails that gives one back, binds or mounts it, and clearpart
\* --linux removes the partitions of Linux and leaves the others alone.  The packages
\* of an installation are those that the kickstart file asks for and needs.
InstallerRight ==
    /\ component = "disk" => Dk!TypeOK /\ Dk!LoopsMatch /\ Dk!LoopsReturned /\ Dk!LinuxCleared
    /\ component = "selection" => Gr!SelectionRight

=============================================================================
