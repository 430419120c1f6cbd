------------------------------ MODULE YumConf --------------------------------
(***************************************************************************)
(* The configuration of yum (class YumConf and RpmYum.addRepos() of        *)
(* pyrpm/yum.py): files of sections are read line by line into one         *)
(* dictionary, variables are replaced in it, and the repositories that are *)
(* enabled in it or on the command line are read.                          *)
(*                                                                         *)
(* A line is [kind, key, words]: a section with its name in key, a         *)
(* setting, an indented line (with or without a key), a comment or empty,  *)
(* or anything else.  A word is a sequence of pieces of text, of which     *)
(* some are variables.  Every value is a sequence of words, of one if the  *)
(* key is not in MultilineVarnames.                                        *)
(***************************************************************************)
EXTENDS Naturals, Sequences, SequencesExt, Functions, TLC

CONSTANTS
    MainFile,          \* contents /etc/yum.conf may have
    RepoFile,          \* contents the files in the directories of repositories may have: functions
    MainVarnames, RepoVarnames, MultilineVarnames,
    Dirs,              \* directories with a file each, by what names them in reposdir
    Variables,         \* text for $basearch and the like
    Options,           \* [relver, enablerepo, disablerepo, installed]: the command line, and
                       \* the versions of those packages installed that a distroverpkg may be
    Unreadable         \* repositories that cannot be read

VARIABLES
    etc,               \* the files: yum.conf and those of the directories
    option,
    files,             \* files to parse
    at,                \* number of the line that comes next
    stanza, prevcommand,
    conf,
    stage,
    todo,              \* sections addRepos() has not come to
    exactarch, repos

confVars == <<etc, option, files, at, stanza, prevcommand, conf, stage, todo, exactarch, repos>>

None == ""
Conf == "yum.conf"
Empty == [s \in {} |-> {}]

Init ==
    /\ etc \in {(Conf :> main) @@ repo : main \in MainFile, repo \in RepoFile}
    /\ option \in Options
    /\ files = <<Conf>> /\ at = 1 /\ stanza = "main" /\ prevcommand = None
    /\ conf = Empty /\ stage = "parse"
    /\ todo = {} /\ exactarch = FALSE /\ repos = {}

-----------------------------------------------------------------------------
(* parseFile()                                                             *)

Lines == etc[Head(files)]
Line == Lines[at]
Parsing == stage = "parse" /\ files # <<>>

NextLine == at' = at + 1
Kept == UNCHANGED <<etc, option, files, stage, todo, exactarch, repos>>

Mut_SectionKeepsCommand ==
    /\ Parsing /\ at <= Len(Lines) /\ Line.kind = "section"
    /\ stanza' = Line.key
    /\ NextLine /\ Kept /\ UNCHANGED <<conf, prevcommand>>

Section ==
    /\ Parsing /\ at <= Len(Lines) /\ Line.kind = "section"
    /\ stanza' = Line.key /\ prevcommand' = None
    /\ NextLine /\ Kept /\ UNCHANGED conf

\* The words of a line that goes on, which may look like a setting.
WordsOf(line) ==
    IF line.key = None THEN line.words ELSE <<<<line.key, "=">> \o Head(line.words)>> \o Tail(line.words)

Continuation ==
    /\ Parsing /\ at <= Len(Lines) /\ Line.kind = "indented" /\ prevcommand # None
    /\ conf' = [conf EXCEPT ![stanza][prevcommand] = @ \o WordsOf(Line)]
    /\ NextLine /\ Kept /\ UNCHANGED <<stanza, prevcommand>>

\* Empty lines and comments, indented or not, end nothing.
Comment ==
    /\ Parsing /\ at <= Len(Lines) /\ Line.kind = "comment"
    /\ NextLine /\ Kept /\ UNCHANGED <<conf, stanza, prevcommand>>

IsSetting == Line.kind = "setting" \/ (Line.kind = "indented" /\ prevcommand = None /\ Line.key # None)
Varnames == IF stanza = "main" THEN MainVarnames ELSE RepoVarnames
Get(c, s) == IF s \in DOMAIN c THEN c[s] ELSE Empty

Setting ==
    /\ Parsing /\ at <= Len(Lines) /\ IsSetting
    /\ Line.key \in Varnames
    /\ conf' = (stanza :> ((Line.key :> Line.words) @@ Get(conf, stanza))) @@ conf
    /\ prevcommand' = IF Line.key \in MultilineVarnames THEN Line.key ELSE None
    /\ NextLine /\ Kept /\ UNCHANGED stanza

\* A ValueError, which addRepos() does not expect.
BadLine ==
    /\ Parsing /\ at <= Len(Lines)
    /\ \/ IsSetting /\ Line.key \notin Varnames
       \/ Line.kind = "indented" /\ prevcommand = None /\ Line.key = None
       \/ Line.kind = "other"
    /\ stage' = "raised"
    /\ UNCHANGED <<etc, option, files, at, stanza, prevcommand, conf, todo, exactarch, repos>>

-----------------------------------------------------------------------------
(* YumConf.__init__()                                                      *)

\* `reposdir` is one string; k.split(" \t,;") does not take it apart.
RepoDirs(c) ==
    IF "reposdir" \notin DOMAIN Get(c, "main") THEN Dirs
    ELSE {d \in Dirs : c["main"]["reposdir"] = <<<<d>>>>}

\* The end of a file.  After yum.conf come the files of the repositories.
NextFile ==
    /\ Parsing /\ at > Len(Lines)
    /\ files' \in IF Head(files) = Conf THEN SetToSeqs(RepoDirs(conf)) ELSE {Tail(files)}
    /\ at' = 1 /\ stanza' = "main" /\ prevcommand' = None
    /\ UNCHANGED <<etc, option, conf, stage, todo, exactarch, repos>>

Distroverpkg(c) ==
    IF "distroverpkg" \in DOMAIN Get(c, "main") THEN Head(Head(c["main"]["distroverpkg"]))
    ELSE "redhat-release"

\* prepareTransaction() puts the version of an installed redhat-release in the place
\* of the option before it calls addRepos().
ConfigRelver ==
    IF "redhat-release" \in DOMAIN option.installed THEN option.installed["redhat-release"]
    ELSE option.relver

\* That, or the version of a package in the database, or nothing.
Relver(c) ==
    IF ConfigRelver # None THEN ConfigRelver
    ELSE IF Distroverpkg(c) \in DOMAIN option.installed THEN option.installed[Distroverpkg(c)]
    ELSE ""

BuildReplaceVars(c) == ("$releasever" :> Relver(c)) @@ Variables

ReplaceVars(replacevars, word) ==
    [i \in DOMAIN word |-> IF word[i] \in DOMAIN replacevars THEN replacevars[word[i]] ELSE word[i]]

Replace ==
    /\ stage = "parse" /\ files = <<>>
    /\ LET vars == BuildReplaceVars(conf)
       IN  conf' = [s \in DOMAIN conf |-> [k \in DOMAIN conf[s] |->
                       [i \in DOMAIN conf[s][k] |-> ReplaceVars(vars, conf[s][k][i])]]]
    /\ stage' = "repos" /\ todo' = DOMAIN conf
    /\ UNCHANGED <<etc, option, files, at, stanza, prevcommand, exactarch, repos>>

-----------------------------------------------------------------------------
(* addRepos(): the sections in the order of a dictionary.                  *)

Is(c, s, key, text) == key \in DOMAIN c[s] /\ c[s][key] = <<<<text>>>>

\* keepcache=0 sets exactarch, not keepcache.
Main ==
    /\ stage = "repos" /\ "main" \in todo
    /\ todo' = todo \ {"main"}
    /\ exactarch' = IF Is(conf, "main", "keepcache", "0") THEN FALSE
                    ELSE exactarch \/ Is(conf, "main", "exactarch", "1")
    /\ UNCHANGED <<etc, option, files, at, stanza, prevcommand, conf, stage, repos>>

Enabled(c, s) ==
    /\ s \notin option.disablerepo
    /\ s \in option.enablerepo \/ ~Is(c, s, "enabled", "0")

Skip(s) ==
    /\ stage = "repos" /\ s \in todo \ {"main"} /\ ~Enabled(conf, s)
    /\ todo' = todo \ {s}
    /\ UNCHANGED <<etc, option, files, at, stanza, prevcommand, conf, stage, exactarch, repos>>

AddRepo(s) ==
    /\ stage = "repos" /\ s \in todo \ {"main"} /\ Enabled(conf, s)
    /\ IF s \in Unreadable THEN stage' = "failed" /\ UNCHANGED <<repos, todo>>
       ELSE repos' = repos \union {s} /\ todo' = todo \ {s} /\ UNCHANGED stage
    /\ UNCHANGED <<etc, option, files, at, stanza, prevcommand, conf, exactarch>>

Added ==
    /\ stage = "repos" /\ todo = {}
    /\ stage' = "done"
    /\ UNCHANGED <<etc, option, files, at, stanza, prevcommand, conf, todo, exactarch, repos>>

Next ==
    \/ Section \/ Continuation \/ Comment \/ Setting \/ BadLine \/ NextFile \/ Replace
    \/ Main \/ Added
    \/ \E s \in todo : Skip(s) \/ AddRepo(s)

Spec == Init /\ [][Next]_confVars

-----------------------------------------------------------------------------
(* What the files say, line by line of its own.                            *)

SectionOf(f, i) ==
    LET above == {j \in 1..i : etc[f][j].kind = "section"}
    IN  IF above = {} THEN "main" ELSE etc[f][CHOOSE j \in above : \A k \in above : k <= j].key

\* Line j goes on with the setting of several words in line i.
GoesOn(f, i, j) ==
    /\ i < j /\ etc[f][i].key \in MultilineVarnames
    /\ \A k \in i + 1 .. j : etc[f][k].kind \in {"indented", "comment"}

\* The lines of a file that set key in section s.
Sets(f, s, key) ==
    {i \in DOMAIN etc[f] :
        /\ etc[f][i].kind \in {"setting", "indented"} /\ etc[f][i].key = key
        /\ SectionOf(f, i) = s
        /\ ~\E j \in 1..(i - 1) : /\ etc[f][j].kind \in {"setting", "indented"}
                                   /\ etc[f][i].kind = "indented" /\ GoesOn(f, j, i)}

\* What the last of them says.
Written(f, s, key) ==
    LET last == CHOOSE i \in Sets(f, s, key) : \A j \in Sets(f, s, key) : j <= i
        on == [j \in DOMAIN etc[f] |->
                 IF etc[f][j].kind = "indented" /\ GoesOn(f, last, j) THEN WordsOf(etc[f][j]) ELSE <<>>]
    IN  etc[f][last].words \o FlattenSeq(on)

\* What the files come to; those of the repositories are read after yum.conf, in any
\* order.
Stands(s, key) ==
    LET dirs == {d \in RepoDirs(conf) : Sets(d, s, key) # {}}
        last == IF dirs # {} THEN dirs ELSE {f \in {Conf} : Sets(f, s, key) # {}}
    IN  {Written(f, s, key) : f \in last}

\* Text is what $releasever stands for: the version of redhat-release where that is
\* installed, whatever the command line asks for; else what the command line asks for;
\* else the version of the package the files name, and nothing if that is not installed.
IsRelease(text) ==
    LET installed == option.installed
        named == {Head(Head(words)) : words \in Stands("main", "distroverpkg")}
    IN  /\ "redhat-release" \in DOMAIN installed => text = installed["redhat-release"]
        /\ "redhat-release" \notin DOMAIN installed =>
              /\ option.relver # None => text = option.relver
              /\ option.relver = None =>
                    \/ \E pkg \in named \intersect DOMAIN installed : text = installed[pkg]
                    \/ text = "" /\ (named = {} \/ ~(named \subseteq DOMAIN installed))

Releases == {text \in Range(option.installed) \union {option.relver, ""} : IsRelease(text)}

\* That with the variables replaced, each in its place.
Says(s, key) ==
    {[i \in DOMAIN words |-> [j \in DOMAIN words[i] |->
        CASE words[i][j] = "$releasever" -> release
          [] words[i][j] \in DOMAIN Variables -> Variables[words[i][j]]
          [] OTHER -> words[i][j]]] : words \in Stands(s, key), release \in Releases}

Sections == {"main"} \union UNION {{l.key : l \in {m \in Range(etc[f]) : m.kind = "section"}} : f \in DOMAIN etc}
Named == {s \in Sections : \E key \in MainVarnames \union RepoVarnames : Says(s, key) # {}}

\* When the configuration was read, every setting of the files is in it, and has what
\* the last line that sets it says, with the indented lines that follow it up to
\* another setting or section.
SettingsAsWritten ==
    stage \in {"repos", "failed", "done"} =>
        \A s \in Sections, key \in MainVarnames \union RepoVarnames :
            IF key \in DOMAIN Get(conf, s) THEN conf[s][key] \in Says(s, key) ELSE Says(s, key) = {}

\* If addRepos() succeeds, the repositories are those the files name without those
\* that are disabled, by the command line or else by the files.
ReposAsWritten ==
    stage = "done" =>
        /\ repos \subseteq Named \ ({"main"} \union option.disablerepo)
        /\ \A s \in Named \ ({"main"} \union option.disablerepo) :
              /\ s \in repos => s \in option.enablerepo \/ Says(s, "enabled") # {<<<<"0">>>>}
              /\ s \notin repos => s \notin option.enablerepo /\ <<<<"0">>>> \in Says(s, "enabled")

=============================================================================
