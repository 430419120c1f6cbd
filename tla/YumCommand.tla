----------------------------- MODULE YumCommand ------------------------------
(***************************************************************************)
(* A whole call of pyrpmyum: what was asked for is remembered before the   *)
(* dependencies are resolved (_generateTransactionState), and compared     *)
(* with the transaction afterwards when runCommand() shows it in groups    *)
(* and asks the user; then the controller orders and runs it.  `list`      *)
(* shows what an update would do instead.                                  *)
(*                                                                         *)
(* RpmController is the abstract one here: operations are carried out in   *)
(* some order until one fails.                                             *)
(***************************************************************************)
EXTENDS Yum

VARIABLES
    before,   \* __iinstalls, __ierases, __iupdates, __iobsoletes
    stage,    \* of runCommand()
    shown,    \* heading |-> packages
    system,   \* the packages in the database on disk
    left      \* the operations to do

commandVars == <<before, stage, shown, system, left>>
cvars == <<yvars, commandVars>>

Groups == {"install", "update", "obsolete", "erase"}
Nothing == [installs |-> {}, erases |-> {},
            updates |-> [p \in Pkg |-> {}], obsoletes |-> [p \in Pkg |-> {}]]

CommandInit ==
    /\ YumInit
    /\ before = Nothing /\ stage = "select" /\ system = Installed /\ left = {}
    /\ shown = [g \in Groups |-> {}]

-----------------------------------------------------------------------------
(* The transaction, without the packages that are part of an update or of  *)
(* an obsoletion.                                                          *)

GenerateTransactionState ==
    LET replacing == {p \in Pkg : updates[p] \union obsoletes[p] # {}}
        replaced == UNION {updates[p] \union obsoletes[p] : p \in Pkg}
    IN  [installs |-> installs \ replacing, erases |-> erases \ replaced,
         updates |-> updates, obsoletes |-> obsoletes]

\* runArgs() ends with it, runDepRes() begins.
SelectionEnds == stack' # <<>> /\ Head(stack').f = "main" /\ Head(stack').at = "turn"

Select ==
    /\ YumNext
    /\ IF stage = "select" /\ SelectionEnds
       THEN before' = GenerateTransactionState' /\ stage' = "resolve"
       ELSE UNCHANGED <<before, stage>>
    /\ UNCHANGED <<shown, system, left>>

-----------------------------------------------------------------------------
(* runCommand().                                                           *)

Replacing(f) == {p \in Pkg : f[p] # {}}

\* Mutant: only the updates that were asked for are gone through.
Mut_AddedByAsked(f, g) == {p \in Replacing(g) : f[p] \ g[p] # {}}

\* Of an update that was asked for, those with more old packages than it had.
AddedBy(f, g) == {p \in Pkg : f[p] \ g[p] # {}}

\* What was asked for, then what the dependencies brought.
Summary ==
    LET now == GenerateTransactionState
    IN  [g \in Groups |->
           CASE g = "install" -> before.installs \union (now.installs \ before.installs)
             [] g = "update" -> Replacing(before.updates) \union AddedBy(now.updates, before.updates)
             [] g = "obsolete" -> Replacing(before.obsoletes) \union AddedBy(now.obsoletes, before.obsoletes)
             [] OTHER -> before.erases \union (now.erases \ before.erases)]

Show ==
    /\ stage = "resolve" /\ result = "accepted"
    /\ IF installs \union erases = {} THEN stage' = "done" /\ UNCHANGED shown
       ELSE shown' = Summary /\ stage' = "ask"
    /\ UNCHANGED <<yvars, before, system, left>>

\* Without the question, as in a test run, the answer is yes.
IsThisOk ==
    /\ stage = "ask"
    /\ stage' \in {"order", "done"}
    /\ UNCHANGED <<yvars, before, shown, system, left>>

\* getOperations() has none to give if there is not enough space; a test run
\* goes no further.
GetOperations ==
    /\ stage = "order"
    /\ \/ stage' = "run" /\ left' = {<<"install", p>> : p \in installs} \union {<<"erase", p>> : p \in erases}
       \/ stage' \in {"done", "failed"} /\ UNCHANGED left
    /\ UNCHANGED <<yvars, before, shown, system>>

RunOperation(o) ==
    /\ stage = "run" /\ o \in left
    /\ left' = left \ {o}
    /\ system' = IF o[1] = "install" THEN system \union {o[2]} ELSE system \ {o[2]}
    /\ UNCHANGED <<yvars, before, stage, shown>>

EndRun ==
    /\ stage = "run"
    /\ stage' = IF left = {} THEN "done" ELSE "failed"
    /\ UNCHANGED <<yvars, before, shown, system, left>>

CommandNext ==
    \/ Select
    \/ Show \/ IsThisOk \/ GetOperations \/ EndRun
    \/ \E o \in left : RunOperation(o)

CommandSpec == CommandInit /\ [][CommandNext]_cvars /\ WF_cvars(Select)

-----------------------------------------------------------------------------
(* Lists.                                                                  *)

NA(p) == <<Name[p], Arch[p]>>
MatchesArgs(p) == request.args = {} \/ Name[p] \in request.args

GetInstalled == {p \in Installed : MatchesArgs(p)}
GetRepoPkgs == {p \in Available : MatchesArgs(p)}

\* Mutant: the updates are left out.
Mut_GetAvailableNoUpdates ==
    {p \in GetRepoPkgs :
        /\ \A r \in GetInstalled : NA(r) # NA(p)
        /\ \A q \in GetRepoPkgs : NA(q) = NA(p) => Evr[q] <= Evr[p]}

\* The newest package of every name and architecture that is not installed in
\* any version, and the updates.
GetAvailable ==
    {p \in GetRepoPkgs :
        /\ \A r \in GetInstalled : NA(r) # NA(p)
        /\ \A q \in GetRepoPkgs : NA(q) = NA(p) => Evr[q] <= Evr[p]} \union installs

\* What the kinds of lists show, all of them being the default.
List(kind) ==
    CASE kind = "installed" -> GetInstalled
      [] kind = "updates" -> installs
      [] kind = "available" -> GetAvailable
      [] kind = "all" -> GetInstalled \union GetAvailable

-----------------------------------------------------------------------------
(* What the command promises.                                              *)

Confirming == stage \in {"ask", "order", "run"}
Added == shown["install"] \union shown["update"] \union shown["obsolete"]

\* Nothing is done that was not shown: a package that goes in has a line of its
\* own, one that goes out has one or is the old package of an update or of an
\* obsoletion that is shown, by a package that is in the system afterwards, however
\* the resolution of dependencies has changed what was asked for.
DoneIsShown ==
    Confirming =>
        /\ installs \subseteq Added
        /\ \A r \in erases \ shown["erase"] :
               \E p \in System \intersect (shown["update"] \union shown["obsolete"]) :
                   /\ r \in updates[p] \union obsoletes[p]
                   /\ ~request.autoerase => p \in installs

\* What is shown outlasts the resolution of dependencies, but for what autoerase has
\* taken back: it is in the system afterwards, or what took its place in its turn,
\* which is not what was shown.
ShownIsKept ==
    Confirming /\ ~request.autoerase => \A p \in Added : Heirs(p) \intersect System # {}

\* What is there and what was asked for outlast the turns of the loop: nothing that was
\* erased comes back, and nothing is lost on the way but to a successor.
RequestKept == ErasedStays /\ NothingLost /\ ShownIsKept

\* No package of the repositories that was asked for is left out of the list of all:
\* it is there, or a newer one, or one that obsoletes it.  What is listed as an update
\* takes the place of something installed, by any chain of updates and obsoletes, or is
\* a language package of something listed; and every installed package of which there
\* is a newer one has such a successor in that list.
ListsComplete ==
    result = "listed" =>
        /\ \A p \in GetRepoPkgs : \E q \in List("all") :
               (NA(q) = NA(p) /\ Evr[q] >= Evr[p]) \/ <<q, p>> \in Obsoletes
        /\ \A q \in List("updates") :
               \/ \E p \in Installed : q \in Heirs(p)
               \/ \E r \in List("updates") :
                      Name[r] \in DOMAIN LanguageNames /\ Name[q] \in LanguageNames[Name[r]]
        /\ \A p \in List("installed") :
               (\E q \in Available : NA(q) = NA(p) /\ Evr[q] > Evr[p]) =>
                   Heirs(p) \intersect List("updates") # {}

\* What the repositories offer instead of other packages is taken, and shown.
OffersTaken == ObsoletesApplied /\ ListsComplete

=============================================================================
