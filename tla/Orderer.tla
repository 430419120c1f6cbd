------------------------------ MODULE Orderer -------------------------------
(***************************************************************************)
(* RpmOrderer, RpmRelations, ConnectedComponent and                        *)
(* ConnectedComponentsDetector (pyrpm/orderer.py): the packages of a       *)
(* transaction are put in an order in which requirements come first;       *)
(* cycles are found with Gabow's algorithm, merged into one node, and      *)
(* broken requirement by requirement when their turn comes.                *)
(*                                                                         *)
(* A node of the graph is the set of the packages it stands for with the   *)
(* number of the component it is; a package itself is a node of number 0.  *)
(* Where the code iterates over a dictionary every order is possible.  The *)
(* sets post of the code are read off the sets pre.                        *)
(***************************************************************************)
EXTENDS Integers, FiniteSets, Sequences, SequencesExt, FiniteSetsExt

CONSTANTS
    Pkg,
    Requests,     \* what a resolver may hand over: installs, erases, updates, obsoletes
    Requirements  \* sets of <<p, q, kind>>: q provides what p requires

ASSUME OrdererAssumption ==
    /\ \A r \in Requests :
          /\ r.installs \subseteq Pkg /\ r.erases \subseteq Pkg
          /\ {r.updates, r.obsoletes} \subseteq [r.installs -> SUBSET (Pkg \ r.installs)]
    /\ IsFiniteSet(Pkg)
    /\ Requirements \subseteq
          SUBSET (Pkg \X Pkg \X {"soft", "legacy", "install", "erase", "config"})

VARIABLES
    request, requires,  \* the transaction and the requirements among its packages
    queue,              \* what is left: orders to find, operations to give
    operations,         \* the operations so far
    graph,              \* RpmRelations: node |-> (node it requires |-> is it hard?)
    order,              \* the order so far of the packages that are being ordered
    components,         \* the components that are broken up, the innermost first
    pkgs,               \* ConnectedComponent.pkgs, for every component there was
    stage,              \* what is done next
    states, root_stack, pkg_stack, calls, sccs  \* ConnectedComponentsDetector

detector == <<states, root_stack, pkg_stack, calls, sccs>>
vars == <<request, requires, queue, operations, graph, order, components, pkgs, stage, detector>>

-----------------------------------------------------------------------------
(* The graph.                                                              *)

Single(p) == [of |-> {p}, nr |-> 0]
IsComponent(n) == n.nr > 0

Pre(g, n) == DOMAIN g[n]
Post(g, n) == {m \in DOMAIN g : n \in DOMAIN g[m]}

\* Mutant: the prerequisites of installing count when erasing, and the other way round.
Mut_OperationFlagSwapped(kind, op) ==
    kind = "legacy" \/ (op = "erase" /\ kind = "install") \/ (op = "install" /\ kind = "erase")

\* operationFlag(): is a requirement hard in an operation?
OperationFlag(kind, op) ==
    \/ kind = "legacy"
    \/ op = "erase" /\ kind = "erase"
    \/ op # "erase" /\ kind = "install"

\* RpmRelations.genRelations(), addRelation(): hard requirements are preferred.
GenRelations(ps, op) ==
    LET Kinds(p, q) == {k \in {"soft", "legacy", "install", "erase"} : <<p, q, k>> \in requires}
        Required(p) == {q \in ps \ {p} : Kinds(p, q) # {}}
    IN  [n \in {Single(p) : p \in ps} |->
            LET p == CHOOSE x \in n.of : TRUE
            IN  [m \in {Single(q) : q \in Required(p)} |->
                    \E q \in m.of : \E k \in Kinds(p, q) : OperationFlag(k, op)]]

RemoveNode(g, n) ==
    [m \in DOMAIN g \ {n} |-> [x \in DOMAIN g[m] \ {n} |-> g[m][x]]]

RemoveRelation(g, n, m) ==
    [g EXCEPT ![n] = [x \in DOMAIN g[n] \ {m} |-> g[n][x]]]

\* ConnectedComponent(): node c takes over the relations of ns to other nodes.
\* What required one of them requires the component, by the flag in post, which is 1.
Merge(g, c, ns) ==
    LET Outside == (UNION {DOMAIN g[n] : n \in ns}) \ ns
    IN  [m \in DOMAIN g \union {c} |->
            IF m = c THEN [x \in Outside |-> \E n \in ns : x \in DOMAIN g[n] /\ g[n][x]]
            ELSE IF m \in ns THEN [x \in DOMAIN g[m] \intersect ns |-> g[m][x]]
            ELSE IF DOMAIN g[m] \intersect ns = {} THEN g[m]
            ELSE [x \in (DOMAIN g[m] \ ns) \union {c} |-> IF x = c THEN TRUE ELSE g[m][x]]]

\* The nodes that are ordered now: of the component that is broken up, or all.
Current == IF components = <<>> THEN DOMAIN graph ELSE pkgs[Head(components)]

-----------------------------------------------------------------------------
(* RpmOrderer: genOrder() and genOperations().                             *)

ToOrder(op, ps) == [do |-> "order", op |-> op, of |-> ps]
ToDo(op, p) == [do |-> op, op |-> op, of |-> {p}]

Replaced(r) == UNION {r.updates[p] \union r.obsoletes[p] : p \in r.installs}

\* No package comes and goes, and none is replaced twice. It is a hypothesis of the
\* proofs only: genOperations() gives a package as often as it is listed. A resolver
\* without autoerase hands over nothing else (ReplacedOnce of Resolver).
HandedOverOnce ==
    \A r \in Requests :
       /\ r.installs \intersect r.erases = {}
       /\ \A p \in r.installs : r.updates[p] \intersect r.obsoletes[p] = {}
       /\ \A p, q \in r.installs : p # q =>
             (r.updates[p] \union r.obsoletes[p]) \intersect (r.updates[q] \union r.obsoletes[q]) = {}

\* RpmOrderer(), genOrder(): packages that are replaced are not erased on their own.
Init ==
    /\ request \in Requests
    /\ requires \in Requirements
    /\ queue = << ToOrder("install", request.installs),
                  ToOrder("erase", request.erases \ Replaced(request)) >>
    /\ operations = <<>> /\ order = <<>> /\ components = <<>>
    /\ graph = <<>> /\ pkgs = <<>>
    /\ stage = "idle"
    /\ states = <<>> /\ root_stack = <<>> /\ pkg_stack = <<>> /\ calls = <<>> /\ sccs = <<>>

\* genOperations(): what follows from an order that was found.
GenOperations(op, ps) ==
    IF op = "erase" THEN [i \in DOMAIN ps |-> ToDo("erase", ps[i])]
    ELSE FlattenSeq([i \in DOMAIN ps |->
            << ToDo(IF request.updates[ps[i]] # {} THEN "update" ELSE "install", ps[i]),
               ToOrder("erase", request.obsoletes[ps[i]]),
               ToOrder("erase", request.updates[ps[i]]) >>])

\* One package or none needs no order; else the relations are built.
Start ==
    /\ stage = "idle" /\ queue # <<>> /\ Head(queue).do = "order"
    /\ LET job == Head(queue)
       IN  IF Cardinality(job.of) <= 1
           THEN /\ queue' = GenOperations(job.op, SetToSeq(job.of)) \o Tail(queue)
                /\ UNCHANGED <<graph, stage>>
           ELSE /\ graph' = GenRelations(job.of, job.op)
                /\ stage' = "detect"
                /\ UNCHANGED queue
    /\ order' = <<>> /\ pkgs' = <<>>
    /\ UNCHANGED <<request, requires, operations, components, detector>>

\* Erasures are ordered like installations and then reversed.
Ordered ==
    /\ stage = "ordered"
    /\ LET job == Head(queue)
           ps == IF job.op = "erase" THEN Reverse(order) ELSE order
       IN  queue' = GenOperations(job.op, ps) \o Tail(queue)
    /\ stage' = "idle"
    /\ UNCHANGED <<request, requires, operations, graph, order, components, pkgs, detector>>

Emit ==
    /\ stage = "idle" /\ queue # <<>> /\ Head(queue).do # "order"
    /\ operations' = Append(operations, Head(queue))
    /\ queue' = Tail(queue)
    /\ UNCHANGED <<request, requires, graph, order, components, pkgs, stage, detector>>

-----------------------------------------------------------------------------
(* ConnectedComponentsDetector: a depth first search with two stacks.      *)

\* states[n] is 0 once n is known to be in a component of its own or a found one.
Detect ==
    /\ stage = "detect"
    /\ stage' = "scan"
    /\ states' = <<>> /\ root_stack' = <<>> /\ pkg_stack' = <<>> /\ calls' = <<>> /\ sccs' = <<>>
    /\ UNCHANGED <<request, requires, queue, operations, graph, order, components, pkgs>>

\* pkg_cnt is the number of nodes in states.
Visit(n) ==
    /\ states' = [m \in DOMAIN states \union {n} |->
                     IF m = n THEN Cardinality(DOMAIN states) + 1 ELSE states[m]]
    /\ pkg_stack' = Append(pkg_stack, n)
    /\ root_stack' = Append(root_stack, n)

\* detect(): the next node that has not been visited.
Root ==
    /\ stage = "scan" /\ calls = <<>>
    /\ \E n \in Current \ DOMAIN states :
          /\ Visit(n)
          /\ calls' = << [node |-> n, left |-> Pre(graph, n)] >>
    /\ UNCHANGED <<request, requires, queue, operations, graph, order, components, pkgs, stage, sccs>>

\* Mutant: one root is taken off the stack, not all above the older one.
Mut_CutRootsOnce(next) ==
    IF states[Last(root_stack)] > states[next] THEN Front(root_stack) ELSE root_stack

\* _process(): roots that can be reached from an older one are none.
CutRoots(next) ==
    LET Older == {i \in DOMAIN root_stack : states[root_stack[i]] <= states[next]}
    IN  SubSeq(root_stack, 1, IF Older = {} THEN 0 ELSE Max(Older))

\* _process(): one turn of the loop over the requirements.
Arc ==
    /\ stage = "scan" /\ calls # <<>> /\ Head(calls).left # {}
    /\ \E next \in Head(calls).left :
          LET rest == << [Head(calls) EXCEPT !.left = @ \ {next}] >> \o Tail(calls)
          IN  IF next \in DOMAIN states
              THEN /\ root_stack' = IF states[next] > 0 THEN CutRoots(next) ELSE root_stack
                   /\ calls' = rest
                   /\ UNCHANGED <<states, pkg_stack>>
              ELSE /\ Visit(next)
                   /\ calls' = << [node |-> next, left |-> Pre(graph, next)] >> \o rest
    /\ UNCHANGED <<request, requires, queue, operations, graph, order, components, pkgs, stage, sccs>>

\* _process(): going up; a root takes what is above it on the stack of nodes.
Up ==
    /\ stage = "scan" /\ calls # <<>> /\ Head(calls).left = {}
    /\ calls' = Tail(calls)
    /\ LET n == Head(calls).node
           from == CHOOSE i \in DOMAIN pkg_stack : pkg_stack[i] = n
           found == {pkg_stack[i] : i \in from .. Len(pkg_stack)}
       IN  IF Last(root_stack) = n
           THEN /\ root_stack' = Front(root_stack)
                /\ pkg_stack' = SubSeq(pkg_stack, 1, from - 1)
                /\ states' = [m \in DOMAIN states |-> IF m \in found THEN 0 ELSE states[m]]
                /\ sccs' = IF found = {n} THEN sccs ELSE Append(sccs, found)
           ELSE UNCHANGED <<root_stack, pkg_stack, states, sccs>>
    /\ UNCHANGED <<request, requires, queue, operations, graph, order, components, pkgs, stage>>

\* A search is over, and what it found becomes components.
Found ==
    /\ stage = "scan" /\ calls = <<>> /\ Current \subseteq DOMAIN states
    /\ stage' = "merge"
    /\ UNCHANGED <<request, requires, queue, operations, graph, order, components, pkgs, detector>>

\* The node of the next component.
Component(ns) == [of |-> UNION {n.of : n \in ns}, nr |-> Cardinality(DOMAIN pkgs) + 1]

\* detect(), and breakUp() with removeSubComponent(): one component becomes a node.
MergeNext ==
    /\ stage = "merge" /\ sccs # <<>>
    /\ LET ns == Head(sccs)
           node == Component(ns)
       IN  /\ graph' = Merge(graph, node, ns)
           /\ pkgs' = [x \in DOMAIN pkgs \union {node} |->
                         IF x = node THEN ns
                         ELSE IF components # <<>> /\ x = Head(components) THEN (pkgs[x] \ ns) \union {node}
                         ELSE pkgs[x]]
    /\ sccs' = Tail(sccs)
    /\ UNCHANGED <<request, requires, queue, operations, order, components, stage,
                   states, root_stack, pkg_stack, calls>>

AllMerged ==
    /\ stage = "merge" /\ sccs = <<>>
    /\ stage' = "collect"
    /\ UNCHANGED <<request, requires, queue, operations, graph, order, components, pkgs, detector>>

-----------------------------------------------------------------------------
(* Collecting leaves, and breaking up components.                          *)

\* processLeafNodes(): nodes that require nothing any more, those first that most
\* others require.
Leaves == {n \in Current : Pre(graph, n) = {}}
NextLeaves ==
    {n \in Leaves : \A m \in Leaves :
        Cardinality(Post(graph, m)) <= Cardinality(Post(graph, n))}

\* What collect() leaves behind once n is in the order.
Collected(n) ==
    /\ graph' = RemoveNode(graph, n)
    /\ pkgs' = IF components = <<>> THEN pkgs
               ELSE [pkgs EXCEPT ![Head(components)] = @ \ {n}]

\* collect()
Collect ==
    /\ stage = "collect"
    /\ \E n \in NextLeaves :
          IF IsComponent(n)
          THEN /\ components' = <<n>> \o components
               /\ stage' = "break"
               /\ UNCHANGED <<graph, order, pkgs>>
          ELSE /\ order' = order \o SetToSeq(n.of)
               /\ Collected(n)
               /\ UNCHANGED <<components, stage>>
    /\ UNCHANGED <<request, requires, queue, operations, detector>>

\* Mutant: the node of a component that was broken up stays in the graph.
Mut_BrokenUpStays ==
    /\ stage = "collect" /\ components # <<>> /\ Leaves = {}
    /\ components' = Tail(components)
    /\ UNCHANGED <<request, requires, queue, operations, graph, order, pkgs, stage, detector>>

\* breakUp() returns to the collect() it was called from.
BrokenUp ==
    /\ stage = "collect" /\ components # <<>> /\ Leaves = {}
    /\ components' = Tail(components)
    /\ LET n == Head(components)
       IN  /\ graph' = RemoveNode(graph, n)
           /\ pkgs' = IF Tail(components) = <<>> THEN pkgs
                      ELSE [pkgs EXCEPT ![components[2]] = @ \ {n}]
    /\ UNCHANGED <<request, requires, queue, operations, order, stage, detector>>

\* genOrder(): packages that are left over are only reported.
AllCollected ==
    /\ stage = "collect" /\ components = <<>> /\ Leaves = {}
    /\ stage' = "ordered"
    /\ UNCHANGED <<request, requires, queue, operations, graph, order, components, pkgs, detector>>

HardTargets == {m \in DOMAIN graph : \E n \in Current : m \in Pre(graph, n) /\ graph[n][m]}
SoftTargets(ns) == UNION {{m \in Pre(graph, n) : ~graph[n][m]} : n \in ns}

\* breakUp(): the nodes within k soft requirements of a target of a hard one.
Near[k \in 0 .. Cardinality(Current)] ==
    IF k = 0 THEN HardTargets ELSE Near[k-1] \union SoftTargets(Near[k-1])

\* breakUp(): the distance of every node that is reached.
Weights ==
    LET Steps == Cardinality(Current)
    IN  [n \in Near[Steps] |-> Min({k \in 0 .. Steps : n \in Near[k]})]

\* breakUp(): how likely a relation is to set a package free; tuples are compared
\* from left to right.
Freeing(n, m) ==
    LET pre == Cardinality(Pre(graph, n))   post == Cardinality(Post(graph, n))
        pre2 == Cardinality(Pre(graph, m))  post2 == Cardinality(Post(graph, m))
    IN  IF pre < post2 THEN <<-pre, post, -post2, pre>>
        ELSE IF pre > post2 THEN <<-post2, pre2, -pre, post2>>
        ELSE <<-pre, post + pre2>>

TupleLess(s, t) ==
    \/ Len(s) < Len(t) /\ \A i \in DOMAIN s : s[i] = t[i]
    \/ \E i \in DOMAIN s \intersect DOMAIN t :
          s[i] < t[i] /\ \A j \in 1 .. i-1 : s[j] = t[j]

Farthest(weights, ns) == {n \in ns : \A m \in ns : weights[m] <= weights[n]}

\* breakUp(): the requirement that is dropped goes to a node farthest from hard
\* requirements; a node without a weight on the way is a KeyError.
BreakFar ==
    LET weights == Weights
    IN  \E pkg2 \in Farthest(weights, DOMAIN weights) :
           IF ~(Post(graph, pkg2) \subseteq DOMAIN weights)
           THEN stage' = "raised" /\ UNCHANGED graph
           ELSE /\ \E pkg1 \in Farthest(weights, Post(graph, pkg2)) :
                      graph' = RemoveRelation(graph, pkg1, pkg2)
                /\ stage' = "detect"

\* breakUp(): without hard requirements, the one that sets a package free soonest.
BreakFreeing ==
    LET Relation == UNION {{<<n, m>> : m \in Pre(graph, n)} : n \in Current}
    IN  /\ \E r \in Relation :
              /\ \A q \in Relation : ~TupleLess(Freeing(r[1], r[2]), Freeing(q[1], q[2]))
              /\ graph' = RemoveRelation(graph, r[1], r[2])
        /\ stage' = "detect"

Break ==
    /\ stage = "break"
    /\ IF DOMAIN Weights # {} THEN BreakFar ELSE BreakFreeing
    /\ UNCHANGED <<request, requires, queue, operations, order, components, pkgs, detector>>

-----------------------------------------------------------------------------
Done == queue = <<>> \/ stage = "raised"

Next ==
    \/ Start \/ Ordered \/ Emit
    \/ Detect \/ Root \/ Arc \/ Up \/ Found \/ MergeNext \/ AllMerged
    \/ Collect \/ BrokenUp \/ AllCollected \/ Break

Spec == Init /\ [][Next]_vars /\ WF_vars(Next)

-----------------------------------------------------------------------------
(* Properties.                                                             *)

\* The lists of packages that are ordered for themselves, and their operation.
Jobs ==
    { <<"install", request.installs>>, <<"erase", request.erases \ Replaced(request)>> }
    \union UNION {{<<"erase", request.updates[p]>>, <<"erase", request.obsoletes[p]>>} :
                  p \in request.installs}

\* The requirements within a list, and those among them that come from hard ones.
Requires(job) ==
    {r \in job[2] \X job[2] :
        r[1] # r[2] /\ \E k \in {"soft", "legacy", "install", "erase"} : <<r[1], r[2], k>> \in requires}
HardRequires(job) ==
    {r \in Requires(job) : \E k \in {"legacy", job[1]} : <<r[1], r[2], k>> \in requires}

\* The requirements among the nodes that are ordered now.
Arcs == {r \in Current \X Current : r[2] \in Pre(graph, r[1])}

\* What can be reached from each of the nodes S along one or more arcs of R: all
\* sets that have it with what follows in them have that.
Reach(R, S) ==
    [x \in S |-> {y \in S : \A A \in SUBSET S :
                     (\A r \in R : r[1] \in A \union {x} => r[2] \in A) => y \in A}]

Given(p) == {i \in DOMAIN operations : operations[i].of = {p}}
Before(p, q) == \A i \in Given(p), j \in Given(q) : i < j

\* Every package is installed or updated once, everything that goes is erased once,
\* and nothing else is done: whatever the cycles, breaking them up loses no package,
\* and finds for every node of a component its distance from a hard requirement.
OrderedOnce ==
    /\ stage # "raised"
    /\ queue = <<>> =>
        /\ \A i \in DOMAIN operations :
              operations[i].of \subseteq
                 IF operations[i].do = "erase" THEN request.erases \union Replaced(request)
                 ELSE request.installs
        /\ \A p \in request.installs \union request.erases \union Replaced(request) :
              Cardinality(Given(p)) = 1

\* What a package requires is installed before it, and erased after it, unless each
\* requires the other in the end; a hard requirement is kept even then, as long as no
\* package on the way has a hard requirement on itself in the end.
RequirementsKept ==
    queue = <<>> => \A job \in Jobs :
        LET reach == Reach(Requires(job), job[2])
            hard == Reach(HardRequires(job), job[2])
        IN  \A r \in Requires(job) :
               \/ job[1] = "install" /\ Before(r[2], r[1])
               \/ job[1] = "erase" /\ Before(r[1], r[2])
               \/ /\ r[1] \in reach[r[2]]
                  /\ r \in HardRequires(job) =>
                        \E p \in reach[r[1]] : r[1] \in reach[p] /\ p \in hard[p]

\* A search that is over has found the strongly connected components of the nodes
\* it was asked about, single nodes left out, also when some of them are components.
ComponentsFound ==
    stage = "scan" /\ calls = <<>> /\ Current \subseteq DOMAIN states =>
        LET reach == Reach(Arcs, Current)
            Together(n) == {m \in reach[n] : n \in reach[m]}
        IN  /\ IsInjective(sccs)
            /\ ToSet(sccs) = {Together(n) : n \in {x \in Current : Together(x) \ {x} # {}}}

\* The order has everything once and keeps the requirements.
OrderRight == OrderedOnce /\ RequirementsKept

\* Every order is found in the end: each break up takes a relation away.
Terminates == <>Done

=============================================================================
