----------------------------- MODULE MCOrderer ------------------------------
(* Four packages to install, one of which updates two packages and one     *)
(* obsoletes another, and three to erase, one of which is replaced anyway. *)
EXTENDS Orderer

CONSTANTS a, b, c, d, v, w, x, y, z

MCPkg == {a, b, c, d, v, w, x, y, z}

Nothing(ps) == [p \in ps |-> {}]
New == {a, b, c, d}
MCRequests ==
    {[installs |-> New, erases |-> {v, w, x},
      updates |-> [Nothing(New) EXCEPT ![a] = {x, y}],
      obsoletes |-> [Nothing(New) EXCEPT ![b] = {z}]]}

\* A relation between each of some pairs, of one of some kinds.
Relations(pairs, kinds) ==
    {{<<r[1], r[2], f[r]>> : r \in {q \in pairs : f[q] # "none"}} : f \in [pairs -> kinds]}

Old == {<<v, w, "soft">>, <<w, v, "erase">>, <<y, x, "erase">>}
\* Every graph of three packages with a relation, up to the names of the packages;
\* rings of four with chords.
Three ==
    {r \union s : r \in Relations({<<a, b>>}, {"soft", "install"}),
                  s \in Relations({<<a, c>>, <<b, a>>, <<b, c>>, <<c, a>>, <<c, b>>},
                                  {"none", "soft", "install"})}
Four ==
    {r \union s : r \in Relations({<<a, b>>, <<b, c>>, <<c, d>>, <<d, a>>}, {"soft", "legacy"}),
                  s \in Relations({<<a, c>>, <<d, b>>}, {"none", "soft", "install"})}
MCRequirements ==
    {r \union Old \union {<<a, d, "config">>} : r \in Three \union Four}

\* What the proofs ask of the resolver is so here.
ASSUME OnceAssumption == HandedOverOnce
=============================================================================
