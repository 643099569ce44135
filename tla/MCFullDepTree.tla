---------------------------- MODULE MCFullDepTree ----------------------------
EXTENDS FullDepTree, TLC

CONSTANTS A, B, C

\* run_depends lists of up to two entries
DepLists == {<<>>} \cup {<<d>> : d \in Pkgs \cup {Missing}}
                   \cup {<<d, e>> : d, e \in Pkgs \cup {Missing}}

NoProvides == [p \in Pkgs |-> {}]

DB(deps, prov) == [deps |-> deps, provides |-> prov]

\* one database for both pkgdb and rpool, every run_depends shape over
\* three packages, and the lookup in the todo loop hitting or missing
Generated ==
    {[db |-> [r \in BOOLEAN |-> DB(g, NoProvides)], hit |-> h] :
        g \in [Pkgs -> DepLists], h \in {{}, Pkgs}}

\* A provides B, which it also depends on; and pkgdb and rpool that differ
Scenarios ==
    { [db |-> [r \in BOOLEAN |-> DB(A :> <<B, C>> @@ B :> <<C>> @@ C :> <<>>,
                                    A :> {B} @@ B :> {} @@ C :> {})], hit |-> Pkgs],
      [db |-> (FALSE :> DB(A :> <<B>> @@ B :> <<>> @@ C :> <<>>, NoProvides) @@
               TRUE  :> DB(A :> <<B>> @@ B :> <<Missing>> @@ C :> <<>>, NoProvides)),
       hit |-> Pkgs] }

MCUniverses == Generated \cup Scenarios

\* repeated calls over the hand-written universes and a few generated ones
MCStale == Scenarios \cup {[db |-> [r \in BOOLEAN |-> DB(A :> <<B>> @@ B :> <<Missing>> @@ C :> <<>>, NoProvides)],
                            hit |-> Pkgs]}
====
