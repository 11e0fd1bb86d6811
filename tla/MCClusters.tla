----------------------------- MODULE MCClusters -----------------------------
(* Two Clusters that may want the same server.                             *)
EXTENDS Clusters, TLC

CONSTANTS s1, s2, on, off

\* Two credentials of one server, and one of another.
MCKubeconfigs == {[server |-> s1, cred |-> 1], [server |-> s1, cred |-> 2],
                  [server |-> s2, cred |-> 1]}

\* The selector of Environment local, and one that does not parse.
MCSelectors == {{on}, Bad}

\* The Clusters are alike.
Symmetry == Permutations(Clusters)
=============================================================================
