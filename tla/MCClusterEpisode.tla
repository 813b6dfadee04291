-------------------------- MODULE MCClusterEpisode --------------------------
(***************************************************************************)
(* Instances of ClusterEpisode for TLC: two nodes of one cluster, with or  *)
(* without a standalone host beside them.                                  *)
(***************************************************************************)
EXTENDS ClusterEpisode

CONSTANTS h1, h2, h3, c1

MCPair == {h1, h2}
MCPairCluster == [h \in MCPair |-> c1]
MCPairRank == [h \in MCPair |-> IF h = h1 THEN 1 ELSE 2]

MCThree == {h1, h2, h3}
MCThreeCluster == [h \in MCThree |-> IF h = h3 THEN NoName ELSE c1]
MCThreeRank == [h \in MCThree |-> CASE h = h1 -> 1 [] h = h3 -> 2 [] h = h2 -> 3]

MCOneCluster == {c1}
=============================================================================
