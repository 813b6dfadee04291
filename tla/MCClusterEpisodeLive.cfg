SPECIFICATION FairSpec
CONSTANTS
  h1 = h1
  h2 = h2
  h3 = h3
  c1 = c1
  NoName = NoName
  Hosts <- MCPair
  Cluster <- MCPairCluster
  Rank <- MCPairRank
  Clusters <- MCOneCluster
  Unit <- MCOneCluster
  Abort = FALSE
  MaxAttempts = 2
  Reads = {"read", "refused"}
  PrepOutcomes = {"ok", "fail"}
  Events = {"check", "blind"}
PROPERTIES DemandIsServed TakenAlongIsSettled EpisodeIsForgotten
