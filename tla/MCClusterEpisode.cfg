SPECIFICATION Spec
CONSTANTS
  h1 = h1
  h2 = h2
  h3 = h3
  c1 = c1
  NoName = NoName
  Hosts <- MCThree
  Cluster <- MCThreeCluster
  Rank <- MCThreeRank
  Clusters <- MCOneCluster
  Unit <- MCOneCluster
  Abort = TRUE
  MaxAttempts = 2
  Reads = {"read", "silent"}
  PrepOutcomes = {"ok", "fail", "nothing"}
  Events = {"crash", "blind", "dry"}
INVARIANTS UnitGoesTogether
PROPERTIES HeldBackStays
