\* One ordinary host and the own one, two UPS, both policies: every interleaving of answers,
\* resets and saves; what must happen, under the fairness of the loop.
CONSTANTS
  h1 = h1
  own = own
  Ups = {u1, u2}
  Hosts = {h1, own}
  OwnHosts <- OneOwn
  Order <- SameOrder
  Feeds <- AllFeeds
  Policy <- OwnAny
  MaxAttempts = 3
  RearmAfter = 2
  Outcomes = {"ok", "fail", "raise"}
  Configs <- AllConfigs
SPECIFICATION FairSpec
PROPERTIES CommandsAreDemanded OwnHostWaits SentIsFinal SentIsReleasedByMains
  DemandIsServed EpisodeClosesUnlessStranded
