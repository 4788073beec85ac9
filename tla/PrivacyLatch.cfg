SPECIFICATION FairSpec
CONSTANTS
  EarlySearch = TRUE
PROPERTIES
  NoPowerIntoGatedRail
  SteadySearchTruthful
  OpensOnceCleared
