CONSTANTS
  Platforms = {"OpenShift", "HyperShift"}
  KCs = {"k1", "k2"}
  Pools = {"p1", "p2", "p3"}
  MissingPools = {"p3"}
  Payloads = {"x", "y"}
  Excludes = {"e1", "e2"}
  GroupChoices <- MCGroupsMissing
  KCChoices <- MCChoices
  InitKC <- MCInitKC
  NoKC = NoKC
  NoCM = NoCM
  NoOwner = NoOwner
  Disturbances <- MCDisturbances
  Budget = 2
SPECIFICATION FairSpec
INVARIANTS
  TypeOK
  ConfigReachesPool
PROPERTIES
  ComesToRest
CHECK_DEADLOCK FALSE
