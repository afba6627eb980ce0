CONSTANTS
  Platforms = {"OpenShift"}
  KCs = {"k1", "k2"}
  Pools = {"p1", "p2"}
  MissingPools = {}
  Payloads = {"x", "y"}
  Excludes = {"e1", "e2"}
  GroupChoices <- MCGroups
  KCChoices <- MCChoicesGood
  InitKC <- MCInitKC
  NoKC = NoKC
  NoCM = NoCM
  NoOwner = NoOwner
  Disturbances <- MCDeletions
  Budget = 1
SPECIFICATION FairSpec
PROPERTIES
  DeletionNeedsNothing
CHECK_DEADLOCK FALSE
