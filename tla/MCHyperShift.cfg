CONSTANTS
  Platform = "HyperShift"
  Pools = {"p1"}
  Labels = {"a"}
  Selectors = {}
  BadSelectors = {}
  Selects <- MCSelects
  Configs = {"c1"}
  NoPool = NoPool
  EmptyName = EmptyName
  NoSelector = NoSelector
  MaxAnnotations = 8
  Specs <- MCSpecs
  InitSpec <- MCInitSpec
  InitMCP <- MCInitMCP
  NoDS = NoDS
  Datas <- MCDatas
  NoMCSelector = {}
  BadMCSelector = {}
  NoNodeSelector = {}
  ForeignDS = {}
  KCs = {"k1"}
  Payloads = {"x", "y"}
  Excludes = {"e1", "e2"}
  KCChoices <- MCChoices
  InitKC <- MCInitKC
  InitExcludes = "e1"
  NoKC = NoKC
  NoCM = NoCM
  NoOwner = NoOwner
  Disturbances = {"spec", "edit", "delete", "fault", "crash"}
  Budget = 2
  MaxGen = 3
SPECIFICATION HSFairSpec
INVARIANTS
  ExportersFollowKubeletConfig
  StatusTellsTruth
  NoOrphanedConfig
PROPERTIES
  BothComeToRest
CHECK_DEADLOCK FALSE
