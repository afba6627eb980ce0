CONSTANTS
  Platform = "OpenShift"
  Pools = {"p1"}
  Labels = {"a", "b"}
  Selectors = {"sA", "sAB"}
  BadSelectors = {}
  Selects <- MCSelects
  Configs = {"c1", "c2"}
  NoPool = NoPool
  EmptyName = EmptyName
  NoSelector = NoSelector
  MaxAnnotations = 8
  Specs <- MCSpecsOnePool
  InitSpec <- OneTree
  InitMCP <- MCInitMCP
  Datas = {"d1"}
  NoCM = NoCM
  NoDS = NoDS
  NoMCSelector = {}
  BadMCSelector = {}
  NoNodeSelector = {}
  ForeignDS = {}
  Disturbances = {"edit", "crash", "fault", "stale", "dsdelete"}
  Budget = 2
SPECIFICATION FairSpec
INVARIANTS
  TypeOK
  NoLostWakeup
  StatusTellsTruth
PROPERTIES
  ComesToRest
CHECK_DEADLOCK FALSE
