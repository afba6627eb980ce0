CONSTANTS
  Platform = "OpenShift"
  Pools = {"p1", "p2"}
  Labels = {"a", "b"}
  Selectors = {"sA", "sAB"}
  BadSelectors = {}
  Selects <- MCSelects
  Configs = {"c1", "c2"}
  NoPool = NoPool
  EmptyName = EmptyName
  NoSelector = NoSelector
  MaxAnnotations = 8
  Specs <- MCSpecsTwo
  InitSpec <- TwoTrees
  InitMCP <- MCInitMCP
  Datas = {"d1"}
  NoCM = NoCM
  NoDS = NoDS
  NoMCSelector = {"p2"}
  BadMCSelector = {}
  NoNodeSelector = {}
  ForeignDS = {}
  Disturbances = {"edit", "pause", "rollout"}
  Budget = 1
SPECIFICATION Spec
INVARIANTS
  NoLostWakeup
  StatusTellsTruth
CHECK_DEADLOCK FALSE
