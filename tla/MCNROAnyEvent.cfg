CONSTANTS
  Platform = "OpenShift"
  Pools = {"p1", "p2"}
  Labels = {"a", "b"}
  Selectors = {"sA", "sAB"}
  BadSelectors = {}
  Selects <- MCSelects
  Configs = {"c1", "c2"}
  NoPool = NoPool
  EmptyName = EmptyName
  NoSelector = NoSelector
  MaxAnnotations = 8
  Specs <- MCSpecsAll
  InitSpec <- OneCustom
  InitMCP <- MCInitMCP
  Datas = {"d1"}
  NoCM = NoCM
  NoDS = NoDS
  NoMCSelector = {}
  BadMCSelector = {"p2"}
  NoNodeSelector = {"p2"}
  ForeignDS = {"p2"}
  Disturbances = {"edit", "crash", "fault", "cleanupfault", "listfault", "stale", "pause", "relabel", "pools", "rollout", "poddown", "dsdelete", "tamper", "cm", "cmdelete", "shared", "unwatched"}
  Budget = 1
SPECIFICATION Spec
PROPERTIES
  PolicyFollowsMachineConfig
  ForeignLeftAlone
CHECK_DEADLOCK FALSE
