CONSTANTS
  Platform = "OpenShift"
  Pools = {"p1", "p2", "p3"}
  Labels = {"a", "b"}
  Selectors = {"sA", "sAB", "sBad"}
  BadSelectors = {"sBad"}
  Selects <- MCSelects
  Configs = {"c"}
  NoPool = NoPool
  EmptyName = EmptyName
  NoSelector = NoSelector
  MaxAnnotations = 8
  MaxGroups = 3
SPECIFICATION TreesSpec
INVARIANTS
  DelayedTreeIsPolled
CHECK_DEADLOCK FALSE
