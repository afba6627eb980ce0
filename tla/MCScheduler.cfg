CONSTANTS
  Specs <- MCSpecs
  InitSpec <- Plain
  MaxNodes = 4
  InitNodes = 3
  AutoReplicas = AutoReplicas
  NoName = NoName
  NoResources = NoResources
  NoInformer = NoInformer
  Names = {"n0", "n1"}
  Resources = {"r1"}
  Args = {"a1", "a2"}
  Images = {"good", "bad"}
  ValidImages = {"good"}
  BuiltinName = "n0"
  BuiltinArgs = "a1"
  ListActivePods = FALSE
  NoObj = NoObj
  Disturbances = {"edit", "crash", "fault", "stale", "nodes", "delete", "scale", "drift", "down"}
  Closing = {"delete", "scale", "nodes", "down"}
  Budget = 2
SPECIFICATION FairSpec
INVARIANTS
  TypeOK
  NoLostWakeup
  StatusTellsTruth
PROPERTIES
  ElectedReplicas
  ComesToRest
CHECK_DEADLOCK FALSE
