CONSTANTS
  Specs <- MCSpecs
  InitSpec <- Plain
  MaxNodes = 3
  InitNodes = 3
  AutoReplicas = AutoReplicas
  NoName = NoName
  NoResources = NoResources
  NoInformer = NoInformer
  Names = {"n0", "n1"}
  Resources = {"r1"}
  Args = {"a1", "a2"}
  Images = {"good", "bad"}
  ValidImages = {"good"}
  BuiltinName = "n0"
  BuiltinArgs = "a1"
  ListActivePods = FALSE
  NoObj = NoObj
  Disturbances = {"drift"}
  Closing = {}
  Budget = 1
SPECIFICATION Spec
INVARIANTS
  DriftRepaired
CHECK_DEADLOCK FALSE
