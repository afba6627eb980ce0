CONSTANTS
  Platform = "OpenShift"
  Focus = {"rte-sa", "rte-service", "machineconfig", "daemonset"}
  Wanted = {"rte-sa", "rte-service", "daemonset"}
  Absent = Absent
  Budget = 2
SPECIFICATION Spec
INVARIANT TypeOK
PROPERTIES
  ActsOnCurrentObject
  ConvergesToDesired
CHECK_DEADLOCK FALSE
