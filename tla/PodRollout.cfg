\* The status derived from the operands, across upgrades and restarts.
SPECIFICATION PodSpec
CONSTANTS
  Levels <- MCLevels
  DegradedLevels = {}
  ProgressLevels = {}
  Threshold = 1
  Outcomes <- MCNoFailures
  HyperShiftEnabled = FALSE
  Disruptions = {"restart", "oper", "co"}
  node = node
  console = console
  DaemonSets = {node}
  StatefulSets = {}
  Deployments = {console}
  NonCritical = {console}
  Removable = {console}
  Statuses <- MCStatuses
  ProgressTimeout = 1
  Calls <- MCCalls
  MaxRelease = 1
INVARIANTS
  PodTypeOK
  VersionNotAhead
  HungExact
PROPERTIES
  AvailableKept
  BootstrapNotReentered
