\* The ClusterOperator cannot be read by the first SetFromPods of a process.
SPECIFICATION PodSpec
CONSTANTS
  Levels <- MCLevels
  DegradedLevels = {}
  ProgressLevels = {}
  Threshold = 1
  Outcomes <- MCNoFailures
  HyperShiftEnabled = FALSE
  Disruptions = {"restart"}
  node = node
  console = console
  DaemonSets = {node}
  StatefulSets = {}
  Deployments = {console}
  NonCritical = {console}
  Removable = {}
  Statuses <- MCStatuses
  ProgressTimeout = 1
  Calls <- MCReadFails
  MaxRelease = 1
PROPERTY
  BootstrapNotReentered
