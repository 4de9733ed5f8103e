\* A roll-out that stays as it is while only time passes.
SPECIFICATION PodFairSpec
CONSTANTS
  Levels <- MCLevels
  DegradedLevels = {}
  ProgressLevels = {}
  Threshold = 1
  Outcomes <- MCNoFailures
  HyperShiftEnabled = FALSE
  Disruptions = {}
  node = node
  console = console
  DaemonSets = {node}
  StatefulSets = {}
  Deployments = {}
  NonCritical = {}
  Removable = {}
  Statuses <- MCStatuses
  ProgressTimeout = 1
  Calls <- MCAllOk
  MaxRelease = 1
PROPERTY
  HungEventuallyReported
