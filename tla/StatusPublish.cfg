\* What set() publishes and deletes, with failing calls, restarts and deletions.
SPECIFICATION SrSpec
CONSTANTS
  Levels <- MCFewLevels
  DegradedLevels <- MCFewDegradedLevels
  ProgressLevels <- MCProgressLevels
  Threshold = 2
  Outcomes <- MCSingleFailures
  HyperShiftEnabled = TRUE
  Disruptions = {"restart", "oper", "co"}
  role = role
  crd = crd
  pod = pod
  Objects <- MCObjects
  Rbac <- MCRbac
  KeepCRDs <- MCKeepCRDs
  Renderings <- MCRenderings
INVARIANTS
  TypeOK
  DegradedExact
  
  MirrorsAgree
  RelatedTypeOK
PROPERTIES
  Debounced
  RecordKept
  RelatedConverges
