\* Machine configs rendered and removed while a pool follows, up to the
\* end of a removal.
SPECIFICATION McFairSpec
CONSTANTS
  Levels <- MCLevels
  DegradedLevels = {}
  ProgressLevels = {}
  Threshold = 1
  Outcomes <- MCUnpublished
  HyperShiftEnabled = FALSE
  Disruptions = {"restart"}
  master = master
  worker = worker
  pool = pool
  Roles <- MCRoles
  Pools <- MCPools
  Selects <- MCSelects
  PoolModes <- MCPoolModes
  Renderings <- MCRenderings
  Watchers = {"mcp"}
INVARIANTS
  McTypeOK
  RemovalTracked
  AnnotationCurrent
PROPERTIES
  RemovalCompletes
  ForgottenWhenGone
