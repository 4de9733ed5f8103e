\* A machine config that is rendered again before the pool has dropped it.
SPECIFICATION McSpec
CONSTANTS
  Levels <- MCLevels
  DegradedLevels = {}
  ProgressLevels = {}
  Threshold = 1
  Outcomes <- MCUnpublished
  HyperShiftEnabled = FALSE
  Disruptions = {"restart"}
  master = master
  worker = worker
  pool = pool
  Roles <- MCRoles
  Pools <- MCPools
  Selects <- MCSelects
  PoolModes <- MCPoolModes
  Renderings <- MCRenderings
  Watchers = {"mcp"}
INVARIANT
  RemovalOnlyUndesired
