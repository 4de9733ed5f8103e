\* A pod network is enlarged in a cluster whose networks are not in the order of their text.
SPECIFICATION OcFairSpec
CONSTANTS
  ClusterConfigs <- MCReordered
  Installed <- MCReordered
  Settings <- MCNoSettings
  BlockSizes = {4, 8, 16, 32}
  FirstIPv6 = 64
  HostMTUs = {4, 5}
  MinMTUIPv4 = 2
  MinMTUIPv6 = 3
  MaxMTU = 9
  Overhead = 1
  Platform = "BareMetal"
  GatedPlatforms = {}
  HyperShift = FALSE
  MaxEdits = 1
  MaxFaults = 0
PROPERTY
  OperatorFollowsCluster
