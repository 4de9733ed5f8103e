\* The controllers besides the status manager, one at a time.
SPECIFICATION CtSpec
CONSTANTS
  ClusterConfigs <- MCClusterConfigs
  Installed <- MCInstalled
  Settings <- MCSettings
  BlockSizes = {4, 8, 16, 32}
  FirstIPv6 = 64
  HostMTUs = {4}
  MinMTUIPv4 = 2
  MinMTUIPv6 = 3
  MaxMTU = 9
  Overhead = 1
  Platform = "BareMetal"
  GatedPlatforms = {}
  HyperShift = FALSE
  MaxEdits = 2
  MaxFaults = 1
  checkPeriod = 6
  checkTimeout = 1
  BatchSize = 3
  MaxLogs = 2
  MaxOutages = 2
  MaxChecks = 4
  MaxEpFaults = 1
  installTimeout = 1
  clusterAvailableTimeout = 2
  MaxObFaults = 1
  MaxObEdits = 1
  IPv6VIPs = {11, 12}
  InfraSpecs <- MCInfraSpecs
  InfraStatuses <- MCInfraStatuses
  MaxIcEdits = 2
  MaxIcFaults = 1
  CANames = {"user-ca-bundle"}
  Certificates = {"A", "B"}
  Labelled = {"m1"}
  Networks = {"net1"}
  ProxyEdits <- MCProxyEdits
  MaxErrors = 0
  MaxTbEdits = 2
  MaxTbFaults = 1
  Requests = {"n1"}
  PKIs = {}
  SignerPKI = "signer"
  MaxSgEdits = 1
  MaxSgFaults = 1
INVARIANTS
  CtTypeOK
  
  SignedIfApproved
PROPERTIES
  ChangesAreSafe
  AddressesKept
  ConfigTakesEffect
  
  Concludes
  PrimaryKept
  
  NodesGetCertificates
\* Once users have stopped, a controller may have nothing left to do.
CHECK_DEADLOCK FALSE
