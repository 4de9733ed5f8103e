\* The custom resource definition that comes with the operator CNO installed.
SPECIFICATION ObSpec
CONSTANTS
  installTimeout = 1
  clusterAvailableTimeout = 2
  MaxObFaults = 0
  MaxObEdits = 1
PROPERTY
  OwnCRDNotPreExisting
