\* The roles of the old release during an upgrade.
SPECIFICATION RoSpec
CONSTANTS
  role = role
  crd = crd
  pod = pod
  Objects <- MCObjects
  Rbac <- MCRbac
  KeepCRDs <- MCKeepCRDs
  Renderings <- MCRenderings
PROPERTY
  RbacOutlivesUpgrade
