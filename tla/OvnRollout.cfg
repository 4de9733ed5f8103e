\* Releases and IP family modes that come and go while OVN-Kubernetes rolls out.
SPECIFICATION FairSpec
CONSTANTS
  Releases = {1, 2}
  Families = {"single", "dual"}
  Desired = 2
  Hanging <- MCHanging
  Failing <- MCFailing
  Deletable <- MCDeletable
INVARIANT
  OvnTypeOK
PROPERTIES
  NodeUpgradedFirst
  ControlPlaneDowngradedFirst
  
  RolloutCompletes
