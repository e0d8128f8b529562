SPECIFICATION Spec
CONSTANTS
  MaxReplicas = 2
  Specs <- ClusterSpecs
  MaxEdits = 3
  MaxFaults = 2
INVARIANTS
  TypeOK
  CredentialsKept
  OneCluster
PROPERTIES
  Settles
CHECK_DEADLOCK FALSE
