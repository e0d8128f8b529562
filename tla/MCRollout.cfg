SPECIFICATION Spec
CONSTANTS
  MinReplicas = 2
  MaxReplicas = 3
  Images = {1, 2}
  Unparseable = {}
  Broken = {}
  AllowDowngrade = FALSE
  MidRollout = FALSE
  StallTimeout = 1
  MaxTime = 0
  MaxEdits = 1
  MaxFaults = 1
INVARIANTS
  TypeOK
  OneRestartAtATime
  VolumeNeverDowngraded
  IInv
PROPERTIES
  UpToDateIsTrue
  PartitionWalksDown
