SPECIFICATION Spec
CONSTANTS
  MinReplicas = 1
  MaxReplicas = 2
  Images = {1, 2, 3}
  Unparseable = {2}
  Broken = {3}
  AllowDowngrade = FALSE
  MidRollout = FALSE
  StallTimeout = 0
  MaxTime = 1
  MaxEdits = 1
  MaxFaults = 0
PROPERTIES
  RolloutCompletes
  StallReported
