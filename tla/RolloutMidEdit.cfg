SPECIFICATION Spec
CONSTANTS
  MinReplicas = 3
  MaxReplicas = 3
  Images = {1, 2, 3}
  Unparseable = {}
  Broken = {}
  AllowDowngrade = FALSE
  MidRollout = TRUE
  StallTimeout = 1
  MaxTime = 0
  MaxEdits = 2
  MaxFaults = 0
INVARIANT OneRestartAtATime
