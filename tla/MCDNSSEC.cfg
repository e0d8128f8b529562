SPECIFICATION Spec
CONSTANTS
  Objects = {d1}
  Keys = {k1, k2}
  Names = {{}, {"app"}}
  Specs <- SigningSpecs
  Applied = {TRUE, FALSE}
  NotApplied = FALSE
  Lag = TRUE
  SecretLoss = FALSE
  MaxEdits = 3
  MaxFaults = 1
  MaxOutages = 1
  MaxDrifts = 1
PROPERTIES
  Claimed
  Converges
CHECK_DEADLOCK FALSE
