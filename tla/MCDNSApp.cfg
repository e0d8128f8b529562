SPECIFICATION Spec
CONSTANTS
  Objects = {a1}
  URLs = {1, 2}
  Versions = {1, 2}
  Contents <- TwoPackages
  Configs = {good, bad}
  Rejected = {bad}
  Default = Default
  Unset = Unset
  Specs <- AppSpecs
  Applied <- AppApplied
  NotApplied = NotApplied
  Lag = FALSE
  SecretLoss = FALSE
  MaxEdits = 3
  MaxFaults = 1
  MaxOutages = 1
  MaxDrifts = 1
PROPERTIES
  Claimed
  Converges
  DownloadsCease
CHECK_DEADLOCK FALSE
