SPECIFICATION Spec
CONSTANTS
  Objects = {s1, s2}
  Values = {v, w}
  New = w
  Empty = Empty
  Unset = Unset
  Specs <- SettingsSpecs
  Applied <- SettingsApplied
  NotApplied = NotApplied
  Lag = FALSE
  SecretLoss = TRUE
  MaxEdits = 2
  MaxFaults = 1
  MaxOutages = 1
  MaxDrifts = 1
INVARIANT
  TypeOK
PROPERTIES
  ChangesOnlyItsOwn
  Converges
CHECK_DEADLOCK FALSE
