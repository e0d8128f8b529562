SPECIFICATION Spec
CONSTANTS
  Objects = {b1}
  URLs = {1, 2}
  Settings = {on, off}
  Unset = Unset
  Domains = {d1}
  Overrides <- BlocklistOverrides
  Specs <- BlocklistSpecs
  Applied <- BlocklistApplied
  NotApplied <- BlocklistNotApplied
  Lag = FALSE
  SecretLoss = FALSE
  MaxEdits = 3
  MaxFaults = 1
  MaxOutages = 1
INVARIANTS
  TypeOK
  NoOverrideForgotten
  RefreshStaysOwed
PROPERTIES
  Converges
CHECK_DEADLOCK FALSE
