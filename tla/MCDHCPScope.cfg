SPECIFICATION Spec
CONSTANTS
  Objects = {s1}
  Cores = {c1, c2}
  Routers = {r1, r2}
  Extras = {default, hour}
  MACs = {m1}
  IPs = {i1, i2}
  Unset = Unset
  NoIP = NoIP
  Specs <- ScopeSpecs
  Applied <- ScopeApplied
  NotApplied <- ScopeNotApplied
  Lag = FALSE
  SecretLoss = FALSE
  MaxEdits = 3
  MaxFaults = 1
  MaxOutages = 1
  MaxDrifts = 1
INVARIANTS
  TypeOK
PROPERTIES
  Claimed
  EnabledLast
  Converges
  LeasesConverge
CHECK_DEADLOCK FALSE
