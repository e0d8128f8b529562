SPECIFICATION Spec
CONSTANTS
  Objects = {r1}
  RRSets = {"A", "CNAME"}
  Single = {"CNAME"}
  Data = {a, b}
  TTLs = {1, 2}
  Policies = {"Delete", "Orphan"}
  Specs <- RecordSpecs
  Applied <- RecordApplied
  NotApplied = NotApplied
  Lag = FALSE
  SecretLoss = FALSE
  EditRRSet = FALSE
  MaxEdits = 3
  MaxFaults = 1
  MaxOutages = 1
  MaxDrifts = 1
INVARIANTS
  TypeOK
  NoValueForgotten
PROPERTIES
  KnownUntilRemoved
  NameKeepsResolving
  RemovesOnlyItsOwn
  Converges
CHECK_DEADLOCK FALSE
