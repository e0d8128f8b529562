SPECIFICATION Spec
CONSTANTS
  Keys = {a, mx, srv}
  Served = {a, mx}
  MXKeys = {mx}
  Targets = {1, 2, 3}
  Malformed = {3}
  Canonical <- Spelling
  MaxTTL = 3
  DefaultTTL = 2
  Sources <- Wishes
  MaxEdits = 3
  MaxFaults = 1
INVARIANTS
  TypeOK
  NeverFewer
PROPERTIES
  Converges
CHECK_DEADLOCK FALSE
