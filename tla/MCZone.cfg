SPECIFICATION Spec
CONSTANTS
  Objects = {z1}
  Types = {"Primary", "Catalog"}
  Joinable = {"Primary"}
  Catalogs = {cat}
  Validations = {yes, no}
  Names = {{}, {"app"}}
  Unset = Unset
  NoCatalog = NoCatalog
  ClusterCatalog = ClusterCatalog
  NotApplied = NotApplied
  Specs <- ZoneSpecs
  Applied <- ZoneApplied
  Lag = FALSE
  SecretLoss = FALSE
  MaxEdits = 3
  MaxFaults = 1
  MaxOutages = 1
  MaxDrifts = 1
PROPERTIES
  Claimed
  Converges
CHECK_DEADLOCK FALSE
