SPECIFICATION Spec
CONSTANTS
  MaxWrites = 2
  MaxSeq = 2
  MaxCrashes = 0
  BootFsync = "always"
  Policies = {}
  Toggling = FALSE
  Transactions = TRUE
INVARIANTS
  ManifestNamesLog
  AlwaysDurable
  LogKeepsAll
CHECK_DEADLOCK FALSE
