SPECIFICATION Spec
CONSTANTS
  MaxWrites = 2
  MaxSeq = 2
  MaxCrashes = 1
  BootFsync = "everysec"
  Policies = {}
  Toggling = TRUE
  Transactions = FALSE
INVARIANT
  ClosedWhenOff
CHECK_DEADLOCK FALSE
