SPECIFICATION Spec
CONSTANTS
  MaxWrites = 3
  MaxSeq = 3
  MaxCrashes = 1
  BootFsync = "everysec"
  Policies = {"everysec", "always"}
  Toggling = TRUE
  Transactions = TRUE
INVARIANTS
  TypeOK
  ReplayedOnce
  LogComplete
  AppendsToManifest
  FsyncThreadRuns
PROPERTY
  WritesReachDisk
CHECK_DEADLOCK FALSE
