SPECIFICATION Spec
CONSTANTS
  Programs <- MCPrograms
  Receivers = {"connection", "connector"}
  InitialSize = 12
  MaxSize = 24
INVARIANTS
  TypeOK
  FramesIntact
  RawIsWhole
  OnlyTooLongCloses
  Drained
CHECK_DEADLOCK FALSE
