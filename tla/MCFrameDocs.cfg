SPECIFICATION Spec
CONSTANTS
  Programs <- MCPrograms
  Receivers = {"connection", "connector"}
  InitialSize = 12
  MaxSize = 24
INVARIANTS
  NeverReadsPast
  PipelineDrained
  ReplicaRunsAll
CHECK_DEADLOCK FALSE
