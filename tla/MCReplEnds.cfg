SPECIFICATION Spec
CONSTANTS
  Clients = {c1}
  Replicas = {r1, r2}
  Others = {}
  NumReplicas = {1, 2}
  Timeouts = {1}
  WriteLen = 1
  GetAckLen = 1
  MaxWrites = 2
  MaxAsked = 1
  MaxTime = 1
  Noted = {}
  Forever = Forever
  IntMax = 2
  None = None
PROPERTY
  CommandsDoNotEndReplica
CHECK_DEADLOCK FALSE
