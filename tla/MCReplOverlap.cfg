SPECIFICATION Spec
CONSTANTS
  Clients = {c1, c2}
  Replicas = {r1, r2}
  Others = {r1}
  NumReplicas = {1, 2}
  Timeouts = {1}
  WriteLen = 1
  GetAckLen = 1
  MaxWrites = 2
  MaxAsked = 2
  MaxTime = 1
  Noted = {}
  Forever = Forever
  IntMax = 2
  None = None
PROPERTY
  WaitEnds
CHECK_DEADLOCK FALSE
