SPECIFICATION Spec
CONSTANTS
  Clients = {c1}
  Replicas = {r1, r2}
  Others = {r1}
  NumReplicas = {1}
  Timeouts = {1}
  WriteLen = 1
  GetAckLen = 1
  MaxWrites = 2
  MaxAsked = 1
  MaxTime = 1
  Noted = {"broken"}
  Forever = Forever
  IntMax = 2
  None = None
INVARIANTS
  TypeOK
  WaitIsBarrier
  StreamIsWhole
CHECK_DEADLOCK FALSE
PROPERTY
  WaitEnds
