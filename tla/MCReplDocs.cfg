SPECIFICATION Spec
CONSTANTS
  Clients = {c1}
  Replicas = {r1, r2}
  Others = {r1, r2}
  NumReplicas = {1, 2}
  Timeouts = {1}
  WriteLen = 1
  GetAckLen = 1
  MaxWrites = 2
  MaxAsked = 2
  MaxTime = 2
  Noted = {"inexact", "late", "early", "counted", "stray"}
  Forever = Forever
  IntMax = 2
  None = None
INVARIANTS
  WaitIsBarrierForAll
  WaitCoversPacket
  WaitIsBarrierAlways
  WaitIsExact
  AnswersAsked
CHECK_DEADLOCK FALSE
