SPECIFICATION Spec
CONSTANTS
  v1 = v1
  v2 = v2
  NoCount = NoCount
  BadCount = BadCount
  BadScore = BadScore
  NoKey = NoKey
  Forever = Forever
  IntMax = 2
  Clients = {c1, c2}
  Keys = {k1}
  Tokens = {v1, v2}
  Members = {}
  MaxInt = 1
  Batches <- OneOrTwo
  AddIds <- AutoSeq
  AskIds <- JustLast
  HalfMillis = {0, 2}
  Millis = {0}
  WaitMillis = {}
  Pipelining = TRUE
  Ttls = {}
  BlockInExec = TRUE
  MaxPushes = 3
  MaxNodes = 3
  MaxTime = 1
INVARIANTS
  TypeOK
  NoLostWakeup
  IndexSound
