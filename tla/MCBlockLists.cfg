SPECIFICATION Spec
CONSTANTS
  v1 = v1
  v2 = v2
  NoCount = NoCount
  BadCount = BadCount
  BadScore = BadScore
  NoKey = NoKey
  Forever = Forever
  IntMax = 1
  Clients = {c1, c2, c3}
  Keys = {k1}
  Tokens = {v1, v2}
  Members = {}
  MaxInt = 2
  Batches <- One
  AddIds = {}
  AskIds = {}
  HalfMillis = {0, 2, 5}
  Millis = {}
  WaitMillis = {1}
  Pipelining = FALSE
  Ttls = {1}
  BlockInExec = FALSE
  MaxPushes = 2
  MaxNodes = 3
  MaxTime = 2
INVARIANTS
  ElementsConserved
  NoLostWakeup
  NoOrphan
  NoStaleNode
PROPERTIES
  NoOversleep
  TimedWaitEnds
