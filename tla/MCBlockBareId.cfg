SPECIFICATION Spec
CONSTANTS
  v1 = v1
  v2 = v2
  NoCount = NoCount
  BadCount = BadCount
  BadScore = BadScore
  NoKey = NoKey
  Forever = Forever
  IntMax = 2
  Clients = {c1, c2}
  Keys = {k1}
  Tokens = {v1, v2}
  Members = {}
  MaxInt = 2
  Batches = {}
  AddIds <- NewIds
  AskIds <- BareIds
  HalfMillis = {}
  Millis = {0}
  WaitMillis = {}
  Pipelining = FALSE
  Ttls = {}
  BlockInExec = FALSE
  MaxPushes = 2
  MaxNodes = 3
  MaxTime = 2
INVARIANT
  EntriesAreNew
