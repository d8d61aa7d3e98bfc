SPECIFICATION Spec
CONSTANTS
  k1 = k1
  k2 = k2
  v1 = v1
  v2 = v2
  NoCount = NoCount
  BadCount = BadCount
  BadScore = BadScore
  Clients = {c1}
  Keys = {k1}
  Tokens = {v1, v2}
  Members = {1, 2}
  MaxInt = 2
  Commands <- XaddCommands
  Controls = {}
  Cases = {TRUE}
  Logging = FALSE
  WallTimes = {1, 2}
  MaxTouches = 4
  MaxQueue = 1
  MaxTime = 2
INVARIANTS
  StreamsAscend
  ReadsFilterStream
