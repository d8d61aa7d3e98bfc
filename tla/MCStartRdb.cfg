SPECIFICATION Spec
CONSTANTS
  k1 = k1
  k2 = k2
  v1 = v1
  v2 = v2
  v3 = v3
  NoCount = NoCount
  BadCount = BadCount
  BadScore = BadScore
  Keys = {k1, k2}
  Tokens = {v1, v2, v3}
  Members = {}
  MaxInt = 70000
  Spelling <- MCSpelling
  Images <- OddImages
  Writes <- SomeWrites
  MaxWrites = 2
  Delay = 500
  MaxTime = 1500
INVARIANT
  FileIsLoaded
