SPECIFICATION FairSpec
CONSTANTS
  e1 = e1
  e2 = e2
  d1 = d1
  f1 = f1
  f2 = f2
  None = None
  Ensures = {e1}
  Daemons = {d1}
  Foregrounds = {f1, f2}
  Request <- MCRequest
  Casts <- MCPairs
  MaxFiles = 2
PROPERTY PinnedKeepsLineage
PROPERTY AbandonedOwnerEnds
PROPERTY EnsureIsAnswered
CHECK_DEADLOCK FALSE
