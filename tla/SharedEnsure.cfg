SPECIFICATION Spec
CONSTANTS
  e1 = e1
  e2 = e2
  d1 = d1
  f1 = f1
  f2 = f2
  None = None
  Ensures = {e1, e2}
  Daemons = {}
  Foregrounds = {f1}
  Request <- MCRequest
  Casts <- MCAll
  MaxFiles = 1
INVARIANT CertaintyIsTrue
INVARIANT NoFalseCorruption
PROPERTY KeepsPromise
SYMMETRY Interchangeable
CHECK_DEADLOCK FALSE
