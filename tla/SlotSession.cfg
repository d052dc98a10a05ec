CONSTANTS
  r1 = r1
  r2 = r2
  d1 = d1
  c1 = c1
  s1 = s1
  i1 = i1
  i2 = i2
  None = None
  Runs = {r1, r2}
  Downs = {}
  Cleans = {}
  Purges = {}
  Persistent <- MCPersistent
  Procs = {s1, i1, i2}
  Services <- MCServices
  RunOf <- MCRunOf
SPECIFICATION Spec
CHECK_DEADLOCK FALSE
INVARIANT CompleteIsSettled
PROPERTY OwnerProvesCapture
PROPERTY OutcomeWrittenOnce
PROPERTY KeepsLedger
