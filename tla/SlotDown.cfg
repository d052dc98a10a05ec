CONSTANTS
  r1 = r1
  r2 = r2
  d1 = d1
  i1 = i1
  None = None
  Runs = {r1, r2}
  Downs = {d1}
  Cleans = {}
  Purges = {}
  Persistent <- MCPersistent
  Procs = {i1}
  Services = {}
  RunOf <- MCRunOf
SPECIFICATION FairDownSpec
CHECK_DEADLOCK FALSE
INVARIANT SettledProvesRelease
INVARIANT UnheardMeansNoOwner
PROPERTY DownReturns
