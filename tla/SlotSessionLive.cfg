CONSTANTS
  r1 = r1
  r2 = r2
  d1 = d1
  c1 = c1
  s1 = s1
  i1 = i1
  i2 = i2
  None = None
  Runs = {r1}
  Downs = {d1}
  Cleans = {}
  Purges = {}
  Persistent <- MCPersistent
  Procs = {s1, i1}
  Services <- MCServices
  RunOf <- MCRunOf
SPECIFICATION FairSpec
CHECK_DEADLOCK FALSE
PROPERTY AuthorityReleased
