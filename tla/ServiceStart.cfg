SPECIFICATION FairSpec
CONSTANTS
  o1 = o1
  o2 = o2
  o3 = o3
  o4 = o4
  p1 = p1
  p2 = p2
  p3 = p3
  None = None
  Owners = {o1, o2, o3, o4}
  Ports = {p1, p2, p3}
  Wants <- MCWants
  Strict = {o1, o3, o4}
  Faulty = {o1}
  Forking = {o1, o4}
  Serves <- MCServes
  Prepared = {o2, o3}
  Timed = {o3}
  MaxAttempts = 2
  MaxSockets <- MCSockets
  MaxStarts = 1
INVARIANT TreeIsOwed
INVARIANT StartIsGuarded
INVARIANT VerdictIsObserved
PROPERTY RoundIsFresh
PROPERTY StartDecides
CHECK_DEADLOCK FALSE
