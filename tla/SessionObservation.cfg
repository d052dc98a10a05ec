SPECIFICATION Spec
CONSTANTS
  ServiceCount = 2
  LeafCount = 2
  Step = 1
INVARIANT RefusalStands
INVARIANT HonestIsNotCorrupt
PROPERTY SatisfiedIsTrue
PROPERTY DecidedRoundAnswers
CHECK_DEADLOCK FALSE
