SPECIFICATION Spec
CONSTANTS
  Families <- MCFamilies
  MaxPort = 6
INVARIANT OnlyTheImpossibleIsRefused
INVARIANT AdmittedRuns
INVARIANT StepsInOrder
INVARIANT PortsBelongToOne
CHECK_DEADLOCK FALSE
