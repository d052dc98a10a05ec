SPECIFICATION FairSpec
CONSTANTS
  Secrets <- MCSecrets
  Outputs <- MCOutputs
  Buffer = 3
INVARIANT RetainedIsRedacted
INVARIANT OutcomeIsTrue
PROPERTY CaptureSettles
CHECK_DEADLOCK FALSE
