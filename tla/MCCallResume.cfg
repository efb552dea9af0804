SPECIFICATION Spec
CONSTANTS
  A = A
  B = B
  MaxCalls = 1
  MaxEpoch = 1
  MaxNet = 3
PROPERTIES
  ResumesOnlyRenegotiated
CHECK_DEADLOCK FALSE
