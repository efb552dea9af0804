SPECIFICATION FairSpec
CONSTANTS
  A = A
  B = B
  MaxCalls = 1
  MaxEpoch = 0
  MaxNet = 12
PROPERTIES
  EveryWaitEnds
CHECK_DEADLOCK FALSE
