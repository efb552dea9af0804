SPECIFICATION Spec
CONSTANTS
  A = A
  B = B
  MaxCalls = 2
  MaxEpoch = 1
  MaxNet = 2
SYMMETRY EndpointSymmetry
INVARIANTS
  TypeOK
  MediaOnlyInAcceptedCall
  OverHoldsNothing
  WaitsAreBounded
  StableMeansAgreed
PROPERTIES
  NoGhostCalls
CHECK_DEADLOCK FALSE
