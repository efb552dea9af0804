SPECIFICATION Spec
CONSTANTS
  Values <- MCValues
  Inviter = 2
  Invitee = 1
  NFields = 1
  SeedStickers = 1
  MaxOps = 2
  MaxIds = 3
  LocalIds = 2
  MaxClock = 9
  MaxJump = 9
  ClockBound = 5
  MaxInFlight = 2
  MaxFaults = 0
  x = x
  y = y
SYMMETRY ValueSymmetry
INVARIANTS
  TypeOK
  StampsUnique
  OneEntryPerKey
  IdsBounded
PROPERTIES
  EntriesOnlyAdvance
