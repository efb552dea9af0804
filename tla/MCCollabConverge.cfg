SPECIFICATION FairSpec
CONSTANTS
  Values <- MCValues
  Inviter = 2
  Invitee = 1
  NFields = 1
  SeedStickers = 1
  MaxOps = 2
  MaxIds = 2
  LocalIds = 1
  MaxClock = 9
  MaxJump = 9
  ClockBound = 5
  MaxInFlight = 1
  MaxFaults = 1
  x = x
  y = y
PROPERTIES
  EventuallyConverged
