SPECIFICATION ListSpec
CONSTANTS
  Phones = {1, 2}
  Starter = 1
  Hers = {1}
  Scenes <- MCBackScenes
  VER = 999
  MaxTaps = 2
  MayReturn = TRUE
PROPERTIES
  NothingComesBack
CHECK_DEADLOCK FALSE
