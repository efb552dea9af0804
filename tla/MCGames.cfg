SPECIFICATION GamesSpec
CONSTANTS
  Players = {1, 2, 3}
  RuleLists = {{}, {"kontra"}}
  Evenings <- MCEvenings
  NULL = NULL
  SIZE = 4
  MAX_BLOCKS = 3
  VOTERS = 4
  Days = {1, 4, 40}
  Rnd <- MCRnd
  Starts <- TurnStarts
  Seeds = {0, 1}
  Whims <- TurnWhims
  WAIT = WAIT
INVARIANTS
  NoLostStart
  DeparturesSettle
  CardsAreHonest
  HandsAgree
  LinksAndGamesAgree
  RepliesCountOnce
  HandsStaySealed
  BothPhonesPlayOneMatch
  PaidForWhatWasTaken
  PictureOfItsWord
  MinutesAreTrue
  OneCardOneLink
  OneProfile
PROPERTY
  ImplementsPact
CHECK_DEADLOCK FALSE
