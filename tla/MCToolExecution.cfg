SPECIFICATION XSpec
CONSTANTS
  None = None
  MaxCalls = 4
  MaxSafe = 2
  MaxIds = 2
  UserWrites = FALSE
  MaxTurns = 1
  Settings <- MCSettings
INVARIANTS
  AnswersAreDurable
  RunsAgainOnlyIfLost
  ResultsAreTaken
PROPERTIES
  RunsOnRecord
  SortedStopClosesTurn
CHECK_DEADLOCK FALSE
