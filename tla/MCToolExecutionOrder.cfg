SPECIFICATION XSpec
CONSTANTS
  None = None
  MaxCalls = 4
  MaxSafe = 2
  MaxIds = 2
  UserWrites = FALSE
  MaxTurns = 1
  Settings <- TwoAsk
PROPERTIES
  StopClosesTurn
CHECK_DEADLOCK FALSE
