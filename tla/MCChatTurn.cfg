SPECIFICATION Spec
CONSTANTS
  None = None
  MaxSends = 2
  Settings <- MCSettings
INVARIANTS
  ChunksInTheirStep
  ClosureClosesTurn
  CompletedIsRecorded
PROPERTIES
  RepairsOnlyAbandoned
  SendsGetOn
  StepsGetOn
CHECK_DEADLOCK FALSE
