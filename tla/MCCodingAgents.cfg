SPECIFICATION Spec
CONSTANTS
  Tools = {t1,t2}
  EditTools = {t2}
  Settings <- MCSettings
  MaxPrompts = 2
  MaxKids = 3
  MaxCards = 1
  MaxStops = 1
INVARIANTS
  NoOrphanProcess
  OneTurnAtATime
  ListenedIsHeld
PROPERTIES
  QuestionsEnd
  StopsEnd
CHECK_DEADLOCK FALSE
