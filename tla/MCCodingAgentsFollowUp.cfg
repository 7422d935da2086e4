SPECIFICATION Spec
CONSTANTS
  Tools = {t1,t2}
  EditTools = {t2}
  Settings <- Staying
  MaxPrompts = 2
  MaxKids = 2
  MaxCards = 0
  MaxStops = 0
INVARIANTS
  ShownIsSent
CHECK_DEADLOCK FALSE
