SPECIFICATION Spec
CONSTANTS
  None = None
  r1 = r1
  r2 = r2
  c1 = c1
  c2 = c2
  a1 = a1
  t1 = t1
  t2 = t2
  k1 = k1
  s1 = s1
  Settings <- MCSettings
  MaxRepairs = 1
INVARIANTS
  ValidatorMatchesHistory
  RepairCloses
  SuspensionCanBeAnswered
  NotStartedIsNeverGuessed
CHECK_DEADLOCK FALSE
