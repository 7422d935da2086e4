SPECIFICATION Spec
CONSTANTS
  Ports = {p1}
  Targets = {t1, t2}
  MaxEntries = 2
  MaxSpawns = 2
  MaxCalls = 3
  MaxResumes = 1
INVARIANTS
  OneChildPerForward
  StoppedStaysDown
  NoOrphans
PROPERTIES
  PermanentStaysDown
  OperationsEndAwake
  RetriesGoOn
CHECK_DEADLOCK FALSE
