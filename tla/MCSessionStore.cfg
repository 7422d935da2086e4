SPECIFICATION Spec
CONSTANTS
  Readers = {}
  MaxCommits = 3
  MaxFaults = 2
  MaxCrashes = 1
INVARIANTS
  FileNeverCorrupt
  AcksKept
PROPERTIES
  ContinuesFromDurable
  ImplementsSessionLog
  LaneMovesOn
CHECK_DEADLOCK FALSE
