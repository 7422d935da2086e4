SPECIFICATION Spec
CONSTANTS
  Readers = {r1}
  MaxCommits = 2
  MaxFaults = 0
  MaxCrashes = 0
INVARIANTS
  FileNeverCorrupt
CHECK_DEADLOCK FALSE
