SPECIFICATION Spec
CONSTANTS
  Readers = {r1}
  MaxCommits = 2
  MaxFaults = 0
  MaxCrashes = 1
INVARIANTS
  FlushedLinesStay
CHECK_DEADLOCK FALSE
