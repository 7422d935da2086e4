SPECIFICATION Spec
CONSTANTS
  MaxCalls = 4
  MaxSafe = 2
INVARIANTS
  ExclusiveRunsAlone
  SafeWithinCapacity
  ResolvedAreCommittedPrefix
  FailureLeavesNoCallerWaiting
PROPERTIES
  StartsBehindBarriers
  GivenOutcomeIsServed
CHECK_DEADLOCK FALSE
