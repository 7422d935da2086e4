SPECIFICATION Spec
CONSTANTS
  None = None
  Keys = {k1, k2}
  MaxOps = 3
  MaxBinds = 3
  MaxFaults = 1
INVARIANTS
  ResolvedIsStored
  ListenersAreCurrent
CHECK_DEADLOCK FALSE
