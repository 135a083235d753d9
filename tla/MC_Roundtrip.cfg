SPECIFICATION CallFairSpec
CONSTANTS
  Timeout = 2
  MaxOthers = 2
  MaxSignals = 2
INVARIANTS
  BoundedByWakeups
PROPERTIES
  NoWriteAfterReturn
  Returns
CHECK_DEADLOCK FALSE
