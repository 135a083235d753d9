SPECIFICATION CallSpec
CONSTANTS
  Timeout = 2
  MaxOthers = 2
  MaxSignals = 2
INVARIANT BoundedByTimeout
CHECK_DEADLOCK FALSE
