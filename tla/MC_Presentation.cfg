SPECIFICATION FairSpec
CONSTANTS
  MaxInFlight = 2
  MaxFrames = 4
  ArmInHook = TRUE
  ClockFirst = FALSE
CHECK_DEADLOCK FALSE
INVARIANTS
  DropsOnlyWhenFull
PROPERTIES
  ReportsOnce
  ImplementsFeedback
  EveryFrameResolves
