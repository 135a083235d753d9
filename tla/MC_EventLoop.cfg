SPECIFICATION FairSpec
CONSTANTS
  NumSources = 3
  MaxAux = 2
  MaxEvents = 2
INVARIANTS
  NothingUnsentWhileWaiting
  NoWaitAfterStop
  DispatchNeverBlocks
  BoundedOvertaking
PROPERTIES
  SourcesServed
  StopEnds
CHECK_DEADLOCK FALSE
