SPECIFICATION Spec
CONSTANTS
  Versions <- MCVersions
  Positions <- MCPositions
  Distances <- MCDistances
  Clicks <- MCClicks
  Notches <- MCNotches
  Sources <- MCSources
  Scale = 8
  Max32 = 150
  FrameLen = 3
  LeaveBeforeLoss = TRUE
INVARIANTS
  TellsEachFrame
  ClicksWhereItIs
  NoStrayPointer
  NothingPending
