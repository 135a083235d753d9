SPECIFICATION TouchSpec
CONSTANTS
  Ids <- MCIds
  Positions <- MCPositions
  MaxPoints = 3
  LiftBeforeLoss = TRUE
INVARIANTS
  NoPhantoms
  MirrorsSurface
PROPERTIES
  AppSeesWholeContacts
  ImplementsContacts
