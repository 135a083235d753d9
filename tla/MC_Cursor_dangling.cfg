SPECIFICATION Spec
CONSTANTS
  Shapes <- MCShapes
  Animated <- MCAnimated
  MaxPointers = 3
  MaxEnters = 3
  MaxThemes = 3
INVARIANTS
  NothingDangles
CHECK_DEADLOCK FALSE
