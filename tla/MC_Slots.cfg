SPECIFICATION Spec
CONSTANTS
  NumSlots = 2
  Downgrades = FALSE
INVARIANTS
  HeldOnce
  ShowsScene
  DamageCovers
  FrameOnItsWay
CHECK_DEADLOCK FALSE
