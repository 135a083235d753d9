SPECIFICATION Spec
CONSTANTS
  Mimes <- MCMime
  HasPrimary = TRUE
  MaxOffers = 2
  MaxSources = 2
  MaxQueue = 3
INVARIANT OwnerOrTold
CHECK_DEADLOCK FALSE
