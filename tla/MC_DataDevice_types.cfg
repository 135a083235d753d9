SPECIFICATION Spec
CONSTANTS
  Mimes <- MCMimes
  HasPrimary = FALSE
  MaxOffers = 3
  MaxSources = 2
  MaxQueue = 3
INVARIANT TypesOfSelection
CHECK_DEADLOCK FALSE
