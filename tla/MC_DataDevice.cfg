SPECIFICATION Spec
CONSTANTS
  Mimes <- MCMimes
  HasPrimary = FALSE
  MaxOffers = 3
  MaxSources = 2
  MaxQueue = 3
INVARIANTS
  NoProxyLost
  HoldsLastAnnounced
  OwnerOrTold
PROPERTY OnlyOwnSources
CHECK_DEADLOCK FALSE
