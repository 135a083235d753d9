SPECIFICATION Spec
CONSTANTS
  Keys <- MCKeys
  Keymaps <- MCKeymaps
  NoKeymap = NoKeymap
  Rates <- MCRates
  Delays <- MCDelays
  MaxSerial = 4
  LeaveBeforeLoss = TRUE
  ServerRepeat = TRUE
INVARIANT TickCarriesPressSerial
