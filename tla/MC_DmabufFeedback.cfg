SPECIFICATION Spec
CONSTANTS
  Entries <- MCEntries
  Adverts <- MCAdverts
  Versions = {0, 3, 6}
  NumFormats = 2
  MaxAdverts = 2
  StartOnce = TRUE
PROPERTY ImplementsSnapshots
CHECK_DEADLOCK FALSE
