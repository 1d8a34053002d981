SPECIFICATION Spec
CONSTANTS
  NULL = NULL
  Images <- All
  MaxOpens = 3
  MaxFaults = 2
INVARIANTS HoldingsAccounted BuffersFreed ExtensionsFound
CHECK_DEADLOCK FALSE
