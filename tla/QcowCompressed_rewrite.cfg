SPECIFICATION Spec
CONSTANTS
  C = 4
  S = 2
  Kept = 2
  Far = 16
  Size <- MCSize
  Guests <- MCGuests
  Images <- MCImages
  NULL = NULL
  MaxCalls = 3
  MaxFaults = 1
INVARIANT ClustersKept
CHECK_DEADLOCK FALSE
