SPECIFICATION Spec
CONSTANTS
  Data <- Buffers
  BlockSize = 13
  MaxMatch = 4
  EndBits = {0, 5}
INVARIANT ReadsBack
INVARIANT MatchesCover
CHECK_DEADLOCK FALSE
