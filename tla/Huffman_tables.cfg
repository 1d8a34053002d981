SPECIFICATION Spec
CONSTANTS
  LiteralFrequencies <- Literals
  DistanceFrequencies <- Distances
  MaxRun = 4
  ShortZeros = 3
  MaxZeros = 4
INVARIANT LengthsSurvive
INVARIANT CodesDecode
CHECK_DEADLOCK FALSE
