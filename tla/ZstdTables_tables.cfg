SPECIFICATION Spec
CONSTANTS
  TableLog = 5
  MaxSymbol = 2
  WeightVectors <- Weights
  MaxLiterals = 3
  Claims <- OneMore
INVARIANT SpendsExactly
INVARIANT EveryMoveOnce
INVARIANT LiteralsExact
CHECK_DEADLOCK FALSE
