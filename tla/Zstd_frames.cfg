SPECIFICATION Spec
CONSTANTS
  Predefined <- PredefinedValues
  Described <- DescribedValues
  Rle <- RleValues
  Expected = 6
  MaxOutput = 12
  MaxRead = 2
  MaxSequences = 2
  MaxBlocks = 2
  MaxFrames = 2
INVARIANT TypeOK
INVARIANT TablesAgree
INVARIANT NoneRefused
PROPERTY Implements
CHECK_DEADLOCK FALSE
