SPECIFICATION Spec
CONSTANTS
  Word = 16
  U64 = 256
  PerSector = 4
  Disks <- MCDisks
INVARIANTS CountMatchesList ListedTable
CHECK_DEADLOCK FALSE
