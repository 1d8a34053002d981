SPECIFICATION Spec
CONSTANTS
  ClusterSize = 4
  Sector = 2
  L1Size = 2
  RefTableSize = 4
  L1Off = 12
  RefTableOff = 4
  Images <- OnlyZeroFlag
  Requests <- FewWrites
  FaultPoints <- NoFaults
  NoTable = NoTable
  MaxCalls = 1
  MaxFaults = 0
  MaxOpens = 1
  MaxCrashes = 0
INVARIANT ZeroOffsetNeedsErdf
CHECK_DEADLOCK FALSE
