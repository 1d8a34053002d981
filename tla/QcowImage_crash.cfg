SPECIFICATION Spec
CONSTANTS
  ClusterSize = 4
  Sector = 2
  L1Size = 2
  RefTableSize = 4
  L1Off = 12
  RefTableOff = 4
  Images <- Dense
  Requests <- PartWrites
  FaultPoints <- Points
  NoTable = NoTable
  MaxCalls = 3
  MaxFaults = 1
  MaxOpens = 2
  MaxCrashes = 1
INVARIANT RefCountsCoherent
INVARIANT DiskKeepsData
INVARIANT ReadsAllowed
INVARIANT NoOverlap
PROPERTY LinksAreFinal
CHECK_DEADLOCK FALSE
