SPECIFICATION FairSpec
CONSTANTS
  ClusterSize = 4
  Sector = 2
  L1Size = 2
  RefTableSize = 4
  L1Off = 12
  RefTableOff = 4
  Images <- Plain
  Requests <- Writes
  FaultPoints <- Points
  NoTable = NoTable
  MaxCalls = 3
  MaxFaults = 2
  MaxOpens = 1
  MaxCrashes = 0
INVARIANT TypeOK
INVARIANT ReadBack
INVARIANT MappingCoherent
INVARIANT ClustersAligned
 
PROPERTY QwriteReturns
CHECK_DEADLOCK FALSE
