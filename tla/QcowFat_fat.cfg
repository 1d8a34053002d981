SPECIFICATION FairSpec
CONSTANTS
  f1 = f1
  f2 = f2
  d1 = d1
  Size = 3
  EndOfChain = 16
  U32 = 32
  U64 = 128
  Max = 11
  Fat <- MCFat
  Chain <- MCChain
  RootCluster = 2
  Entries <- MCEntries
  BeyondTable <- MCBeyond
  Files <- MCFiles
  Dirs <- MCDirs
  Opens <- MCOpens
  ReadSizes <- MCReadSizes
  Seeks <- MCSeeks
  MaxCalls = 5
  MaxFaults = 1
  MaxMounts = 2
INVARIANTS CursorOnChain ReadExact ListedOnce OpenExact
PROPERTY CallReturns
CHECK_DEADLOCK FALSE
