SPECIFICATION FairSpec
CONSTANTS
  SECTOR_SIZE = 2
  Word32 = 32
  BTRFS_MAX_LEVEL = 2
  BTRFS_MAX_NODE_SIZE = 4
  BTRFS_MAX_SYS_CHUNK_ARRAY_SIZE = 30
  KEY_SIZE = 2
  CHUNK_ITEM_SIZE = 3
  STRIPE_SIZE = 1
  Logical <- MCLogical
  Volumes <- MCVolumes
INVARIANTS TypeOK LevelsDescend RightNode NothingMissed BuffersBalanced
PROPERTIES TranslationStable MountEnds
CHECK_DEADLOCK FALSE
