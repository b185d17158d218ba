SPECIFICATION Spec
CONSTANTS
  First = 1
  MaxEnd = 4
  ClusterRatio = 2
  RootMax = 1
  NodeMax = 2
  MaxLen = 4
  MaxLblk = 3
  LastPblk = 8
  FileSizes = {4}
  UninitBlocks = {3}
  RemapTo = {8}
  RemapJoins = FALSE
  Wrap = 100
  MaxTreeCalls = 6
  Taken <- MCTaken
  num_inodes = 3
  CountCap = 2
  MaxCounted = 3
  Grow = 1
  RegionMax = 6
  BlockUnits = 13
  Csum = 3
  NameUnits <- MCNames
  LastInode = 3
  LastBlock = 4
  NDIR_BLOCKS = 1
  addr_per_block = 2
  BlockCount = 9
  FirstUsed = {1}
  WordValues = {5}
  Sizes = {0,1,3,7,14}
  MaxLength = 3
  PunchRanges <- MCRanges
  ShrinkBuffered = FALSE
  MaxFileCalls = 6
  KeyBucket <- MCKeys
  PieceWords <- MCPieces
  MaxPieces = 1
  PageWords = 16
  MaxSeqnum = 4
  DeadLimits = {0,1}
  Shapes <- MCShapes
  HasAcl = {11,12}
  FsBlocks = {1}
  DataBlocks = {2,3,4,5}
  ClaimedBlocks = {1,2,3}
  DupAnswers = {TRUE,FALSE}
  QuotaIds = {0,1,5,6}
  Radix = 2
  QT_TREEDEPTH = 3
  dqstr_in_blk = 2
  QuotaFileMax = 7
  Amounts = {0,1}
  TakesOver = FALSE
  MaxQuotaCalls = 5
  RbNodes = {1,2,3,4,5,6,7,8,9,10}
  DictKeys = {1,2,3,4,5,6,7,8}
  IntHalf = 8
INVARIANTS
  TreeIsSound BitmapCallsAreExact
  MapIsKept BlocksAreCounted
  ListsAreExact
  DirectoryBlocksAreSound DirectoryIsExact
  FileContentIsExact
  TdbFileIsExact TdbTraverseIsComplete
  DuplicatesAreResolved
  QuotaTreeIsExact
  RedBlackTreeIsSound 
CHECK_DEADLOCK FALSE
