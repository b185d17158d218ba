SPECIFICATION WriterSpec
CONSTANTS
  j_first = 1
  j_last = 10
  TidMod = 16
  FsBlocks <- MCFsBlocks
  MagicBlocks <- MCMagicBlocks
  Shapes <- MCShapes
  MaxTransactions = 1
  Program = "e2fsck"
  Features <- MCFeatures
  Places <- MCPlaces
  MaxDamaged = 2
  V1ReadErrors = TRUE
  SyncMayFail = FALSE
  MaxCrashes = 0
  WriterShapes <- MCWriterShapes
  EnabledCsums <- MCEnabledCsums
  CarefulWriter = TRUE
  MaxBefore = 1
  MaxSessions = 0
  MaxOpens = 0
  MaxWrites = 0
INVARIANT CleanIsRecovered
CHECK_DEADLOCK FALSE
