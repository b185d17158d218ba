SPECIFICATION WriterSpecDebugfs
CONSTANTS
  j_first = 1
  j_last = 10
  TidMod = 16
  FsBlocks <- MCFsBlocks
  MagicBlocks <- MCMagicBlocks
  Shapes <- MCShapes
  MaxTransactions = 2
  Program = "debugfs"
  Features <- MCFeatures
  Places <- MCPlaces
  MaxDamaged = 0
  V1ReadErrors = FALSE
  SyncMayFail = FALSE
  MaxCrashes = 0
  WriterShapes <- MCWriterShapes
  EnabledCsums <- MCEnabledCsums
  CarefulWriter = TRUE
  MaxBefore = 1
  MaxSessions = 0
  MaxOpens = 0
  MaxWrites = 0
INVARIANT OldCommitsInvalid
CHECK_DEADLOCK FALSE
