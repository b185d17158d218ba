SPECIFICATION WriterSpec
CONSTANTS
  j_first = 1
  j_last = 10
  TidMod = 16
  FsBlocks <- MCFsBlocks
  MagicBlocks <- MCMagicBlocks
  Shapes <- MCShapes
  MaxTransactions = 3
  Program = "e2fsck"
  Features <- MCFeatures
  Places <- MCPlaces
  MaxDamaged = 2
  V1ReadErrors = FALSE
  SyncMayFail = TRUE
  MaxCrashes = 1
  WriterShapes <- MCWriterShapes
  EnabledCsums <- MCEnabledCsums
  CarefulWriter = TRUE
  MaxBefore = 1
  MaxSessions = 1
  MaxOpens = 2
  MaxWrites = 2
INVARIANTS TypeOK EmptyOnlyAfterReplay OnlyCommittedData FlagClearsLast OldCommitsInvalid CleanIsRecoveredUnlessCrash RunsOnce
PROPERTY RecoveryEnds
CHECK_DEADLOCK FALSE
