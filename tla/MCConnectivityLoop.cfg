SPECIFICATION PassSpec
CONSTANTS
  SubDirs = {2, 4}
  PlainFiles = {5}
  FreeInode = 3
  EmptyFiles = {5}
  LinkMax = 4
  DepthLimit = 0
  Answers = {TRUE}
  Cycles = TRUE
  Rootless = FALSE
INVARIANT CleanMeansConnected
CHECK_DEADLOCK FALSE
