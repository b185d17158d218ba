SPECIFICATION FairSpec
CONSTANTS
  NBlocks = 2
  Data = {0, 1}
  Zero = 0
  CacheSize = 2
  DirectSize = 1
  TimeMod = 2
  Modes = {TRUE, FALSE}
  ReadMayFail = TRUE
  WriteMayFail = TRUE
  EvictionMayFail = FALSE
PROPERTIES IsBlockDevice CallReturns
