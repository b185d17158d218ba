SPECIFICATION SpecZeroout
CONSTANTS
  NBlocks = 2
  Data = {0, 1}
  Zero = 0
  CacheSize = 2
  DirectSize = 1
  TimeMod = 2
  Modes = {FALSE}
  ReadMayFail = FALSE
  WriteMayFail = FALSE
  EvictionMayFail = FALSE
INVARIANT
  ZeroedReadsAsZeroes
