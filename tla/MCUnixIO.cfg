SPECIFICATION Spec
CONSTANTS
  NBlocks = 3
  Data = {0, 1}
  Zero = 0
  CacheSize = 2
  DirectSize = 2
  TimeMod = 2
  Modes = {FALSE}
  ReadMayFail = FALSE
  WriteMayFail = FALSE
  EvictionMayFail = FALSE
INVARIANTS
  TypeOK
  OneEntryPerBlock
  ReadsLastWrite
  FlushMakesDurable
