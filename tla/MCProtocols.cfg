SPECIFICATION Spec
CONSTANTS
  UndoValues = {"s","a","b","m","n"}
  OldDevice <- MCOldDevice
  ToolValue <- MCToolValue
  NewSize = 5
  Ratio = 2
  KeysPerBlock = 2
  MaxExtent = 2
  FsOffset = 0
  SuperFlushes = TRUE
  UndoFileFails = TRUE
  ReopenFull = FALSE
  MaxCount = 2
  MaxUndoWrites = 3
  MaxTools = 2
  TdbData = {7}
  HashCells = 1
  FirstSize = 3
  PageCells = 1
  MaxCells = 14
  MaxTdbWrites = 2
  MaxCommits = 2
  MaxCrashes = 2
  Clients = {"p","q"}
  Daemons = {"d","e"}
  ProcessOf <- MCProcessOf
  StateFile = {"p","d","e"}
  FirstFd = 3
  TicksPerUsec = 2
  MAX_ADJUSTMENT = 2
  FillsUsec = FALSE
  BulkNum = 3
  Second = 1
  ClockSeqs = 200
  SeqGap = 50
  MaxTime = 3
  MaxUuids = 3
  MaxEvents = 2
  SubDirs = {2,4}
  PlainFiles = {5}
  FreeInode = 3
  EmptyFiles = {5}
  LinkMax = 4
  DepthLimit = 0
  Answers = {TRUE,FALSE}
  Cycles = FALSE
  Rootless = TRUE
INVARIANTS
  UndoRestores 
  
  
  CleanMeansConnected CleanMeansCounted
CHECK_DEADLOCK FALSE
