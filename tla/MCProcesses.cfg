SPECIFICATION ProcSpec
CONSTANTS
  Tools = {t1, t2}
  Mounts = {k}
  Interval = 2
  Delay = 1
  Grace = 2
  CloseCalls = FALSE
  SeqLimit = 5
  Fstab <- MCFstab
  ExitCodes <- MCExitCodes
  Modes = {"all","list"}
  max_running = 2
  Options = {{}, {"progress", "skip_root"}, {"parallel_root"}, {"ignore_mounted"}, {"force_all_parallel"}, {"serialize"}}
  ForkFails = TRUE
  Cancels = TRUE
INVARIANTS ExclusiveUse ClaimStands ParallelChecksAreSafe ExitIsComplete
PROPERTIES StartEnds FsckEnds
