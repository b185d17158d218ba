SPECIFICATION Spec
CONSTANTS
  Tools = {t1, t2}
  Mounts = {k}
  Interval = 2
  Delay = 1
  Grace = 2
  CloseCalls = TRUE
  SeqLimit = 5
INVARIANT StopReportsChange
