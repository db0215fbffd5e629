CONSTANTS
  Workers = {w1, w2}
  Task = {t1}
  Garbage = Garbage
  QueueSize = 2
  CreateMayFail = TRUE
  CountFloor = 1
SPECIFICATION FairSpec
INVARIANTS FreedWhenUnused
PROPERTIES QuietShutdownReturns
CHECK_DEADLOCK FALSE
