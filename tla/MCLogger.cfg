SPECIFICATION FairSpec
CONSTANTS
  Threads = {t1, t2}
  NoOne = NoOne
  NULL = NULL
  Levels = {3}
  Sizes = {0, 2}
  Counts = {1}
  Moves = {TRUE}
  Targets = {FALSE}
  InitSize = 1
  InitCount = 2
  MostFiles = 2
  Descriptors = 3
  MaxLines = 3
INVARIANTS OneWriter StuckOnlyOnFailure
PROPERTIES  CallsReturn
CHECK_DEADLOCK FALSE
