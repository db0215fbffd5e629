SPECIFICATION Spec
CONSTANTS
  Threads = {t1}
  NoOne = NoOne
  NULL = NULL
  Levels = {}
  Sizes = {}
  Counts = {}
  Moves = {}
  Targets = {}
  InitSize = 1
  InitCount = 2
  MostFiles = 2
  Descriptors = 4
  MaxLines = 4
INVARIANTS FilesStayBounded
CHECK_DEADLOCK FALSE
