SPECIFICATION FairSpec
CONSTANTS
  Workers = {w1}
  QueueSize = 1
  MAX_CLIENT = 3
  Capacity = 1
  None = None
  NoOne = NoOne
  Main = Main
INVARIANTS TypeOK 
 
CHECK_DEADLOCK FALSE
