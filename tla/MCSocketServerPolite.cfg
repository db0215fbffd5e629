CONSTANTS
  Client = {c1, c2}
  FD = {1, 2}
  MAX_CLIENT = 3
  Workers = {w1}
  QueueSize = 1
  MaxAsks = 2
  Polite = TRUE
  None = None
  Zero = Zero
SPECIFICATION FairSpec
INVARIANTS AnswersTheAsker  SlotsSuffice
 
CHECK_DEADLOCK FALSE
