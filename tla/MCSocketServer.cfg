CONSTANTS
  Client = {c1, c2}
  FD = {1, 2}
  MAX_CLIENT = 2
  Workers = {w1, w2}
  QueueSize = 1
  MaxAsks = 1
  Polite = FALSE
  None = None
  Zero = Zero
SPECIFICATION Spec
SYMMETRY Symmetry
INVARIANTS TypeOK SlotHasOneOwner
CHECK_DEADLOCK FALSE
