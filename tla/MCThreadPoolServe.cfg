CONSTANTS
  Workers = {w1, w2}
  Task = {t1, t2}
  Garbage = Garbage
  QueueSize = 2
  CreateMayFail = FALSE
  CountFloor = 1
SPECIFICATION FairServeSpec
INVARIANTS TypeOK LockDiscipline RingAgrees
PROPERTIES ImplementsTaskPool TasksAreStarted NoneSleepsOnWork
