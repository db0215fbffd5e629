CONSTANTS
  Device = {d1, d2}
  Readers = {r1}
  Junk = Junk
  MAX_SQL_READ = 2
  DaySeconds = 2
  MaxTime = 3
  MaxRows = 3
  MaxFiles = 3
SPECIFICATION Spec
SYMMETRY Symmetry
INVARIANTS    OneIsLatestOfItsDay
