SPECIFICATION Spec
CONSTANTS
  Nodes = {"a", "b"}
  Readers = {"r1", "r2"}
  Cap = 2
  MinuteTicks = 2
  MaxReports = 3
  MaxTicks = 0
  MaxQueries = 0
  MaxConnects = 2
INVARIANTS OfferedWithoutRepeats
CHECK_DEADLOCK FALSE
