SPECIFICATION Spec
CONSTANTS
  Nodes = {"a", "b"}
  Readers = {"r1"}
  Cap = 2
  MinuteTicks = 3
  MaxReports = 4
  MaxTicks = 7
  MaxQueries = 1
  MaxConnects = 2
INVARIANTS TypeOK OfferedWithoutRepeats OneRootReportPerMinute
CHECK_DEADLOCK FALSE
