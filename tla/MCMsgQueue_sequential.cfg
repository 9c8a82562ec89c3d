SPECIFICATION FairSpec
CONSTANTS
  Cap = 2
  Producers = {"timer", "parser"}
  Tx = "tx"
  Preempts <- NoOverlap
  MaxPosts = 5
INVARIANTS TypeOK NoFault SizeBounded PrintReadsWritten
PROPERTIES ImplementsFifo EveryMessageSettled
CHECK_DEADLOCK FALSE
