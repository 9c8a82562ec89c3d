SPECIFICATION Spec
CONSTANTS
  Cap = 2
  Producers = {"timer"}
  Tx = "tx"
  Preempts <- PriorityPreempts
  MaxPosts = 3
INVARIANT EmptyMeansDrained
CHECK_DEADLOCK FALSE
