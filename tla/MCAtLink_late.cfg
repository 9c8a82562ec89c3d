SPECIFICATION Spec
CONSTANTS
  KeyOrder <- OneKey
  Senders = {"main", "tx"}
  Profiles = {"p1"}
  MAX_SEND_FAIL = 2
  MaxLosses = 3
  MayFail = {"SENDB", "RECVB", "DADDR"}
  Prompt = FALSE
  MaxUart = 2
  MaxTodo = 9
INVARIANTS HolderIsAlone SendBitHasOwner RecvBitHasOwner
PROPERTIES ReaderRecoveryBlocks
CHECK_DEADLOCK FALSE
