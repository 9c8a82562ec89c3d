SPECIFICATION FairSpec
CONSTANTS
  KeyOrder <- AllKeys
  Senders = {"main", "bt"}
  Profiles = {"p1", "p2"}
  MAX_SEND_FAIL = 3
  MaxLosses = 4
  MayFail = {"AT", "cfg"}
  Prompt = TRUE
  MaxUart = 2
  MaxTodo = 60
CONSTRAINT StopAtOverlap
INVARIANTS TypeOK ModemMatchesNvs
PROPERTIES CallsReturn KeepsPolling
