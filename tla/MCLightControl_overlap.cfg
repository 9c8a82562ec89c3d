SPECIFICATION FairSpec
CONSTANTS
  Settings <- OneSetting
  MeshIds = {}
  Profiles = {}
  Others = {"n1"}
  Exclusive = FALSE
  MaxCommands = 3
  MaxMinutes = 1
  MaxRestarts = 0
INVARIANTS GroupCommandServed
PROPERTIES HandlersFinish
CHECK_DEADLOCK FALSE
