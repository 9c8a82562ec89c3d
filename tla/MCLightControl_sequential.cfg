SPECIFICATION Spec
CONSTANTS
  Settings <- TwoSettings
  MeshIds = {907, 654321}
  Profiles <- TwoProfiles
  Others = {"n1"}
  Exclusive = TRUE
  MaxCommands = 3
  MaxMinutes = 2
  MaxRestarts = 1
INVARIANTS TypeOK Settled LampFits MeshIdAsAsked SavedBeforeMulticast
PROPERTIES WorkingTimeGrows
CHECK_DEADLOCK FALSE
