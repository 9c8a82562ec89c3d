SPECIFICATION FairSpec
CONSTANTS
  Updates = {"u1", "u2"}
  Chunks = 2
  KeyOrder <- TwoKeys
  UserSettings = {"s1"}
  MaxErrors = 1
  MaxReboots = 2
  MaxCommands = 2
INVARIANTS TypeOK FaultsOnlyFromOutside NvsKept LampShowsStatus OnlyWholeImages
PROPERTIES ComesUp UpdatesEnd
CHECK_DEADLOCK FALSE
