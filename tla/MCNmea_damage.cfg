SPECIFICATION FairSpec
CONSTANTS
  Enabled = {"GGA", "GSV", "GLL"}
  Cycle <- MixedCycle
  Fixes = 2
  Noise <- SomeNoise
  MaxDamage = 1
INVARIANTS PublishedIsAFix HealsInTwoCycles
PROPERTIES EveryFixShown
