SPECIFICATION FairSpec
CONSTANTS
  N = 4
  Sources <- SwitchSources
  Lazy <- SwitchLazy
  Plan = {3, 4}
  Threads = 3
  MaxRuns = 2
  MaxCancels = 1
  MaxFaults = 1
INVARIANTS EachCallIsSingle NobodyWaitsForNothing
CHECK_DEADLOCK FALSE
PROPERTY ComesToRest
