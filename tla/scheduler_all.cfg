SPECIFICATION FairSpec
CONSTANTS
  N = 2
  Sources <- PairSources
  Expensive = {2}
  TargetSets <- LeafOnly
  MaxVer = 1
  MaxEdits = 2
  MaxRequests = 2
  Ops <- AllOps
CHECK_DEADLOCK FALSE
INVARIANTS RunningHasTask
PROPERTIES ComesToRest AbortedRunStartsNothing ImplementsRunQueue
