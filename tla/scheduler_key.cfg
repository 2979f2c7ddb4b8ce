SPECIFICATION Spec
CONSTANTS
  N = 2
  Sources <- PairSources
  Expensive = {}
  TargetSets <- LeafOnly
  MaxVer = 1
  MaxEdits = 1
  MaxRequests = 0
  Ops = {"edit"}
INVARIANT StoredUnderItsKey
CHECK_DEADLOCK FALSE
