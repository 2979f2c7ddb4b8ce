SPECIFICATION Spec
CONSTANTS
  N = 3
  Sources <- ChainSources
  Expensive = {2}
  TargetSets <- LeafOnly
  MaxVer = 1
  MaxEdits = 2
  MaxRequests = 2
  Ops = {"edit", "save", "switch", "fail", "cancel", "stop"}
CHECK_DEADLOCK FALSE
INVARIANT GatedUntilAsked
PROPERTY UndisturbedRunCompletes
