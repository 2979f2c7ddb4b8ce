SPECIFICATION Spec
CONSTANTS
  NumPacks = 2
  c1 = c1
  c2 = c2
  Libs = {}
  MaxVersion = 2
  Requires <- RequiresFirst
  Broken <- BrokenUpgrade
  Direct <- NewestIsDirect
  Shipped = {1}
  Clients = {c1, c2}
  MaxRequests = 3
  MaxFailures = 1
SYMMETRY ClientSymmetry
INVARIANTS CanvasFollowsRegistry RestartIsHonest ListIsTruthful
PROPERTIES RollbackRestores
CHECK_DEADLOCK FALSE
