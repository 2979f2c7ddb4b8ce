SPECIFICATION FairSpec
CONSTANTS
  Workflows = {w1}
  MaxCalls = 3
  MaxEdits = 2
  MaxLoads = 2
  MaxFailures = 1
INVARIANTS NoEditForgotten SaveStateTruthful SavedIsStored
PROPERTY EditsAreSaved
CHECK_DEADLOCK FALSE
