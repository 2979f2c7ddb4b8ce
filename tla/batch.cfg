SPECIFICATION FairSpec
CONSTANTS
  NumRows = 5
  Workers = 2
INVARIANTS FinishedIsLast
PROPERTIES NothingSucceedsAfterCancel FailureStopsTheRest BatchEnds
CHECK_DEADLOCK FALSE
