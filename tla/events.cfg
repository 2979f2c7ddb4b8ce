SPECIFICATION FairStreamSpec
CONSTANTS
  NumNodes = 1
  Threads = {t1}
  QueueMax = 2
  MaxNews = 2
  MaxNetwork = 2
INVARIANTS ViewIsCurrent EventsInOrder
PROPERTY CatchesUp
CHECK_DEADLOCK FALSE
