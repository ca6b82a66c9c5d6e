SPECIFICATION FairSpec
CONSTANTS
  c1 = c1
  c2 = c2
  Clients = {c1, c2}
  QueueSize = 1
  SendSize = 1
  MaxMessages = 2
CHECK_DEADLOCK FALSE
INVARIANTS ClosedOnce NoGaps
PROPERTIES QueueIsEmptied NothingLeaks
