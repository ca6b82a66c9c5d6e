SPECIFICATION FairSpec
CONSTANTS
  r1 = r1
  r2 = r2
  r3 = r3
  Requests = {r1, r2, r3}
  MaxExpiries = 1
CHECK_DEADLOCK FALSE
INVARIANTS RefreshesDoNotOverlap RetriedOnceWithNewToken LoggedOutStaysOut
PROPERTY EveryRequestEnds
