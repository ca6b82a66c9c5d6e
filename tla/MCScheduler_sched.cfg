SPECIFICATION FairSpec
CONSTANTS
  m1 = m1
  m2 = m2
  h1 = h1
  h2 = h2
  Monitors = {m1, m2}
  Handlers = {h1, h2}
  Intervals = {30, 60}
  MaxRequests = 3
  MaxFaults = 1
  MaxRestarts = 1
CHECK_DEADLOCK FALSE
INVARIANTS JobsAreLive ScheduleMatchesTable
PROPERTY EnabledIsChecked
