SPECIFICATION FairSpec
CONSTANTS
  c1 = c1
  c2 = c2
  g1 = g1
  g2 = g2
  m1 = m1
  None = None
  Monitors = {m1}
  Channels = {c1, c2}
  Goroutines = {g1}
  Attempts = 2
  Intervals = {0, 1}
  Cooldowns = {0, 2}
  Schedules <- MCSchedules
  Days = 2
  Hours = 2
  SslPeriod = 2
  Never = 2
  Setups <- MCSetups
CHECK_DEADLOCK FALSE
INVARIANTS RemindersAreRouted LogCoversMessages
PROPERTIES RemindersAreSpaced WarningsAreSpaced
 KeepsReminding
