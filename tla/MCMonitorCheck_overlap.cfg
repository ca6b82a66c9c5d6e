SPECIFICATION Spec
CONSTANTS
  m1 = m1
  s1 = s1
  s2 = s2
  Monitors = {m1}
  Slots = {s1, s2}
  Retries <- MCNoRetries
  Retention = 1
  Global = Global
  None = None
  MaxTime = 1
  MaxFlips = 3
  MaxFaults = 1
  MaxCrashes = 1
  MaxWindows = 0
CHECK_DEADLOCK FALSE
INVARIANTS OneOpenIncident NoOrphans
PROPERTY LedgerSpec
