SPECIFICATION Spec
CONSTANTS
  m1 = m1
  s1 = s1
  Monitors = {m1}
  Slots = {s1}
  Retries <- MCNoRetries
  Retention = 1
  Global = Global
  None = None
  MaxTime = 2
  MaxFlips = 2
  MaxFaults = 0
  MaxCrashes = 0
  MaxWindows = 1
CHECK_DEADLOCK FALSE
INVARIANT UpHasNoIncident
