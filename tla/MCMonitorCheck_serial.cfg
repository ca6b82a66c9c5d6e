SPECIFICATION FairSpec
CONSTANTS
  m1 = m1
  m2 = m2
  s1 = s1
  Monitors = {m1, m2}
  Slots = {s1}
  Retries <- MCOneRetries
  Retention = 1
  Global = Global
  None = None
  MaxTime = 1
  MaxFlips = 3
  MaxFaults = 0
  MaxCrashes = 0
  MaxWindows = 0
CHECK_DEADLOCK FALSE
INVARIANTS UpHasNoIncident AnnouncedMatchesIncident
PROPERTY RecoveryIsRecorded
