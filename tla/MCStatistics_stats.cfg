SPECIFICATION Spec
CONSTANTS
  m1 = m1
  m2 = m2
  Monitors = {m1, m2}
  Levels <- MCLevels
  Bucket <- MCBucket
  Window <- MCWindow
  Keep <- MCKeep
  RawKeep = 8
  TickEvery = 3
  Length <- MCLength
  Day = 3
  Overview = 9
  Latency = 1
  Budgets <- MCBudgets
CHECK_DEADLOCK FALSE
INVARIANTS RowsAreSound CoveredRowsAreExact AnswersCoverTheRange
 UptimeIsBounded
