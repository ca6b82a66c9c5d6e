SPECIFICATION SPSpec
CONSTANTS
  g1 = g1
  g2 = g2
  t1 = t1
  t2 = t2
  m1 = m1
  m2 = m2
  s1 = s1
  s2 = s2
  w1 = w1
  w2 = w2
  v1 = v1
  None = None
  Pages = {g1, g2}
  Tags = {t1, t2}
  Monitors = {m1, m2}
  Slugs = {s1, s2}
  Writers = {w1, w2}
  Visits = {v1}
  ActiveLimit = 1
  RecentLimit = 2
  ShownLimit = 1
  Budgets <- MCBudgets
SYMMETRY MCSymmetry
CHECK_DEADLOCK FALSE
INVARIANTS PageIsAsAnswered OutageIsExplained IncidentsAreListed
