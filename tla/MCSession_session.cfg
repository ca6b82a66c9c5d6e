SPECIFICATION Spec
CONSTANTS
  u1 = u1
  u2 = u2
  b1 = b1
  b2 = b2
  p1 = p1
  p2 = p2
  Users = {u1, u2}
  Browsers = {b1, b2}
  Requests = {p1, p2}
  AccessLife = 1
  RefreshLife = 2
  Latency = 1
  Budgets <- MCBudgets
SYMMETRY MCSymmetry
CHECK_DEADLOCK FALSE
INVARIANTS OneTokenPerSession LogoutEnds StaleRoleIsBounded SetupIsOneTime
