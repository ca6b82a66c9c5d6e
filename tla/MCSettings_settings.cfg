SPECIFICATION Spec
CONSTANTS
  env = env
  new = new
  old = old
  h1 = h1
  h2 = h2
  x1 = x1
  Blank = Blank
  Masked = Masked
  Torn = Torn
  Default = Default
  Values = {env, new, old}
  Negative = {old}
  Env <- MCEnv
  Submitted <- MCSubmitted
  Zones = {"UTC", "Europe/Istanbul"}
  Handlers = {h1, h2}
  Mails = {x1}
  Budgets <- MCBudgets
SYMMETRY MCSymmetry
CHECK_DEADLOCK FALSE
INVARIANTS MemoryMatchesTable 
