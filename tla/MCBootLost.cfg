SPECIFICATION Spec
CONSTANTS
  u = u
  v = v
  Procs = {u, v}
  Updaters = {u, v}
  Whole = TRUE
  MaxTries = 7
PROPERTY MarkKeepsPriorities
