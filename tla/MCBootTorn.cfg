SPECIFICATION Spec
CONSTANTS
  u = u
  v = v
  Procs = {u}
  Updaters = {u}
  Whole = FALSE
  MaxTries = 7
INVARIANT TypeOK
PROPERTY NeverStranded MarkKeepsPriorities
