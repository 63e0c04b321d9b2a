SPECIFICATION Spec
CONSTANTS
  u = u
  v = v
  Procs = {u, v}
  Updaters = {u, v}
  Whole = TRUE
  MaxTries = 2
INVARIANTS OneTop NoTriesOnceSuccessful
PROPERTY CallsAreAtomic
SYMMETRY Swap
