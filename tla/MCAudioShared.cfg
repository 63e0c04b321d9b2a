SPECIFICATION Spec
CONSTANTS
  Outputs = {}
  Inputs = {i1, i2}
  Control = {c1}
  Cards = {1}
  None = None
INVARIANT InfoReadOnlyWhenIdle
