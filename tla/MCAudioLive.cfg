SPECIFICATION FairSpec
CONSTANTS
  Outputs = {o1}
  Inputs = {}
  Control = {c1, c2}
  Cards = {1}
  None = None
PROPERTY CallsReturn
