SPECIFICATION Spec
CONSTANTS
  Outputs = {o1}
  Inputs = {i1}
  Control = {c1, c2}
  Cards = {1}
  None = None
INVARIANTS TypeOK PcmMatchesStandby InfoReadInStandby TransfersHavePcm NoDeadlock
PROPERTY CallsAreSerial
SYMMETRY ControlSymmetry
