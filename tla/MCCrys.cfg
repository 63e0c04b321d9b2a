SPECIFICATION Spec
CONSTANTS
  cipher = cipher
  digest = digest
  Users = {cipher, digest}
  PageSize = 8
  AlignSize = 2
  PropsSize = 2
  Addresses <- Places
  Stacks <- AllPlaces
  BufSize <- Sizes
  Modes <- AllModes
  Pairings <- Pairs
  MaxBlocks = 1
INVARIANTS TypeOK InBuffer NoCrossing ContextKept FailureTold
