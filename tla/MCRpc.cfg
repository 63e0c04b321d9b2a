SPECIFICATION Spec
CONSTANTS
  RsaKeyBits = 3072
  Word = 65536
  MaxUpdates = 2
  Stubs <- AllStubs
INVARIANTS TypeOK SentInBounds CopiedBackInBounds RetryIsSafe
