CONSTANTS
  t1 = t1
  t2 = t2
  Threads <- MCThreads
  NPages = 4
  PageSize = 4
  Sizes <- MCSizes
  Pins <- MCPinsInRange
  NoThread = NoThread
  DSPs <- MCDSPs

SPECIFICATION Spec

INVARIANT TypeOK
INVARIANT ExclusiveOwnership
INVARIANT FindIsFirstFit
SYMMETRY MCSymmetry
