CONSTANTS
  t1 = t1
  t2 = t2
  Threads <- MCThreads
  NPages = 4
  PageSize = 4
  Sizes <- MCSizes
  Pins <- MCPinsAll
  NoThread = NoThread
  DSPs <- MCDSPs
SPECIFICATION Spec
SYMMETRY MCSymmetry
INVARIANT RequestsInRange
