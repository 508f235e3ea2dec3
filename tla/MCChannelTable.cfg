CONSTANTS
  t1 = t1
  t2 = t2
  t3 = t3
  Threads <- MCThreads
  NCh = 2
  NIrq = 1
  Requests <- MCRequests
  NoThread = NoThread
  Tables <- MCTables

SPECIFICATION Spec

INVARIANT TypeOK
INVARIANT ExclusiveHandles
INVARIANT NoSpuriousExhaustion
PROPERTY GetChannelReturns
