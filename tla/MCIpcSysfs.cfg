CONSTANTS
  t1 = t1
  t2 = t2
  Threads <- MCThreads
  NCh = 1
  NIrq = 1
  Requests <- SysfsRequests
  Tables <- MCTables
  NoThread = NoThread
  PartnerIn = {0, 1}
  OpIn = {1}
  ModeIn = {0, 1}
  ChannelIn <- MCChannelInSmall
  PageIn = {0}

SPECIFICATION SysfsSpec

SYMMETRY MCSymmetry

INVARIANT ExclusiveHandles
