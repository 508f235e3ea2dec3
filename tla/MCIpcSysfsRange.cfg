CONSTANTS
  t1 = t1
  t2 = t2
  Threads <- MCThreads
  NCh = 3
  NIrq = 2
  Requests <- SysfsRequests
  Tables <- MCTables
  NoThread = NoThread
  PartnerIn = {0, 1}
  OpIn = {0, 1}
  ModeIn = {0, 1}
  ChannelIn <- MCChannelInNonNeg
  PageIn = {0}

SPECIFICATION SysfsSpec

INVARIANT AppointedInBound
