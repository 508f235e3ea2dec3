CONSTANTS
  s1 = s1  s2 = s2  r1 = r1  r2 = r2
  Threads <- MCMixedThreads
  Handle <- MCMixedHandle
  NIrq = 2
  Chans = {0, 1, 2}
  DspChans = {0, 1}
  Pages = {0, 1}
  MaxMsgs = 2
  KmallocFails = TRUE
SPECIFICATION Spec
INVARIANTS TypeOK PageLiveWhenRead
PROPERTIES SendReturns ReceiveReturns ChannelRefined
CHECK_DEADLOCK FALSE
