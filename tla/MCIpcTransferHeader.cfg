CONSTANTS
  s1 = s1  s2 = s2  r1 = r1  r2 = r2
  Threads <- MCSendThreads
  Handle <- MCSendHandle
  NIrq = 2
  Chans = {0, 1}
  DspChans = {}
  Pages = {0, 1, 2}
  MaxMsgs = 2
  KmallocFails = FALSE
SPECIFICATION Spec
INVARIANTS PageLiveWhenRead
CHECK_DEADLOCK FALSE
