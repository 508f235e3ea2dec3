CONSTANTS
  s1 = s1  s2 = s2  r1 = r1  r2 = r2
  Threads <- MCIntThreads
  Handle <- MCIntHandle
  NIrq = 2
  Chans = {0, 1}
  DspChans = {0, 1}
  Pages = {0}
  MaxMsgs = 2
  KmallocFails = FALSE
SPECIFICATION Spec
INVARIANTS ReceivedOnOwnChannel
CHECK_DEADLOCK FALSE
