CONSTANTS
  c1 = c1
  c2 = c2
  Devices = {0}
  Clients <- MCClient1
  Targets <- MCTargets1
  PortNums = {5}
  AckTypes = {3}
  MaxHandles = 1
  MaxOps = 2
  MaxRecv = 1
  AllocFails = FALSE
  IrqFails = TRUE

SPECIFICATION Spec

PROPERTY SendReturns

\* The client makes at most MaxOps calls.
CHECK_DEADLOCK FALSE
