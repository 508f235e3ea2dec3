CONSTANTS
  c1 = c1
  c2 = c2
  Devices = {0}
  Clients <- MCClient1
  Targets <- MCTargets1
  PortNums = {5}
  AckTypes = {3}
  MaxHandles = 1
  MaxOps = 3
  MaxRecv = 0
  AllocFails = FALSE
  IrqFails = FALSE

SPECIFICATION Spec

PROPERTY SendReturns

\* Clients make at most MaxOps calls.
CHECK_DEADLOCK FALSE
