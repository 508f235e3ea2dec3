CONSTANTS
  c1 = c1
  c2 = c2
  Devices = {0}
  Clients <- MCClient1
  Targets <- MCTargets1
  PortNums = {5}
  AckTypes = {3}
  MaxHandles = 1
  MaxOps = 2
  MaxRecv = 1
  AllocFails = FALSE
  IrqFails = FALSE

SPECIFICATION Spec

INVARIANT PortInUseIsLive

\* Clients make at most MaxOps calls and remotes send MaxRecv commands.
CHECK_DEADLOCK FALSE
