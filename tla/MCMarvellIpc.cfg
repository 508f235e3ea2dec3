CONSTANTS
  c1 = c1
  c2 = c2
  Devices = {0}
  Clients <- MCClients
  Targets <- MCTargets1
  PortNums = {5}
  AckTypes = {2, 3}
  MaxHandles = 3
  MaxOps = 3
  MaxRecv = 2
  AllocFails = TRUE
  IrqFails = FALSE

SPECIFICATION Spec

INVARIANT TypeOK
INVARIANT IrqWhileOpen
INVARIANT SendGetsOwnAck

\* Clients make at most MaxOps calls and remotes send MaxRecv commands.
CHECK_DEADLOCK FALSE
