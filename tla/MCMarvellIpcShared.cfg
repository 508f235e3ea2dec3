CONSTANTS
  c1 = c1
  c2 = c2
  Devices = {0, 1}
  Clients <- MCClients
  Targets <- MCTargets2
  PortNums = {5}
  AckTypes = {3}
  MaxHandles = 2
  MaxOps = 1
  MaxRecv = 1
  AllocFails = FALSE
  IrqFails = FALSE

SPECIFICATION Spec

INVARIANT RemoteAckMatches

\* Clients make at most MaxOps calls and remotes send MaxRecv commands.
CHECK_DEADLOCK FALSE
