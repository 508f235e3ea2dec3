CONSTANTS
  OscRate = 25000000
  PllBoot <- MCPllBoot
  PllDefaults <- MCPllDefaults
  SscgConfs <- MCSscgConfs
  GenConfs <- MCGenConfs
  GenBoot <- MCGenBoot
  FdBoot <- MCFdBoot
  GateReset = TRUE
  PllReqs = {400000000}
  LPllReqs = {2000000000}
  GenReqs = {100000000, 400000000}
  FdReqs = {1843200, 4000000}
  LvdsReqs = {74250000}
  OcfReqs = {130000000}

SPECIFICATION Spec

INVARIANT RoundedRateDelivered
