CONSTANTS
  a = a
  b = b
  SM = {a, b}
  Guid <- MCGuid
  Priority <- MCPriority
  Elevated <- MCPriority
  Misconfigured = {}
  PingMaxFail = 1
  SweepTimer = TRUE
  MaxFaults = 0
  MaxTimeouts = 0
  MaxSweeps = 0
SPECIFICATION FairSpec
PROPERTIES Elected StandbyPings
