CONSTANTS
  a = a
  b = b
  SM = {a, b}
  Guid <- MCGuid
  Priority <- MCPriority
  Elevated <- MCElevated
  Misconfigured = {a}
  PingMaxFail = 1
  SweepTimer = TRUE
  MaxFaults = 1
  MaxTimeouts = 1
  MaxSweeps = 5
SPECIFICATION Spec
CHECK_DEADLOCK FALSE
INVARIANTS TypeOK NoIllegalTransition ElevatedIsMaster
PROPERTY HandoverKeepsMaster
