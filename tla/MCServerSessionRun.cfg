SPECIFICATION Spec
CONSTANTS
  Sessions = {s1}
  EnvNames <- MCEnvNames
  Requests <- MCRequests
  Configs <- MCConfigs
  BufCap = 1
  MaxPackets = 3
  None = None
PROPERTY
  RunReturnsOnExit
CHECK_DEADLOCK FALSE
