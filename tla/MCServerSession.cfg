SPECIFICATION Spec
CONSTANTS
  Sessions = {s1, s2}
  EnvNames <- MCEnvNames
  Requests <- MCRequests
  Configs <- MCConfigs
  BufCap = 1
  MaxPackets = 3
  None = None
INVARIANTS
  TypeOK
  EachAnsweredOnce
  ExitTellsTheTruth
PROPERTIES
  ImplementsProtocol
  ReaderNeverBlocks
  LostSessionsEnd
CHECK_DEADLOCK FALSE
