CONSTANTS
  Procs <- MCProcs
  Plans <- MCPlans
  Pairs <- MCPairs
  Given = 9
  MaxTries = 1
SPECIFICATION Spec
INVARIANTS PairIsWhole AgentKeepsItsSocket
PROPERTIES LoginAfterCopy SocketsAreCleaned
CHECK_DEADLOCK FALSE
