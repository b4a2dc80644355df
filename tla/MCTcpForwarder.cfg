SPECIFICATION Spec
CONSTANTS
  Conns = {c1, c2}
  Listeners = {l1, l2}
  Raws = {r1}
  Addrs <- MCAddrs
  Ports <- MCPorts
  Overlap <- MCOverlap
  PermitListen <- MCPermitListen
  AllowRemote = TRUE
  Requests <- MCRequests
  MaxRequests = 2
  QueueCap = 1
  NoListener = NoListener
  NoConn = NoConn
INVARIANTS
  TypeOK
  NoListenerLost
PROPERTIES
  ImplementsTable
  CancelReleasesPort
  NoOrphanRaw
  RequestLoopsEnd
CHECK_DEADLOCK FALSE
