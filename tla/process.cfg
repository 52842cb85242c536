SPECIFICATION ProcessSpec
CONSTANTS
  Http = {w}
  Grpc = {g1, g2}
  Conn = {c1, c2}
  MaxCalls = 2
  None = None
CHECK_DEADLOCK FALSE
INVARIANTS
  ConnectionsAccounted
  IdleConnectionClean
  DrainSound
PROPERTIES
  ShutdownEnds
  RequestsEnd
