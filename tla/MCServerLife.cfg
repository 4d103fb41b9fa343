CONSTANTS
  c1 = c1
  c2 = c2
  f1 = f1
  f2 = f2
  listener = listener
  Conn <- TwoConns
  Fd <- TwoFds
  Listener = listener
  None = None
  MaxRequests <- OneEach
  Pipelining = FALSE
  Request <- AnyRequest
  Departure = {"fin", "rst"}
  maxTasks_ = 1
  MaxConnections = 1

SPECIFICATION LifeSpec

INVARIANTS
  ConnectionLimit
  TasksFindTheServer
  NothingStaysOpen

PROPERTY ShutdownCompletes

CHECK_DEADLOCK FALSE
