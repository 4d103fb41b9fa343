CONSTANTS
  c1 = c1
  c2 = c2
  f1 = f1
  f2 = f2
  listener = listener
  Conn <- TwoConns
  Fd <- TwoFds
  Listener = listener
  None = None
  MaxRequests <- OneEach
  Pipelining = FALSE
  Request <- AnyRequest
  Departure = {"fin", "rst"}
  maxTasks_ = 2
  MaxConnections = 2

SPECIFICATION SafetySpec

INVARIANT LimitMeansOpenConnections

CHECK_DEADLOCK FALSE
