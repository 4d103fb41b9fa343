CONSTANTS
  c1 = c1
  c2 = c2
  f1 = f1
  f2 = f2
  listener = listener
  Conn <- OneConn
  Fd <- OneFd
  Listener = listener
  None = None
  MaxRequests <- OneEach
  Pipelining = FALSE
  Request <- AnyRequest
  Departure = {"fin", "rst"}
  maxTasks_ = 2
  MaxConnections = 2

SPECIFICATION Spec

PROPERTY CloseFollowsResponse

CHECK_DEADLOCK FALSE
