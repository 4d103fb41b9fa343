CONSTANTS
  c1 = c1
  c2 = c2
  f1 = f1
  f2 = f2
  listener = listener
  Conn <- TwoConns
  Fd <- TwoFds
  Listener = listener
  None = None
  MaxRequests <- OneEach
  Pipelining = FALSE
  Request <- FilesAndPages
  Departure = {"fin"}
  maxTasks_ = 1
  MaxConnections = 2

SPECIFICATION Spec

PROPERTIES
  LeaversAreReleased
  FirstRequestAnswered

CHECK_DEADLOCK FALSE
