CONSTANTS
  c1 = c1
  c2 = c2
  f1 = f1
  f2 = f2
  listener = listener
  Conn <- TwoConns
  Fd <- OneFd
  Listener = listener
  None = None
  MaxRequests <- ThreeOfFirst
  Pipelining = TRUE
  Request <- EmptyFiles
  Departure = {"fin"}
  maxTasks_ = 1
  MaxConnections = 2

SPECIFICATION Spec

INVARIANTS
  TypeOK
  NeverForgotten

PROPERTY LeaversAreReleased

CHECK_DEADLOCK FALSE
