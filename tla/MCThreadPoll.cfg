CONSTANTS
  w1 = w1
  w2 = w2
  w3 = w3
  Worker <- MCWorker
  Free = Free
  maxTasks_ = 2
  MaxSubmissions = 4

SPECIFICATION Spec

INVARIANTS
  TypeOK
  NoLostWakeup
  NoSleeperLeft
  NoEarlyExit

PROPERTIES
  ImplementsSerialExecutor
  AcceptedTasksRun
  DestructorReturns
