CONSTANTS
  Url <- MCUrl
  BodySize = 1
  Request <- MCRequest
  Answer <- MCAnswer
  None = None
  MaxRequests = 3
  MaxCuts = 1

SPECIFICATION Spec

INVARIANTS
  TypeOK
  LoopComputes
  AnswersInOrder
  Framing
  NoInheritedHeaders
  AnswersFollowLines
  LoopsOnlyAfterEmptyRead
  AbortsOnlyForLateBody

PROPERTIES
  MatchesHylChan
  EachIsAnswered

CHECK_DEADLOCK FALSE
