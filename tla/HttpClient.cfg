SPECIFICATION FairSpec
CONSTANTS
  Responses <- SomeResponses
  Segments = {1, 3, 5}
  CHUNK_SIZE = 4
  RequestSize = 3
  SendBuffer = 2
  ResponseRoom = 2
  ErrorRoom = 3
  Timeout = 2
  Faults = {"memory", "task", "url", "connect"}
  NULL = NULL
INVARIANTS
  TypeOK
  SocketAccounted
  RequestGoesFirst
  ResponseReassembled
PROPERTIES
  ReportsWhatArrived
  ImplementsHttpExchange
  EveryRequestEnds
\* The request is over and nothing is left to do.
CHECK_DEADLOCK FALSE
