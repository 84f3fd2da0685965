SPECIFICATION Spec
CONSTANTS
  Conn = {c1, c2}
  Patient = {c1}
  Requests <- SomeRequests
  Segments = {1, 4}
  FirstSegment = 4
  Backlog = 2
  MaxFd = 2
  SendBuffer = 1
  CHUNK_SIZE = 4
  ReplySize = 2
  AllocFail = {}
  NULL = NULL
INVARIANTS
  TypeOK
  DescriptorsOwned
  TasksMatchConnections
  AnswerFitsRequest
PROPERTIES
  ImplementsHttpService
CHECK_DEADLOCK FALSE
