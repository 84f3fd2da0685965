SPECIFICATION FairSpec
CONSTANTS
  Conn = {c1, c2}
  Patient = {}
  Requests <- TinyRequests
  Segments = {2, 4}
  FirstSegment = 2
  Backlog = 2
  MaxFd = 1
  SendBuffer = 1
  CHUNK_SIZE = 4
  ReplySize = 1
  AllocFail = {"connection", "task", "instance", "node", "realloc", "headers", "strdup", "body", "reply", "list"}
  NULL = NULL
INVARIANTS
  DescriptorsOwned
  TasksMatchConnections
PROPERTIES
  EveryPassEnds
CHECK_DEADLOCK FALSE
