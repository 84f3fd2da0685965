SPECIFICATION Spec
CONSTANTS
  Conn = {c1, c2}
  Patient = {c1}
  Requests <- SomeRequests
  Segments = {1, 4}
  FirstSegment = 1
  Backlog = 2
  MaxFd = 2
  SendBuffer = 1
  CHUNK_SIZE = 4
  ReplySize = 2
  AllocFail = {}
  NULL = NULL
INVARIANTS
  HeadersWereReceived
