SPECIFICATION FairSpec
CONSTANTS
  Conn = {c1, c2}
  Patient = {c1}
  Requests <- TinyAndSurplus
  Segments = {1, 4}
  FirstSegment = 1
  Backlog = 2
  MaxFd = 1
  SendBuffer = 1
  CHUNK_SIZE = 4
  ReplySize = 2
  AllocFail = {}
  NULL = NULL
PROPERTIES
  PatientServed
  AnsweredIsClosed
CHECK_DEADLOCK FALSE
