SPECIFICATION FairSpec
CONSTANTS
  north = north
  east = east
  west = west
  Query <- SomeQueries
  Ttl = 1
  MaxTime = 4
  Apis = {"up", "down", "silent", "empty", "garbled"}
  Faults = {"path", "load", "write", "build", "kill"}
  NULL = NULL
INVARIANTS
  TypeOK
PROPERTIES
  AnswerIsFresh
  AnswerIsForItsQuery
  FetchesOncePerTtl
  EveryRequestEnds
