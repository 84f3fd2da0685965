SPECIFICATION Spec
CONSTANTS
  north = north
  east = east
  west = west
  Query <- SomeQueries
  Ttl = 1
  MaxTime = 4
  Apis = {"up"}
  Faults = {"save"}
  NULL = NULL
PROPERTIES
  AnswerIsFresh
