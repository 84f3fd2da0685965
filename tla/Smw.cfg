SPECIFICATION SmwFairSpec
CONSTANTS
  Node = {n1, n2, n3, n4}
  Item = {t1, t2, t3, t4}
  Spawner = {t1}
  NULL = NULL
INVARIANTS
  SmwTypeOK
  CursorLive
  TasksSound
  PassMissesNobody
PROPERTIES
  ImplementsTaskQueue
  EveryTaskRuns
