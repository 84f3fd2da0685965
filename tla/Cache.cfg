SPECIFICATION Spec
CONSTANTS
  Key = {k1, k2, k3}
  Data = {d1, d2}
  Ttls = {0, 1}
  DefaultTtl = 2
  MaxSizes = {0, 1, 2}
  MaxTime = 3
  OutOfMemory = TRUE
  NULL = NULL
INVARIANTS
  TypeOK
  KeysUnique
  SizeBounded
  OldestFirst
PROPERTIES
  ImplementsBoundedMap
