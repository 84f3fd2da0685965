SPECIFICATION Spec
CONSTANTS
  Node = {n1, n2, n3, n4, n5}
  Item = {x, y, z}
  NULL = NULL
SYMMETRY NodeSymmetry
INVARIANTS
  TypeOK
  ListInv
PROPERTIES
  ImplementsItemList
  ActsOnItsIndex
