SPECIFICATION Spec
CONSTANTS
  Block = 8
  LenBytes = 2
  LoMod = 16
  HiMod = 2
  MaxLen = 36
INVARIANTS
  TypeOK
  BytesAccounted
  DigestOfPadding
