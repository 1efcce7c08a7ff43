SPECIFICATION Spec
CONSTANTS
  AesBlock = 2
  CtrCache = 4
  MaxCache = 4
  Images <- MCImages
  MaxOffset = 5
  MaxSize = 9
  MaxOverrun = 2
INVARIANTS
  TypeOK
  DeliversGenuine
  DeliversAllItCan
