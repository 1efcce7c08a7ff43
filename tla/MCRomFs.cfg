SPECIFICATION Spec
CONSTANTS
  CalcHash <- Hash
  MaxPath = 3
  Images <- MCImages
  MaxRoom = 3
INVARIANTS
  TypeOK
  NamespaceAgrees
  LookupEnds
  PagesCover
\* A reader of a list of siblings that never ends hangs, and so does a lookup in a circle.
CHECK_DEADLOCK FALSE
