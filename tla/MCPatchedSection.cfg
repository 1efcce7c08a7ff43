SPECIFICATION Spec
CONSTANTS
  OffsetsPerNode = 2
  EntriesPerNode = 2
  BlockSize = 2
  Images <- MCImages
  NotEncrypted = NotEncrypted
  MaxOffset = 26
  MaxSize = 12
  g1 = g1
  g2 = g2
INVARIANTS
  TypeOK
  DeliversGenuine
  BisectionFinds
PROPERTIES
  IntactIsDelivered
  ReadReturns
