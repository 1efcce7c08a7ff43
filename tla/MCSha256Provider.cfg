SPECIFICATION HashSpec
CONSTANTS
  Threads = {t1, t2, t3}
  Blocks = {b1, b2}
  NoBlock = NoBlock
INVARIANTS
  HashTypeOK
  CorruptStaysChecked
PROPERTIES
  ServesOnlyGenuine
