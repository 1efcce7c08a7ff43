SPECIFICATION HashSpec
CONSTANTS
  Threads = {t1, t2}
  Blocks = {b1}
  NoBlock = NoBlock
INVARIANTS
  GoodNeverRefused
