SPECIFICATION Spec
CONSTANTS
  Keys = {0, 1, 2}
  Values = {v}
  CacheSize = 2
  DefaultKey = 0
  DefaultValue = v
  NoNode = NoNode
  Threads = {t1, t2}
  NoBlock = NoBlock
  MaxHashCount = 2
  MaxCount = 3
INVARIANTS
  TypeOK
  OnlyGroupsAreSkipped
PROPERTIES
  ServesOnlyGenuine
