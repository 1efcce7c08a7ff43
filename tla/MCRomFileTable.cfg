SPECIFICATION LookupSpec
CONSTANTS
  Keys <- MCKeys
  Values = {0, 4, 8}
  CacheSize = 2
  DefaultKey = ""
  DefaultValue = 0
  NoNode = NoNode
  Threads = {t1, t2, t3}
  Position <- MCPosition
  EntryAt <- MCEntryAt
  NoPos = NoPos
  NotFound = NotFound
INVARIANTS
  LookupTypeOK
  MapNodesAgree
  LookupReturnsTruth
PROPERTIES
  AddedIsCached
