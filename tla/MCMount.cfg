SPECIFICATION Spec
CONSTANTS
  Bases <- MCBases
  Updates <- MCUpdates
  AddOns <- MCAddOns
  KeyFiles <- MCKeyFiles
  Externals <- MCExternals
  MaxLoads = 4
INVARIANTS
  TypeOK
  ContentOnce
  NothingDangles
  PatchIsWhole
  MountsWithKeys
PROPERTIES
  InitAgainKeepsTree
\* The process ends.
CHECK_DEADLOCK FALSE
