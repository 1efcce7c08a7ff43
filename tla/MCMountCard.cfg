SPECIFICATION Spec
CONSTANTS
  Bases <- MCBases
  Updates <- MCUpdates
  AddOns <- MCAddOns
  KeyFiles <- MCKeyFiles
  Externals <- MCExternals
  MaxLoads = 2
INVARIANTS
  UpdateApplies
\* The process ends.
CHECK_DEADLOCK FALSE
