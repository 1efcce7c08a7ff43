SPECIFICATION Spec
CONSTANTS
  Names <- MCNames
  Images <- MCImages
  Strange <- MCStrange
  Flags <- MCFlags
  Rights <- MCRights
  Masks <- MCMasks
  MaxRoom = 2
  NoReply = NoReply
INVARIANTS
  TypeOK
  AccessAgrees
PROPERTIES
  ServesTree
