SPECIFICATION Spec
CONSTANTS
  RawBases <- MountedBases
  Schemas <- OneEntity
  IdTexts <- Percent
  TypedPaths <- FewTyped
CHECK_DEADLOCK FALSE
INVARIANTS LinksLeadHome
