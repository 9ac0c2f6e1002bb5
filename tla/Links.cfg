SPECIFICATION Spec
CONSTANTS
  RawBases <- AnyBases
  Schemas <- AnySchema
  IdTexts <- Plain
  TypedPaths <- Typed
CHECK_DEADLOCK FALSE
INVARIANTS LinksLeadHome HomeIsServed AmbiguousBelowRoot GeneratedStarts
