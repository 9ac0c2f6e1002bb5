SPECIFICATION Spec
CONSTANTS
  Builders = 3
  HookCount = 2
CHECK_DEADLOCK FALSE
INVARIANTS TypeOK OnlyComplete AllOrNothing SaveCreates IdsFromDatabase
