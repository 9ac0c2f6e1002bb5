SPECIFICATION Spec
CONSTANTS
  b1 = b1
  b2 = b2
  b3 = b3
  Ids = {b1, b2, b3}
  Queries = {q1, q2}
  Predicates <- MCPredicates
  Hidden <- MCHidden
  Stacks <- MCStacks
  MaxUses = 5
CHECK_DEADLOCK FALSE
INVARIANTS TypeOK HiddenStaysHidden SoleOrNone UnspentAnswersAll OpAsCalled
