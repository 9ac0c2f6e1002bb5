SPECIFICATION Spec
CONSTANTS
  Ids = {b1, b2}
  title = title
  v1 = v1
  Fields <- OneField
  Predicates <- OnePredicate
  Values = {v1, v2}
  Mutations = {own, handed}
  Own = own
  Unset = nil
  NoId = NoId
  NoRow = NoRow
  Ops = {"UpdateOne", "Update", "DeleteOne", "Delete"}
  MadeOps = {"UpdateOne", "Update", "Create"}
  HookCount = 1
SYMMETRY Symmetry
INVARIANTS NoOldPostMutation
