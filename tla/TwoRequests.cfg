SPECIFICATION Spec
CONSTANTS
  Requests = {r1, r2}
  Ids = {b1, b2}
  BadId = bad
  Fields = {title}
  Sensitive = {}
  Values = {v1}
  Redacted = redacted
  NoRow = NoRow
  Queries <- PairQueries
  MiddlewareCount = 1
  PageSize = 2
SYMMETRY Symmetry
INVARIANTS CacheSafe
