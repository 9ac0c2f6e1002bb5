SPECIFICATION FairSpec
CONSTANTS
  Requests = {r1}
  Ids = {b1, b2}
  BadId = bad
  Fields = {title, secret}
  Sensitive = {secret}
  Values = {v1, v2}
  Redacted = redacted
  NoRow = NoRow
  Queries <- AllQueries
  MiddlewareCount = 2
  PageSize = 1
INVARIANTS TypeOK MiddlewareFirst ReadsOnlyOnGetOrHead TruncatedOnlyIfCancelled
PROPERTIES Implements EveryRequestAnswered
