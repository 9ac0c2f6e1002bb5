SPECIFICATION Spec
CONSTANTS
  Hooks <- MCHooks
  Empty = empty
  MaxCap = 2
  MaxArrays = 3
  Client = client
  Host = host
  App = app
  Builders = {builder}
  Chains = {c1, c2, c3}
  Queries = {q1, q2}
  AllOps = {"create", "delete"}
CHECK_DEADLOCK FALSE
SYMMETRY Symmetry
INVARIANTS TypeOK RunsAsListed
PROPERTIES Implements
