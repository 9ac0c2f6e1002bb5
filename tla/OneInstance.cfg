SPECIFICATION Spec
CONSTANTS
  Instances = {p1}
  Titles = {golang, learning, workshop}
  MaxOwn = 2
  OutsideWriter = FALSE
INVARIANTS TypeOK NoDuplicates NeverHalfSeeded
PROPERTIES SeedOnlyIntoEmpty
