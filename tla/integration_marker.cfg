SPECIFICATION Spec
CONSTANTS
  r1 = r1
  r2 = r2
  o1 = o1
  o2 = o2
  Runs = {r1}
  Base = Base
  Foreign = Foreign
  None = None
  Operators = {o1}
  MaxFlaps = 0
  Editing = FALSE
  Pushing = FALSE
INVARIANTS
  MarkerMeansUnfinished
