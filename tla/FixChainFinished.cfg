SPECIFICATION Spec
CONSTANTS
  a = a
  b = b
  Files = {a, b}
  Missing = Missing
  Reports <- SomeReports
  MAX_FIX_ITERATIONS = 4
  MAX_REVIEW_CYCLES = 2
  MAX_NOOP_ATTEMPTS = 2
  MaxTrees = 3
PROPERTY FinishedWorkStands
CHECK_DEADLOCK FALSE
