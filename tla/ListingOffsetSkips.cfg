SPECIFICATION Spec
CONSTANTS
  MinPageSize = 1
  MaxPageSize = 3
  DefaultPageSize = 2
  Strategy = "offset"
  Tokens = {"limit", "offset"}
  Ordered = TRUE
  Keys = {1, 2, 3, 4, 5, 6}
  Sizes = {0}
  MaxWrites = 0
  MaxFailures = 0
INVARIANTS Complete
CHECK_DEADLOCK FALSE
