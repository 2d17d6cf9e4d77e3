SPECIFICATION Spec
CONSTANTS
  MinPageSize = 1
  MaxPageSize = 3
  DefaultPageSize = 2
  Strategy = "cursor"
  Tokens = {"limit"}
  Ordered = TRUE
  Keys = {1, 2, 3, 4}
  Sizes = {0}
  MaxWrites = 1
  MaxFailures = 1
INVARIANTS Complete
CHECK_DEADLOCK FALSE
