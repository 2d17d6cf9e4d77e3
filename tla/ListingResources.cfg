SPECIFICATION FairSpec
CONSTANTS
  MinPageSize = 1
  MaxPageSize = 3
  DefaultPageSize = 2
  Strategy = "cursor"
  Tokens = {"limit", "cursor"}
  Ordered = TRUE
  Keys = {1, 2, 3, 4}
  Sizes <- MCSizes
  MaxWrites = 2
  MaxFailures = 1
INVARIANTS TypeOK ResumeSafe EachRowOnce
PROPERTIES TokenAdvances Terminates ImplementsContract
CHECK_DEADLOCK FALSE
