SPECIFICATION FairSpec
CONSTANTS
  PageCount <- MCPageCount
  MaxFailures = 2
INVARIANTS BagResumeSafe OneQueryAtATime
PROPERTIES Terminates ImplementsContract
CHECK_DEADLOCK FALSE
