SPECIFICATION Spec
CONSTANTS
  Pages <- MCPages
  Configs <- MCConfigs
INVARIANTS FalseKeeps
CHECK_DEADLOCK FALSE
