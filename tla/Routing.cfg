SPECIFICATION Spec
CONSTANTS
  TypeID = "role"
  ResourceIDs <- MCResourceIDs
  MappingIDs <- MCMappingIDs
  Configs <- MCConfigs
INVARIANTS TypeOK OnItsResource OwnQueries NotForOthers
CHECK_DEADLOCK FALSE
