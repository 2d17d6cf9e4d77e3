SPECIFICATION Spec
CONSTANTS
  TypeID = "role"
  ResourceIDs <- MCResourceIDs
  MappingIDs <- MCMappingIDs
  Configs <- MCConfigs
INVARIANTS ThisEntitlement
CHECK_DEADLOCK FALSE
