SPECIFICATION Spec
CONSTANTS
  Pages <- MCPages
  Configs <- MCConfigs
INVARIANTS EachMappingOfEachRow WholePageOrError SameIDForSameText OneTraitAccepted
CHECK_DEADLOCK FALSE
