SPECIFICATION Spec
CONSTANTS
  Names = {"limit", "Limit", "offset", "cursor", "id", "Id", "unquoted", "UNQUOTED", "quoted"}
  Keys = {"limit", "Limit", "offset", "Id"}
  Options = {"UNQUOTED", "quoted"}
  Lower <- MCLower
  Engines = {"MySQL", "MSSQL", "Oracle"}
  Values = {"v1", "v2"}
  PageValues <- MCPageValues
  Sections <- MCSections
  MaxPieces = 3
INVARIANTS TypeOK EachReadsItsValue AllArgsUsed RefusedIfWrong PagedIfCut
CHECK_DEADLOCK FALSE
