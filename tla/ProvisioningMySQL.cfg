SPECIFICATION Spec
CONSTANTS
  ann = ann
  g1 = g1
  g2 = g2
  n1 = n1
  r1 = r1
  Calls = {g1, g2, r1}
  Users = {ann}
  UserOf <- MCUserOf
  KindOf <- MCKindOf
  GrantQueries <- Replace
  RevokeQueries <- Remove
  Engine = "MySQL"
  NoTransaction = {}
  MaxOpenConns = 2
  MaxRows = 2
  MaxFailures = 2
  MaxCancels = 1
INVARIANT GivenUpInTime
PROPERTY Serializable
CHECK_DEADLOCK FALSE
