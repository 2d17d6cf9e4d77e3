SPECIFICATION FairSpec
CONSTANTS
  ann = ann
  g1 = g1
  g2 = g2
  n1 = n1
  r1 = r1
  Calls = {g1, g2, n1, r1}
  Users = {ann}
  UserOf <- MCUserOf
  KindOf <- MCKindOf
  GrantQueries <- Replace
  RevokeQueries <- Remove
  Engine = "Oracle"
  NoTransaction = {n1}
  MaxOpenConns = 2
  MaxRows = 1
  MaxFailures = 1
  MaxCancels = 0
INVARIANTS TypeOK AllOrNothing HonestReply Released InOrder
PROPERTIES InForce OneRowPerDelete Answered
CHECK_DEADLOCK FALSE
