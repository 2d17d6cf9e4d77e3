SPECIFICATION FairSpec
CONSTANTS
  user = user
  role = role
  ann = ann
  bob = bob
  admin = admin
  None = None
  Types = {user, role}
  Resources = {ann, bob, admin}
  TypeOf <- MCTypeOf
  Pages <- MCPages
  PageOf <- MCPageOf
  MaxPages = 3
  Configs <- MCConfigs
  StorePageSize = 1
  MaxFailures = 2
  MaxChanges = 2
INVARIANTS TypeOK ResumeSafe NoOrphans ListedOnce
PROPERTIES Terminates ImplementsContract
CHECK_DEADLOCK FALSE
