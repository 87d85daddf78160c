CONSTANTS
  Requests = {21, 22, 23}
  Sends <- MCSends
  InitialRows <- MCRows
  NoOrder = NoOrder
  NoRow = NoRow
SPECIFICATION Spec
INVARIANTS
  AccountsTypeOK
  NothingDangles
  OneAccountPerEmail
PROPERTIES
  GuardFollowsTheRows
CHECK_DEADLOCK FALSE
