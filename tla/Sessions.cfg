SPECIFICATION Spec
CONSTANTS
  root = root
  ann = ann
  c1 = c1
  c2 = c2
  t1 = t1
  t2 = t2
  t3 = t3
  NoCall = NoCall
  NoUser = NoUser
  NoToken = NoToken
  People = {root, ann}
  Roots = {root}
  Clients = {ann}
  Tokens = {t1, t2, t3}
  Calls = {c1, c2}
  MaxFailed = 2
  MaxPw = 1
  MaxEdits = 2
  MaxCrashes = 1
  InviteRoles = {"ADMIN"}
  AdminRoles = {"SUPER_ADMIN", "CUSTOMER"}
  AdminStatuses = {"SUSPENDED"}
  Scenarios <- MCScenarios
CHECK_DEADLOCK FALSE
INVARIANTS TokensHold AccountsHold
