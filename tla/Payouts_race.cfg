SPECIFICATION MCSpec
CONSTANTS
  o1 = o1
  o2 = o2
  p1 = p1
  p2 = p2
  r1 = r1
  r2 = r2
  SceneNames = {"race"}
  NoRequest = NoRequest
  Requests = {r1, r2}
  Admins = {r1, r2}
  Decisions = {"PAID", "REJECTED", "APPROVED", "admin:PAID", "admin:APPROVED", "admin:REJECTED", "PROCESSING"}
  Payouts = {p1, p2}
  LegacyPayouts = {p1}
  Orders = {o1, o2}
  OrderTotal <- MCOrderTotal
  OrderCommission <- MCOrderCommission
  Amounts = {1, 2}
  MirrorBound = 7
INVARIANT PaidOutBacked
CHECK_DEADLOCK FALSE
