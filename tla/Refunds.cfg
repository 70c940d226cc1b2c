SPECIFICATION FairSpec
CONSTANTS
  r1 = r1
  r2 = r2
  s1 = s1
  s2 = s2
  c1 = c1
  c2 = c2
  NoCall = NoCall
  NoRow = NoRow
  NoRefund = NoRefund
  RefundIds = {r1, r2}
  Amounts = {1, 2}
  Total = 2
  StripeIds = {s1, s2}
  Calls = {c1, c2}
  Types = {"refund.updated"}
  Shared = {r1}
  Faults = {"crash", "timeout"}
CHECK_DEADLOCK FALSE
INVARIANTS RefundsAgree
PROPERTIES ProviderRefundIsPosted
