SPECIFICATION FairSpec
CONSTANTS
  i1 = i1
  c1 = c1
  c2 = c2
  NoCall = NoCall
  Intents = {i1}
  Mismatched = {i1}
  Flaky = {i1}
  Providers = {"stripe", "dev"}
  OtherTypes = {"charge.dispute.created", "other"}
  MaxFaults = 2
  Calls = {c1, c2}
  OrderMoves <- MCMoves
CHECK_DEADLOCK FALSE
INVARIANTS PaymentsAgree
PROPERTIES CapturedIsSettled
