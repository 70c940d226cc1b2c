SPECIFICATION Spec
CONSTANTS
  s1 = s1
  s2 = s2
  o1 = o1
  o2 = o2
  c1 = c1
  c2 = c2
  NoCall = NoCall
  NoOffer = NoOffer
  NoOrder = NoOrder
  Shops = {s1, s2}
  Prices = {1, 2}
  Orders = {o1, o2}
  Calls = {c1, c2}
  Modes = {"all"}
  MaxRevisions = 2
CHECK_DEADLOCK FALSE
INVARIANT AwardIsRaceSafe
