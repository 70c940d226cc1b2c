SPECIFICATION CheckoutSpec
CONSTANTS
  p1 = p1
  p2 = p2
  s1 = s1
  s2 = s2
  k1 = k1
  k2 = k2
  c1 = c1
  c2 = c2
  NoKey = NoKey
  NoCall = NoCall
  NoQuote = NoQuote
  NoRate = NoRate
  NoOrder = NoOrder
  Products = {p1, p2}
  Shops = {s1, s2}
  ShopOf <- MCShopOf
  Prices = {1, 3}
  Percents = {0, 50}
  Regions = {"Moscow", "Omsk"}
  Zones <- MCZones
  Tariffs <- MCTariffs
  Stock = 2
  Keys = {k1, k2}
  Calls = {c1, c2}
  Modes = {"web", "region", "tabs", "keys"}
  MaxAdds = 2
  MaxEdits = 1
  MaxFaults = 1
  MaxBatches = 2
  MaxAsked = 2
CHECK_DEADLOCK FALSE
INVARIANTS OrderedOnce CompletedIsAnnounced ChargedAsShown PageIsTrue
