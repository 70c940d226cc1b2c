SPECIFICATION MCSpec
CONSTANTS
  o1 = o1
  o2 = o2
  o3 = o3
  w1 = w1
  w2 = w2
  c1 = c1
  c2 = c2
  NoWarehouse = NoWarehouse
  NoRow = NoRow
  NotCalling = NotCalling
  Orders = {o1, o2, o3}
  Quantity <- MCQuantity
  Warehouses = {w1, w2}
  Calls = {c1, c2}
  Crons = {c1}
  Payable = {o1, o2, o3}
  Expirable = {o1, o2, o3}
  Targets = {"PROCESSING", "SHIPPED", "COMPLETED", "CANCELLED", "DISPUTED", "REFUNDED", "PARTIALLY_REFUNDED"}
  DisputeFrom = {"PENDING_PAYMENT", "PAID", "PROCESSING", "SHIPPED", "COMPLETED", "CANCELLED", "REFUNDED", "PARTIALLY_REFUNDED"}
  InitialDefaults = {w1, NoWarehouse}
  DefaultMoves = {w2, NoWarehouse}
  StockEdits = {2}
  InitialStock = 2
  MaxUnits = 2
CHECK_DEADLOCK FALSE
INVARIANTS TypeOK GoodsOnlyAfterPayment  SerialBooks
PROPERTIES LateHoldsEnd
