SPECIFICATION MCSpec
CONSTANTS
  w1 = w1
  w2 = w2
  cu = cu
  ow = ow
  NoHandler = NoHandler
  NoRow = NoRow
  N = 2
  Processes = {w1, w2}
  MaxAttempts = 2
  Limit = 2
  MaxFaults = 2
  Customer = cu
  Owners = {ow}
  KindOf <- MCKindOf
  Emitted = "order.paid"
  Tries = 2
  Scenarios = {{"outbox"}, {"outbox", "notify", "queue"}, {"emit", "sockets", "queue"}, {"emit", "sockets"}, {"bell"}}
  Notes = {1, 2, 3}
  PageSize = 2
  MaxMarks = 2
  MaxBellFaults = 1
CHECK_DEADLOCK FALSE
INVARIANTS EventsReach BellTells
PROPERTIES ImplementsDelivery EntriesSettle NoteIsShown
