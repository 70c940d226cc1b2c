SPECIFICATION MarketSpec
CONSTANTS
  N = 3
  ProductPrices = {1, 2}
  Callers = {1, 2}
  Workers = {k1, k2}
  MaxAttempts = 2
  PageSize = 1
  MaxCalls <- MCMaxCalls
  MaxFaults = 1
  Rows <- MCRows
  Clients = {c1, c2}
  ImportTries = 2
  MaxPreviews = 1
  MaxImportFaults = 2
  Docs = {1, 2, 3, 4}
  Stored <- MCStored
  Queries <- MCQueries
  DefaultLimit = 3
  MaxLimit = 4
  MaxTotalHits = 3
  MaxMoves = 1
  R = 5
  Take = 2
  MaxTurns = 2
CHECK_DEADLOCK FALSE
INVARIANTS ShownIsCatalog PagesComplete ImportedOnce
PROPERTIES RowsArrive
