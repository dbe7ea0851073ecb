\* Two requests at once, one crash.
CONSTANTS
  shirt = shirt
  cap = cap
  k1 = k1
  k2 = k2
  x = x
  h1 = h1
  h2 = h2
  Levels = {shirt, cap}
  Keys = {k1, k2, x}
  Handlers = {h1, h2}
  Requests <- MCRequests
  Sold <- MCSold
  Price <- MCPrice
  Opening <- MCOpening
  MaxCalls = 5
  MaxCrashes = 1
SYMMETRY HandlerSymmetry
CHECK_DEADLOCK FALSE
SPECIFICATION Spec
INVARIANTS NeverOverReturned StockExplained CompletedIsRefunded
