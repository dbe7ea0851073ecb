CONSTANTS
  k1 = k1
  k2 = k2
  k3 = k3
  k4 = k4
  k5 = k5
  h1 = h1
  h2 = h2
  Keys = {k1, k2, k3, k4, k5}
  Handlers = {h1, h2}
  Requests <- Rivals
  Total = 3
  Credit <- OpeningCredit
  MaxCalls = 4
  MaxTogether = 4
  MaxCrashes = 1
SPECIFICATION FairSpec
INVARIANTS
  DebitedOnce
PROPERTIES
  RequestsEnd
CHECK_DEADLOCK FALSE
