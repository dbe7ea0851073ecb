CONSTANTS
  card1 = card1
  card2 = card2
  cash1 = cash1
  h1 = h1
  h2 = h2
  tea = tea
  cup = cup
  Handlers = {h1, h2}
  Cards = {card1}
  Cash = {cash1}
  Amount <- SplitAmount
  Total = 3
  Lines <- TrackedLines
  Shelf <- Plenty
  MaxCalls = 2
  MaxCrashes = 1
SPECIFICATION FairSpec
INVARIANTS
  StockOnce
  SucceededIsBooked
PROPERTIES
  RequestsEnd
CHECK_DEADLOCK FALSE
