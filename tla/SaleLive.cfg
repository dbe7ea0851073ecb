CONSTANTS
  card1 = card1
  card2 = card2
  cash1 = cash1
  h1 = h1
  h2 = h2
  tea = tea
  cup = cup
  Handlers = {h1}
  Cards = {card1}
  Cash = {cash1}
  Amount <- SplitAmount
  Total = 3
  Lines <- MixedLines
  Shelf <- Exact
  MaxCalls = 4
  MaxCrashes = 1
SPECIFICATION FairSpec
PROPERTIES
  PaidSaleSettles
  Acknowledged
CHECK_DEADLOCK FALSE
