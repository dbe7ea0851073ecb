CONSTANTS
  card1 = card1
  card2 = card2
  cash1 = cash1
  h1 = h1
  h2 = h2
  tea = tea
  cup = cup
  Handlers = {h1, h2}
  Cards = {card1}
  Cash = {}
  Amount <- CardAmount
  Total = 3
  Lines <- TrackedLines
  Shelf <- Exact
  MaxCalls = 1
  MaxCrashes = 0
SPECIFICATION Spec
PROPERTIES
  SucceededKept
CHECK_DEADLOCK FALSE
