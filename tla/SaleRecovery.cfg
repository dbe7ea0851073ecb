CONSTANTS
  card1 = card1
  card2 = card2
  cash1 = cash1
  h1 = h1
  h2 = h2
  tea = tea
  cup = cup
  Handlers = {h1}
  Cards = {card1, card2}
  Cash = {cash1}
  Amount <- RecoveryAmount
  Total = 3
  Lines <- MixedLines
  Shelf <- Plenty
  MaxCalls = 4
  MaxCrashes = 2
SPECIFICATION Spec
INVARIANTS
  DueAgrees
  ClosedIsPaid
  CancelledTakesNoStock
  BookedOnce
PROPERTIES
  SucceededKept
CHECK_DEADLOCK FALSE
