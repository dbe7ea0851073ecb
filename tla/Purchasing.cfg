CONSTANTS
  po = po
  screws = screws
  hammer = hammer
  h1 = h1
  h2 = h2
  Pos = {po}
  Levels = {screws, hammer}
  Ordered <- MCOrdered
  Cost <- MCCost
  Per <- MCPer
  Opening <- MCOpening
  Keys = {1, 2}
  NoKey = 0
  Batches <- MCBatches
  Amounts = {2}
  ClientNumbers <- MCClientNumbers
  Limits = {2, 4}
  Handlers = {h1, h2}
  MaxCalls = 5
  MaxTogether = 1
  MaxSold = 1
SPECIFICATION Spec
INVARIANTS OrderAgrees GoodsBooked PayablesAgree
CHECK_DEADLOCK FALSE
