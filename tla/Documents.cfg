CONSTANTS
  shop = shop
  store = store
  sister = sister
  kit = kit
  move = move
  group = group
  hold = hold
  adj = adj
  audit = audit
  h1 = h1
  h2 = h2
  Levels = {shop, store, sister, kit}
  Transfers = {move, group}
  Bookings = {hold}
  Adjusts = {adj}
  Counts = {audit}
  TransferOf <- MCTransferOf
  BookingOf <- MCBookingOf
  AdjustAt <- MCAdjustAt
  CountAt <- MCCountAt
  Deltas <- MCDeltas
  Counted = {1, 2}
  Parts <- MCParts
  Opening <- MCOpening
  Handlers = {h1, h2}
  MaxCalls = 5
SPECIFICATION Spec
INVARIANTS NoOversell StockExplained PromisesAgree
CHECK_DEADLOCK FALSE
