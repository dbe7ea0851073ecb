CONSTANTS
  summer = summer
  winter = winter
  gown = gown
  sash = sash
  late = late
  dress = dress
  veil = veil
  h1 = h1
  h2 = h2
  None = None
  Orders = {summer, winter}
  Items = {gown, sash, late}
  Units = {dress, veil}
  Handlers = {h1, h2}
  OrderOf <- MCOrderOf
  Unit0 <- MCUnit0
  Booked = {summer}
  Outcomes = {"available", "cleaning"}
  CoreStatuses = {"ready", "cancelled"}
  HandStatuses = {"available"}
  Windows <- MCWindows
  Window0 <- MCWindow0
  Today = 2
  MaxHolds = 3
  MaxCalls = 4
  MaxTogether = 1
SPECIFICATION Spec
INVARIANTS BookedApart ReservedIsHeld HoldsAgree
SYMMETRY HandlerSymmetry
CHECK_DEADLOCK FALSE
