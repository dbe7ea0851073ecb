CONSTANTS
  window = window
  corner = corner
  soup = soup
  beer = beer
  cake = cake
  kitchen = kitchen
  bar = bar
  visit = visit
  none = none
  h1 = h1
  h2 = h2
  Tables = {window, corner}
  Orders = {1, 2, 3}
  Items = {soup, beer, cake}
  Stations = {kitchen, bar}
  StationOf <- MCStationOf
  Bookings = {visit}
  BookingAt <- MCBookingAt
  Handlers = {h1, h2}
  None = none
  OpenAt <- MCOpenAt
  Bill0 <- MCBill
  MaxCalls = 3
  MaxTogether = 1
SPECIFICATION DiningSpec
INVARIANTS TablesAgree KitchenAgrees
PROPERTY TableReopens
CHECK_DEADLOCK FALSE
