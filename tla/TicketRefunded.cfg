SPECIFICATION Spec
CONSTANTS
  User = {a, b}
  Buyer = a
  Listing = {l1}
  Purchase = {p1}
  FirstOrder = o1
  Transfer = {}
  Request = {r1}
  Nobody = Nobody
  MaxTransfers = 1
  GiftsClose = 1
  DoorsOpen = 1
  EventStarts = 2
  DoorsClose = 3
  MaxToken = 2
  Overlaps = {"refund"}
SYMMETRY Symmetry
PROPERTIES RefundedStaysOut
CHECK_DEADLOCK FALSE
