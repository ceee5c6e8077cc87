SPECIFICATION Spec
CONSTANTS
  User = {a, b}
  Buyer = a
  Listing = {l1, l2}
  Purchase = {p1, p2}
  FirstOrder = o1
  Transfer = {t1}
  Request = {r1}
  Nobody = Nobody
  MaxTransfers = 1
  GiftsClose = 1
  DoorsOpen = 1
  EventStarts = 2
  DoorsClose = 3
  MaxToken = 5
  Overlaps = {"expiry", "release"}
INVARIANTS TypeOK ListingHeld EntersOnce SellerRepaidOnce TokenIsHolders
PROPERTIES SoldByHolder ReservationEnds
CHECK_DEADLOCK FALSE
