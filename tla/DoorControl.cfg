SPECIFICATION DoorSpec
CONSTANTS
  User = {a, b}
  Buyer = a
  Listing = {}
  Purchase = {}
  FirstOrder = o1
  Transfer = {t1}
  Request = {}
  Nobody = Nobody
  MaxTransfers = 1
  GiftsClose = 1
  DoorsOpen = 0
  EventStarts = 1
  DoorsClose = 1
  MaxToken = 2
  Overlaps = {}
  Device = {d1, d2}
  MaxScans = 2
  MaxEntries = 2
  MaxLosses = 1
  DeviceOverlaps = {}
INVARIANTS NoScanForgotten DoubleEntryTraced
PROPERTIES OfflineScansJudged
CHECK_DEADLOCK FALSE
