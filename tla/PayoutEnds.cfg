SPECIFICATION Spec
CONSTANTS
  o1 = o1
  o2 = o2
  Order = {o1}
  Extra = {x1}
  Copy = {c1, c2}
  Admin = adm
  Nobody = Nobody
  Share <- MCShareOne
  Fees <- MCFeesOne
  MaxDates = 3
  MaxMoves = 3
  Overlaps = {}
INVARIANTS BooksBalance RowsAddUp
PROPERTIES DisputedWaits PayoutEnds
CHECK_DEADLOCK FALSE
