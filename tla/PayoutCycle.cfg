SPECIFICATION Spec
CONSTANTS
  o1 = o1
  o2 = o2
  Order = {o1, o2}
  Extra = {x1, x2}
  Copy = {c1, c2}
  Admin = adm
  Nobody = Nobody
  Share <- MCShare
  Fees <- MCFees
  MaxDates = 1
  MaxMoves = 3
  Overlaps = {"crash", "lost"}
SYMMETRY Symmetry
INVARIANTS TypeOK BooksBalance RowsAddUp
PROPERTIES DisputedWaits
CHECK_DEADLOCK FALSE
