SPECIFICATION FairSpec
CONSTANTS
  t1 = t1
  t2 = t2
  t3 = t3
  c1 = c1
  c2 = c2
  c3 = c3
  Token = {t1, t2, t3}
  Category = {c1, c2, c3}
  Creator = {w1, w2}
  NoToken = NoToken
  Quota <- MCQuota
  Qty <- MCQty
  OwnEvent = {t2}
  Contended = {}
  Fragile = {t3}
INVARIANTS TypeOK LedgerBalances
PROPERTIES ImplementsAtomicOrders ReservationEnds
CHECK_DEADLOCK FALSE
