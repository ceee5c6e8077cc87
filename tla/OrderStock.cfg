SPECIFICATION FairSpec
CONSTANTS
  o1 = o1
  o2 = o2
  o3 = o3
  c1 = c1
  c2 = c2
  Order = {o1, o2}
  Category = {c1, c2}
  Cron = cron
  Worker = {cron, w1, w2}
  NoOrder = NoOrder
  NoWorker = NoWorker
  Quota <- MCQuota
  Qty <- MCQty
  ResaleOrder = {}
  Resellable = {}
  PartlyRefundable = {}
  Reminded = {}
  Faults = {}
INVARIANTS TypeOK LedgerBalances StatusesAgree
PROPERTIES PaymentGoesForward ImplementsAtomicOrders UnpaidOrderIsReleased HandlerLetsGo
CHECK_DEADLOCK FALSE
