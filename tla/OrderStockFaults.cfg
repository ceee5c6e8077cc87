SPECIFICATION Spec
CONSTANTS
  o1 = o1
  o2 = o2
  o3 = o3
  c1 = c1
  c2 = c2
  Order = {o1, o2, o3}
  Category = {c1, c2}
  Cron = cron
  Worker = {cron, w1}
  NoOrder = NoOrder
  NoWorker = NoWorker
  Quota <- MCQuota
  Qty <- MCQtyFaults
  ResaleOrder = {o3}
  Resellable = {o1}
  PartlyRefundable = {o1}
  Reminded = {o1}
  Faults = {"request_lost", "reply_lost", "crash"}
INVARIANTS LedgerBalances
CHECK_DEADLOCK FALSE
