SPECIFICATION Spec
CONSTANTS
  Intent = {i1, i2}
  NoIntent = NoIntent
  Handler = {h1, h2, h3}
  Amount = 3
  MaxIssues = 2
  Overlaps = {"refund", "lost"}
INVARIANTS IssuedOnce RefundNeverOverstated RefundedMeansRepaid
CHECK_DEADLOCK FALSE
