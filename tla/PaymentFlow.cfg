SPECIFICATION FairSpec
CONSTANTS
  Intent = {i1, i2}
  NoIntent = NoIntent
  Handler = {h1, h2, h3}
  Amount = 3
  MaxIssues = 2
  Overlaps = {}
INVARIANTS TypeOK RefundedHasNoTickets ServicesAgree
PROPERTIES Served
CHECK_DEADLOCK FALSE
