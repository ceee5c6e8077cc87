SPECIFICATION Spec
CONSTANTS
  Intent = {i1, i2}
  NoIntent = NoIntent
  Handler = {h1, h2}
  Amount = 2
  MaxIssues = 2
  Overlaps = {"replay"}
INVARIANTS IssuedOnce
CHECK_DEADLOCK FALSE
