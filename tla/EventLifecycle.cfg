SPECIFICATION Spec
CONSTANTS
  Order = {o1}
  Request = {r1}
  Handler = {h1, h2}
  Nothing = Nothing
  LastDay = 2
  MaxMoves = 2
INVARIANTS TypeOK RequestsAgree
 
CHECK_DEADLOCK FALSE
