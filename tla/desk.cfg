SPECIFICATION DeskSpec
CONSTANTS
  Sessions = {s1, s2}
  Products = {p1}
  Warehouses = {w1}
  Reps = {r1}
  MaxQty = 1
  MaxMoves = 3
  MaxDeletes = 1
  MaxRecomputes = 1
  Orders = {o1}
  Sales = {v1}
  Requests = {q1}
  Goods = {b1, b2}
  Accounts = {u1, u2}
  Admin = u1
  Makes = {m1, m2}
  Tills = {x1, x2}
  OnShelf = 1
  MaxTransfers = 2
  MaxEdits = 1
  MaxCost = 2
  MaxPaid = 3
  MaxBalance = 1
  MaxAmends = 1
  MaxLandings = 2
  MaxPrincipal = 3
  MaxIssues = 2
  Price = 2
  BoxCosts = {1, 2}
  Rate = 1
  Capital = 1
  MaxEvents = 2
  Minimums = {1}
SYMMETRY Symmetry
VIEW View
INVARIANTS DeskTypeOK DriftExplained NeverNegative   BoxesFollowRequests NoBoxesSwallowed   
 
CHECK_DEADLOCK FALSE
