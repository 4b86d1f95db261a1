SPECIFICATION Spec
CONSTANTS
  Orders = {1}
  Products = {p1}
  Reps = {r1}
  r1 = r1
  RepOf <- AllToOneRep
  Subs = {s1}
  Rets = {t1}
  Stock = 1
  MaxLine = 1
  MixedLines = FALSE
INVARIANTS ClosedMeansAccounted
CHECK_DEADLOCK FALSE
