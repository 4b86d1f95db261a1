SPECIFICATION Spec
CONSTANTS
  Orders = {1}
  Products = {p1, p2}
  Reps = {r1}
  r1 = r1
  RepOf <- AllToOneRep
  Subs = {s1, s2}
  Rets = {t1}
  Stock = 1
  MaxLine = 1
  MixedLines = TRUE
INVARIANT OverdueListComplete
CHECK_DEADLOCK FALSE
