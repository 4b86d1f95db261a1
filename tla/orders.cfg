SPECIFICATION Spec
CONSTANTS
  Orders = {1, 2}
  Products = {p1}
  Reps = {r1}
  r1 = r1
  RepOf <- AllToOneRep
  Subs = {s1}
  Rets = {t1, t2}
  Stock = 3
  MaxLine = 2
  MixedLines = FALSE
SYMMETRY Symmetry
INVARIANTS TypeOK BoxesReturnedOnce CountersAreSums HeldMatchesOrders
PROPERTIES SettlesOnlyOwed
CHECK_DEADLOCK FALSE
CONSTRAINT DeadlinesMoveEarly
