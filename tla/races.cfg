SPECIFICATION Spec
CONSTANTS
  i1 = i1
  i2 = i2
  t1 = t1
  t2 = t2
  p1 = p1
  p2 = p2
  Nobody = Nobody
  Sessions = {a, b}
  Products = {p1}
  Subs = {i1, i2}
  Rets = {t1}
  ProductOf <- OneProduct
  Issued <- TwoBoxes
INVARIANTS QuietOrderIsClosed RowsTellTheTruth ClosedOwesNothing
PROPERTIES HandlersFinish
CHECK_DEADLOCK FALSE
