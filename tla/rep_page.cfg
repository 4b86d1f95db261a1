SPECIFICATION RepSpec
CONSTANTS
  Orders = {1}
  Products = {p1, p2}
  Reps = {r1}
  r1 = r1
  RepOf <- AllToOneRep
  Subs = {s1, s2}
  Rets = {t1}
  Stock = 1
  MaxLine = 1
  MixedLines = TRUE
  Handlers = {h1, h2}
  Withdrawals = {a1, a2}
  Fines = {f1}
  Tiers = {b1, b2}
  Admins = {d1}
  Processes = {v1}
  Brands = {m1, m2}
  Names = {k1, k2}
  Soap = {g1}
  Others = others
  Minimum = 3
  Floor = 2
  Window = 1
  MaxEarned = 3
  MaxAmount = 3
  MaxOpens = 1
  MaxChanges = 1
  MaxClock = 1
  MaxTarget = 2
  MaxDate = 2
  MaxEdits = 1
  MaxRate = 2
  CacheLife = 2
  MaxDay = 2
  MaxWrites = 2
SYMMETRY Symmetry
INVARIANTS RepTypeOK AutoCloses ClosedHonest   RequestsFit AwardsStand
PROPERTIES DecisionsStand
CHECK_DEADLOCK FALSE
