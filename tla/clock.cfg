SPECIFICATION ClockSpec
CONSTANTS
  Handlers = {h1, h2}
  Sweepers = {}
  Sweeps = {c1, c2}
  FirstDue = 3
  SelfRungs = 3
  MaxTicks = 3
  MaxResets = 2
  Rets = {t1}
  Window = 1
  Extension = 1
  MaxTime = 3
  MaxChanges = 2
  MaxCrashes = 0
SYMMETRY Symmetry
INVARIANTS DeadlineIsAccounted RemindersEscalate
PROPERTIES ClosedStaysClosed
CHECK_DEADLOCK FALSE
