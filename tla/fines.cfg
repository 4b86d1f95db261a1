SPECIFICATION Spec
CONSTANTS
  Handlers = {h1}
  Sweepers = {c1}
  Rets = {t1}
  Window = 1
  Extension = 1
  MaxTime = 5
  MaxChanges = 1
  MaxCrashes = 1
INVARIANTS FinedOncePerDay
PROPERTIES FinedTimeStands LateDaysAreFined
CHECK_DEADLOCK FALSE
