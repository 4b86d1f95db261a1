SPECIFICATION Spec
CONSTANTS
  Handlers = {h1}
  Sweepers = {c1}
  Rets = {t1}
  Window = 1
  Extension = 1
  MaxTime = 5
  MaxChanges = 0
  MaxCrashes = 0
PROPERTIES ApprovalWindowIsFree
CHECK_DEADLOCK FALSE
