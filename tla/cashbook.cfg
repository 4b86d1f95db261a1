SPECIFICATION Spec
CONSTANTS
  s1 = s1
  s2 = s2
  r1 = r1
  r2 = r2
  r3 = r3
  x1 = x1
  w1 = w1
  None = None
  Sessions = {s1, s2}
  Rows = {r1, r2, r3}
  Sales = {x1}
  Payouts = {w1}
  Wallets = {1, 2}
  WalletOf <- MCWalletOf
  Total <- MCTotal
  Paid <- MCPaid
  Opening <- MCOpening
  Periods = 2
  MaxAmount = 1
  MaxEntries = 2
SYMMETRY Symmetry
INVARIANTS Mirrored ClosingIsCash
PROPERTIES BackfillCompletes
CHECK_DEADLOCK FALSE
