CONSTANTS
  u1 = u1
  u2 = u2
  s1 = s1
  s2 = s2
  t1 = t1
  t2 = t2
  Welcome = 2
  Threshold = 3
  Users <- BothUsers
  Sessions = {s1, s2}
  Amounts = {2}
  Caps = {}
  Ops <- TradeOps
  Locking = TRUE
  AutoTopup = FALSE
  Present0 <- OnlyFirst
  Rows0 <- FirstFunded
  MaxOps = 4
  Sales = {t1, t2}
  Resets = TRUE
SPECIFICATION TransfersSpec
SYMMETRY Symmetric
CHECK_DEADLOCK FALSE
INVARIANTS
  LedgerAgrees
PROPERTIES
  SaleIsExact
  FreeIsGivenOnce
