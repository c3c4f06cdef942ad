CONSTANTS
  u1 = u1
  Welcome = 1
  Threshold = 3
  Users <- OneUser
  Sessions = {1, 2}
  Amounts = {2}
  Caps = {1}
  Ops <- AllOps
  Locking = TRUE
  AutoTopup = TRUE
  Present0 <- OneUser
  Rows0 <- FundedRows
  MaxOps = 3
SPECIFICATION Spec
CHECK_DEADLOCK FALSE
INVARIANTS
  TypeOK
PROPERTIES
  SpendIsExact
