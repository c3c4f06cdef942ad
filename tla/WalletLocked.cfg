CONSTANTS
  u1 = u1
  Welcome = 1
  Threshold = 3
  Users <- OneUser
  Sessions = {1, 2, 3}
  Amounts = {1, 2}
  Caps = {3}
  Ops <- SpendOps
  Locking = TRUE
  AutoTopup = TRUE
  Present0 <- OneUser
  Rows0 <- FundedRows
  MaxOps = 5
SPECIFICATION Spec
CHECK_DEADLOCK FALSE
PROPERTIES
  AccountSpec
  OneClaimPerWindow
