CONSTANTS
  c1 = c1
  c2 = c2
  Calls = {c1, c2}
  Opening = 2
  Estimates = {2}
  Caps = {1}
  FailOpen = FALSE
  MaxCrashes = 1
  Stops = {1, 2}
  Watchdog = 2
SPECIFICATION GatewaySpec
SYMMETRY Symmetric
CHECK_DEADLOCK FALSE
INVARIANTS
  TypeOK
  BillsAreFair
  UnpaidIsExcused
PROPERTIES
  DrainHolds
