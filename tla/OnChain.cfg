CONSTANTS
  p1 = p1
  p2 = p2
  h1 = h1
  h2 = h2
  Payments = {p1, p2}
  Handlers = {h1, h2}
  MaxReports = 5
SPECIFICATION FairSpec
CHECK_DEADLOCK FALSE
INVARIANTS
  BookedIsConfirmed
PROPERTIES
  SettledStays
  ConfirmedIsBooked
