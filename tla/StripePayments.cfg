CONSTANTS
  u1 = u1
  pi1 = pi1
  pi2 = pi2
  s1 = s1
  in1 = in1
  r1 = r1
  r2 = r2
  d1 = d1
  none = none
  w1 = w1
  w2 = w2
  Events <- FirstPayments
  Workers = {w1, w2}
  Nothing = none
  Parts = 2
  MaxSent = 3
  MaxFaults = 1
  MaxRepeats = 1
SPECIFICATION FairSpec
CHECK_DEADLOCK FALSE
INVARIANTS
  AckedIsCredited
  CreditedIsRecorded
PROPERTIES
  PaymentsSpec
  EventsAreAnswered
  PaymentsArrive
