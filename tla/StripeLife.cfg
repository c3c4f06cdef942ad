CONSTANTS
  u1 = u1
  pi1 = pi1
  pi2 = pi2
  s1 = s1
  in1 = in1
  r1 = r1
  r2 = r2
  d1 = d1
  none = none
  w1 = w1
  w2 = w2
  Events <- AllEvents
  Workers = {w1, w2}
  Nothing = none
  Parts = 2
  MaxSent = 4
  MaxFaults = 1
  MaxRepeats = 0
SPECIFICATION Spec
SYMMETRY Symmetric
CHECK_DEADLOCK FALSE
INVARIANTS
  TypeOK
  ReversalsTakeTheirShare
  WalletHoldsCredits
PROPERTIES
  DropsOnlyUnmatched
