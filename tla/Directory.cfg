CONSTANTS
  sa = sa
  sb = sb
  u1 = u1
  u2 = u2
  u3 = u3
  u4 = u4
  e1 = e1
  e2 = e2
  e3 = e3
  x1 = x1
  g1 = g1
  t1 = t1
  t2 = t2
  t3 = t3
  Users = {u1, u2, u3, u4}
  Emails = {e1, e2, e3}
  ExtIds = {x1}
  Groups = {g1}
  Tokens = {t1, t2, t3}
  Verified = {u1}
  Nothing = nothing
  Sessions = {sa, sb}
  Openings <- AllOpenings
  Requests <- AllRequests
  MaxOps = 3
SPECIFICATION Spec
SYMMETRY Symmetric
CHECK_DEADLOCK FALSE
INVARIANTS
  TypeOK
  IdpReachesItsOwn
  IdentitiesAreUnique
PROPERTIES
  OwnersStay
  GroupsStayInside
  OwnersDecide
  OneLiveToken
