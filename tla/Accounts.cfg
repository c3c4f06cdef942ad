CONSTANTS
  h1 = h1
  h2 = h2
  p1 = p1
  p2 = p2
  m1 = m1
  Handlers = {h1, h2}
  Passwords = {p1, p2}
  Google = goog
  GitHub = hub
  Mails = {m1}
  Nobody = nobody
  OldUsers = {p1}
  MaxOps = 3
SPECIFICATION FairSpec
CHECK_DEADLOCK FALSE
INVARIANTS
  TypeOK
  ReplayGetsIn
PROPERTIES
  EarnedLogin
  ErasedInBoth
  RequestsEnd
