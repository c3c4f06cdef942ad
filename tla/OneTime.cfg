CONSTANTS
  h1 = h1
  h2 = h2
  b1 = b1
  r1 = r1
  a1 = a1
  a2 = a2
  a3 = a3
  k1 = k1
  k2 = k2
  c1 = c1
  c2 = c2
  c3 = c3
  l1 = l1
  l2 = l2
  Secrets = {k1, k2}
  Recovery = {c1, c2, c3}
  Logins = {l1, l2}
  MaxStep = 2
  Nothing = nothing
  Handlers = {h1, h2}
  Browsers = {b1}
  SamlIds = {r1}
  Assertions = {a1, a2, a3}
  AnswerTo <- Answers
  AllowIdp = TRUE
  SignedIn = {{}, {l1}}
  FactorOps <- AllFactorOps
  MaxOps = 4
SPECIFICATION Spec
SYMMETRY Symmetric
CHECK_DEADLOCK FALSE
INVARIANTS
  TypeOK
PROPERTIES
  OneUse
  ReplaysOverlap
  FactorStands
