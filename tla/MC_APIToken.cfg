SPECIFICATION Spec
CONSTANTS
  t1 = t1
  t2 = t2
  o1 = o1
  o2 = o2
  p1 = p1
  p2 = p2
  q1 = q1
  r1 = r1
  r2 = r2
  None = None
  TokenID = {t1, t2}
  Legacy = t1
  LegacyShape <- MCLegacyShape
  Org = {o1, o2}
  Project = {p1, p2}
  Product = {q1}
  OrgOf <- MCOrgOf
  Listed = {p1}
  Request = {r1, r2}
  Calls <- MCCalls
  Admin = {o1}
  Rewrites <- MCRewrites
  MaxEvents = 2
INVARIANTS
  TokensConsistent
  RevokedNotServed
  ServedAsSigned
  NoSuccession
CHECK_DEADLOCK FALSE
