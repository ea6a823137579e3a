SPECIFICATION FairSpec
CONSTANTS
  va = va
  vb = vb
  vc = vc
  t1 = t1
  t2 = t2
  t3 = t3
  None = None
  Version = {va, vb, vc}
  Tx = {t1, t2, t3}
  Ops <- MCOps
  f1 = f1
  f2 = f2
  Workflow = {f1, f2}
INVARIANT VersionsConsistent
PROPERTIES
  ReleasedVersionsRejected
  RequestsEnd
CHECK_DEADLOCK FALSE
