SPECIFICATION Spec
CONSTANTS
  init = init
  p1 = p1
  p2 = p2
  p3 = p3
  t1 = t1
  t2 = t2
  sbom = sbom
  sarif = sarif
  Proc = {init, p1}
  Initiator = init
  TokenOf <- MCSameToken
  Base = {sbom, sarif}
  Required = {sbom}
  Entries = 1
  Commands <- MCAutoAdd
  MaxAttempts = 2
  MaxFaults = 1
INVARIANT OneMaterialPerAdd
CHECK_DEADLOCK FALSE
