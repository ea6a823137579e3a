SPECIFICATION Spec
CONSTANTS
  inline = inline
  managed = managed
  b1 = b1
  b2 = b2
  q1 = q1
  q2 = q2
  None = None
  Backend = {inline, managed, b1, b2}
  Inline = inline
  Managed = {managed}
  Unreliable = {b1}
  Request = {q1, q2}
  Ops <- MCOps
  MaxFaults = 1
INVARIANTS
  NeverBoth
  SerialElection
  DefaultKept
  SerialStatus
CHECK_DEADLOCK FALSE
