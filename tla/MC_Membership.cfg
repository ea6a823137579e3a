SPECIFICATION FairSpec
CONSTANTS
  o1 = o1
  a1 = a1
  u1 = u1
  q1 = q1
  q2 = q2
  q3 = q3
  User = {o1, a1, u1}
  Session = {u1}
  Request = {q1, q2}
  Op <- MCOp
  Initial <- MCInitial
  MaxFaults = 1
INVARIANTS
  MembershipsConsistent
  OwnersKept
  NoEscalation
  AcceptedJoined
PROPERTY InvitationsSettle
CHECK_DEADLOCK FALSE
