SPECIFICATION FairSpec
CONSTANTS
  c1 = c1
  u1 = u1
  v1 = v1
  v2 = v2
  cli = cli
  web = web
  r1 = r1
  r2 = r2
  None = None
  Code = {c1}
  User = {u1}
  Verifier = {v1, v2}
  Callback = {cli, web}
  Request = {r1, r2}
  TTL = 2
INVARIANT RightfulSession
PROPERTIES
  CodesDeleted
  ImplementsOneTimeCode
