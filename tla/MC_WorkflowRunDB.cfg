SPECIFICATION FairSpec
CONSTANTS
  r1 = r1
  r2 = r2
  v1 = v1
  s1 = s1
  s2 = s2
  s3 = s3
  None = None
  Run = {r1}
  Version = {v1}
  VersionOf <- MCVersionOf
  Mode <- MCModeDB
  Request = {s1, s2}
  RunOf <- MCRunOf
  Satisfies = {s1, s2}
  Depends <- MCNoDepends
  Releases = {s2}
  AdminActs = FALSE
  MaxFaults = 1
INVARIANT SuccessComplete
PROPERTIES
  StoresEnd
  AttestationImmutable
CHECK_DEADLOCK FALSE
