SPECIFICATION Spec
CONSTANTS
  r1 = r1
  r2 = r2
  v1 = v1
  s1 = s1
  s2 = s2
  s3 = s3
  None = None
  Run = {r1, r2}
  Version = {v1}
  VersionOf <- MCVersionOf
  Mode <- MCModeCAS
  Request = {s1, s2, s3}
  RunOf <- MCRunOf
  Satisfies = {s1, s3}
  Depends <- MCDepends
  Releases = {s1}
  AdminActs = TRUE
  MaxFaults = 1
INVARIANTS
  StorageConsistent
  AckedRetrievable
PROPERTY ReleasedVersionImmutable
CHECK_DEADLOCK FALSE
