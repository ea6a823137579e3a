SPECIFICATION Spec
CONSTANTS
  b1 = b1
  u1 = u1
  u2 = u2
  w1 = w1
  d1 = d1
  Upload = {u1, u2}
  Download = {w1}
  Backend = {b1}
  Digest = {d1}
  Kind = {"oci", "object"}
  TTL = 2
  MaxFaults = 2
INVARIANTS
  CachesConsistent
  AckedStored
  RotationHeals
PROPERTIES
  CanonicalContent
  ImplementsVerifiedStore
CHECK_DEADLOCK FALSE
