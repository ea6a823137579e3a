SPECIFICATION FairSweeperSpec
CONSTANTS
  t1 = t1
  t2 = t2
  o1 = o1
  o2 = o2
  r1 = r1
  r2 = r2
  s1 = s1
  s2 = s2
  Nil = Nil
  SweptToken = {t1, t2}
  SweptOrg = {o1}
  OwnerOf <- MCOwnerOf
  Days = {0, 2}
  Recorder = {r1, r2}
  Sweeper = {s1}
  MaxLag = 1
  MaxDays = 2
  MaxFaults = 1
  MaxChanges = 1
PROPERTIES
  ActiveSpared
  UnusedRevoked
CHECK_DEADLOCK FALSE
