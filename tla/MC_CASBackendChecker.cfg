SPECIFICATION FairCheckerSpec
CONSTANTS
  b1 = b1
  b2 = b2
  c1 = c1
  c2 = c2
  c3 = c3
  Nil = Nil
  CheckedBackend = {b1, b2}
  Checker = {c1, c2, c3}
  Scope = {"defaults", "all"}
  ScopeOf <- MCScopeOf
  Listed <- MCListed
  Health = {"ok", "bad", "slow"}
  MaxTickFaults = 2
INVARIANT OneChecker
PROPERTY StatusConverges
