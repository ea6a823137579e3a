SPECIFICATION FairSpec
CONSTANTS
  init = init
  p1 = p1
  p2 = p2
  p3 = p3
  t1 = t1
  t2 = t2
  sbom = sbom
  sarif = sarif
  Proc = {init, p1, p2, p3}
  Initiator = init
  TokenOf <- MCTokenOf
  Base = {sbom, sarif}
  Required = {sbom}
  Entries = 1
  Commands <- MCCommands
  MaxAttempts = 2
  MaxFaults = 1
INVARIANTS
  PassphraseStable
  NoLostUpdate
  AttestationCoversAcked
PROPERTIES
  CommandsTerminate
  OnlyOverrides
  ImplementsMaterialStore
CHECK_DEADLOCK FALSE
