SPECIFICATION Spec
CONSTANTS
  Entries = {e1, e2}
  Workers = {w1, w2}
  NoWorker = NoWorker
  MaxAttempts = 2
  Lease = 1
  QueryLimit = 2
  BatchSize = 1
  Resends = 0
  Skew <- NoSkew
  ReadSecondary = FALSE
  MaxTime = 3
  MaxFaults = 1
CHECK_DEADLOCK FALSE
SYMMETRY Symmetry
INVARIANTS
  PendingOrGivenUp
  LiveClaimIsRemembered
  TerminalFailureAudited
  AuditsAreBounded
PROPERTIES
  KeepsPromise
  KeepsEntryLife
