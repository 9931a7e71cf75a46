SPECIFICATION Spec
CONSTANTS
  Entries = {e1}
  Workers = {w1, w2}
  NoWorker = NoWorker
  MaxAttempts = 2
  Lease = 1
  QueryLimit = 1
  BatchSize = 1
  Resends = 0
  Skew <- NoSkew
  ReadSecondary = FALSE
  MaxTime = 5
  MaxFaults = 2
CHECK_DEADLOCK FALSE
INVARIANTS
  ExpiredClaimIsReclaimable
