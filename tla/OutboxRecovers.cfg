SPECIFICATION FairSpec
CONSTANTS
  Entries = {e1}
  Workers = {w1, w2}
  NoWorker = NoWorker
  MaxAttempts = 3
  Lease = 1
  QueryLimit = 2
  BatchSize = 1
  Resends = 1
  Skew <- NoSkew
  ReadSecondary = TRUE
  MaxTime = 4
  MaxFaults = 1
CHECK_DEADLOCK FALSE
INVARIANTS
  HeldClaimIsCurrent
  OneCallPerAttempt
PROPERTIES
  EveryEntrySettles
