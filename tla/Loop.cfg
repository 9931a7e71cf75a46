SPECIFICATION ShutdownSpec
CONSTANTS
  Runs = {a, b}
  NoRun = NoRun
  MaxBatches = 3
CHECK_DEADLOCK FALSE
INVARIANTS
  OneRunAtATime
  ClosedOnlyAfterDrain
PROPERTIES
  NothingStartsAfterStop
  ShutdownTerminates
  PollingGoesOn
