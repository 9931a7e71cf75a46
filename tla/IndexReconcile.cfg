SPECIFICATION FairSpec
CONSTANTS
  Instances = {i1, i2, i3}
  Retentions = {week, month}
  Absent = Absent
  Foreign = Foreign
  ReadSecondary = TRUE
  MaxFaults = 2
INVARIANT DeploymentIsApplied
PROPERTIES IndexStays EveryInstanceBoots
CHECK_DEADLOCK FALSE
