CONSTANTS
  NoDir = NoDir
  Partial = Partial
  InsideData = TRUE
  Sizes = {1, 5}
  RetentionCount = 2
  RetentionBytes = 4
  MaxFailures = 2
  MaxWrites = 2
  MaxAttempts = 1
  MaxRestores = 1
  MaxFaults = 2
  MaxKills = 1
SPECIFICATION Spec
CHECK_DEADLOCK FALSE
PROPERTY NeverWithoutDataDir
