CONSTANTS
  NoDir = NoDir
  Partial = Partial
  InsideData = TRUE
  Sizes = {1, 5}
  RetentionCount = 2
  RetentionBytes = 4
  MaxFailures = 2
  MaxWrites = 2
  MaxAttempts = 4
  MaxRestores = 2
  MaxFaults = 3
  MaxKills = 2
SPECIFICATION Spec
CHECK_DEADLOCK FALSE
INVARIANT SnapshotTypeOK
INVARIANT DiskBounded
PROPERTY PruneKeepsNewest
INVARIANT RestoreIsAtomic
INVARIANT BackupHoldsContents
PROPERTY KeepsVaultPromise
