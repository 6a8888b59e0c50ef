CONSTANTS
  w1 = w1
  a1 = a1
  a2 = a2
  c1 = c1
  c2 = c2
  WIPs = {w1}
  Actors = {a1, a2}
  Artifacts = {c1, c2}
  Crafts = {c1, c2}
  NoWIP = NoWIP
  ContributorFloor = 2
  FragmentFloor = 2
  CompleteFloor = 2
  MaxScore = 1
  AcceptanceFloor = 1
  WIPContributorFloor = 2
  CraftCap = 1
  Percentile = 40
  MaxHarvestAttempts = 2
  PendingTimeout = 1
  MaxFaults = 2
  MaxRestarts = 1
SPECIFICATION Spec
INVARIANT TypeOK
INVARIANT PendingAreComplete
INVARIANT OneCopyPerProcess
INVARIANT AttemptsBounded
INVARIANT ArtifactsConserved
INVARIANT AuditGapBounded
INVARIANT TopCraftsWin
PROPERTY KeepsSlotPromise
PROPERTY SlotsReopen
