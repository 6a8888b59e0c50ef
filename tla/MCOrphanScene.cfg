CONSTANTS
  w1 = w1
  w2 = w2
  a1 = a1
  a2 = a2
  WIPs = {w1, w2}
  Actors = {a1, a2}
  WIPOrder <- TwoWIPs
  ContributorFloor = 2
  FragmentFloor = 2
  CompleteFloor = 3
  MaxLog = 4
  MaxFaults = 0
  MaxKills = 1
SPECIFICATION Spec
CHECK_DEADLOCK FALSE
INVARIANT NoOrphanScene
