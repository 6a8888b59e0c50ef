CONSTANTS
  w1 = w1
  w2 = w2
  a1 = a1
  a2 = a2
  a3 = a3
  WIPs = {w1, w2}
  Actors = {a1, a2, a3}
  WIPOrder <- TwoWIPs
  ContributorFloor = 2
  FragmentFloor = 2
  CompleteFloor = 3
  MaxLog = 5
  MaxFaults = 2
  MaxKills = 2
SPECIFICATION Spec
SYMMETRY AgentSymmetry
CHECK_DEADLOCK FALSE
INVARIANT SceneTypeOK
INVARIANT EventContract
INVARIANT NoBlackHole
INVARIANT NobodyAnswersThemself
INVARIANT OrphansAreExplained
