CONSTANTS
  w1 = w1
  w2 = w2
  a1 = a1
  a2 = a2
  WIPs = {w1, w2}
  Actors = {a1, a2}
  NoWIP = NoWIP
  ContributorFloor = 2
  FragmentFloor = 2
  CompleteFloor = 2
  MaxLog = 5
SPECIFICATION Spec
SYMMETRY Symmetry
CHECK_DEADLOCK FALSE
INVARIANT LogTypeOK
INVARIANT LiveIsReplay
INVARIANT ProjectionMatchesLog
INVARIANT PendingAreUndrainedEdges
