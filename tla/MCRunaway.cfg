CONSTANTS
  r1 = r1
  r2 = r2
  Residents = {r1, r2}
  Strangers = {}
  EngageEvery = 2
  GateLookback = 3
  PeerLookback = 3
  RefreshEvents = 2
  RunawayMax = 2
  WatchWindow = 4
  MaxStrangers = 0
  MaxLog = 4
SPECIFICATION Spec
INVARIANT RunawayBlamesAgents
