CONSTANTS
  r1 = r1
  r2 = r2
  s1 = s1
  Residents = {r1, r2}
  Strangers = {s1}
  EngageEvery = 2
  GateLookback = 3
  PeerLookback = 3
  RefreshEvents = 2
  RunawayMax = 2
  WatchWindow = 3
  MaxStrangers = 1
  MaxLog = 4
SPECIFICATION Spec
SYMMETRY Symmetry
INVARIANT VillageTypeOK
INVARIANT HeardExactlyOnce
INVARIANT LedgerFresh
INVARIANT NobodyGoesSilent
