CONSTANTS
  a1 = a1
  a2 = a2
  s1 = s1
  Agents = {a1, a2}
  Strangers = {s1}
  NoAgent = NoAgent
  MaxTicks = 6
  MaxConsecutiveFail = 2
  MaxBreaks = 2
  FlushEvery = 4
  Throttle = 2
  WatchdogEvery = 2
  ScenesOn = TRUE
  SceneMinPeers = 1
SPECIFICATION Spec
CHECK_DEADLOCK FALSE
INVARIANT OutageEndsRun
