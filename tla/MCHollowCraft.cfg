CONSTANTS
  resident = resident
  stranger = stranger
  Agents = {resident}
  Strangers = {stranger}
  Role <- Artisans
  BaseCost <- Costs
  BalContribute = 11
  MaxEnergy = 11
  Regen = 4
  RestLimit = 1
  Modes = {"1", "flat", "throttle", "adv", "bal"}
SPECIFICATION AuditSpec
INVARIANT NoHollowCraft
