CONSTANTS
  resident = resident
  stranger = stranger
  Agents = {resident}
  Strangers = {stranger}
  Role <- RoleOf
  BaseCost <- Costs
  BalContribute = 11
  MaxEnergy = 11
  Regen = 4
  RestLimit = 1
  Modes = {"flat", "bal"}
SPECIFICATION AuditSpec
INVARIANT EconTypeOK
INVARIANT SpecialtySustained
INVARIANT RestartAddsLittle
INVARIANT OnlyGateOverspends
INVARIANT SubstitutionCredited
INVARIANT AuditNeverGenerous
