SPECIFICATION FairSpec
CONSTANTS
  Provider = {"p1"}
  Model = {"m1"}
  RequestType = {"normal"}
  Global = Global
  Generation = {g1}
  Catalog <- MCCatalogModels
  Slot = {s1}
  NoSlot = NoSlot
  Token = {t1, t2}
  NoToken = NoToken
  FailureWindow = 2
  FailureThreshold = 2
  Cooldowns <- MCCooldowns
  RetryAfterMin = 1
  RetryAfterMax = 2
  MaxInt = 3
  Outcomes <- MCOutcomes
  Observation = {}
INVARIANTS TypeOK ProbeOwned BreakerConsistent
PROPERTIES BackoffEscalatesByProbe BreakersRecover
