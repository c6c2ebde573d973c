SPECIFICATION Spec
CONSTANTS
  Provider = {"p1", "p2"}
  ProviderOrder <- MCOrder
  Priority = {1, 2}
  Config <- MCRouting
  MaxRevision = 1
  Request = {r1, r2}
  Session = {u1, u2}
  NoSession = NoSession
  Traffic <- MCSessions
  Model = {"m1"}
  RequestType = {"normal"}
  Global = Global
  Generation = {"g1"}
  Slot = {s1}
  NoSlot = NoSlot
  Token = {t1, t2}
  NoToken = NoToken
  FailureWindow = 1
  FailureThreshold = 1
  Cooldowns <- MCOneCooldown
  RetryAfterMin = 1
  RetryAfterMax = 1
  MaxInt = 1
  Observation = {}
  StickyCapacity = 1
  StickyTTL = 1
  Version = {1, 2, 3}
  CursorVersion = {0, 1, 2}
  MaxAttempts = 2
  StickyNoCooldownAttempts = 1
  Outcomes <- MCGlobal
INVARIANTS TypeOK AffinityIndexed StickyNeverCooling
PROPERTIES LateFallbackYields TiersRespected
SYMMETRY Symmetry
