SPECIFICATION Spec
CONSTANTS
  Provider = {"p1", "p2"}
  ProviderOrder <- MCOrder
  Priority = {1, 2}
  Config <- MCEdits
  MaxRevision = 3
  Request = {r1}
  Session = {u1}
  NoSession = NoSession
  Traffic <- MCSessions
  Model = {"m1"}
  RequestType = {"normal"}
  Global = Global
  Generation = {"g1", "g2"}
  Slot = {s1, s2}
  NoSlot = NoSlot
  Token = {t1}
  NoToken = NoToken
  FailureWindow = 1
  FailureThreshold = 1
  Cooldowns <- MCOneCooldown
  RetryAfterMin = 1
  RetryAfterMax = 1
  MaxInt = 1
  Observation = {}
  StickyCapacity = 1
  StickyTTL = 1
  Version = {1, 2, 3}
  CursorVersion = {0, 1, 2, 3}
  MaxAttempts = 2
  StickyNoCooldownAttempts = 1
  Outcomes <- MCGlobal
INVARIANTS MemoryCurrent LeasesHeldByAttempts
PROPERTIES DisabledPeriodForgets
SYMMETRY Symmetry
