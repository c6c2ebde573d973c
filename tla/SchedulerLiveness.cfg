SPECIFICATION FairSpec
CONSTANTS
  Provider = {"p1", "p2"}
  ProviderOrder <- MCOrder
  Priority = {1}
  Config <- MCOtherEdits
  MaxRevision = 2
  Request = {r1}
  Session = {u1}
  NoSession = NoSession
  Traffic <- MCTypes
  Model = {"m1"}
  RequestType = {"normal", "classifier"}
  Global = Global
  Generation = {"g1"}
  Slot = {s1, s2}
  NoSlot = NoSlot
  Token = {t1}
  NoToken = NoToken
  FailureWindow = 1
  FailureThreshold = 1
  Cooldowns <- MCOneCooldown
  RetryAfterMin = 1
  RetryAfterMax = 1
  MaxInt = 1
  Observation = {1}
  StickyCapacity = 1
  StickyTTL = 1
  Version = {1, 2, 3}
  CursorVersion = {0, 1, 2, 3}
  MaxAttempts = 3
  StickyNoCooldownAttempts = 2
  Outcomes <- MCPending
PROPERTIES RequestsEnd
