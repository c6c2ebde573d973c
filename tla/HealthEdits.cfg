SPECIFICATION Spec
CONSTANTS
  Provider = {"p1"}
  Model = {"m1"}
  RequestType = {"normal"}
  Global = Global
  Generation = {"g1", "g2"}
  Catalog <- MCCatalogEdits
  Slot = {s1, s2, s3}
  NoSlot = NoSlot
  Token = {t1, t2}
  NoToken = NoToken
  FailureWindow = 1
  FailureThreshold = 1
  Cooldowns <- MCOneCooldown
  RetryAfterMin = 1
  RetryAfterMax = 2
  MaxInt = 1
  Outcomes <- MCEditOutcomes
  Observation = {1}
CONSTRAINT FewForms
INVARIANTS LeaseAccounting PendingErrorHasReader
PROPERTIES LateResultsIsolated CooldownKept
SYMMETRY Symmetry
