SPECIFICATION Spec
CONSTANTS
  Specs <- MCSpecs
  ModelKey <- MCModelKey
  SessionKey <- MCSessionKey
  ModelMax = 6
  UnicodeDigits = 1
  HexDigit <- MCHexDigit
  CharOf <- MCCharOf
  HighSurrogate <- MCHigh
  LowSurrogate <- MCLow
  MultiByteRune <- MCRunes
  AliasKeys = {k1, k2, k3}
  AliasCapacity = 2
  AliasTTL = 2
  Texts <- MCTexts
  LaterTexts <- MCLaterTexts
  ResponseTexts <- MCResponseTexts
  Sessions = {k1, k2, k3, none}
  NoSession = none
  ClassifierModel <- MCClassifierModel
  Chains <- MCChains
  MaxChunk = 2
  MaxAttempts = 2
  MaxRequests = 5
SYMMETRY Symmetry
INVARIANTS
  ScanExact
  PatchesExact
  BodiesSettled
PROPERTY
  AliasStable
