SPECIFICATION FairSpec
CONSTANTS
  Files = {f1}
  Lines = {l1, l2}
  Threads = {t1, t2}
  MaxVersion = 3
  Paths <- MCPaths
  NoPath = NoPath
  Fingerprints <- MCFingerprints
  Present <- AllButDeleted
  Readable <- OnlyTexts
  FingerprintOf <- MCFingerprintOf
  PathAt <- MCPathAt
  NoRequest = NoRequest
  NoEntry = NoEntry
  NoFingerprint = NoFingerprint
INVARIANTS CurrentEntriesAreTrue
PROPERTIES AnswersFromACurrentText CacheWarmsUp
