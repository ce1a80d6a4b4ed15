SPECIFICATION Spec
CONSTANTS
  c1 = c1
  c2 = c2
  Creators <- TwoCreators
  NKeys = 6
  NEntities = 2
  EntityOf <- MCEntityOf
  AreaOf <- MCAreaOf
  System <- MCSystem
  Malformed <- MCMalformed
  Corrupt <- MCCorrupt
  TierOf <- MCTierOf
  Updated <- MCUpdated
  EntryBytes <- MCEntryBytes
  IndexBytes = 3
  PageSize = 2
  FileLimit = 1
  MaxPasses = 2
  GetAttempts = 2
  NewFiles <- MCNewFiles
  Scans <- MCScans
  MaxCalls = 3
  MaxFaults = 1
CHECK_DEADLOCK FALSE
INVARIANTS
  TypeOK
  ListedOnce
  FromOneWrite
  IndexAccountsForAll
  PurgeErases
  IncompleteNeedsWriters
  CapHolds
  QuotaIsHonest
PROPERTIES
  CallsEnd
