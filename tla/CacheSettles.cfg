SPECIFICATION Spec
CONSTANTS
  w1 = w1
  w2 = w2
  r1 = r1
  r2 = r2
  Writers <- OneWriter
  Readers <- TwoReaders
  NKeys = 1
  PageSize = 1
  CacheFaults = {"get", "set", "late"}
  MaxChanges = 1
  MaxFaults = 1
  MaxExpiries = 1
CHECK_DEADLOCK FALSE
INVARIANTS
  IndexIsFresh
  TagIsCurrent
PROPERTY
  SettlesIntoHits
