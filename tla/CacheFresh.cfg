SPECIFICATION Spec
CONSTANTS
  w1 = w1
  w2 = w2
  r1 = r1
  r2 = r2
  Writers <- TwoWriters
  Readers <- OneReader
  NKeys = 2
  PageSize = 1
  CacheFaults = {"get", "set", "late"}
  MaxChanges = 2
  MaxFaults = 1
  MaxExpiries = 1
CHECK_DEADLOCK FALSE
SYMMETRY WriterSymmetry
INVARIANTS
  TypeOK
  IndexIsFresh
  TagIsCurrent
