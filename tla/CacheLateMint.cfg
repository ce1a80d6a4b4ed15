SPECIFICATION Spec
CONSTANTS
  w1 = w1
  w2 = w2
  r1 = r1
  r2 = r2
  Writers <- OneWriter
  Readers <- TwoReaders
  NKeys = 1
  PageSize = 1
  CacheFaults = {"lateMint"}
  MaxChanges = 1
  MaxFaults = 1
  MaxExpiries = 0
CHECK_DEADLOCK FALSE
SYMMETRY ReaderSymmetry
INVARIANT
  TagIsCurrent
