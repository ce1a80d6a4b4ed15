SPECIFICATION Spec
CONSTANTS
  a1 = a1
  a2 = a2
  b1 = b1
  A = A
  B = B
  top = top
  sub = sub
  Foreign = Foreign
  BadKey = BadKey
  Clients <- ThreeClients
  Processes <- MCProcesses
  ProcessOf <- MCProcessOf
  Keys <- TwoKeys
  Dirs <- MCDirs
  Trail <- MCTrail
  Calls <- TwoObjects
  FailAt <- NoStages
  TamperKinds <- NoTampering
  MaxCalls = 4
  MaxFailures = 0
  MaxCrashes = 0
  MaxTampers = 0
CHECK_DEADLOCK FALSE
SYMMETRY ThreadSymmetry
INVARIANTS
  OneWinnerPerVersion
  ReadsAreFromOneWrite
  NoEmptyDirs
