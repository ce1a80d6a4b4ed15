SPECIFICATION Spec
CONSTANTS
  a1 = a1
  a2 = a2
  b1 = b1
  A = A
  B = B
  top = top
  sub = sub
  Foreign = Foreign
  BadKey = BadKey
  Clients <- TwoClients
  Processes <- MCProcesses
  ProcessOf <- MCProcessOf
  Keys <- OneKey
  Dirs <- MCDirs
  Trail <- MCTrail
  Calls <- OneObject
  FailAt <- SecondReplace
  TamperKinds <- NoTampering
  MaxCalls = 3
  MaxFailures = 1
  MaxCrashes = 0
  MaxTampers = 0
CHECK_DEADLOCK FALSE
INVARIANTS
  ReadsAreFromOneWrite
