SPECIFICATION Spec
CONSTANTS
  a1 = a1
  a2 = a2
  b1 = b1
  A = A
  B = B
  top = top
  sub = sub
  Foreign = Foreign
  BadKey = BadKey
  Clients <- TwoClients
  Processes <- MCProcesses
  ProcessOf <- MCProcessOf
  Keys <- TwoKeys
  Dirs <- MCDirs
  Trail <- MCTrail
  Calls <- ListCalls
  FailAt <- SystemCalls
  TamperKinds <- NoTampering
  MaxCalls = 3
  MaxFailures = 1
  MaxCrashes = 1
  MaxTampers = 0
CHECK_DEADLOCK FALSE
INVARIANTS
  SidecarHasBody
PROPERTIES
  Implements
