SPECIFICATION FairSpec
CONSTANTS
  a1 = a1
  a2 = a2
  b1 = b1
  A = A
  B = B
  top = top
  sub = sub
  Foreign = Foreign
  BadKey = BadKey
  Clients <- ThreeClients
  Processes <- MCProcesses
  ProcessOf <- MCProcessOf
  Keys <- TwoKeys
  Dirs <- MCDirs
  Trail <- MCTrail
  Calls <- FaultCalls
  FailAt <- CleanStages
  TamperKinds <- AllTampering
  MaxCalls = 3
  MaxFailures = 1
  MaxCrashes = 0
  MaxTampers = 1
CHECK_DEADLOCK FALSE
INVARIANTS
  TypeOK
  DamageIsReported
  NoTempsLeft
PROPERTIES
  EveryCallReturns
