SPECIFICATION Spec
CONSTANTS
  w1 = w1
  w2 = w2
  Workers <- TwoWorkers
  Scopes <- MCScopes
  Identities <- MCIdentities
  WriteRoles <- MCWriteRoles
  Requests <- MCRequests
  Hosts <- MCHosts
  StoreIds = {1, 2, 3}
  NDirs = 2
  Scenario <- MCScenario
  Operators = {"unchecked", "known"}
SYMMETRY WorkerSymmetry
CHECK_DEADLOCK FALSE
INVARIANTS
  TypeOK
  CallsStayInGrants
  AnswersAreRecorded
  TraceTellsWhatHappened
  DumpAccountsForTrace
  ReportIsCurrent
