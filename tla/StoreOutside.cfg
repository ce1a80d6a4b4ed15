SPECIFICATION Spec
CONSTANTS
  f = f
  g = g
  s1 = s1
  s2 = s2
  a = a
  b = b
  NoFile = NoFile
  Outside = Outside
  Facts <- MCFacts
  Sources <- MCSources
  Clients <- MCClients
  Stamps <- OneStamp
  Calls <- AllCalls
  OutsideObjects <- Intruders
  FaultKinds = {"unavailable"}
  MaxLen = 3
  MaxCalls = 2
  MaxFaults = 1
  MaxEdits = 1
  MaxAttempts = 3
CHECK_DEADLOCK FALSE
SYMMETRY ClientSymmetry
INVARIANTS
  NoLostUpdate
  ConflictIsNews
  RefusedLeavesNoTrace
PROPERTY
  ImplementsAtomicFiles
