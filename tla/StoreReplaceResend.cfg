SPECIFICATION Spec
CONSTANTS
  f = f
  g = g
  s1 = s1
  s2 = s2
  a = a
  b = b
  NoFile = NoFile
  Outside = Outside
  Facts <- MCFacts
  Sources <- MCSources
  Clients <- MCClients
  Stamps <- OneStamp
  Calls <- ReplaceCalls
  OutsideObjects <- NoIntruders
  FaultKinds = {"resend"}
  MaxLen = 3
  MaxCalls = 2
  MaxFaults = 1
  MaxEdits = 0
  MaxAttempts = 3
CHECK_DEADLOCK FALSE
INVARIANT
  ReplaceLandsOnce
