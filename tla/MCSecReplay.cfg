SPECIFICATION Spec
CONSTANTS
  p1 = p1
  p2 = p2
  Procs <- MCProcs
  NoId = NoId
  ScalarRoles = {"wacc", "growth"}
  Scenarios <- ReplayScenarios
  Requests <- MCRequests
  MaxNow = 2
CHECK_DEADLOCK FALSE
INVARIANT
  ReplayIsIdempotent
