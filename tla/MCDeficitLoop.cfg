SPECIFICATION Spec
CONSTANTS
  c1 = c1
  d1 = d1
  d2 = d2
  None = None
  Claims <- MCClaims
  Dispatchers = {d1}
  Inputs <- MCInputs
  InitialGraphs <- LoopGraphs
  MaxEmits = 1
  MaxLog = 4
  MaxFaults = 0
INVARIANT
  RegistersOnce
