SPECIFICATION LiveSpec
CONSTANTS
  c1 = c1
  m1 = m1
  m2 = m2
  None = None
  Claims <- MCClaims
  Emitters = {m1, m2}
  Inputs <- MCInputs
  InitialGraphs <- MCGraphs
  MaxDepth = 3
  CycleLimit = 2
  MaxEmits = 3
  MaxFaults = 1
INVARIANTS
  PropagationBounded
  NothingVanishes
PROPERTY
  ChainsEnd
