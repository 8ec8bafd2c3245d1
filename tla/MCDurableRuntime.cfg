SPECIFICATION LiveSpec
CONSTANTS
  c1 = c1
  d1 = d1
  d2 = d2
  None = None
  Claims <- MCClaims
  Dispatchers = {d1, d2}
  Inputs <- AllInputs
  InitialGraphs <- LiveGraphs
  MaxEmits = 2
  MaxLog = 7
  MaxFaults = 2
INVARIANTS
  CommitIsWhole
  GraphIsItsHistory
  EffectivelyOnce
PROPERTIES
  NeverCommittedStale
  NoEventBlocks
  EveryDispatchDelivered
