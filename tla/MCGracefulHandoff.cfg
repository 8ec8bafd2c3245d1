SPECIFICATION FairSpec
CONSTANTS
  w1 = w1
  w2 = w2
  Workers <- MCWorkers
  Items = {2, 3}
  Kind <- MCKind
  NoWorker = NoWorker
  LeaseSeconds = {1}
  MaxVersion = 3
  Horizon = 1
INVARIANTS
  DrainedOwnsNothing
  ReturnedTokensFenced
PROPERTIES
  NotRobbed
  HandoffWithoutExpiry
