SPECIFICATION Spec
CONSTANTS
  w1 = w1
  w2 = w2
  Workers <- MCWorkers
  Events = {1, 2}
  NoWorker = NoWorker
  NoLease = NoLease
  LeaseSeconds = {2}
  Backoffs = {1}
  Budgets = {2}
  LockWait = 2
  Horizon = 4
  RunOn = FALSE
SYMMETRY WorkerSymmetry
INVARIANTS
  ExclusiveLease
  LeaseViewSound
PROPERTIES
  NoEarlyBurial
  ImplementsFencedWork
