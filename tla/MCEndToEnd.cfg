SPECIFICATION FairE2ESpec
CONSTANTS
  w1 = w1
  w2 = w2
  d1 = d1
  d2 = d2
  Workers <- MCWorkers
  Dispatchers <- MCDispatchers
  Events = {1}
  Keys = {1}
  KeyOf <- MCKeyOf
  NoWorker = NoWorker
  NoLease = NoLease
  LeaseSeconds = {1}
  Backoffs = {1}
  Budgets = {2}
  LockWait = 1
  Horizon = 2
  RunOn = TRUE
INVARIANTS
  AtomicHandoff
  BoundedDelivery
PROPERTIES
  OutboxImplementsFencedWork
  EventuallyResolved
  DispatchContinuity
