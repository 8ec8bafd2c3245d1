SPECIFICATION FairDispatchSpec
CONSTANTS
  d1 = d1
  d2 = d2
  k1 = k1
  k2 = k2
  r1 = r1
  r2 = r2
  Workers <- MCWorkers
  Keys <- MCKeys
  ResultIds <- MCResultIds
  NoWorker = NoWorker
  NoLease = NoLease
  NoResult = NoResult
  Raised = Raised
  Unknown = Unknown
  LeaseSeconds = {1}
  Backoffs = {0}
  Budgets = {2}
  LockWait = 0
  Horizon = 0
  RunOn = TRUE
INVARIANTS
  ResultIffDispatched
PROPERTIES
  EventuallyAnswered
  ImplementsOutbox
