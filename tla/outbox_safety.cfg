\* Two workers and two concurrent requests: the lease, the retry budget, the
\* idempotency key and the durability of changes; and the batches of a reconciliation.
CONSTANTS
  Job = {j1, j2}
  Key <- MCKey
  Worker = {w1, w2}
  Request = {r1, r2}
  NoKey = NoKey
  NoWorker = NoWorker
  NoJob = NoJob
  Priority <- MCPriority
  Pages <- MCPages
  RetryBackoff <- MCRetryBackoff
  Lease = 2
  MaxAttempts = 2
  ContinuationDelay = 1
  MaxChanges = 2
  MaxCrashes = 1
  Tasks = 2
  Category = {"work", "home"}
  NoCategory = "none"
  Calendars = 3
  BatchSizes = {1, 2}
  MaxEdits = 3
  MaxFaults = 1
  Scenes <- WideScenes
  Parts = {"outbox", "passes"}
SPECIFICATION ReconcileSpec
SYMMETRY Symmetry
INVARIANTS ExclusiveRun OneOpenRow RetryBudget ChangesCarried
INVARIANTS BatchTypeOK Repaired
PROPERTIES FinalStays WantedRestored
CHECK_DEADLOCK FALSE
