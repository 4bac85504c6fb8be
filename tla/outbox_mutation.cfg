CONSTANTS
  Job = {j1, j2}
  Key <- MCKey
  Worker = {w1}
  Request = {r1}
  NoKey = NoKey
  NoWorker = NoWorker
  NoJob = NoJob
  Priority <- MCPriority
  Pages <- MCPages
  RetryBackoff <- MCRetryBackoff
  Lease = 2
  MaxAttempts = 2
  ContinuationDelay = 1
  MaxChanges = 2
  MaxCrashes = 0
SPECIFICATION Spec

INVARIANT MutationHasJob
CHECK_DEADLOCK FALSE
