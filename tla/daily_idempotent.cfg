CONSTANTS
  User = {u1}
  Day = {d1}
  Worker = {w1, w2}
  NoWorker = NoWorker
  NoDay = NoDay
  NoRecord = NoRecord
  Lease = 1
  MaxAttempts = 2
  RetryBackoff <- MCRetryBackoff
  MaxJobs = 2
  Horizon = 1
  MaxChanges = 2
  MaxErrors = 1
SPECIFICATION Spec
INVARIANT Idempotent
CHECK_DEADLOCK FALSE
