\* Two workers and one digest; the clock reaches a second lease.
CONSTANTS
  User = {u1}
  Day = {d1}
  Worker = {w1, w2}
  NoWorker = NoWorker
  NoDay = NoDay
  NoRecord = NoRecord
  Lease = 2
  MaxAttempts = 2
  RetryBackoff <- MCRetryBackoff
  MaxJobs = 2
  Horizon = 2
  MaxChanges = 2
  MaxErrors = 2
SPECIFICATION FairSpec
INVARIANTS OneDigest RetryBudget
PROPERTIES LedgerKept ClosedQuiet DigestsSettle
CHECK_DEADLOCK FALSE
