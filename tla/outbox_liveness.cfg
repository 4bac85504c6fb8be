\* Fair workers and clock, one crash: every job ends, and so does every reconciliation;
\* and the reminders of two tasks, with a failure and a restart.
CONSTANTS
  Job = {j1}
  Key <- MCKey
  Worker = {w1, w2}
  Request = {r1}
  NoKey = NoKey
  NoWorker = NoWorker
  NoJob = NoJob
  Priority <- MCPriority
  Pages <- MCPages
  RetryBackoff <- MCRetryBackoff
  Lease = 1
  MaxAttempts = 2
  ContinuationDelay = 1
  MaxChanges = 2
  MaxCrashes = 1
  Tasks = 2
  Category = {"work", "home"}
  NoCategory = "none"
  Calendars = 3
  BatchSizes = {1, 2}
  MaxEdits = 3
  MaxFaults = 1
  Scenes <- LiveScenes
  Parts = {"outbox", "passes", "reminders"}
  Todo = {t1, t2}
  NoInstant = NoInstant
  MaxClock = 2
  MaxSaves = 2
  MaxMisses = 1
  Days <- LiveDays
SPECIFICATION WorkersFairSpec
INVARIANTS MarkedWasPosted RemindedOnce
PROPERTIES JobsSettle PassesEnd DueReminded
CHECK_DEADLOCK FALSE
