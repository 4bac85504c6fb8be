\* The shortest history: one worker, one task, one category, one change.
CONSTANTS
  Task = {t1}
  List = {A}
  Mapped = {A}
  Mirror = {m1}
  Job = {j1, j2, j3}
  Worker = {w1}
  NoTask = NoTask
  NoList = NoList
  NoMirror = NoMirror
  NoJob = NoJob
  NoKey = NoKey
  NoWorker = NoWorker
  Key <- MCKey
  Priority <- MCPriority
  RetryBackoff <- MCRetryBackoff
  Lease = 1
  MaxAttempts = 2
  ContinuationDelay = 0
  MaxChanges = 1
  MaxCrashes = 0
SPECIFICATION Spec
INVARIANT CompletedHidden
CHECK_DEADLOCK FALSE
