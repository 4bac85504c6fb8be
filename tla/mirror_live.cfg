\* Two workers that want the lock of one category; nothing has to fail.
CONSTANTS
  Task = {t1, t2}
  List = {A}
  Mapped = {}
  Mirror = {m1, m2}
  Job = {j1, j2}
  Worker = {w1, w2}
  NoTask = NoTask
  NoList = NoList
  NoMirror = NoMirror
  NoJob = NoJob
  NoKey = NoKey
  NoWorker = NoWorker
  Key <- MCKey
  Priority <- MCPriority
  RetryBackoff <- MCRetryBackoff
  Lease = 1
  MaxAttempts = 2
  ContinuationDelay = 0
  MaxChanges = 0
  MaxCrashes = 0
SPECIFICATION FairSpec
PROPERTY RunsEnd
CHECK_DEADLOCK FALSE
