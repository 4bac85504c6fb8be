\* Two workers, two tasks of one category that has no calendar yet.
CONSTANTS
  Task = {t1, t2}
  List = {A}
  Mapped = {}
  Mirror = {m1, m2}
  Job = {j1, j2, j3, j4}
  Worker = {w1, w2}
  NoTask = NoTask
  NoList = NoList
  NoMirror = NoMirror
  NoJob = NoJob
  NoKey = NoKey
  NoWorker = NoWorker
  Key <- MCKey
  Priority <- MCPriority
  RetryBackoff <- MCRetryBackoff
  Lease = 1
  MaxAttempts = 1
  ContinuationDelay = 0
  MaxChanges = 1
  MaxCrashes = 0
SPECIFICATION Spec
SYMMETRY Symmetry
INVARIANT Converged
PROPERTY WantedStays
CHECK_DEADLOCK FALSE
