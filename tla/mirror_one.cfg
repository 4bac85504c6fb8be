\* One worker, one task, two categories of which one has no calendar yet; one crash.
CONSTANTS
  Task = {t1}
  List = {A, B}
  Mapped = {A}
  Mirror = {m1}
  Job = {j1, j2, j3}
  Worker = {w1}
  NoTask = NoTask
  NoList = NoList
  NoMirror = NoMirror
  NoJob = NoJob
  NoKey = NoKey
  NoWorker = NoWorker
  Key <- MCKey
  Priority <- MCPriority
  RetryBackoff <- MCRetryBackoff
  Lease = 1
  MaxAttempts = 2
  ContinuationDelay = 0
  MaxChanges = 3
  MaxCrashes = 1
SPECIFICATION Spec
SYMMETRY Symmetry
INVARIANTS TypeOK EventsTracked NeverDark Converged
CHECK_DEADLOCK FALSE
