\* Two moves of three rows, the second while the first is being saved.
CONSTANTS
  Parts = {"order"}
  Task = {t1}
  None = None
  Load = {l1}
  Call = {c1}
  Present = {t1}
  MaxEvents = 0
  Rows = 3
  MaxMoves = 2
  RowsAndMoves <- TwoAndThreeRows
SPECIFICATION Spec
INVARIANT OrderPersists
CHECK_DEADLOCK FALSE
