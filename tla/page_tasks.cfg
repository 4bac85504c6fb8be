\* Two tasks of which one is still to be created, two requests of each kind;
\* two rows that are moved three times, three that are moved twice.
CONSTANTS
  Parts = {"store", "order"}
  Task = {t1, t2}
  None = None
  Load = {l1, l2}
  Call = {c1, c2}
  Present = {t1}
  MaxEvents = 2
  Rows = 3
  MaxMoves = 3
  RowsAndMoves <- TwoAndThreeRows
SPECIFICATION FairSpec
INVARIANTS StoreTypeOK EchoShown OrderTypeOK OrderReachesServer NothingStranded
PROPERTIES ConfirmedNotReverted StoreSettles SavesEnd
CHECK_DEADLOCK FALSE
