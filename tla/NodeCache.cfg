CONSTANTS
  Thread = {t1, t2}
  Node = {n1, n2}
  Inum = {1, 2}
  BadInum = {2}
  MaxKeep = 1
  CatchMayFail = TRUE
  NoThread = NoThread
  NoNode = NoNode
  NoInum = NoInum
SPECIFICATION FairSpec
INVARIANTS TypeOK RefAccounting NoUseAfterFree
PROPERTIES ImplementsTable CountSettles SpinReleased
CHECK_DEADLOCK FALSE
