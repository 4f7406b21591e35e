CONSTANTS
  Thread = {t1, t2}
  Node = {n1}
  Inum = {1}
  BadInum = {}
  MaxKeep = 0
  CatchMayFail = FALSE
  NoThread = NoThread
  NoNode = NoNode
  NoInum = NoInum
SPECIFICATION Spec
INVARIANT ModeKnown
CHECK_DEADLOCK FALSE
