CONSTANTS
  Thread = {t1, t2}
  Node = {n1, n2}
  Upi = {u1, u2}
  MaxHard = 2
  MaxRight = 2
  NoThread = NoThread
  NoNode = NoNode
  NoUpi = NoUpi
SPECIFICATION FairSpec
INVARIANTS TypeOK LightAccounting FileinfoValid MappedPagerFound SafeOrRefused
PROPERTY LoopEnds
