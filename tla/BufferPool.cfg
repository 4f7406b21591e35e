CONSTANTS
  Thread = {t1, t2}
  MaxBuf = 4
  Sizes = {1, 2}
  Height = 2
  Onward = FALSE
  Null = Null
  NoPage = NoPage
SPECIFICATION Spec
INVARIANTS TypeOK ListInPool PoolSound OwnPage
CHECK_DEADLOCK FALSE
