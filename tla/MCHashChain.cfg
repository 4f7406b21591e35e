CONSTANTS
  Node = {n1, n2, n3, n4}
  Inum <- MCInum
  INOHSZ = 2
  Null = Null
  Freed = Freed
SPECIFICATION FairSpec
INVARIANTS TypeOK BackPointers
PROPERTIES ImplementsTable SearchEnds
