CONSTANTS
  Root = Root
  MaxKey = 5
  Trees <- MCTrees
  Lengths = {1, 3}
  PageBlocks = 2
  MaxRoot = 5
SPECIFICATION FairSpec
INVARIANTS TypeOK IndexInBounds
PROPERTIES LookupEnds ImplementsMap
CHECK_DEADLOCK FALSE
