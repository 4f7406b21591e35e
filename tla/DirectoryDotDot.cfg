CONSTANTS
  Thread = {t1, t2}
  Dir <- MCDir
  RootDir = "root"
  Parent <- MCParent
  Leaves <- MCLeaves
  Query <- MCQuery
  MaxEntries = 2
  Garbage = 99
SPECIFICATION Spec
INVARIANT ParentFound
